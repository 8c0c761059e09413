SPECIFICATION MediaSpec
CONSTANTS
  MaxPlayers = 1
  MaxRecorders = 1
PROPERTY StopSilences
CHECK_DEADLOCK FALSE
