SPECIFICATION PartsSpec
CONSTANTS
  MaxSent = 3
  MaxReceived = 1
  MaxItems = 2
  InOrder = TRUE
  FastPeer = FALSE
  Overlap = FALSE
  HoldBacklog = 0
  MixCalls = {a, b}
  Nobody = Nobody
  MaxPlayers = 2
  MaxRecorders = 2
  KitCalls = {p, q}
  KitBacklog = 1
  GivesUp = FALSE
  NoCall = NoCall
INVARIANTS
  PartsTypeOK
  OwnStatus NoneSkipped
  FlagsShown HoldingEnds RemoteTrue
  PlayingShown
  BothMatched
PROPERTIES
  StatusArrives
  MuteLasts  
  DeclineStands QueuedRuns EndLeavesKit
\* Users and peers may stop.
CHECK_DEADLOCK FALSE
