SPECIFICATION KitSpec
CONSTANTS
  KitCalls = {p}
  KitBacklog = 1
  GivesUp = FALSE
  NoCall = NoCall
INVARIANT DismissedIsOver
CHECK_DEADLOCK FALSE
