SPECIFICATION AccSpec
CONSTANTS
  Uris = {u1}
  MaxAccs = 3
  MaxAccIds = 3
  AccBacklog = 1
  AccOverlap = FALSE
  AnswerInEdit = FALSE
  EmptyRestored = FALSE
  Restarts = {"activity"}
INVARIANT IntentRaised
CHECK_DEADLOCK FALSE
