SPECIFICATION Spec
CONSTANTS
  MaxCalls = 2
  Ids = {1, 2}
  CbThreads = {t1}
  Methods = {"switch"}
  MaxBacklog = 1
  Awaiters = {0}
  FastPeer = FALSE
INVARIANT SwitchedLive
CHECK_DEADLOCK FALSE
