SPECIFICATION Spec
CONSTANTS
  MaxCalls = 2
  Ids = {1, 2}
  CbThreads = {t1}
  Methods = {"invite", "accept", "reject", "bye", "switch", "conf", "upgrade"}
  MaxBacklog = 1
  Awaiters = {0}
  FastPeer = FALSE
INVARIANT TypeOK
INVARIANT TableSound
INVARIANT EventIds
CHECK_DEADLOCK FALSE
