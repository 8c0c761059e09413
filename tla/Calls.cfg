SPECIFICATION SafeSystem
CONSTANTS
  MaxCalls = 2
  Ids = {1, 2}
  CbThreads = {t1}
  Methods = {"invite", "accept", "reject", "bye", "switch", "conf", "upgrade"}
  MaxBacklog = 1
  Awaiters = {0, 1, 2}
  FastPeer = FALSE
INVARIANT SystemTypeOK
INVARIANT FocusValid
INVARIANT StartsOnce
