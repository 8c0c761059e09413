SPECIFICATION System1
CONSTANTS
  MaxCalls = 2
  Ids = {1, 2}
  CbThreads = {t1}
  Methods = {"invite", "bye"}
  MaxBacklog = 2
  Awaiters = {0, 1, 2}
  FastPeer = FALSE
PROPERTY ImplementsCallView
PROPERTY HungUpLeavesList
