SPECIFICATION SafeSystem
CONSTANTS
  MaxCalls = 2
  Ids = {1, 2}
  CbThreads = {t1, t2}
  Methods = {"invite", "accept", "bye"}
  MaxBacklog = 2
  Awaiters = {0, 1, 2}
  FastPeer = FALSE
SYMMETRY ThreadSymmetry
INVARIANT NoGhost
INVARIANT NoLostCall
INVARIANT StateAgrees
INVARIANT EventOrder
PROPERTY NeverBack
