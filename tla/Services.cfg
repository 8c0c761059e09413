SPECIFICATION ServicesSpec
CONSTANTS
  NotifCalls = {c1, c2}
  NotifBacklog = 1
  SyncCrosses = FALSE
  StaleIntent = FALSE
  Uris = {u1, u2}
  MaxAccs = 2
  MaxAccIds = 2
  AccBacklog = 1
  AccOverlap = FALSE
  AnswerInEdit = FALSE
  EmptyRestored = FALSE
  Restarts = {"process"}
  SubAccs = {1, 2}
  MaxSubs = 2
  SubBacklog = 1
  AccountGone = FALSE
  Fixed = {1, 3}
  Pluggable = {2}
  MaxLoads = 2
  CdrCalls = {c1, c2, c3}
  CdrSlots = {1, 2}
  MaxCdrs = 2
  SlotsReused = FALSE
  LiveRemoved = FALSE
INVARIANTS
  ServicesTypeOK
  AccountsShown SelectedExists SavedTrue
  SubsShown DevicesListed DevicesShown CdrsTrue
  ServiceTrue NoGhostRestored CallForegroundEnds
PROPERTIES
  AppForegroundKept
\* Users and peers may stop.
CHECK_DEADLOCK FALSE
