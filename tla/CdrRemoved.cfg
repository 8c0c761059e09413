SPECIFICATION CdrSpec
CONSTANTS
  CdrCalls = {c1, c2, c3}
  CdrSlots = {1, 2}
  MaxCdrs = 2
  SlotsReused = FALSE
  LiveRemoved = TRUE
INVARIANT CdrsTrue
CHECK_DEADLOCK FALSE
