SPECIFICATION NodeFairSpec
CONSTANTS
  Goals = {g1, g2}
  Nobody = Nobody
  Client = "sequential"
  AbortService = TRUE
  MaxTransitions = 6
INVARIANTS
  OwnResultUnlessCutShort
PROPERTIES
  CancelEnds
  NeverLockedOut
CHECK_DEADLOCK FALSE
