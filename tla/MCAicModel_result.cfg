SPECIFICATION NodeSpec
CONSTANTS
  Goals = {g1, g2}
  Nobody = Nobody
  Client = "sequential"
  AbortService = FALSE
  MaxTransitions = 2
SYMMETRY GoalSymmetry
INVARIANT ResultIsOwn
CHECK_DEADLOCK FALSE
