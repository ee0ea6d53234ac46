SPECIFICATION SceneSpec
CONSTANTS
  NRounds = 4
  MaxSlow = 2
INVARIANTS
  OneHold
  ResetUnderControl
  FirstContactsSeen
CHECK_DEADLOCK FALSE
