SPECIFICATION MCSpec
CONSTANTS
  Targets = {a}
  Settings <- MCSettings
  CollectSteps = 1
  MaxAttempts = 2
  StableObs = 1
  BaselineObs = 1
  HoldTicks = 1
  Tolerance = 1
  MinClearance = 1
  Horizon = 5
  Spoilt = 1
INVARIANTS NoReplay SwitchHolds CapturedAtRest
PROPERTIES NoPressOn Terminates
CHECK_DEADLOCK FALSE
