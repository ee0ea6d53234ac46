SPECIFICATION FairSpec
CONSTANTS
  NTrials = 2
  NTasks = 2
  MaxRetries = 3
  MaxSlow = 1
INVARIANTS
  OwnScene
  ScoresOwnBag
  EndsFinalized
PROPERTIES
  ImplementsRun
  EngineEnds
CHECK_DEADLOCK FALSE
