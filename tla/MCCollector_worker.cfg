SPECIFICATION FairSpec
CONSTANTS
  NTrials = 1
  RecordRosbag = TRUE
  MaxSigint = 2
  KillMayFail = TRUE
  LaunchMayFail = TRUE
  PgidReuse = TRUE
INVARIANTS
  Named
  CleanExit
  TeardownOrder
  StaleSparesStrangers
PROPERTIES
  WorkerEnds
CHECK_DEADLOCK FALSE
