SPECIFICATION MCSpec
CONSTANTS
  NWorkers = 2
  NTrials = 3
  NSamples = 1
  Earlier = 0
  PushToHub = TRUE
  MaxQueue = 1
  MaxMishaps = 2
  ReportTrials = 2
  ReportSamples = 2
  TestPercent = 50
  ValPercent = 20
  Tiers = {3, 5}
  Extents = {3, 6}
  Predictions <- MCPredictions
  Insertions <- MCInsertions
INVARIANTS ExitTellsTruth NeverOvercounts ReportAddsUp
