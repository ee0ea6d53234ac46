SPECIFICATION FairSpec
CONSTANTS
  w1 = w1
  w2 = w2
  t1 = t1
  t2 = t2
  Workers = {w1, w2}
  Trials = {t1, t2}
  left = left
  right = right
  CameraOrder <- TwoCameras
  Queue <- TwoWorkers
  Dir <- OwnDir
  Steps = 1
  MaxAttempts = 2
  DiskMayFail = TRUE
  Infos <- CameraInfos
  ImageWidth = 4
  ImageHeight = 2
  Tolerance = 1
  Nobody = Nobody
INVARIANTS
  Referenced
  OkIsComplete
PROPERTIES
  ImplementsLog
  AllTrialsEnd
CHECK_DEADLOCK FALSE
