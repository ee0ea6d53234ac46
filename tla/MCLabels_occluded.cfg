CONSTANTS
  t1 = t1
  t2 = t2
  whole = whole
  i1 = i1
  i2 = i2
  i3 = i3
  Tabs = {t1, t2}
  Rows <- OneCapture
  Captures <- OneMore
  malformed = malformed
  flat = flat
  Labels <- LabelFiles
  Malformed = {malformed}
  Flat = {flat}
  Paths <- OpenedPaths
  MaxChanges = 2
  MaxMishaps = 1
  Starts <- MCStarts
  Samples <- MCSamples
  Slips <- MCSlips
  SfpOffset <- MCSfpOffset
  ToolTcp <- MCToolTcp
  Optical <- MCOptical
  TrialTolerance = 0
  PoseCaptures = 2
  ArgSets <- MCArgSets
  SfpRails = 3
  ScRails = 2
  PortCount = 2
  ScSlots = 5
  Translations = {0, 1}
  RailEnd = 1
  MinClearance = 1
  DescentMin = 20
  XyLimit = 50
  Infinite = 99
  MaxFrames = 2
  MaxSkew = 1
  LastStamp = 3
CHECK_DEADLOCK FALSE
SYMMETRY EditorSymmetry
SPECIFICATION MCSpec
INVARIANT OccludedAreKept
