CONSTANTS
    a = a
    b = b
    spot1 = spot1
    spot2 = spot2
    Goals <- MCGoals
    Classes = {a, b}
    Spots = {spot1, spot2}
    LiftSteps = 1
    ApproachSteps = 1
    LockHits = 2
    ReacquireHits = 2
    VisionRetries = 2
    MaxMisses = 2
    Horizon = 4
    VisionTasks <- MCVisionTasks
    Ports <- MCPorts
    Detections <- MCDetections
    MaxSeen = 2
    Shifts = {0, 2}
    Slips = {0, 8}
    Rails = {0, 1}
    PortIndices = {0, 1}
    SyncMax = 0
    ReprojectionMax = 4
    TrackReprojectionMax = 16
    JumpMax = 8
    Workspace <- MCWorkspace
    Streams = {"left"}
    FrameTasks <- MCFrameTasks
    FixedCables = {"", "plug"}
    MaxTasks = 2
    MaxReceived = 2
    MaxRestarts = 1
SYMMETRY Symmetry
SPECIFICATION MCSpec
CHECK_DEADLOCK FALSE
INVARIANTS OwnPort FreshLicence StoppedEvidence EveryCameraAgrees SnapshotIsOfOneTrial
