SPECIFICATION Spec
CONSTANTS
    Cells <- MCCells
    Budget = 4
    Sizes = {"small", "large"}
    InitialSize = "large"
    FrameHistory = 2
    TimingHistory = 1
    Recorders = {}
    Wants <- MCWants
    Scripts <- MCResizedScripts
    IoctlMayFail = TRUE
    MaxInFlight = 1
    MaxWaits = 0
    MaxResizes = 1
INVARIANTS
    CacheIsCurrent
CHECK_DEADLOCK FALSE
