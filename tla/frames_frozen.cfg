SPECIFICATION Spec
CONSTANTS
    Cells <- MCCells
    Budget = 4
    Sizes = {"small", "large"}
    InitialSize = "large"
    FrameHistory = 2
    TimingHistory = 1
    Recorders = {}
    Wants <- MCWants
    Scripts <- MCPanicScripts
    IoctlMayFail = FALSE
    MaxInFlight = 1
    MaxWaits = 0
    MaxResizes = 0
PROPERTIES
    FrozenIsTheLastGrid
CHECK_DEADLOCK FALSE
