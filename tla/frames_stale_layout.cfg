SPECIFICATION Spec
CONSTANTS
    Cells <- MCCells
    Budget = 4
    Sizes = {"small", "large"}
    InitialSize = "large"
    FrameHistory = 2
    TimingHistory = 1
    Recorders = {}
    Wants <- MCWants
    Scripts <- MCResizedScripts
    IoctlMayFail = FALSE
    MaxInFlight = 3
    MaxWaits = 1
    MaxResizes = 1
PROPERTIES
    StaleLayoutNotReturned
CHECK_DEADLOCK FALSE
