SPECIFICATION FairSpec
CONSTANTS
    Cells <- MCCells
    Budget = 2
    Sizes = {"small", "large"}
    InitialSize = "small"
    FrameHistory = 2
    TimingHistory = 1
    Recorders = {"r1"}
    Wants <- MCLateWant
    Scripts <- MCRecordedScripts
    IoctlMayFail = TRUE
    MaxInFlight = 1
    MaxWaits = 1
    MaxResizes = 1
INVARIANTS
    RecordingsAccount
PROPERTIES
    WaitsEnd
    OutputIsDrained
\* A test that makes no further call and an application that writes no more is an end.
CHECK_DEADLOCK FALSE
