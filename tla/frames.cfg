SPECIFICATION Spec
CONSTANTS
    Cells <- MCCells
    Budget = 4
    Sizes = {"small", "large"}
    InitialSize = "large"
    FrameHistory = 2
    TimingHistory = 1
    Recorders = {}
    Wants <- MCWants
    Scripts <- MCScripts
    IoctlMayFail = FALSE
    MaxInFlight = 3
    MaxWaits = 2
    MaxResizes = 1
INVARIANTS
    TypeOK
    RingsHoldTheNewest
    FramesAreUpdates
    ReturnedInOrder
    OldGridNotReturned
    NewGridNotSkipped
    CacheIsCurrent
PROPERTIES
    OldestFirst
    EofMeansNothingOwed
    FrozenAfterPanic
    ImplementsFrameStream
CHECK_DEADLOCK FALSE
ACTION_CONSTRAINT LockHolderFirst
VIEW View
