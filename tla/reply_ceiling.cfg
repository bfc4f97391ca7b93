SPECIFICATION Spec
CONSTANTS
    Ceiling = 3
    Capacity = 2
    Batches <- MCOneBatch
    InputSizes = {2}
    MaxReads = 2
    MaxInputs = 1
INVARIANTS
    ReplyBytesWithinCeiling
CHECK_DEADLOCK FALSE
