SPECIFICATION FairSpec
CONSTANTS
    Ceiling = 3
    Capacity = 1
    Batches <- MCBatches
    InputSizes = {2}
    MaxReads = 2
    MaxInputs = 1
INVARIANTS
    WrittenInOrder
    RepliesAheadOfInput
    PendingIsExact
    BytesNeverWrap
    ReplyBytesNearCeiling
PROPERTIES
    OkMeansWritten
    DrainNeverStalls
    SendsEnd
    QueueIsWritten
\* The application may stop reading, and the test may stop typing.
CHECK_DEADLOCK FALSE
