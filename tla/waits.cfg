SPECIFICATION Spec
CONSTANTS
    Pictures = {blank, done}
    Wanted = {done}
    QueryShapes = {q1, q2}
    MaxUnanswered = 1
    Scenarios <- MCScenarios
    Quiet = 2
    Timeout = 3
    PollCap = 2
    BackoffCap = 2
    DrainGrace = 4
    HangupGrace = 1
    ReapGrace = 2
INVARIANTS
    NobodyOversleeps
    UntilIsRight
    SignalsReachTheChild
    ExitIsTold
    NotesAreCurrent
PROPERTIES
    StillHeld
\* The test makes no further call, and the clock is bounded.
CHECK_DEADLOCK FALSE
