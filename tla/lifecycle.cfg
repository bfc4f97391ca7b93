SPECIFICATION Spec
CONSTANTS
    Terms = {t1, t2}
    Devices = {d1}
    NoDevice = NoDevice
    Nobody = Nobody
    Attempts = 2
    MaxTyped <- MCMaxTyped
    Refusals <- MCRefusals
    Typing = t1
INVARIANTS
    NobodyIsRevoked
PROPERTIES
    CallsEnd
    EverythingIsReleased
\* A test may keep its terminals, and their applications may do nothing.
CHECK_DEADLOCK FALSE
