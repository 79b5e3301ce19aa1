SPECIFICATION FairSpec
CONSTANTS
    MaxCalls = 3
    Response = {0, 1}
    Spurious = TRUE
    OnlyWhenListening = FALSE
INVARIANTS
    TypeOK
    NeverOlderThanWaker
PROPERTIES
    ReceiverNotHeldUp
CHECK_DEADLOCK FALSE
