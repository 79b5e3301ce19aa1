SPECIFICATION FairSpec
CONSTANTS
    MaxCalls = 3
    Response = {0, 1}
    Spurious = FALSE
    OnlyWhenListening = TRUE
INVARIANTS
    ReportIsWhole
    NoPhantomCall
    AnswersOnlyWhenUp
PROPERTIES
    EveryCallAnnounced
CHECK_DEADLOCK FALSE
