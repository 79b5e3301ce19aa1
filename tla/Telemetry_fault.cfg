SPECIFICATION Spec
CONSTANTS
    UrRate = 2
    HlthRate = 4
    Wrap = 8
    FrameMod = 2
    SignalTargets = {"main"}
    GpsMayFail = TRUE
    MallocMayFail = TRUE
    Spurious = TRUE
    AppMayLag = TRUE
INVARIANTS
    TypeOK
    HandlerNeverSelfBlocks
    HealthImpliesNormal
    CounterNeverPassesRate
    ReportsFollowBringUp
    HeapBalanced
    AtMostOneUnsetLocation
PROPERTIES
    LeakSilencesReports
