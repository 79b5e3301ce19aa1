SPECIFICATION Spec
CONSTANTS
    UrRate = 1
    HlthRate = 1
    Wrap = 3
    FrameMod = 1
    SignalTargets = {"main", "app", "geo"}
    GpsMayFail = TRUE
    MallocMayFail = FALSE
    Spurious = FALSE
    AppMayLag = TRUE
INVARIANTS
    MutualExclusion
    NoCircularWait
CHECK_DEADLOCK FALSE
