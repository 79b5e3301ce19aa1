SPECIFICATION FairSpec
CONSTANTS
    UrRate = 5
    HlthRate = 15
    Wrap = 20
    FrameMod = 2
    SignalTargets = {"main"}
    GpsMayFail = FALSE
    MallocMayFail = FALSE
    Spurious = FALSE
    AppMayLag = FALSE
INVARIANTS
    EveryReadIsFresh
PROPERTIES
    EveryDueReportIsSent
    GeoKeepsPolling
    ImplementsReportCycle
