SPECIFICATION Spec
CONSTANTS
    Files <- MCFiles
    Fixes <- MCFixes
    NoFix = NoFix
    UlpX <- MCUlpX
    UlpY <- MCUlpY
    Err <- MCErr
INVARIANTS
    FenceTestIsRight
    CurrentStopIsLastHit
CHECK_DEADLOCK FALSE
