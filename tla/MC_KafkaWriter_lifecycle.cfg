CONSTANTS
    Records = {r1, r2}
    QueueMax = 1
    MaxBatchInterval = 1
    MaxTime = 2
    RotationMayFail = TRUE
    InitOutcomes <- InitAny
SPECIFICATION Spec
INVARIANTS
    UndefinedOnlyOnUnsetHandles
CHECK_DEADLOCK FALSE
