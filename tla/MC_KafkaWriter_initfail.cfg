CONSTANTS
    Records = {r1}
    QueueMax = 1
    MaxBatchInterval = 1
    MaxTime = 2
    RotationMayFail = TRUE
    InitOutcomes <- InitBadBrokers
SPECIFICATION Spec
INVARIANTS
    HandlesSafe
CHECK_DEADLOCK FALSE
