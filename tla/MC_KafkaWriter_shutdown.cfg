CONSTANTS
    Records = {r1, r2}
    QueueMax = 2
    MaxBatchInterval = 1
    MaxTime = 2
    RotationMayFail = FALSE
    InitOutcomes <- InitOkOrNoTopic
SPECIFICATION Spec
PROPERTIES
    AcceptedEventuallyDelivered
CHECK_DEADLOCK FALSE
