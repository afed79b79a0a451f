CONSTANTS
    Records = {r1, r2, r3}
    QueueMax = 1
    MaxBatchInterval = 1
    MaxTime = 3
    RotationMayFail = TRUE
    InitOutcomes <- InitOkOrNoTopic
SPECIFICATION Spec
PROPERTIES
    ImplementsKafkaLog
CHECK_DEADLOCK FALSE
