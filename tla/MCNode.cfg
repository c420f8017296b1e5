CONSTANTS
    BlockTime = 5
    MaxRetries = 2
    RetryDelay = 1
    MaxDelay = 2
    MaxFailures = 3
    ResetTimeout = 5
    HalfOpenMax = 2
    GracePeriod = 2
    MaxTasks = 1
    FailuresBound = 4
SPECIFICATION FairLoopSpec
INVARIANTS LoopTypeOK
PROPERTIES BreakerRecovers ShutdownEnds
CHECK_DEADLOCK FALSE
