SPECIFICATION QueueFairSpec
CONSTANTS
    Task = {t1, t2}
    MaxRetry <- CodeMaxRetry
    Concurrency = 1
    MaxRestarts = 1
INVARIANTS
    QueueTypeOK
    RunsBounded
PROPERTIES
    EveryTaskSettles
CHECK_DEADLOCK FALSE
