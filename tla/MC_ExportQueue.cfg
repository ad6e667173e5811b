CONSTANTS
    Threads = {t1, t2}
    Weights = {1, 4, 11}
    Capacity = 5
    MaxBytes = 10
    MaxBatch = 2
    FirstRetry = 1
    MaxRetryDelay = 3
    MaxRetryTime = 4
    StoppingRetryTime = 1
    SendTimeout = 2
    MaxPushes = 5
SPECIFICATION FairSpec
CHECK_DEADLOCK FALSE
INVARIANTS
    Conserved
PROPERTIES
    Drained
