\* Four receipts that may tie, batches of two, a retry, one fault and a crash.
CONSTANTS
    BatchCountThreshold = 2
    MaxBatchSize = 2
    RetryAttempts = 1
    PageLimit = 2
    MaxReceipts = 4
    MaxClock = 2
    MaxFaults = 1
    MaxCrashes = 1
SPECIFICATION Spec
INVARIANTS SealedIsAnchored PassedOverOnlyIfLate
CHECK_DEADLOCK FALSE
