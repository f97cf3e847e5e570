\* A submission times out and lands; nothing fails after that.
CONSTANTS
    BatchCountThreshold = 1
    MaxBatchSize = 2
    RetryAttempts = 1
    PageLimit = 2
    MaxReceipts = 3
    MaxClock = 3
    MaxFaults = 1
    MaxCrashes = 0
SPECIFICATION FairSpec
PROPERTY AnchoringResumes
CHECK_DEADLOCK FALSE
