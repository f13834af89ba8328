CONSTANTS
    Jobs = {j1}
    Workers = {"gpu"}
    NULL = NULL
    Name <- MCName
    MaxConcurrent <- MCMaxConcurrent
    Tiers <- GpuFallback
    MaxRetryCount = 1
    MaxTimeoutRetries = 0
    MaxProgress = 0
    Faults = {"stop", "dberror"}
    Expiring = {"created", "updated", "started"}
    MaxFaults = 3
    MaxRestarts = 0
SPECIFICATION FairSpec
PROPERTY EverySubmittedJobSettles
