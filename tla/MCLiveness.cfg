CONSTANTS
    Jobs = {j1}
    Workers = {"gpu"}
    NULL = NULL
    Name <- MCName
    MaxConcurrent <- MCMaxConcurrent
    Tiers <- GpuFallback
    MaxRetryCount = 1
    MaxTimeoutRetries = 1
    MaxProgress = 0
    Faults = {"crash", "late", "loss", "evict"}
    Expiring = {"created", "updated", "started"}
    MaxFaults = 1
    MaxRestarts = 1
SPECIFICATION FairSpec
PROPERTIES EverySubmittedJobSettles LiveWorkerReturns
