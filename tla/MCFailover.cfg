CONSTANTS
    Jobs = {j1}
    Workers = {"gpu", "cpu"}
    NULL = NULL
    Name <- MCName
    MaxConcurrent <- MCMaxConcurrent
    Tiers <- GpuOnly
    MaxRetryCount = 1
    MaxTimeoutRetries = 1
    MaxProgress = 0
    Faults = {"crash", "stop", "late", "loss", "evict"}
    Expiring = {"started"}
    MaxFaults = 1
    MaxRestarts = 1
SPECIFICATION ClusterSpec
INVARIANT DoubleExecutionIsAudited
CONSTRAINT Unsettled
