CONSTANTS
    Jobs = {j1}
    Workers = {"gpu", "cpu"}
    NULL = NULL
    Name <- MCName
    MaxConcurrent <- MCMaxConcurrent
    Tiers <- GpuOnly
    MaxRetryCount = 1
    MaxTimeoutRetries = 1
    MaxProgress = 0
    Faults = {}
    Expiring = {}
    MaxFaults = 0
    MaxRestarts = 0
SPECIFICATION ClusterSpec
INVARIANT OnlyCapableWorkersClaim
