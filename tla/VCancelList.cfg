CONSTANTS
    Jobs = {j1}
    Workers = {w1}
    NULL = NULL
    Name <- MCName
    MaxConcurrent <- MCMaxConcurrent
    Tiers <- AnyWorker
    MaxRetryCount = 1
    MaxTimeoutRetries = 0
    MaxProgress = 0
    Faults = {}
    Expiring = {"started"}
    MaxFaults = 0
    MaxRestarts = 0
SPECIFICATION ClusterSpec
INVARIANT CancelListNamesTerminal
