CONSTANTS
    Jobs = {j1}
    Workers = {w1}
    NULL = NULL
    Name <- MCName
    MaxConcurrent <- MCMaxConcurrent
    Tiers <- AnyWorker
    MaxRetryCount = 1
    MaxTimeoutRetries = 1
    MaxProgress = 0
    Faults = {"stop"}
    Expiring = {}
    MaxFaults = 1
    MaxRestarts = 0
SPECIFICATION ClusterSpec
PROPERTY CancelledOnlyByClient
