CONSTANTS
    Jobs = {j1, j2, j3}
    Workers = {w1}
    NULL = NULL
    Name <- MCName
    MaxConcurrent <- MCMaxConcurrent
    Tiers <- AnyWorker
    MaxRetryCount = 1
    MaxTimeoutRetries = 1
    MaxProgress = 1
    Faults = {}
    Expiring = {}
    MaxFaults = 0
    MaxRestarts = 0
SPECIFICATION ClusterSpec
INVARIANTS OvercommitAtMostOne
SYMMETRY MCSymmetry
