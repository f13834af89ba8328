CONSTANTS
    Workers = {w1, w2}
    Jobs <- MCJobs
    MaxRetries = 3
    MaxDispatch = 2
    Faults = {"crash", "panic", "stop", "io", "net", "codec", "report", "oom"}
    MaxFaults = 1
SPECIFICATION FairSpec
INVARIANTS DeliveredIsWhole TargetIntact CodecKept VerdictHonest
PROPERTIES AttemptEnds RetriesRunOut ImplementsContract
CHECK_DEADLOCK FALSE
