CONSTANTS
    Workers = {w1, w2}
    Jobs <- MCStagedJobs
    MaxRetries = 1
    MaxDispatch = 2
    Faults = {"unheard"}
    MaxFaults = 1
SPECIFICATION Spec
INVARIANT TargetIntact
CHECK_DEADLOCK FALSE
