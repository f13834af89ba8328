CONSTANTS
    Workers = {w1, w2}
    Jobs <- MCUserJobs
    MaxRetries = 1
    MaxDispatch = 2
    Faults = {"crash"}
    MaxFaults = 1
SPECIFICATION Spec
INVARIANT UserOutputKept
CHECK_DEADLOCK FALSE
