CONSTANTS
    N = 2
    Senders = {1, 2}
    Completers = {1, 2}
    Client = 1
    MaxTries = 2
    TTL = 1
    Faults = {"db"}
    MaxFaults = 1
SPECIFICATION Spec
INVARIANT InputNeverLost
CHECK_DEADLOCK FALSE
