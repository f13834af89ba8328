CONSTANTS
    Jobs = {j1}
    Workers = {w1}
    NULL = NULL
    Clients = {c1}
    Requests = {r1}
    Limits = {1}
    RateLimitEnabled = TRUE
    AdminMay = {}
    MaxFaults = 0
SPECIFICATION Spec
INVARIANT SlotsFreed
