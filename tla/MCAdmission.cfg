CONSTANTS
    Jobs = {j1, j2}
    Workers = {w1}
    NULL = NULL
    Clients = {c1}
    Requests = {r1, r2}
    Limits = {1, 2}
    RateLimitEnabled = TRUE
    AdminMay = {"limit"}
    MaxFaults = 1
SPECIFICATION FairSpec
VIEW MCView
INVARIANTS LedgerExact LimitHolds NoLostWakeup
PROPERTY ProbeAnswered
