CONSTANTS
    Keys = {1, 2}
    UrlKeys = {2}
    Slots = {1, 2}
    Sizes = {1, 3}
    MaxSize = 2
    TTL = 1
    URLTTL = 0
    StaleAge = 1
    MaxFaults = 1
SPECIFICATION FairSpec
INVARIANTS HitsAreWhole BookedExactly
PROPERTY BudgetRestored
