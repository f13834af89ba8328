CONSTANTS
    N = 2
    Senders = {1, 2}
    Completers = {1, 2}
    Client = 1
    MaxTries = 2
    TTL = 1
    Faults = {"timeout", "edit", "torn", "io", "db", "crash"}
    MaxFaults = 1
SPECIFICATION FairSpec
INVARIANTS AnswersAreTheFile InputKept
PROPERTY SessionsSettle
CHECK_DEADLOCK FALSE
