CONSTANTS
    Chunks = 2
    Strays = {"stray"}
    HubCap = 1
    SendCap = 1
    MaxRetries = 1
    Modes = {"stream", "logs"}
    Events = {"side", "crash", "stop", "net", "refuse", "verdict", "migrate", "store", "deadline", "lost", "write"}
    MaxEvents = 1
SPECIFICATION FairSpec
INVARIANTS DeliveredInOrder HolesAreReported GapsAreReal
PROPERTIES WaitReturns ImplementsPromise
