CONSTANTS
    Chunks = 2
    Strays = {}
    HubCap = 2
    SendCap = 2
    MaxRetries = 1
    Modes = {"stream"}
    Events = {"net"}
    MaxEvents = 1
SPECIFICATION Spec
INVARIANT TerminalMeansDelivered
