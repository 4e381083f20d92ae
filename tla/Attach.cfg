CONSTANTS
    Clients = {"page", "terminal"}
    MaxRuns = 1
    MaxEvents = 1
    MaxFaults = 0
    MaxQueue = 3
    Patience = 2
SPECIFICATION AttachSpec
INVARIANT NoDrift
CHECK_DEADLOCK FALSE
