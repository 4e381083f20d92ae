CONSTANTS
    Clients = {"page"}
    MaxRuns = 2
    MaxEvents = 2
    MaxFaults = 2
    MaxQueue = 2
    Patience = 2
SPECIFICATION FairSpec
INVARIANTS TypeOK NoLeak InStep RunUnmixed
PROPERTIES Converges
CHECK_DEADLOCK FALSE
