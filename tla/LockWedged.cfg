CONSTANTS
    Procs = {"server"}
    Nobody = "nobody"
    Hosts = {"h1", "h2"}
    HostOf <- MCHostOf
    Pids = {1}
    Stale = 10
    Beat = 5
    Serial = TRUE
    PidReuse = TRUE
    MaxCrashes = 1
SPECIFICATION FairSpec
PROPERTY Recovers
