CONSTANTS
    Procs = {"server", "cli", "other"}
    Nobody = "nobody"
    Hosts = {"h1", "h2"}
    HostOf <- MCHostOf
    Pids = {1, 2, 3, 4}
    Stale = 3
    Beat = 2
    Serial = TRUE
    PidReuse = FALSE
    MaxCrashes = 3
SPECIFICATION FairSpec
INVARIANTS TypeOK OneHolder HolderOwnsFile
PROPERTIES Recovers
