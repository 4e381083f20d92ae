CONSTANTS
    Procs = {"server", "cli", "other"}
    Nobody = "nobody"
    Hosts = {"h1", "h2"}
    HostOf <- MCHostOf
    Pids = {1, 2, 3}
    Stale = 3
    Beat = 2
    Serial = FALSE
    PidReuse = FALSE
    MaxCrashes = 1
SPECIFICATION Spec
INVARIANT OneHolder
