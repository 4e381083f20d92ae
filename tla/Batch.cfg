CONSTANTS
    Size = 3
    Limit = 2
    MaxAttempts = 2
    SkipWarmup = FALSE
    Faults = {"staging", "template", "seed", "spawn", "index", "uncaught"}
SPECIFICATION FairSpec
INVARIANTS TypeOK NoTornTemplate Accounted UncancelledIsIndexed NothingOrphaned
PROPERTIES NeverLaunchesAborted BatchEnds
CHECK_DEADLOCK FALSE
