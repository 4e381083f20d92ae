SPECIFICATION ViewSpec
CONSTANTS
    MaxAttempts = 2
    Total = 4
    Step = 2
    Tolerance = 1
    PipeBound = 2
    StallWatch = TRUE
    Descendants = TRUE
    Faults = {"seed", "spawn", "copy", "rmdir"}
INVARIANTS
    TypeOK DoneIsComplete NoTruncatedAtRest WholeRunKept RowMatchesResult ReasonIsLastAttempts BarIsHonest
PROPERTIES
    NeverRetriesNotInTcrs StalledUntilNextAttempt ReturnsUnlessHeld ImplementsContract BarNeverFallsBack
