CONSTANTS
    A = A
    B = B
    fa1 = fa1
    fa2 = fa2
    fb = fb
    Users = {A, B}
    Names = {fa1, fb}
    UserOf <- MCUserOf
    MaxRuns = 2
    Earlier = 1
    SuccessHours = 1
    FailedHours = 1
    EarlyAbort = 1
    AttemptsKept = 2
    MaxTime = 1
    Dev = TRUE
    Subsets = TRUE
    Modes = {"always", "never"}
    Stops = TRUE
    Faults = {"persist", "open", "copy", "publish", "rm", "grace"}
SPECIFICATION FairSpec
INVARIANTS NeverMislabelled
PROPERTIES RunEnds
CHECK_DEADLOCK FALSE
