CONSTANTS
    A = A
    B = B
    fa1 = fa1
    fa2 = fa2
    fb = fb
    Users = {A, B}
    Names = {fa1, fa2, fb}
    UserOf <- MCUserOf
    MaxRuns = 2
    Earlier = 0
    SuccessHours = 1
    FailedHours = 1
    EarlyAbort = 1
    AttemptsKept = 2
    MaxTime = 2
    Dev = FALSE
    Subsets = FALSE
    Modes = {}
    Stops = FALSE
    Faults = {"persist"}
SPECIFICATION Spec
INVARIANT AtMostOneBatch
CHECK_DEADLOCK FALSE
