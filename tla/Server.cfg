CONSTANTS
    A = A
    B = B
    fa1 = fa1
    fa2 = fa2
    fb = fb
    Users = {A, B}
    Names = {fa1, fa2, fb}
    UserOf <- MCUserOf
    MaxRuns = 3
    Earlier = 1
    SuccessHours = 0
    FailedHours = 0
    EarlyAbort = 1
    AttemptsKept = 1
    MaxTime = 0
    Dev = FALSE
    Subsets = TRUE
    Modes = {"success"}
    Stops = TRUE
    Faults = {"publish"}
SPECIFICATION Spec
SYMMETRY MCSymmetry
INVARIANTS TypeOK AtMostOneBatch HonestEntries OkIsWhole AtRestAgree SuccessIsPublished StopIsClean
PROPERTIES ImplementsDataset
CHECK_DEADLOCK FALSE
