SPECIFICATION FairSpec
CONSTANTS
    NInputs = 2
    MaxWorkers = 1
    MayFail = FALSE
    MayCancel = TRUE
INVARIANTS
    NilErrorMeansComplete
