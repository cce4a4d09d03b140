SPECIFICATION FairSpec
CONSTANTS
    NInputs = 3
    MaxWorkers = 2
    MayFail = TRUE
    MayCancel = TRUE
INVARIANTS
    SendNeverBlocks
PROPERTIES
    ImplementsPromise
    NothingLeaks
