SPECIFICATION FairSpec
CONSTANTS
    p1 = p1
    p2 = p2
    Callers = {p1, p2}
    Configurations <- WithOverwrite
    Size <- Sizes
    MaxTurns = 4
INVARIANTS
    NoTransactionLeftOpen
CHECK_DEADLOCK FALSE
