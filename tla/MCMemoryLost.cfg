SPECIFICATION FairSpec
CONSTANTS
    p1 = p1
    p2 = p2
    Callers = {p1, p2}
    Configurations <- Replacing
    Size <- Sizes
    MaxTurns = 4
INVARIANTS
    NothingLost
CHECK_DEADLOCK FALSE
