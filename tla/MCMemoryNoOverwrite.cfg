SPECIFICATION FairSpec
CONSTANTS
    p1 = p1
    p2 = p2
    Callers = {p1, p2}
    Configurations <- NoOverwrite
    Size <- Sizes
    MaxTurns = 4
PROPERTIES
    TrimShrinks
CHECK_DEADLOCK FALSE
