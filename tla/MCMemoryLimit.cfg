SPECIFICATION FairSpec
CONSTANTS
    p1 = p1
    p2 = p2
    Callers = {p1, p2}
    Configurations <- LowLimit
    Size <- Sizes
    MaxTurns = 4
PROPERTIES
    TrimKeepsNewest
CHECK_DEADLOCK FALSE
