SPECIFICATION FairSpec
CONSTANTS
    p1 = p1
    p2 = p2
    Callers = {p1, p2}
    Configurations <- Sound
    Size <- Sizes
    MaxTurns = 4
INVARIANTS
    LoadsTheTail
    KeepsWhatFits
    RecentTurnsSurvive
    AckedTurnsSurvive
PROPERTIES
    SaveReturns
CHECK_DEADLOCK FALSE
