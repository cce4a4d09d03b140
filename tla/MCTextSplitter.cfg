SPECIFICATION FairSpec
CONSTANTS
    Atoms = 4
    MaxAtom = 2
    SepLists <- Separators
    Sizes = {2, 4, 5}
    Overlaps = {0, 2, 3}
INVARIANTS
    ChunksFit
    NoNeedlessCut
    OverlapWithinLimit
    InTextOrder
    NothingIsLost
PROPERTIES
    Finishes
