SPECIFICATION Spec
CONSTANTS
    a = a
    b = b
    c = c
    cWithImage = cWithImage
    Clients = {p, q}
    Contexts <- MCContexts
    Keys <- MCKeys
    KeyOf <- MCKeyOf
    MaxSize = 2
    TTL = 1
    MaxTime = 2
    MaxChunks = 1
    MaxCalls = 4
INVARIANTS
    WithinCapacity
    HitsCounted
    AllOrNothing
PROPERTIES
    EvictsTheLeastRecent
SYMMETRY ClientSymmetry
