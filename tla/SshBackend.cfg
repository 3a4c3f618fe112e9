SPECIFICATION Spec
CONSTANTS
    Scripts = {s1, s2}
    Streams = {f1}
    Provider = provider
    NoClient = NoClient
    Nobody = Nobody
    MaxConcurrentSessions = 1
SYMMETRY CallSymmetry
INVARIANTS
    TypeOK
    OneOpenClient
    AliveIsWatched
    SlotAccounting
CHECK_DEADLOCK FALSE
