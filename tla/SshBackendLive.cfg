SPECIFICATION FairSpec
CONSTANTS
    Scripts = {s1, s2}
    Streams = {}
    Provider = provider
    NoClient = NoClient
    Nobody = Nobody
    MaxConcurrentSessions = 1
PROPERTIES
    CallsReturn
    DeadLinkNoticed
    KeepsContract
CHECK_DEADLOCK FALSE
