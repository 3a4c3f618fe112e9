SPECIFICATION Spec
CONSTANTS
    Scripts = {s1, s2}
    Streams = {}
    Provider = provider
    NoClient = NoClient
    Nobody = Nobody
    MaxConcurrentSessions = 2
INVARIANT DeadBackendReconnects
CHECK_DEADLOCK FALSE
