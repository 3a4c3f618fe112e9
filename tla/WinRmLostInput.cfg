SPECIFICATION Spec
CONSTANTS
    Calls = {s1}
    Posters <- MCPosters
    Conns <- MCConns
    Plain = Plain
    None = None
    MaxFaults = 1
    MaxShells = 1
INVARIANT OkMeansRan
CHECK_DEADLOCK FALSE
