SPECIFICATION FairSpec
CONSTANTS
    Calls = {s1}
    Posters <- MCPosters
    Conns <- MCConns
    Plain = Plain
    None = None
    MaxFaults = 1
    MaxShells = 1
INVARIANTS
    TypeOK
    AloneSucceeds
    ShellsHaveSlots
PROPERTIES
    KeepsContract
    CallsReturn
CHECK_DEADLOCK FALSE
