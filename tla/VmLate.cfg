SPECIFICATION FairSpec
CONSTANTS
    Hdds = {h1}
    Dvds = {d1}
    Nics = {n1}
    Slot <- MCSlot
    Media = {a, b}
    Empty = Empty
    Untagged <- MCUntagged
    Settings = {"cpu", "notes"}
    Values = {1, 2}
    Defaults <- MCDefaults
    Cold = {"cpu"}
    Configs <- MCConfigs
    NoConfig = NoConfig
    NoVm = NoVm
    NoState = NoState
    NoCall = NoCall
    h1 = h1
    d1 = d1
    n1 = n1
    a = a
    b = b
    CreateMayFail = TRUE
    LateEffects = TRUE
    Outside = {"delete", "power", "device"}
    Meddling = TRUE
    MaxEvents = 6
PROPERTY Converges
CHECK_DEADLOCK FALSE
