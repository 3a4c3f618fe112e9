SPECIFICATION Spec
CONSTANTS
    Uploads = {}
    Fetches = {f1}
    Compressed = {}
    Downloads = {}
    Copies = {c1}
    Removes = {r1}
    SafeReplacers = {c1}
    Forced = {}
    Spellings = {s1}
    Contents = {image, other}
    image = image
    Unpacked <- MCUnpacked
    Absent = Absent
    Torn = Torn
    NoHash = NoHash
    Nobody = Nobody
    ScriptsOutliveCalls = FALSE
INVARIANTS
    OneScript
    StagingCleared
    WholeImages
PROPERTY KeepsContract
CHECK_DEADLOCK FALSE
