SPECIFICATION FairSpec
CONSTANTS
    Uploads = {u1}
    Fetches = {}
    Compressed = {}
    Downloads = {d1}
    Copies = {}
    Removes = {r1}
    SafeReplacers = {}
    Forced = {r1}
    Spellings = {s1}
    Contents = {image}
    image = image
    Unpacked <- MCUnpacked
    Absent = Absent
    Torn = Torn
    NoHash = NoHash
    Nobody = Nobody
    ScriptsOutliveCalls = TRUE
INVARIANTS
    TypeOK
    WholeImages
    LockHeldByCaller
PROPERTY CallsReturn
CHECK_DEADLOCK FALSE
