SPECIFICATION FairSpec
CONSTANTS
    sw = sw
    gw = gw
    m1 = m1
    m2 = m2
    px = px
    e1 = e1
    e2 = e2
    p1 = p1
    p2 = p2
    a = a
    b = b
    AnyProfile = AnyProfile
    Private = Private
    NoConfig = NoConfig
    NoState = NoState
    NoPlan = NoPlan
    NoCall = NoCall
    Null = Null
    Switches = {sw, gw}
    Mappings = {m1, m2}
    Proxies = {px}
    Resources = {sw, gw, m1, m2, px}
    Adapters = {e1, e2}
    NotesOf = {a, b}
    Prefixes = {p1, p2}
    Endpoints = {a, b}
    Targets = {a, b}
    Profiles = {AnyProfile, Private}
    Requires <- MCRequires
    NatOf <- MCNatOf
    Workspaces <- MCWorkspaces
    Configs <- MCConfigs
    Outside = {"gone", "foreign", "use", "nat", "silent", "reserve", "rule"}
    LateEffects = TRUE
    VerifyAttempts = 2
    MaxEvents <- MCMaxEvents
INVARIANTS TypeOK ChangesAlone
PROPERTIES ForgetsOnlyTheGone OkMeansInSync ReturnsThePlan ApplyEnds Converges
CHECK_DEADLOCK FALSE
