SPECIFICATION FairSpec
CONSTANTS
    iso = iso
    img = img
    disk = disk
    blank = blank
    child = child
    clone = clone
    backup = backup
    up = up
    tpl = tpl
    c1 = c1
    c2 = c2
    NoConfig = NoConfig
    NoState = NoState
    NoPlan = NoPlan
    NoCall = NoCall
    Null = Null
    Blank = Blank
    Images = {iso, img, backup}
    Disks = {disk, blank, child, clone}
    Resources = {iso, img, disk, blank, child, clone, backup}
    Templates = {tpl}
    Origins = {up}
    Contents = {c1, c2}
    LayoutOf <- MCLayoutOf
    Initially <- MCInitially
    Sizes = {1, 2}
    Requires <- MCRequires
    Workspaces <- MCWorkspaces
    Configs <- MCConfigs
    Outside = {"gone", "foreign", "run", "write", "upgrade"}
    LateEffects = TRUE
    VerifyAttempts = 2
    MaxEvents <- MCMaxEvents
INVARIANT TypeOK
PROPERTIES KeepsGuestData ForgetsOnlyTheGone OkMeansInSync ReturnsThePlan Converges
CHECK_DEADLOCK FALSE
