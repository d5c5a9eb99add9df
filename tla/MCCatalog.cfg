SPECIFICATION FairSpec
CONSTANTS
    a = a
    r1 = r1
    r2 = r2
    Slugs = {a}
    NoSlug = NoSlug
    Requests = {r1, r2}
    Bg = Bg
    Operations <- Both
    MaxOps = 2
    MaxJobs = 2
    Chunks = 1
    MaxRestarts = 1
    MayFail = TRUE
    WaitMayExpire = TRUE
INVARIANTS BootsWhole StuckOnlyByASave NoStrayPart
PROPERTIES EnabledGetsMounted
CHECK_DEADLOCK FALSE
