SPECIFICATION FairSpec
CONSTANTS
    p = p
    q = q
    r1 = r1
    r2 = r2
    Macs = {p}
    Requests = {}
    Bg = Bg
    Nobody = Nobody
    MaxClients = 1
    MaxRead = 3
    Tail1 = 3
    Interval = 1
    MaxLines = 3
    MaxRotations = 1
    MaxArms = 0
    MaxBoots = 0
    MaxCrashes = 1
    MaxFailures = 1
    Disarming = FALSE
INVARIANTS
    PassedIsApplied
    CountsAreApart
PROPERTY LinesGetApplied
CHECK_DEADLOCK FALSE
