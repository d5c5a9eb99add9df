SPECIFICATION Spec
CONSTANTS
    p = p
    q = q
    r1 = r1
    r2 = r2
    Macs = {p, q}
    Requests = {r1, r2}
    Bg = Bg
    Nobody = Nobody
    MaxClients = 1
    MaxRead = 3
    Tail1 = 8
    Interval = 1
    MaxLines = 1
    MaxRotations = 0
    MaxArms = 2
    MaxBoots = 2
    MaxCrashes = 0
    MaxFailures = 0
    Disarming = TRUE
INVARIANT GivenOnce
PROPERTY NextBootGetsIt
CHECK_DEADLOCK FALSE
