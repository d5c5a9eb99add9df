SPECIFICATION FairStoreSpec
CONSTANTS
    u1 = u1
    u2 = u2
    l1 = l1
    Updaters = {u1, u2}
    Loaders = {l1}
    Original = Original
    Nobody = Nobody
    MaxCrashes = 2
INVARIANTS
    NeverTorn
    AckedIsKept
PROPERTIES
    AtomicSpec
    CallsEnd
CHECK_DEADLOCK FALSE
