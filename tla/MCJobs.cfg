SPECIFICATION FairSpec
CONSTANTS
    r1 = r1
    MaxJobs = 2
    Types <- MCTypes
    Exclusive <- MCExclusive
    Requests <- OneRequest
    Keep = 1
    MaxRestarts = 1
    Fallible = {1}
INVARIANTS
    OneExclusiveJob
    RunningIsAlive
    EndIsOnDisk
PROPERTIES
    PurgeKeepsTheNewest
    JobsEnd
CHECK_DEADLOCK FALSE
