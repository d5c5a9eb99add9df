SPECIFICATION Spec
CONSTANTS
    r1 = r1
    MaxJobs = 1
    Types <- MCTypes
    Exclusive <- MCExclusive
    Requests <- OneRequest
    Keep = 1
    MaxRestarts = 1
    Fallible = {}
INVARIANTS
    EndedJobSurvives
CHECK_DEADLOCK FALSE
