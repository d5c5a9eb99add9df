SPECIFICATION FairSpec
CONSTANTS
    u1 = u1
    Slugs = {1, 2, 3}
    Sizes = {1, 2}
    Times = {0}
    Capacities = {3, 5}
    Keep = 1
    MinSize = 1
    Runs = {1, 2}
    Users = {u1}
    MaxEdits = 1
    Interfering <- Everything
    AutoOn = TRUE
INVARIANTS
    PlanIsRight
    RunsLeaveKeepFree
PROPERTY SettlesWhenAllFits
CHECK_DEADLOCK FALSE
