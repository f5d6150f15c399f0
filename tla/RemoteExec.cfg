SPECIFICATION RemoteSpec
CONSTANTS
    r1 = r1
    r2 = r2
    h1 = h1
    h2 = h2
    Runs <- TwoRuns
    NoRun = none
    Hosts = {h1, h2}
    Placements <- SameHostOrNot
    Workloads <- CommandAndOther
    MaxLines = 2
    MaxLosses = 1
INVARIANTS
    RemoteTypeOK
    SoleUserGetsOwnAnswer
    SoleUserGetsWholeAnswer
PROPERTY
    SteadyRunEnds
CHECK_DEADLOCK FALSE
