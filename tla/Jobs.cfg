SPECIFICATION FairSpec
CONSTANTS
    j1 = j1
    c1 = c1
    c2 = c2
    Jobs = {j1}
    Clients = {c1, c2}
    MaxCrashes = 2
INVARIANTS LaunchedOnce
PROPERTIES VerdictKept StreamEnds
