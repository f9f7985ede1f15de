\* A one-shot or repeating schedule and an operator's request, one callback cut short, one restart.
SPECIFICATION FairSpec
CONSTANTS
    s1 = s1  o1 = o1
    Schedules = {s1}
    Operators = {o1}
    MaxTime = 2
    Tolerance = 0
    MaxArmed = 1
    MaxRequests = 2
    MaxCuts = 1
    MaxRestarts = 1
INVARIANTS TypeOK SpawnedOnce
PROPERTIES CancelledStaysIdle ClaimIsHeard
CHECK_DEADLOCK FALSE
