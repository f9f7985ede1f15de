\* A chain of two legs, two workers, and the reaper's tick.
SPECIFICATION Spec
CONSTANTS
    a1 = a1  a2 = a2  r1 = r1  sweeper = sweeper  reaper = reaper
    MaxTasks = 3  MaxSteps = 1  MaxCrashes = 0  MaxItems = 1
    ChainLegs = 2  Width = 2
    Workers = {a1, a2}
    Jobs = {}
    Resolvers = {}
    Decisions = {"done", "chain"}
    Cancellable = {}
    Refusable = {}
    Unseen = {}
    Sweeper = sweeper
    Reaper = reaper
PROPERTIES NextLegKeepsParentParked
CHECK_DEADLOCK FALSE
