\* A fan-out to managers, one of which delegates in turn.
SPECIFICATION Spec
CONSTANTS
    a1 = a1  a2 = a2  r1 = r1  sweeper = sweeper  reaper = reaper
    MaxTasks = 4  MaxSteps = 1  MaxCrashes = 0  MaxItems = 1
    ChainLegs = 2  Width = 2
    Workers = {a1, a2}
    Jobs = {}
    Resolvers = {}
    Decisions = {"done", "delegate", "fanout_managers"}
    Cancellable = {}
    Refusable = {}
    Unseen = {}
    Sweeper = sweeper
    Reaper = reaper
PROPERTIES NoLiveChildAtResume
CHECK_DEADLOCK FALSE
