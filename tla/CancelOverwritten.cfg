\* One task, one worker, one cancellation.
SPECIFICATION Spec
CONSTANTS
    a1 = a1  a2 = a2  r1 = r1  sweeper = sweeper  reaper = reaper
    MaxTasks = 1  MaxSteps = 1  MaxCrashes = 0  MaxItems = 1
    ChainLegs = 2  Width = 2
    Workers = {a1}
    Jobs = {}
    Resolvers = {}
    Decisions = {"done", "feedback"}
    Cancellable = {1}
    Refusable = {}
    Unseen = {}
    Sweeper = sweeper
    Reaper = reaper
PROPERTIES CancelIsHardStop
CHECK_DEADLOCK FALSE
