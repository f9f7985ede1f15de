\* Fan-out and chains on two workers; the end of the root's process tree may go unseen.
SPECIFICATION FairSpec
CONSTANTS
    a1 = a1  a2 = a2  r1 = r1  sweeper = sweeper  reaper = reaper
    MaxTasks = 3  MaxSteps = 1  MaxCrashes = 0  MaxItems = 1
    ChainLegs = 2  Width = 2
    Workers = {a1, a2}
    Jobs = {}
    Resolvers = {}
    Decisions = {"done", "chain", "fanout"}
    Cancellable = {}
    Refusable = {}
    Unseen = {1}
    Sweeper = sweeper
    Reaper = reaper
INVARIANTS OneSession OnlyLiveInvocationsBar
PROPERTIES NoLiveChildAtResume AllSettle
CHECK_DEADLOCK FALSE
