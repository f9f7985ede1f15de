\* Two crashes at any moment, the startup sweep included, under delegation, job waits, a cancelled child and a refused launch.
SPECIFICATION FairSpec
CONSTANTS
    a1 = a1  a2 = a2  r1 = r1  sweeper = sweeper  reaper = reaper
    MaxTasks = 2  MaxSteps = 1  MaxCrashes = 2  MaxItems = 1
    ChainLegs = 2  Width = 1
    Workers = {a1}
    Jobs = {"j1"}
    Resolvers = {r1}
    Decisions = {"done", "giveup", "block", "escalate", "feedback", "delegate", "fanout_managers"}
    Cancellable = {2}
    Refusable = {2}
    Unseen = {1}
    Sweeper = sweeper
    Reaper = reaper
INVARIANTS OneSession OnlyLiveInvocationsBar
PROPERTIES AllSettle
CHECK_DEADLOCK FALSE
