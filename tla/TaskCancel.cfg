\* The founder cancels the root, cascading or not, and resolves escalations, at any moment.
SPECIFICATION Spec
CONSTANTS
    a1 = a1  a2 = a2  r1 = r1  sweeper = sweeper  reaper = reaper
    MaxTasks = 3  MaxSteps = 1  MaxCrashes = 0  MaxItems = 1
    ChainLegs = 2  Width = 2
    Workers = {a1, a2}
    Jobs = {"j1"}
    Resolvers = {r1}
    Decisions = {"done", "giveup", "escalate", "feedback", "delegate", "chain", "fanout"}
    Cancellable = {1}
    Refusable = {2}
    Unseen = {}
    Sweeper = sweeper
    Reaper = reaper
SYMMETRY SymmetricWorkers
INVARIANTS TypeOK
PROPERTIES CancelledStaysDown EndedNeverRuns
CHECK_DEADLOCK FALSE
