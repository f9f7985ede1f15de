---------------------------- MODULE TaskLifecycle ----------------------------
(***************************************************************************)
(* The life of a tree of tasks in one organisation: the rows of the tasks  *)
(* table, the workers that execute run_step on them, the agents' completion*)
(* callbacks, delegation, chains, fan-out, waiting on jobs, escalation,    *)
(* founder cancellation, a daemon crash, the startup sweep, the zombie     *)
(* reaper, and the invocation journal: a worker prepares an entry before   *)
(* it launches and closes it at the end, an unclosed entry bars the task,  *)
(* and every tick publishes again what may run.                            *)
(*                                                                         *)
(* Worker threads, the event loop and the agents' callbacks share the      *)
(* database; a single database call is atomic, a sequence of calls is not. *)
(* An action is therefore one database transaction together with the local *)
(* steps up to the next one. The in-memory queue is a bag of task ids here *)
(* (module TaskQueue has its order and its shutdown).                      *)
(***************************************************************************)
EXTENDS Integers, FiniteSets, FiniteSetsExt

CONSTANTS
    MaxTasks,    \* bound on the rows of the tasks table
    MaxSteps,    \* bound on the sessions of a task that do not end it
    MaxCrashes,  \* bound on daemon crashes
    ChainLegs,   \* legs of a declared chain
    Width,       \* children of a fan-out
    Workers,     \* worker threads
    Jobs,        \* job names an agent may wait for
    Resolvers,   \* concurrent resolve-escalation requests
    Decisions,   \* decision kinds the agents may report
    Cancellable, \* tasks the founder may cancel
    Refusable,   \* tasks whose preparation may fail before the launch
    Unseen,      \* tasks whose process tree may not be seen to end
    MaxItems,    \* bound on the items of a task that rediscovery adds to
    Sweeper,     \* the startup sweep
    Reaper       \* the zombie reaper

Tasks == 1 .. MaxTasks
Root == 1
NoTask == 0

AllDecisions == {"done", "giveup", "block", "escalate", "feedback", "delegate",
                 "chain", "fanout", "fanout_managers"}

ASSUME BoundsAssumption ==
    /\ MaxTasks \in Nat \ {0} /\ MaxSteps \in Nat /\ MaxCrashes \in Nat
    /\ ChainLegs \in Nat \ {0} /\ Width \in Nat \ {0} /\ MaxItems \in Nat \ {0}
ASSUME InputsAssumption ==
    /\ Decisions \subseteq AllDecisions
    /\ Cancellable \subseteq Tasks /\ Refusable \subseteq Tasks /\ Unseen \subseteq Tasks
ASSUME ActorsAssumption ==
    Sweeper \notin Workers /\ Reaper \notin Workers /\ Sweeper # Reaper

Actors == Workers \cup {Sweeper, Reaper}

VARIABLES
    task,      \* the tasks table
    queue,     \* how many items of each task the queue holds
    actor,     \* where each thread is in run_step, or in the sweeps
    entry,     \* the phase of each task's unsettled entry in the journal
    control,   \* the root has its pause control row, which holds the journal
    orphans,   \* sessions whose process outlived the daemon that ran it
    jobs,      \* the non-terminal jobs a task waits for
    lost,      \* tasks with a job of unknown liveness since a crash
    checks,    \* resume checks fired by a job's end, not yet executed
    stamping,  \* what a cancellation in progress has still to stamp
    resolver,  \* the task each resolve-escalation request has validated
    daemon,    \* "up", "down", or "boot" while the startup sweep runs
    sweep,     \* what the startup sweep has still to visit
    crashes

vars == <<task, queue, actor, entry, control, orphans, jobs, lost, checks, stamping, resolver,
          daemon, sweep, crashes>>

journal == <<entry, control>>
jobVars == <<jobs, lost, checks>>
founderVars == <<stamping, resolver>>
bootVars == <<orphans, daemon, sweep, crashes>>

-----------------------------------------------------------------------------
(* The tasks table                                                         *)

Terminal == {"completed", "failed", "cancelled"}
Statuses == Terminal \cup {"absent", "pending", "in_progress", "escalated"}

\* chain: legs of active_chain from the current one on, 0 when it is NULL;
\* report: the task_results row of the current session.
TaskRecord ==
    [status : Statuses, block : {"none", "delegated", "job"}, cancelled : BOOLEAN,
     parent : Tasks \cup {NoTask}, kind : {"task", "subtask"}, steps : Nat,
     chain : 0 .. ChainLegs, fanout : BOOLEAN, report : AllDecisions \cup {"none"}]

NewTask(parent, kind) ==
    [status |-> "pending", block |-> "none", cancelled |-> FALSE,
     parent |-> parent, kind |-> kind, steps |-> 0, chain |-> 0,
     fanout |-> FALSE, report |-> "none"]

Absent == [NewTask(NoTask, "task") EXCEPT !.status = "absent"]

Exists(t) == task[t].status # "absent"
Children(t) == {c \in Tasks : Exists(c) /\ task[c].parent = t}
IsTerminal(t) == task[t].status \in Terminal
AlreadyTerminal(t) == IsTerminal(t) \/ task[t].cancelled
Parked(t, block) == task[t].status = "in_progress" /\ task[t].block = block
Running(t) == Parked(t, "none")

\* Identifiers are allocated in order.
Used == Cardinality({t \in Tasks : Exists(t)})
NextIds(n) == Used + 1 .. Used + n
Newest(t) == \A c \in Children(task[t].parent) : c <= t

\* A report of status "completed" for the current session: every decision
\* of a manager is one, only the two blocked ones are not.
LandedTerminalReport(t) == task[t].report \notin {"none", "block", "giveup"}

\* Mutant: a child that has not started counts as settled.
IdleSettles(c) == task[c].status # "in_progress" \/ LandedTerminalReport(c)

SettledForParent(c) == IsTerminal(c) \/ LandedTerminalReport(c)

\* eligible(): what may be launched, tested again by the claim.
Eligible(t) ==
    /\ ~task[t].cancelled
    /\ \/ task[t].status = "pending"
       \/ Parked(t, "delegated") /\ \A c \in Children(t) : SettledForParent(c)
       \/ Parked(t, "job") /\ jobs[t] = {}

-----------------------------------------------------------------------------
(* Threads                                                                 *)

PCs == {"idle", "prepare", "claim", "close", "agent", "consume", "write", "fail", "resume", "wake",
        "advance", "siblings"}

\* step: orchestration_step_count the thread saw, which names its session;
\* from: status and block_kind it saw; chained: the parent had a chain.
ActorRecord ==
    [pc : PCs, task : Tasks \cup {NoTask}, step : Nat,
     from : Statuses \X {"none", "delegated", "job"}, chained : BOOLEAN]

Idle == [pc |-> "idle", task |-> NoTask, step |-> 0,
         from |-> <<"absent", "none">>, chained |-> FALSE]

\* prepared, launched (possible_launch to result_processing), unknown: it was
\* launched and nothing shows its end; unclosed: a crash found it prepared.
Phases == {"none", "prepared", "launched", "unknown", "unclosed"}

TypeOK ==
    /\ task \in [Tasks -> TaskRecord]
    /\ queue \in [Tasks -> Nat]
    /\ actor \in [Actors -> ActorRecord]
    /\ entry \in [Tasks -> Phases]
    /\ control \in BOOLEAN
    /\ orphans \in SUBSET Tasks
    /\ jobs \in [Tasks -> SUBSET Jobs]
    /\ lost \in SUBSET Tasks
    /\ checks \in SUBSET Tasks
    /\ stamping \in SUBSET Tasks
    /\ resolver \in [Resolvers -> Tasks \cup {NoTask}]
    /\ daemon \in {"up", "down", "boot"}
    /\ sweep \in SUBSET Tasks
    /\ crashes \in 0 .. MaxCrashes
    /\ \A t \in Tasks : task[t].block # "none" => task[t].status = "in_progress"

\* A root task just dispatched by the founder.
Init ==
    /\ task = [t \in Tasks |-> IF t = Root THEN NewTask(NoTask, "task") ELSE Absent]
    /\ queue = [t \in Tasks |-> IF t = Root THEN 1 ELSE 0]
    /\ actor = [a \in Actors |-> Idle]
    /\ entry = [t \in Tasks |-> "none"]
    /\ control = FALSE
    /\ orphans = {}
    /\ jobs = [t \in Tasks |-> {}]
    /\ lost = {}
    /\ checks = {}
    /\ stamping = {}
    /\ resolver = [r \in Resolvers |-> NoTask]
    /\ daemon = "up"
    /\ sweep = {}
    /\ crashes = 0

At(a, pc) == daemon # "down" /\ actor[a].pc = pc
Goto(a, pc) == actor' = [actor EXCEPT ![a].pc = pc]
Return(a) == actor' = [actor EXCEPT ![a] = Idle]

\* A thread is through with its task: a worker has its invocation to close,
\* the sweep and the reaper consume without one.
Leave(a) ==
    actor' = [actor EXCEPT ![a] =
        IF a \in Workers THEN [Idle EXCEPT !.pc = "close", !.task = actor[a].task] ELSE Idle]

Put(t) == [queue EXCEPT ![t] = @ + 1]
PutIfAbsent(t) == [queue EXCEPT ![t] = IF @ = 0 THEN 1 ELSE @]

Write(t, row) == task' = [task EXCEPT ![t] = row]

-----------------------------------------------------------------------------
(* run_step: entry, preparation, claim, agent session                      *)

\* A worker dequeues a task and reads its row; a settled one is dropped.
Enter(w, t) ==
    /\ daemon = "up"
    /\ actor[w].pc = "idle"
    /\ queue[t] > 0
    /\ queue' = [queue EXCEPT ![t] = @ - 1]
    /\ \/ /\ Exists(t) /\ ~AlreadyTerminal(t)
          /\ actor' = [actor EXCEPT ![w] = [Idle EXCEPT
                          !.pc = "prepare", !.task = t, !.step = task[t].steps,
                          !.from = <<task[t].status, task[t].block>>]]
       \/ (Exists(t) => AlreadyTerminal(t)) /\ UNCHANGED actor
    /\ UNCHANGED <<task, journal, jobVars, founderVars, bootVars>>

\* Mutant: only a task that has ended settles an unknown invocation.
SettledWhenTerminal(t) == entry[t] = "unknown" /\ IsTerminal(t)

\* _observe_settled_producers: an unknown invocation whose exact report is
\* there and whose task has moved on has nothing more to do.
SettledProducer(t) ==
    entry[t] = "unknown" /\ task[t].report # "none" /\ ~Running(t)

\* Mutant: an invocation that has not been launched is nobody's.
BarredOnceLaunched(t) == entry[t] \notin {"none", "prepared"} /\ ~SettledProducer(t)

\* The task's invocation is live, or its fate is unknown.
Barred(t) == entry[t] # "none" /\ ~SettledProducer(t)

\* eligible() on the row that the worker read, with the children and the
\* jobs of that row as they are now.
EligibleAsRead(w) ==
    LET t == actor[w].task IN
    \/ actor[w].from = <<"pending", "none">>
    \/ /\ actor[w].from = <<"in_progress", "delegated">>
       /\ \A c \in Children(t) : SettledForParent(c)
    \/ /\ actor[w].from = <<"in_progress", "job">>
       /\ jobs[t] = {} \/ actor[w].step # task[t].steps

\* The entry that makes the worker the owner of the task's next invocation;
\* an item of a task that has an owner is dropped, like an ineligible one.
Prepare(w) ==
    LET t == actor[w].task IN
    /\ At(w, "prepare")
    /\ \/ /\ ~Barred(t) /\ EligibleAsRead(w)
          /\ entry' = [entry EXCEPT ![t] = "prepared"]
          /\ control' = TRUE
          /\ Goto(w, "claim")
       \/ /\ Barred(t) \/ ~EligibleAsRead(w)
          /\ Return(w)
          /\ UNCHANGED journal
    /\ UNCHANGED <<task, queue, jobVars, founderVars, bootVars>>

SameFingerprint(a) ==
    LET t == actor[a].task IN
    /\ actor[a].from = <<task[t].status, task[t].block>>
    /\ actor[a].step = task[t].steps

\* Mutant: the claim takes the row as the worker read it.
TakenAsRead(w) == ~task[actor[w].task].cancelled

\* The row is still the one the worker read, and may run.
StillCurrent(w) == SameFingerprint(w) /\ Eligible(actor[w].task)

\* The claiming transaction, just before the launch.
Claim(w) ==
    LET t == actor[w].task IN
    /\ At(w, "claim")
    /\ StillCurrent(w)
    /\ Write(t, [task[t] EXCEPT !.status = "in_progress", !.block = "none",
                    !.steps = @ + 1, !.fanout = FALSE, !.report = "none"])
    /\ actor' = [actor EXCEPT ![w].pc = "agent", ![w].step = @ + 1]
    /\ entry' = [entry EXCEPT ![t] = "launched"]
    /\ UNCHANGED <<queue, control, jobVars, founderVars, bootVars>>

\* _fail's update.
FailedRow(t) == [task[t] EXCEPT !.status = "failed", !.block = "none", !.chain = 0, !.fanout = FALSE]

\* The preparation failed before the launch (settle_refusal): the task fails,
\* if it is still the one that was read, and its parent is looked at.
RefuseLaunch(w) ==
    LET t == actor[w].task IN
    /\ At(w, "claim")
    /\ t \in Refusable
    /\ StillCurrent(w)
    /\ Write(t, FailedRow(t))
    /\ Goto(w, "wake")
    /\ UNCHANGED <<queue, journal, jobVars, founderVars, bootVars>>

\* A worker that lost the row gives the invocation up.
GiveUp(w) ==
    /\ At(w, "claim")
    /\ ~StillCurrent(w)
    /\ Leave(w)
    /\ UNCHANGED <<task, queue, journal, jobVars, founderVars, bootVars>>

\* Mutant: the entry stays behind when the worker is through.
NeverCloses(w) ==
    /\ At(w, "close")
    /\ Return(w)
    /\ UNCHANGED <<task, queue, journal, jobVars, founderVars, bootVars>>

\* release_live and close: the entry is removed, or kept as unknown where
\* nothing shows that the launched process tree is gone.
Close(w) ==
    LET t == actor[w].task IN
    /\ At(w, "close")
    /\ \E phase \in {"none", "unknown"} :
         /\ phase = "unknown" => entry[t] = "launched" /\ t \in Unseen
         /\ entry' = [entry EXCEPT ![t] = phase]
    /\ Return(w)
    /\ UNCHANGED <<task, queue, control, jobVars, founderVars, bootVars>>

Final == {"done", "giveup"}

\* The rows a decision needs, the later legs of a chain included.
Rows(d) == CASE d = "delegate" -> 1
             [] d = "chain" -> ChainLegs
             [] d \in {"fanout", "fanout_managers"} -> Width
             [] OTHER -> 0

\* What the agent of t may report: a subtask's decision is always "done",
\* and the bounds leave only what ends the task or has room in the table.
MayReport(t, d) ==
    /\ d \in Decisions
    /\ task[t].kind = "subtask" => d \in Final \cup {"block"}
    /\ task[t].steps > MaxSteps => d \in Final
    /\ Used + Rows(d) <= MaxTasks

\* The completion callback: refused for a settled task (Guard A) and for a
\* session that is not the task's current one.
SubmitCompletion(w, d) ==
    LET t == actor[w].task IN
    /\ daemon = "up"
    /\ At(w, "agent")
    /\ ~AlreadyTerminal(t)
    /\ actor[w].step = task[t].steps
    /\ task[t].report = "none"
    /\ MayReport(t, d)
    /\ Write(t, [task[t] EXCEPT !.report = d])
    /\ jobs' = IF d = "block" THEN [jobs EXCEPT ![t] = Jobs] ELSE jobs
    /\ UNCHANGED <<queue, actor, journal, lost, checks, founderVars, bootVars>>

\* The session ended and the row is read again (Guard B): a cancelled task's
\* report is dropped; without success and report the task fails.
AgentReturns(w, success) ==
    LET t == actor[w].task IN
    /\ At(w, "agent")
    /\ \/ task[t].cancelled /\ Leave(w)
       \/ /\ ~task[t].cancelled
          /\ Goto(w, IF success /\ task[t].report # "none" THEN "consume" ELSE "fail")
    /\ UNCHANGED <<task, queue, journal, jobVars, founderVars, bootVars>>

-----------------------------------------------------------------------------
(* Consuming a completion report                                           *)

ConsumeUnchanged == UNCHANGED <<journal, jobVars, founderVars, bootVars>>

Report(a) == task[actor[a].task].report

\* "done", and everything a subtask reports: _complete, first its test.
ConsumeDone(a) ==
    /\ At(a, "consume")
    /\ Report(a) = "done"
    /\ IF AlreadyTerminal(actor[a].task) THEN Leave(a) ELSE Goto(a, "write")
    /\ UNCHANGED <<task, queue>>
    /\ ConsumeUnchanged

\* _complete's update, which tests nothing.
CompleteWrite(a) ==
    LET t == actor[a].task IN
    /\ At(a, "write")
    /\ Write(t, [task[t] EXCEPT !.status = "completed", !.block = "none"])
    /\ Goto(a, "wake")
    /\ UNCHANGED queue
    /\ ConsumeUnchanged

\* Blocked without jobs, or an escalation below the root.
ConsumeRefusal(a) ==
    /\ At(a, "consume")
    /\ \/ Report(a) = "giveup"
       \/ Report(a) = "escalate" /\ actor[a].task # Root
    /\ Goto(a, "fail")
    /\ UNCHANGED <<task, queue>>
    /\ ConsumeUnchanged

\* _fail: test and update under the database lock; the wake follows anyway.
Fail(a) ==
    LET t == actor[a].task IN
    /\ At(a, "fail")
    /\ task' = IF AlreadyTerminal(t) THEN task
               ELSE [task EXCEPT ![t] = FailedRow(t)]
    /\ Goto(a, "wake")
    /\ UNCHANGED queue
    /\ ConsumeUnchanged

\* Blocked on jobs: parked unconditionally, then the resume check.
ConsumeBlock(a) ==
    LET t == actor[a].task IN
    /\ At(a, "consume")
    /\ Report(a) = "block"
    /\ Write(t, [task[t] EXCEPT !.status = "in_progress", !.block = "job"])
    /\ Goto(a, "resume")
    /\ UNCHANGED queue
    /\ ConsumeUnchanged

Resumable(t) == Parked(t, "job") /\ jobs[t] = {}

ResumeAfterPark(a) ==
    /\ At(a, "resume")
    /\ queue' = IF Resumable(actor[a].task) THEN Put(actor[a].task) ELSE queue
    /\ Leave(a)
    /\ UNCHANGED task
    /\ ConsumeUnchanged

\* try_escalate: compare-and-swap on the root's row.
ConsumeEscalate(a) ==
    LET t == actor[a].task IN
    /\ At(a, "consume")
    /\ Report(a) = "escalate"
    /\ t = Root
    /\ task' = IF AlreadyTerminal(t) THEN task
               ELSE [task EXCEPT ![t] = [@ EXCEPT !.status = "escalated", !.block = "none"]]
    /\ Leave(a)
    /\ UNCHANGED queue
    /\ ConsumeUnchanged

\* A decision that does not validate: back to pending, unconditionally.
ConsumeFeedback(a) ==
    LET t == actor[a].task IN
    /\ At(a, "consume")
    /\ Report(a) = "feedback"
    /\ Write(t, [task[t] EXCEPT !.status = "pending", !.block = "none"])
    /\ queue' = Put(t)
    /\ Leave(a)
    /\ ConsumeUnchanged

\* Mutant: the spawning transaction looks at the status alone.
ClaimIgnoresSession(a) == Parked(actor[a].task, "none") \/ IsTerminal(actor[a].task)

\* The retry claim that try_delegate and try_delegate_many compare.
ClaimMatches(a) ==
    LET t == actor[a].task IN
    Running(t) /\ ~task[t].cancelled /\ actor[a].step = task[t].steps

\* Parent parked, n children inserted and enqueued.
Spawn(a, n, kind, parent) ==
    LET t == actor[a].task IN
    \/ /\ ClaimMatches(a)
       /\ Used + n <= MaxTasks
       /\ task' = [u \in Tasks |-> CASE u = t -> parent
                                     [] u \in NextIds(n) -> NewTask(t, kind)
                                     [] OTHER -> task[u]]
       /\ queue' = [u \in Tasks |-> IF u \in NextIds(n) THEN queue[u] + 1 ELSE queue[u]]
    \/ ~ClaimMatches(a) /\ UNCHANGED <<task, queue>>

\* try_delegate; a plain delegation leaves active_chain as it finds it.
ConsumeDelegate(a) ==
    LET t == actor[a].task IN
    /\ At(a, "consume")
    /\ \/ /\ Report(a) = "delegate"
          /\ Spawn(a, 1, "subtask", [task[t] EXCEPT !.block = "delegated"])
       \/ /\ Report(a) = "chain"
          /\ Spawn(a, 1, "subtask",
                   [task[t] EXCEPT !.block = "delegated", !.chain = ChainLegs])
    /\ Leave(a)
    /\ ConsumeUnchanged

\* try_delegate_many: leaf children, or children owned by managers.
ConsumeFanout(a) ==
    LET t == actor[a].task
        parent == [task[t] EXCEPT !.block = "delegated", !.fanout = TRUE] IN
    /\ At(a, "consume")
    /\ \/ Report(a) = "fanout" /\ Spawn(a, Width, "subtask", parent)
       \/ Report(a) = "fanout_managers" /\ Spawn(a, Width, "task", parent)
    /\ Leave(a)
    /\ ConsumeUnchanged

-----------------------------------------------------------------------------
(* _enqueue_parent_if_waiting                                              *)

\* Reads the parent; a completed or landed newest child of a chained parent
\* goes through the chain.
WakeParent(a) ==
    LET t == actor[a].task
        p == task[t].parent
        waits == p # NoTask /\ Parked(p, "delegated")
        chained == task[p].chain > 0
        trigger == task[t].status = "completed" \/ (~IsTerminal(t) /\ LandedTerminalReport(t))
    IN
    /\ At(a, "wake")
    /\ \/ ~waits /\ Leave(a)
       \/ /\ waits
          /\ actor' = [actor EXCEPT
                ![a].pc = IF chained /\ trigger /\ Newest(t) THEN "advance" ELSE "siblings",
                ![a].chained = chained]
    /\ UNCHANGED <<task, queue>>
    /\ ConsumeUnchanged

\* The next leg, inserted with the advanced chain in one transaction that
\* does not look at the parent's status; or the transaction fails and the
\* parent is woken with its chain; or the chain ends, by its last leg or by
\* a verdict other than the expected one.
AdvanceChain(a) ==
    LET p == task[actor[a].task].parent IN
    /\ At(a, "advance")
    /\ \/ /\ task[p].chain > 1
          /\ Used < MaxTasks
          /\ task' = [task EXCEPT ![p].chain = @ - 1, ![Used + 1] = NewTask(p, "subtask")]
          /\ queue' = Put(Used + 1)
          /\ Leave(a)
       \/ /\ task[p].chain > 1
          /\ Goto(a, "siblings")
          /\ UNCHANGED <<task, queue>>
       \/ /\ Write(p, [task[p] EXCEPT !.chain = 0])
          /\ Goto(a, "siblings")
          /\ UNCHANGED queue
    /\ ConsumeUnchanged

AllSiblingsSettled(p) == \A c \in Children(p) : SettledForParent(c)

\* All siblings settled: clear the chain if one of them failed, and publish
\* one bounded wake.
WakeWhenSettled(a) ==
    LET p == task[actor[a].task].parent
        failed == \E c \in Children(p) : task[c].status = "failed" IN
    /\ At(a, "siblings")
    /\ \/ /\ AllSiblingsSettled(p)
          /\ queue' = PutIfAbsent(p)
          /\ task' = IF failed /\ actor[a].chained
                       THEN [task EXCEPT ![p].chain = 0] ELSE task
       \/ ~AllSiblingsSettled(p) /\ UNCHANGED <<task, queue>>
    /\ Leave(a)
    /\ ConsumeUnchanged

-----------------------------------------------------------------------------
(* Jobs, as far as waiting for them goes                                   *)

\* The job's row turns terminal; then its resume check is scheduled.
JobEnds(t, j) ==
    /\ daemon = "up"
    /\ j \in jobs[t]
    /\ t \notin lost
    /\ jobs' = [jobs EXCEPT ![t] = @ \ {j}]
    /\ checks' = checks \cup {t}
    /\ UNCHANGED <<task, queue, actor, journal, lost, founderVars, bootVars>>

ResumeCheck(t) ==
    /\ daemon = "up"
    /\ t \in checks
    /\ checks' = checks \ {t}
    /\ queue' = IF Resumable(t) THEN Put(t) ELSE queue
    /\ UNCHANGED <<task, actor, journal, jobs, lost, founderVars, bootVars>>

-----------------------------------------------------------------------------
(* The founder                                                             *)

\* The stack of the walk is exhausted: S has every live child of its members.
HoldsLiveChildren(S) ==
    \A c \in Tasks : (Exists(c) /\ ~IsTerminal(c) /\ task[c].parent \in S) => c \in S

\* The non-terminal part of the subtree: a terminal task hides its children.
LiveUnder(t) ==
    {u \in Tasks : \A S \in SUBSET Tasks : (t \in S /\ HoldsLiveChildren(S)) => u \in S}

\* cancel: the task, with its live subtree unless the request says not to
\* cascade, is collected ...
CancelCollect(t) ==
    /\ daemon = "up"
    /\ stamping = {}
    /\ t \in Cancellable
    /\ Exists(t) /\ ~IsTerminal(t)
    /\ \E cascade \in BOOLEAN : stamping' = IF cascade THEN LiveUnder(t) ELSE {t}
    /\ UNCHANGED <<task, queue, actor, journal, jobVars, resolver, bootVars>>

\* Mutant: the stamp leaves block_kind behind.
StampKeepsBlock(t) ==
    /\ daemon = "up"
    /\ t \in stamping
    /\ task[t].parent \notin stamping
    /\ stamping' = stamping \ {t}
    /\ Write(t, [task[t] EXCEPT !.status = "cancelled", !.cancelled = TRUE])
    /\ UNCHANGED <<queue, actor, journal, jobVars, resolver, bootVars>>

\* ... and stamped row by row, parents first, whatever the rows are by then.
\* The route kills sessions afterwards and wakes no parent.
CancelStamp(t) ==
    /\ daemon = "up"
    /\ t \in stamping
    /\ task[t].parent \notin stamping
    /\ stamping' = stamping \ {t}
    /\ Write(t, [task[t] EXCEPT !.status = "cancelled", !.block = "none", !.cancelled = TRUE])
    /\ UNCHANGED <<queue, actor, journal, jobVars, resolver, bootVars>>

\* resolve-escalation "continue": validated on one read of the row ...
ResolveRead(r, t) ==
    /\ daemon = "up"
    /\ resolver[r] = NoTask
    /\ task[t].status = "escalated"
    /\ \A c \in Children(t) : IsTerminal(c)
    /\ resolver' = [resolver EXCEPT ![r] = t]
    /\ UNCHANGED <<task, queue, actor, journal, jobVars, stamping, bootVars>>

\* ... and written unconditionally once the request has db_lock.
ResolveContinue(r) ==
    LET t == resolver[r] IN
    /\ daemon = "up"
    /\ t # NoTask
    /\ stamping = {}
    /\ Write(t, [task[t] EXCEPT !.status = "pending", !.block = "none"])
    /\ queue' = Put(t)
    /\ resolver' = [resolver EXCEPT ![r] = NoTask]
    /\ UNCHANGED <<actor, journal, jobVars, stamping, bootVars>>

-----------------------------------------------------------------------------
(* Rediscovery                                                             *)

\* Mutant: the tick is left to the zombies.
NeverRediscovered(t) == FALSE

\* discover_pause_work looks at a task of a tree that has a journal.
Rediscovered(t) == control /\ Eligible(t) /\ queue[t] < MaxItems

\* Every tick of the reaper loop publishes what may run, whether or not it
\* is queued or has an owner already. (The entries that it settles are the
\* ones SettledProducer leaves out.)
Rediscover(t) ==
    /\ daemon = "up"
    /\ Rediscovered(t)
    /\ queue' = Put(t)
    /\ UNCHANGED <<task, actor, journal, jobVars, founderVars, bootVars>>

-----------------------------------------------------------------------------
(* Crash, startup sweep, zombie reaper                                     *)

\* restore_pause_preparations, run by the next boot: nothing that a crash
\* left open in the journal is taken for finished.
Restored(phase) == CASE phase = "prepared" -> "unclosed"
                     [] phase = "launched" -> "unknown"
                     [] OTHER -> phase

\* Everything in memory is lost; agent processes may survive as orphans,
\* and nothing establishes what became of the jobs that were running.
Crash ==
    /\ daemon # "down"
    /\ crashes < MaxCrashes
    /\ crashes' = crashes + 1
    /\ daemon' = "down"
    /\ \E survivors \in SUBSET {actor[w].task : w \in {v \in Workers : actor[v].pc = "agent"}} :
         orphans' = orphans \cup survivors
    /\ actor' = [a \in Actors |-> Idle]
    /\ queue' = [t \in Tasks |-> 0]
    /\ entry' = [t \in Tasks |-> Restored(entry[t])]
    /\ \E unknown \in SUBSET {t \in Tasks : jobs[t] # {}} : lost' = lost \cup unknown
    /\ checks' = {}
    /\ stamping' = {}
    /\ resolver' = [r \in Resolvers |-> NoTask]
    /\ sweep' = {}
    /\ UNCHANGED <<task, control, jobs>>

\* An orphan ends by itself; its callbacks meet an empty session tracker.
OrphanEnds(t) ==
    /\ t \in orphans
    /\ orphans' = orphans \ {t}
    /\ UNCHANGED <<task, queue, actor, journal, jobVars, founderVars, daemon, sweep, crashes>>

Boot ==
    /\ daemon = "down"
    /\ daemon' = "boot"
    /\ sweep' = {t \in Tasks : Exists(t) /\ ~IsTerminal(t)}
    /\ UNCHANGED <<task, queue, actor, journal, jobVars, founderVars, orphans, crashes>>

\* A thread that takes over t's report.
TakeOver(a, t, pc) ==
    actor' = [actor EXCEPT ![a] = [Idle EXCEPT !.pc = pc, !.task = t, !.step = task[t].steps]]

\* Mutant: a restarted daemon takes every session of its predecessor for dead.
AssumedDead(t) == TRUE

ProcessDead(t) == t \notin orphans

OrphanedWake(t) == Parked(t, "delegated") /\ \A c \in Children(t) : IsTerminal(c)

\* Mutant: an open entry defers a task whose report has landed, too.
DefersReported(t) == entry[t] \in {"prepared", "unknown", "unclosed"}

\* pause_deferred_owner: an open entry, unless the session's report landed.
\* (Of a launched one the sweeps see nothing but the unknown a boot made of it.)
PauseDeferredOwner(t) ==
    task[t].report = "none" /\ entry[t] \in {"prepared", "unknown", "unclosed"}

\* The sweep visits one task, unless its invocation is open in the journal: a
\* dead session's report is consumed; satisfied parked tasks and pending
\* ones are enqueued. (A session without a report always is open in the
\* journal, so that the sweep's own answer to a dead one is never reached.)
SweepVisit(t) ==
    /\ daemon = "boot"
    /\ actor[Sweeper].pc = "idle"
    /\ t \in sweep
    /\ \A u \in sweep : t <= u
    /\ sweep' = sweep \ {t}
    /\ \/ /\ ~PauseDeferredOwner(t)
          /\ Running(t) /\ ProcessDead(t) /\ task[t].report # "none"
          /\ TakeOver(Sweeper, t, "consume")
          /\ UNCHANGED queue
       \/ /\ ~PauseDeferredOwner(t)
          /\ OrphanedWake(t) \/ Resumable(t)
          /\ queue' = PutIfAbsent(t)
          /\ UNCHANGED actor
       \/ /\ ~PauseDeferredOwner(t)
          /\ task[t].status = "pending"
          /\ queue' = Put(t)
          /\ UNCHANGED actor
       \/ /\ \/ PauseDeferredOwner(t)
             \/ Running(t) /\ ~ProcessDead(t)
             \/ Parked(t, "delegated") /\ ~OrphanedWake(t)
             \/ Parked(t, "job") /\ ~Resumable(t)
             \/ task[t].status \in Terminal \cup {"escalated"}
          /\ UNCHANGED <<queue, actor>>
    /\ UNCHANGED <<task, journal, jobVars, founderVars, orphans, daemon, crashes>>

\* After the sweep the tasks parked on jobs get one more resume check, the
\* journal is read for what may run, and the workers and the API start.
BootDone ==
    /\ daemon = "boot"
    /\ sweep = {}
    /\ actor[Sweeper].pc = "idle"
    /\ daemon' = "up"
    /\ queue' = [t \in Tasks |-> queue[t] + (IF Resumable(t) THEN 1 ELSE 0)
                                         + (IF Rediscovered(t) THEN 1 ELSE 0)]
    /\ UNCHANGED <<task, actor, journal, jobVars, founderVars, orphans, sweep, crashes>>

\* Stale heartbeat and dead process: the reaper consumes the report that
\* landed. (Its flagging tick only delays this; a session without a report
\* is deferred, so its cancellation of one is never reached.)
Reap(t) ==
    /\ daemon = "up"
    /\ actor[Reaper].pc = "idle"
    /\ Running(t)
    /\ t \notin orphans
    /\ \A a \in Actors : actor[a].task # t
    /\ ~PauseDeferredOwner(t) /\ task[t].report # "none"
    /\ TakeOver(Reaper, t, "consume")
    /\ UNCHANGED <<task, queue, journal, jobVars, founderVars, bootVars>>

-----------------------------------------------------------------------------

ConsumeStep(a) ==
    \/ ConsumeDone(a) \/ CompleteWrite(a) \/ ConsumeRefusal(a) \/ Fail(a)
    \/ ConsumeBlock(a) \/ ResumeAfterPark(a) \/ ConsumeEscalate(a)
    \/ ConsumeFeedback(a) \/ ConsumeDelegate(a) \/ ConsumeFanout(a)
    \/ WakeParent(a) \/ AdvanceChain(a) \/ WakeWhenSettled(a)

ClaimStep(w) == Claim(w) \/ RefuseLaunch(w) \/ GiveUp(w)

AgentEnds(w) == \E success \in BOOLEAN : AgentReturns(w, success)

RunStep(w) == Prepare(w) \/ ClaimStep(w) \/ AgentEnds(w) \/ Close(w)

FounderStep ==
    \/ \E t \in Tasks : CancelCollect(t) \/ CancelStamp(t)
    \/ \E r \in Resolvers : ResolveContinue(r) \/ \E t \in Tasks : ResolveRead(r, t)

Next ==
    \/ \E w \in Workers : \/ \E t \in Tasks : Enter(w, t)
                          \/ \E d \in Decisions : SubmitCompletion(w, d)
                          \/ RunStep(w)
    \/ \E a \in Actors : ConsumeStep(a)
    \/ \E t \in Tasks : \E j \in Jobs : JobEnds(t, j)
    \/ \E t \in Tasks :
         ResumeCheck(t) \/ OrphanEnds(t) \/ SweepVisit(t) \/ Reap(t) \/ Rediscover(t)
    \/ FounderStep
    \/ Crash \/ Boot \/ BootDone

\* Threads run, queued items are served in order (so that an item is served
\* however often others come back), a session and a job end at the latest at
\* their time limits, the supervisor restarts the daemon, and the reaper
\* ticks. Neither agents nor the founder owe anything.
Fairness ==
    /\ \A t \in Tasks :
         /\ SF_vars(\E w \in Workers : Enter(w, t))
         /\ WF_vars(Rediscover(t))
    /\ \A a \in Actors : WF_vars(ConsumeStep(a) \/ (a \in Workers /\ RunStep(a)))
    /\ WF_vars(\E t \in Tasks : ResumeCheck(t))
    /\ WF_vars(\E t \in Tasks : CancelStamp(t))
    /\ WF_vars(\E t \in Tasks : OrphanEnds(t))
    /\ WF_vars(\E t \in Tasks : Reap(t))
    /\ WF_vars(\E t \in Tasks : \E j \in Jobs : JobEnds(t, j))
    /\ WF_vars(\E r \in Resolvers : ResolveContinue(r))
    /\ WF_vars(Boot) /\ WF_vars(BootDone) /\ WF_vars(\E t \in Tasks : SweepVisit(t))

Spec == Init /\ [][Next]_vars
FairSpec == Spec /\ Fairness

-----------------------------------------------------------------------------
(* Properties                                                              *)

\* The worker has t's invocation in hand, from its preparation to its close.
Holds(w, t) == actor[w].task = t /\ actor[w].pc \notin {"idle", "prepare"}

\* What may have an agent process of t: the invocations that workers have in
\* hand, and the process that may have outlived a daemon.
Sessions(t) ==
    Cardinality({w \in Workers : Holds(w, t)}) + (IF t \in orphans THEN 1 ELSE 0)

\* However often a task is in the queue and whoever dequeues, sweeps or
\* recovers it, it has at most one invocation, and none while the process of
\* an earlier daemon still works on it: the journal entry is the admission,
\* the claim compares, and neither sweep nor reaper touches a live session.
OneSession == \A t \in Tasks : Sessions(t) <= 1

\* A task that may run is refused by run_step only while an invocation of it
\* is in a worker's hands, or after a crash that found one prepared and not
\* launched: neither a process tree that was never seen to end nor a crash
\* in mid-session leaves an entry that bars the task from its next step.
OnlyLiveInvocationsBar ==
    daemon = "up" =>
        \A t \in Tasks :
            Eligible(t) /\ Barred(t) => entry[t] = "unclosed" \/ \E w \in Workers : Holds(w, t)

\* A task that has ended is not run again, however stale the row was that a
\* worker read before it ended.
EndedNeverRuns ==
    [][\A t \in Tasks : IsTerminal(t) => task'[t].steps = task[t].steps]_vars

\* The entry contract of run_step for a delegating parent: it is resumed
\* only when every child is terminal, or has reported that it is.
NoLiveChildAtResume ==
    [][\A p \in Tasks :
         /\ Parked(p, "delegated") /\ task'[p].steps > task[p].steps
         => \A c \in Children(p) : IsTerminal(c) \/ task[c].report \in Final]_vars

\* The journal keeps an invocation that a crash interrupted before its report:
\* neither the sweep nor the reaper decides for the founder what it did.
Retained(u) ==
    entry[u] = "unclosed" \/ (entry[u] = "unknown" /\ task[u].report = "none" /\ Running(u))

\* The founder's stamp on a task that the decision of its session overwrote.
Overwritten(u) == task[u].cancelled /\ ~IsTerminal(u)

\* A task below t waits for a job whose end the restarted daemon cannot see,
\* has an invocation of unknown fate, or is cancelled and open at once.
Stranded(t) ==
    \E u \in Tasks :
        /\ Retained(u) \/ Overwritten(u) \/ (u \in lost /\ jobs[u] # {})
        /\ u \in LiveUnder(t)

\* Every task ends, is handed to the founder or waits for what a crash left
\* unknown or a decision left of a cancellation: no order of completions,
\* dropped and repeated wakes, cancelled children, crashes and sweeps
\* strands it otherwise.
AllSettle ==
    \A t \in Tasks :
        Exists(t) ~> \/ AlreadyTerminal(t) \/ task[t].status = "escalated"
                     \/ Stranded(t)

\* Threads that have read t's chain and will insert its next leg.
Advancing(t) == {a \in Actors : actor[a].pc = "advance" /\ task[actor[a].task].parent = t}

\* Once the founder's stamp is on a task, it gets no further session, nobody
\* sets out to advance its chain, and it gets no further child but one leg
\* from each thread that was advancing the chain when the stamp came:
\* whatever its session, its worker or a resolve request still has in hand.
CancelledStaysDown ==
    [][\A t \in Tasks : task[t].cancelled =>
            /\ task'[t].steps = task[t].steps
            /\ Advancing(t)' \subseteq Advancing(t)
            /\ \/ Children(t)' = Children(t)
               \/ /\ Advancing(t)' # Advancing(t)
                  /\ \E leg \in Tasks : Children(t)' = Children(t) \cup {leg}]_vars

\* What the cancel-race design says of a cancellation: a hard stop, which no
\* decision of the session in flight overwrites.
CancelIsHardStop ==
    [][\A t \in Tasks : task[t].status = "cancelled" => task'[t].status = "cancelled"]_vars

\* What _enqueue_parent_if_waiting says of a parent whose chain has just been
\* advanced: it stays parked while the next leg works.
NextLegKeepsParentParked ==
    [][\A p \in Tasks :
         Advancing(p)' # Advancing(p) /\ Children(p)' # Children(p)
            => Parked(p, "delegated")']_vars

=============================================================================
