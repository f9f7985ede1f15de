------------------------- MODULE TaskLifecycleProofs -------------------------
(***************************************************************************)
(* Proofs about TaskLifecycle, for any number of tasks, workers, sessions  *)
(* and crashes: types; one thread at a time on the report of a session; a  *)
(* parent is resumed over settled children only; a task that has ended or  *)
(* was cancelled gets no session. (TaskJournalProofs has the journal.)     *)
(***************************************************************************)
EXTENDS TaskLifecycle, FiniteSetTheorems, TLAPS

-----------------------------------------------------------------------------
(* The inductive invariant                                                 *)

\* The rows of the table are the first n, a row that is not there is not
\* cancelled, and a parent is a row.
RowsInOrder ==
    /\ \E n \in 0 .. MaxTasks : \A t \in Tasks : Exists(t) <=> t <= n
    /\ \A t \in Tasks : ~Exists(t) => ~task[t].cancelled
    /\ \A t \in Tasks :
         Exists(t) /\ task[t].parent # NoTask => task[t].parent \in Tasks /\ Exists(task[t].parent)

\* Threads, cancellations and resolve requests have rows in hand that exist;
\* a thread that goes on to the parent has one.
RowsInHand ==
    /\ \A a \in Actors : actor[a].pc # "idle" => actor[a].task \in Tasks /\ Exists(actor[a].task)
    /\ \A a \in Actors : actor[a].pc \in {"advance", "siblings"} => task[actor[a].task].parent \in Tasks
    /\ \A t \in stamping : Exists(t)
    /\ \A r \in Resolvers : resolver[r] # NoTask => Exists(resolver[r])

Base == TypeOK /\ RowsInOrder /\ RowsInHand

\* The thread runs or consumes the session of t, and will write its row.
Driving == {"agent", "consume", "write", "fail"}
Drives(a, t) == actor[a].task = t /\ actor[a].pc \in Driving

\* A session, whether driven or left behind by a crash, has its task in
\* progress, unless the task was cancelled, which is final for admission.
Owned ==
    \A t \in Tasks :
        (t \in orphans \/ \E a \in Actors : Drives(a, t)) => Running(t) \/ task[t].cancelled

\* One session per task.
OneDriver ==
    \A t \in Tasks : \A a \in Actors :
        Drives(a, t) => t \notin orphans /\ \A b \in Actors : Drives(b, t) => a = b

\* Until the startup sweep is done, only the sweep has anything in hand.
QuietBoot ==
    \A a \in Actors : daemon = "down" \/ (daemon = "boot" /\ a # Sweeper) => actor[a].pc = "idle"

\* What a resolve request has validated is still escalated, or cancelled.
Validated ==
    \A r \in Resolvers :
        resolver[r] # NoTask => task[resolver[r]].status = "escalated" \/ task[resolver[r]].cancelled

Inv == Base /\ Owned /\ OneDriver /\ QuietBoot /\ Validated

\* One resolve request at a time.
OneResolver == \A r, s \in Resolvers : r = s

\* Reports are decisions, a subtask reports no decision of a manager, and
\* where nobody fans out to managers every child is a subtask.
Reports ==
    \A t \in Tasks :
        /\ task[t].report = "none" \/ task[t].report \in Decisions
        /\ task[t].kind = "subtask" => task[t].report \in Final \cup {"block", "none"}
        /\ (Exists(t) /\ task[t].parent # NoTask) => task[t].kind = "subtask"

-----------------------------------------------------------------------------
(* The table                                                               *)

\* A table that has lost nothing.
TableStep ==
    /\ task' \in [Tasks -> TaskRecord]
    /\ \A t \in Tasks : task'[t].block # "none" => task'[t].status = "in_progress"
    /\ \A t \in Tasks : Exists(t) => Exists(t)' /\ task'[t].parent = task[t].parent
    /\ RowsInOrder'

\* The rows that exist are counted by Used.
LEMMA UsedFacts ==
    ASSUME TypeOK, RowsInOrder
    PROVE  Used \in 0 .. MaxTasks /\ \A t \in Tasks : Exists(t) <=> t <= Used
<1>1. PICK n \in 0 .. MaxTasks : \A t \in Tasks : Exists(t) <=> t <= n
  BY DEF RowsInOrder
<1>2. MaxTasks \in Nat /\ n \in Nat /\ n <= MaxTasks
  BY BoundsAssumption
<1>3. {t \in Tasks : Exists(t)} = 1 .. n
  BY <1>1, <1>2 DEF Tasks
<1>4. Cardinality(1 .. n) = n
  BY <1>2, FS_Interval
<1>5. Used = n
  BY <1>3, <1>4 DEF Used
<1>6. QED BY <1>1, <1>5

\* Rows that the bounds of the table leave room for.
LEMMA NextIdsFacts ==
    ASSUME TypeOK, RowsInOrder, NEW k \in Nat, Used + k <= MaxTasks
    PROVE  /\ NextIds(k) \in SUBSET Tasks
           /\ \A t \in NextIds(k) : ~Exists(t)
           /\ Used + k \in 0 .. MaxTasks
           /\ \A t \in Tasks : t <= Used + k <=> Exists(t) \/ t \in NextIds(k)
<1>1. Used \in Nat /\ MaxTasks \in Nat /\ \A t \in Tasks : Exists(t) <=> t <= Used
  BY UsedFacts, BoundsAssumption
<1>2. \A t \in NextIds(k) : t \in Tasks /\ ~(t <= Used)
  BY <1>1 DEF NextIds, Tasks
<1>3. \A t \in Tasks : t <= Used + k <=> t <= Used \/ t \in NextIds(k)
  BY <1>1 DEF NextIds, Tasks
<1>4. QED BY <1>1, <1>2, <1>3

\* A row that nobody writes.
LEMMA SameTable ==
    ASSUME Base, task' = task
    PROVE  TableStep
BY DEF Base, TypeOK, TableStep, RowsInOrder, Exists

\* One row is written over.
LEMMA WriteTable ==
    ASSUME Base, NEW t \in Tasks, Exists(t), NEW row \in TaskRecord, Write(t, row),
           row.status # "absent", row.parent = task[t].parent,
           row.block # "none" => row.status = "in_progress"
    PROVE  TableStep /\ task'[t] = row /\ \A u \in Tasks : u # t => task'[u] = task[u]
<1>1. task \in [Tasks -> TaskRecord] /\ RowsInOrder
      /\ \A u \in Tasks : task[u].block # "none" => task[u].status = "in_progress"
  BY DEF Base, TypeOK
<1>2. task'[t] = row /\ (\A u \in Tasks : u # t => task'[u] = task[u]) /\ task' \in [Tasks -> TaskRecord]
  BY <1>1 DEF Write
<1>3. \A u \in Tasks : Exists(u)' <=> Exists(u)
  BY <1>2 DEF Exists
<1>4. RowsInOrder'
  <2>1. \E n \in 0 .. MaxTasks : \A u \in Tasks : Exists(u)' <=> u <= n
    BY <1>1, <1>3 DEF RowsInOrder
  <2>2. \A u \in Tasks : ~Exists(u)' => ~task'[u].cancelled
    BY <1>1, <1>2, <1>3 DEF RowsInOrder
  <2>3. \A u \in Tasks : task'[u].parent = task[u].parent
    BY <1>2
  <2>4. \A u \in Tasks : Exists(u)' /\ task'[u].parent # NoTask =>
            task'[u].parent \in Tasks /\ task'[task'[u].parent].status # "absent"
    BY <1>1, <1>3, <2>3 DEF RowsInOrder, Exists
  <2>5. QED BY <2>1, <2>2, <2>4 DEF RowsInOrder, Exists
<1>5. QED BY <1>1, <1>2, <1>3, <1>4 DEF TableStep

\* A new row is a row.
LEMMA NewTaskType ==
    ASSUME NEW p \in Tasks \cup {NoTask}, NEW kind \in {"task", "subtask"}
    PROVE  /\ NewTask(p, kind) \in TaskRecord
           /\ NewTask(p, kind).status = "pending" /\ NewTask(p, kind).block = "none"
           /\ NewTask(p, kind).parent = p /\ NewTask(p, kind).cancelled = FALSE
           /\ NewTask(p, kind).report = "none" /\ NewTask(p, kind).kind = kind
           /\ NewTask(p, kind).steps = 0
<1>1. 0 \in 0 .. ChainLegs
  BY BoundsAssumption
<1>2. QED BY <1>1 DEF NewTask, TaskRecord, Statuses

\* Rows are added, and their parent's row written over.
LEMMA GrowTable ==
    ASSUME Base, NEW k \in Nat, Used + k <= MaxTasks, NEW t \in Tasks, Exists(t),
           NEW row \in TaskRecord, NEW kind \in {"task", "subtask"},
           row.status = task[t].status, row.parent = task[t].parent,
           row.block # "none" => row.status = "in_progress",
           task' \in [Tasks -> TaskRecord], task'[t] = row,
           \A u \in Tasks : u \in NextIds(k) => task'[u] = NewTask(t, kind),
           \A u \in Tasks : u # t /\ u \notin NextIds(k) => task'[u] = task[u]
    PROVE  TableStep
<1>1. RowsInOrder /\ TypeOK /\ t \in Tasks \cup {NoTask}
  BY DEF Base
<1>2. /\ \A u \in NextIds(k) : ~Exists(u)
      /\ Used + k \in 0 .. MaxTasks
      /\ \A u \in Tasks : u <= Used + k <=> Exists(u) \/ u \in NextIds(k)
  BY <1>1, NextIdsFacts
<1>3. t \notin NextIds(k)
  BY <1>2
<1>4. \A u \in NextIds(k) : u \in Tasks =>
          /\ task'[u].status = "pending" /\ task'[u].block = "none" /\ task'[u].cancelled = FALSE
  BY DEF NewTask
<1>5. \A u \in Tasks : Exists(u)' <=> Exists(u) \/ u \in NextIds(k)
  BY <1>3, <1>4 DEF Exists
<1>6. \A u \in Tasks : task'[u].block # "none" => task'[u].status = "in_progress"
  BY <1>1, <1>4 DEF TypeOK
<1>7. \A u \in Tasks : Exists(u) => Exists(u)' /\ task'[u].parent = task[u].parent
  BY <1>2, <1>5
<1>8. RowsInOrder'
  <2>1. \A u \in Tasks : Exists(u)' <=> u <= Used + k
    BY <1>2, <1>5
  <2>2. PICK n \in 0 .. MaxTasks : n = Used + k
    BY <1>2
  <2>3. \E m \in 0 .. MaxTasks : \A u \in Tasks : Exists(u)' <=> u <= m
    BY <2>1, <2>2
  <2>4. \A u \in Tasks : ~Exists(u)' => ~task'[u].cancelled
    BY <1>1, <1>5, <1>3 DEF RowsInOrder, Exists
  <2>5. \A u \in NextIds(k) : u \in Tasks => task'[u].parent = t
    BY DEF NewTask
  <2>6. \A u \in Tasks : u \notin NextIds(k) => task'[u].parent = task[u].parent
    BY <1>3
  <2>7. \A u \in Tasks : Exists(u)' /\ task'[u].parent # NoTask =>
            task'[u].parent \in Tasks /\ task'[task'[u].parent].status # "absent"
    BY <1>1, <1>5, <2>5, <2>6 DEF RowsInOrder, Exists
  <2>8. QED BY <2>3, <2>4, <2>7 DEF RowsInOrder, Exists
<1>9. QED BY <1>6, <1>7, <1>8 DEF TableStep

-----------------------------------------------------------------------------
(* What one step of a thread does to threads and rows                      *)

\* A worker that has no invocation in hand.
Free == {"idle", "prepare"}

\* The thread stays on its task or lets go of it, and takes no session up; a
\* worker lets go of an invocation only by closing it.
ActorMoves(a) ==
    /\ actor' \in [Actors -> ActorRecord]
    /\ \A b \in Actors : b # a => actor'[b] = actor[b]
    /\ actor'[a].pc # "idle" => actor[a].pc # "idle" /\ actor'[a].task = actor[a].task
    /\ actor'[a].pc \in {"advance", "siblings"} => task[actor[a].task].parent \in Tasks
    /\ actor'[a].pc \in Driving => actor[a].pc \in Driving
    /\ actor'[a].pc = "advance" => Parked(task[actor[a].task].parent, "delegated")
    /\ actor'[a].pc \notin Free => actor[a].pc \notin Free
    /\ actor'[a].pc # "prepare"
    /\ a \in Workers /\ actor[a].pc \notin Free \cup {"close"} => actor'[a].pc \notin Free

\* The fields that consuming a report leaves alone in every row.
SameSession(u) ==
    /\ task'[u].cancelled = task[u].cancelled /\ task'[u].steps = task[u].steps
    /\ task'[u].kind = task[u].kind /\ task'[u].report = task[u].report

SameState(u) == task'[u].status = task[u].status /\ task'[u].block = task[u].block

\* A new row below a task that is not cancelled, or the one leg of a thread
\* that was advancing; a child that is no subtask is one a manager asked for.
Born(a, u) ==
    /\ task'[u].status = "pending" /\ ~task'[u].cancelled /\ task'[u].report = "none"
    /\ task'[u].parent \in Tasks /\ Exists(task'[u].parent)
    /\ \/ ~task[task'[u].parent].cancelled
       \/ /\ u = Used + 1 /\ a \in Advancing(task'[u].parent)
          /\ actor'[a].pc # "advance"
    /\ \/ task'[u].kind = "subtask"
       \/ actor[a].task \in Tasks /\ task[actor[a].task].report = "fanout_managers"

\* The thread changes the state of no task but its own, and gives up its
\* session as it does; without a report it can only end it.
TableMoves(a) ==
    /\ TableStep
    /\ \A u \in Tasks : Exists(u) => SameSession(u)
    /\ \A u \in Tasks : Exists(u) /\ u # actor[a].task => SameState(u)
    /\ ~SameState(actor[a].task) => actor[a].pc \in Driving /\ actor'[a].pc \notin Driving
    /\ ~SameState(actor[a].task) =>
         task'[actor[a].task].status \in Terminal \/ task[actor[a].task].report # "none"
    /\ \A u \in Tasks : ~Exists(u) => task'[u] = task[u] \/ Born(a, u)
    /\ \A u \in Tasks : task'[u].block = "delegated" => task[u].block = "delegated" \/ ~task[u].cancelled

\* A step of a thread on its task.
Moves(a) ==
    /\ ActorMoves(a) /\ TableMoves(a)
    /\ actor[a].pc # "idle" /\ actor[a].pc # "close"
    /\ queue' \in [Tasks -> Nat]
    /\ UNCHANGED <<journal, jobVars, founderVars, bootVars>>

\* The row a busy thread has in hand.
LEMMA InHand ==
    ASSUME Base, NEW a \in Actors, actor[a].pc # "idle"
    PROVE  /\ actor[a] \in ActorRecord /\ actor[a].task \in Tasks /\ Exists(actor[a].task)
           /\ task[actor[a].task] \in TaskRecord
BY DEF Base, TypeOK, RowsInHand

\* What a thread is when it is through.
LEMMA IdleType == Idle \in ActorRecord /\ Idle.pc = "idle"
<1>1. <<"absent", "none">> \in Statuses \X {"none", "delegated", "job"}
  BY DEF Statuses
<1>2. QED BY <1>1 DEF Idle, ActorRecord, PCs

\* A thread returns.
LEMMA Returns ==
    ASSUME Base, NEW a \in Actors, Return(a), actor[a].pc \in {"prepare", "close"}
    PROVE  ActorMoves(a) /\ actor'[a] = Idle /\ actor'[a].pc = "idle"
<1>1. Idle \in ActorRecord /\ Idle.pc = "idle"
  BY IdleType
<1>2. actor \in [Actors -> ActorRecord]
  BY DEF Base, TypeOK
<1>3. actor'[a] = Idle /\ \A b \in Actors : b # a => actor'[b] = actor[b]
  BY <1>2 DEF Return
<1>4. actor' \in [Actors -> ActorRecord]
  BY <1>1, <1>2 DEF Return
<1>5. QED BY <1>1, <1>3, <1>4 DEF ActorMoves, Driving, Free

\* A thread is through with its task.
LEMMA Leaves ==
    ASSUME Base, NEW a \in Actors, actor[a].pc \notin Free, Leave(a)
    PROVE  /\ ActorMoves(a) /\ actor'[a].pc \in {"close", "idle"}
           /\ actor'[a].pc \notin Driving /\ actor'[a].pc # "advance"
<1>1. PICK r : r = IF a \in Workers THEN [Idle EXCEPT !.pc = "close", !.task = actor[a].task] ELSE Idle
  OBVIOUS
<1>2. actor \in [Actors -> ActorRecord] /\ actor[a].task \in Tasks /\ actor[a].pc # "idle"
  BY InHand DEF Base, TypeOK, Free
<1>3. /\ r \in ActorRecord
      /\ r.pc = (IF a \in Workers THEN "close" ELSE "idle")
      /\ a \in Workers => r.task = actor[a].task
  BY <1>1, <1>2, IdleType DEF ActorRecord, PCs
<1>4. actor'[a] = r /\ \A b \in Actors : b # a => actor'[b] = actor[b]
  BY <1>1, <1>2 DEF Leave
<1>5. actor' \in [Actors -> ActorRecord]
  BY <1>1, <1>2, <1>3 DEF Leave
<1>6. QED BY <1>2, <1>3, <1>4, <1>5 DEF ActorMoves, Driving, Free

\* A thread goes on to its next step.
LEMMA GoesOn ==
    ASSUME Base, NEW a \in Actors, actor[a].pc \notin Free, NEW pc \in PCs \ Free, Goto(a, pc),
           pc # "advance", pc = "siblings" => task[actor[a].task].parent \in Tasks,
           pc \in Driving => actor[a].pc \in Driving
    PROVE  ActorMoves(a) /\ actor'[a].pc = pc
<1>1. actor \in [Actors -> ActorRecord]
  BY DEF Base, TypeOK
<1>2. actor'[a] = [actor[a] EXCEPT !.pc = pc] /\ \A b \in Actors : b # a => actor'[b] = actor[b]
  BY <1>1 DEF Goto
<1>3. [actor[a] EXCEPT !.pc = pc] \in ActorRecord
  BY <1>1 DEF ActorRecord
<1>4. actor' \in [Actors -> ActorRecord]
  BY <1>1, <1>3 DEF Goto
<1>5. actor'[a].pc = pc /\ actor'[a].task = actor[a].task
  BY <1>1, <1>2 DEF ActorRecord
<1>6. QED BY <1>2, <1>4, <1>5 DEF ActorMoves, Free

\* The table stays as it is.
LEMMA TableRests ==
    ASSUME Base, NEW a \in Actors, task' = task
    PROVE  TableMoves(a)
BY SameTable DEF TableMoves, SameSession, SameState

\* The thread settles or parks its own task.
LEMMA RowMoves ==
    ASSUME Base, NEW a \in Actors, NEW t \in Tasks, t = actor[a].task, Exists(t),
           NEW row \in TaskRecord, Write(t, row), row.status # "absent",
           row.parent = task[t].parent, row.cancelled = task[t].cancelled,
           row.steps = task[t].steps, row.kind = task[t].kind, row.report = task[t].report,
           row.block # "none" => row.status = "in_progress",
           row.block # "delegated", actor[a].pc \in Driving, actor'[a].pc \notin Driving,
           row.status \in Terminal \/ task[t].report # "none"
    PROVE  TableMoves(a)
<1>1. TableStep /\ task'[t] = row /\ \A u \in Tasks : u # t => task'[u] = task[u]
  BY WriteTable
<1>2. QED BY <1>1 DEF TableMoves, SameSession, SameState

\* The thread advances or ends a chain.
LEMMA ChainMoves ==
    ASSUME Base, NEW a \in Actors, actor[a].task \in Tasks,
           NEW p \in Tasks, Exists(p), NEW c \in 0 .. ChainLegs,
           Write(p, [task[p] EXCEPT !.chain = c])
    PROVE  TableMoves(a)
<1>1. PICK row : row = [task[p] EXCEPT !.chain = c]
  OBVIOUS
<1>2. task[p] \in TaskRecord /\ (task[p].block # "none" => task[p].status = "in_progress")
  BY DEF Base, TypeOK
<1>3. /\ row \in TaskRecord /\ row.status = task[p].status /\ row.parent = task[p].parent
      /\ row.cancelled = task[p].cancelled /\ row.steps = task[p].steps
      /\ row.kind = task[p].kind /\ row.report = task[p].report /\ row.block = task[p].block
  BY <1>1, <1>2 DEF TaskRecord
<1>4. Write(p, row) /\ row.status # "absent"
  BY <1>1, <1>3 DEF Exists
<1>5. TableStep /\ task'[p] = row /\ \A u \in Tasks : u # p => task'[u] = task[u]
  BY <1>2, <1>3, <1>4, WriteTable
<1>6. \A u \in Tasks : SameState(u) /\ SameSession(u)
  BY <1>3, <1>5 DEF SameState, SameSession
<1>7. \A u \in Tasks : ~Exists(u) => u # p
  OBVIOUS
<1>8. \A u \in Tasks : task'[u].block = task[u].block
  BY <1>6 DEF SameState
<1>9. QED BY <1>5, <1>6, <1>7, <1>8 DEF TableMoves

-----------------------------------------------------------------------------
(* The steps of run_step after the session                                 *)

\* The session ends.
LEMMA AgentMoves ==
    ASSUME Base, NEW a \in Actors, NEW success \in BOOLEAN, AgentReturns(a, success)
    PROVE  Moves(a)
<1>1. actor[a].pc = "agent" /\ task' = task /\ actor[a].pc \notin Free
  BY DEF AgentReturns, At, Free
<1>2. queue' \in [Tasks -> Nat] /\ UNCHANGED <<journal, jobVars, founderVars, bootVars>>
  BY DEF AgentReturns, Base, TypeOK
<1>3. PICK pc \in {"consume", "fail"} : Leave(a) \/ Goto(a, pc)
  BY DEF AgentReturns
<1>4. ActorMoves(a)
  <2>1. CASE Leave(a)
    BY <1>1, <2>1, Leaves
  <2>2. CASE Goto(a, pc)
    <3>1. pc \in PCs \ Free /\ pc \notin {"advance", "siblings"} /\ actor[a].pc \in Driving
      BY <1>1 DEF PCs, Driving, Free
    <3>2. QED BY <1>1, <2>2, <3>1, GoesOn
  <2>3. QED BY <1>3, <2>1, <2>2
<1>5. QED BY <1>1, <1>2, <1>4, TableRests DEF Moves

\* _complete is entered or skipped, a refusal goes to _fail.
LEMMA DoneMoves ==
    ASSUME Base, NEW a \in Actors, ConsumeDone(a) \/ ConsumeRefusal(a)
    PROVE  Moves(a)
<1>1. actor[a].pc = "consume" /\ task' = task /\ actor[a].pc \notin Free
  BY DEF ConsumeDone, ConsumeRefusal, At, Free
<1>2. queue' \in [Tasks -> Nat] /\ UNCHANGED <<journal, jobVars, founderVars, bootVars>>
  BY DEF ConsumeDone, ConsumeRefusal, ConsumeUnchanged, Base, TypeOK
<1>3. PICK pc \in {"write", "fail"} : Leave(a) \/ Goto(a, pc)
  BY DEF ConsumeDone, ConsumeRefusal
<1>4. ActorMoves(a)
  <2>1. CASE Leave(a)
    BY <1>1, <2>1, Leaves
  <2>2. CASE Goto(a, pc)
    <3>1. pc \in PCs \ Free /\ pc \notin {"advance", "siblings"} /\ actor[a].pc \in Driving
      BY <1>1 DEF PCs, Driving, Free
    <3>2. QED BY <1>1, <2>2, <3>1, GoesOn
  <2>3. QED BY <1>3, <2>1, <2>2
<1>5. QED BY <1>1, <1>2, <1>4, TableRests DEF Moves

\* A driving thread gives up its session and writes its row.
LEMMA SettleMoves ==
    ASSUME Base, NEW a \in Actors, actor[a].pc \in Driving,
           NEW status \in Statuses \ {"absent"}, NEW block \in {"none", "job"},
           block # "none" => status = "in_progress",
           status \in Terminal \/ task[actor[a].task].report # "none",
           NEW chain \in 0 .. ChainLegs, NEW fanout \in BOOLEAN,
           Write(actor[a].task, [task[actor[a].task] EXCEPT !.status = status, !.block = block,
                                                            !.chain = chain, !.fanout = fanout]),
           actor'[a].pc \notin Driving
    PROVE  TableMoves(a)
<1>1. PICK t \in Tasks : t = actor[a].task /\ Exists(t) /\ task[t] \in TaskRecord
  BY InHand DEF Driving
<1>2. PICK row : row = [task[t] EXCEPT !.status = status, !.block = block,
                                       !.chain = chain, !.fanout = fanout]
  OBVIOUS
<1>3. /\ row \in TaskRecord /\ row.status = status /\ row.parent = task[t].parent
      /\ row.cancelled = task[t].cancelled /\ row.steps = task[t].steps
      /\ row.kind = task[t].kind /\ row.report = task[t].report /\ row.block = block
  BY <1>1, <1>2 DEF TaskRecord
<1>4. Write(t, row)
  BY <1>1, <1>2
<1>5. QED BY <1>1, <1>3, <1>4, RowMoves

\* The record a write of status and block leaves is the same with the other
\* two fields written as they were.
LEMMA SameFields ==
    ASSUME NEW row \in TaskRecord, NEW status, NEW block
    PROVE  [row EXCEPT !.status = status, !.block = block]
             = [row EXCEPT !.status = status, !.block = block,
                           !.chain = row.chain, !.fanout = row.fanout]
BY DEF TaskRecord

\* Writing the status and the block of the thread's own task.
LEMMA StatusMoves ==
    ASSUME Base, NEW a \in Actors, actor[a].pc \in Driving,
           NEW status \in Statuses \ {"absent"}, NEW block \in {"none", "job"},
           block # "none" => status = "in_progress",
           status \in Terminal \/ task[actor[a].task].report # "none",
           Write(actor[a].task, [task[actor[a].task] EXCEPT !.status = status, !.block = block]),
           actor'[a].pc \notin Driving
    PROVE  TableMoves(a)
<1>1. task[actor[a].task] \in TaskRecord
  BY InHand DEF Driving
<1>2. PICK chain \in 0 .. ChainLegs, fanout \in BOOLEAN :
          chain = task[actor[a].task].chain /\ fanout = task[actor[a].task].fanout
  BY <1>1 DEF TaskRecord
<1>3. Write(actor[a].task, [task[actor[a].task] EXCEPT !.status = status, !.block = block,
                                                       !.chain = chain, !.fanout = fanout])
  BY <1>1, <1>2, SameFields
<1>4. QED BY <1>2, <1>3, SettleMoves

\* _complete's update.
LEMMA CompleteMoves ==
    ASSUME Base, NEW a \in Actors, CompleteWrite(a)
    PROVE  Moves(a)
<1>1. actor[a].pc = "write" /\ actor[a].pc \in Driving /\ Goto(a, "wake") /\ actor[a].pc \notin Free
  BY DEF CompleteWrite, At, Driving, Free
<1>2. queue' \in [Tasks -> Nat] /\ UNCHANGED <<journal, jobVars, founderVars, bootVars>>
  BY DEF CompleteWrite, ConsumeUnchanged, Base, TypeOK
<1>3. ActorMoves(a) /\ actor'[a].pc = "wake" /\ actor'[a].pc \notin Driving
  BY <1>1, GoesOn DEF PCs, Driving, Free
<1>4. "completed" \in Statuses \ {"absent"} /\ "completed" \in Terminal
  BY DEF Statuses, Terminal
<1>5. TableMoves(a)
  BY <1>1, <1>3, <1>4, StatusMoves DEF CompleteWrite
<1>6. QED BY <1>1, <1>2, <1>3, <1>5 DEF Moves

\* _fail.
LEMMA FailMoves ==
    ASSUME Base, NEW a \in Actors, Fail(a)
    PROVE  Moves(a)
<1>1. actor[a].pc = "fail" /\ actor[a].pc \in Driving /\ Goto(a, "wake") /\ actor[a].pc \notin Free
  BY DEF Fail, At, Driving, Free
<1>2. queue' \in [Tasks -> Nat] /\ UNCHANGED <<journal, jobVars, founderVars, bootVars>>
  BY DEF Fail, ConsumeUnchanged, Base, TypeOK
<1>3. ActorMoves(a) /\ actor'[a].pc = "wake" /\ actor'[a].pc \notin Driving
  BY <1>1, GoesOn DEF PCs, Driving, Free
<1>4. "failed" \in Statuses \ {"absent"} /\ "failed" \in Terminal /\ 0 \in 0 .. ChainLegs
  BY BoundsAssumption DEF Statuses, Terminal
<1>5. TableMoves(a)
  <2>1. CASE task' = task
    BY <2>1, TableRests
  <2>2. CASE task' # task
    <3>1. Write(actor[a].task, [task[actor[a].task] EXCEPT !.status = "failed", !.block = "none",
                                                           !.chain = 0, !.fanout = FALSE])
      BY <2>2, InHand, <1>1 DEF Fail, FailedRow, Write, Base, TypeOK
    <3>2. QED BY <1>1, <1>3, <1>4, <3>1, SettleMoves
  <2>3. QED BY <2>1, <2>2
<1>6. QED BY <1>1, <1>2, <1>3, <1>5 DEF Moves

\* An item more, or the first one, in the queue.
LEMMA QueueTypes ==
    ASSUME queue \in [Tasks -> Nat], NEW t \in Tasks
    PROVE  Put(t) \in [Tasks -> Nat] /\ PutIfAbsent(t) \in [Tasks -> Nat]
BY DEF Put, PutIfAbsent

\* Parked on jobs, escalated, sent back with feedback.
LEMMA ParkMoves ==
    ASSUME Base, NEW a \in Actors,
           ConsumeBlock(a) \/ ConsumeEscalate(a) \/ ConsumeFeedback(a) \/ ResumeAfterPark(a)
    PROVE  Moves(a)
<1>1. actor[a].pc \in {"consume", "resume"} /\ actor[a].pc # "idle" /\ actor[a].pc \notin Free
  BY DEF ConsumeBlock, ConsumeEscalate, ConsumeFeedback, ResumeAfterPark, At, Free
<1>2. queue \in [Tasks -> Nat] /\ actor[a].task \in Tasks
  BY <1>1, InHand DEF Base, TypeOK
<1>3. queue' \in [Tasks -> Nat]
  BY <1>2, QueueTypes DEF ConsumeBlock, ConsumeEscalate, ConsumeFeedback, ResumeAfterPark
<1>4. UNCHANGED <<journal, jobVars, founderVars, bootVars>>
  BY DEF ConsumeBlock, ConsumeEscalate, ConsumeFeedback, ResumeAfterPark, ConsumeUnchanged
<1>5. ActorMoves(a) /\ actor'[a].pc \notin Driving
  <2>1. Leave(a) \/ Goto(a, "resume")
    BY DEF ConsumeBlock, ConsumeEscalate, ConsumeFeedback, ResumeAfterPark
  <2>2. "resume" \in PCs \ Free /\ "resume" \notin Driving
    BY DEF PCs, Driving, Free
  <2>3. QED BY <1>1, <2>1, <2>2, Leaves, GoesOn
<1>6. TableMoves(a)
  <2>1. CASE task' = task
    BY <2>1, TableRests
  <2>2. CASE task' # task
    <3>1. actor[a].pc \in Driving
      BY <2>2 DEF ConsumeBlock, ConsumeEscalate, ConsumeFeedback, ResumeAfterPark, At, Driving
    <3>2. PICK status \in {"in_progress", "escalated", "pending"}, block \in {"none", "job"} :
              /\ block # "none" => status = "in_progress"
              /\ Write(actor[a].task, [task[actor[a].task] EXCEPT !.status = status, !.block = block])
      <4>1. CASE ConsumeBlock(a)
        BY <4>1 DEF ConsumeBlock
      <4>2. CASE ConsumeFeedback(a)
        BY <4>2 DEF ConsumeFeedback
      <4>3. CASE ConsumeEscalate(a)
        <5>1. Write(actor[a].task, [task[actor[a].task] EXCEPT !.status = "escalated", !.block = "none"])
          BY <2>2, <4>3, <1>2 DEF ConsumeEscalate, Write, Base, TypeOK
        <5>2. QED BY <5>1
      <4>4. CASE ResumeAfterPark(a)
        BY <2>2, <4>4 DEF ResumeAfterPark
      <4>5. QED BY <4>1, <4>2, <4>3, <4>4
    <3>3. status \in Statuses \ {"absent"}
      BY DEF Statuses
    <3>4. task[actor[a].task].report # "none"
      BY <2>2 DEF ConsumeBlock, ConsumeEscalate, ConsumeFeedback, ResumeAfterPark, Report
    <3>5. QED BY <1>5, <3>1, <3>2, <3>3, <3>4, StatusMoves
  <2>3. QED BY <2>1, <2>2
<1>7. QED BY <1>1, <1>3, <1>4, <1>5, <1>6 DEF Moves

\* The parent is read.
LEMMA WakeMoves ==
    ASSUME Base, NEW a \in Actors, WakeParent(a)
    PROVE  Moves(a)
<1>1. actor[a].pc = "wake" /\ actor[a].pc # "idle" /\ task' = task /\ actor[a].pc \notin Free
  BY DEF WakeParent, At, Free
<1>2. queue' \in [Tasks -> Nat] /\ UNCHANGED <<journal, jobVars, founderVars, bootVars>>
  BY DEF WakeParent, ConsumeUnchanged, Base, TypeOK
<1>3. /\ actor \in [Actors -> ActorRecord] /\ actor[a].task \in Tasks
      /\ task[actor[a].task].parent \in Tasks \cup {NoTask}
  BY <1>1, InHand DEF Base, TypeOK, TaskRecord
<1>4. ActorMoves(a)
  <2>1. CASE Leave(a)
    BY <1>1, <2>1, Leaves
  <2>2. CASE ~Leave(a)
    <3>1. PICK p : p = task[actor[a].task].parent
      OBVIOUS
    <3>2. PICK chained \in BOOLEAN, pc \in {"advance", "siblings"} :
              actor' = [actor EXCEPT ![a].pc = pc, ![a].chained = chained]
      <4>1. PICK chained : chained = (task[p].chain > 0)
        OBVIOUS
      <4>2. PICK pc : pc = IF /\ chained
                              /\ \/ task[actor[a].task].status = "completed"
                                 \/ ~IsTerminal(actor[a].task) /\ LandedTerminalReport(actor[a].task)
                              /\ Newest(actor[a].task)
                           THEN "advance" ELSE "siblings"
        OBVIOUS
      <4>3. chained \in BOOLEAN /\ pc \in {"advance", "siblings"}
        BY <4>1, <4>2
      <4>4. actor' = [actor EXCEPT ![a].pc = pc, ![a].chained = chained]
        BY <2>2, <3>1, <4>1, <4>2 DEF WakeParent
      <4>5. QED BY <4>3, <4>4
    <3>3. p \in Tasks /\ Parked(p, "delegated")
      BY <1>3, <2>2, <3>1 DEF WakeParent
    <3>4. [actor[a] EXCEPT !.pc = pc, !.chained = chained] \in ActorRecord
      BY <1>3 DEF ActorRecord, PCs
    <3>5. /\ actor'[a] = [actor[a] EXCEPT !.pc = pc, !.chained = chained]
          /\ \A b \in Actors : b # a => actor'[b] = actor[b]
      BY <1>3, <3>2
    <3>6. actor' \in [Actors -> ActorRecord]
      BY <1>3, <3>2, <3>4
    <3>7. actor'[a].pc = pc /\ actor'[a].task = actor[a].task
      BY <1>3, <3>5 DEF ActorRecord
    <3>8. QED BY <1>1, <3>1, <3>3, <3>5, <3>6, <3>7 DEF ActorMoves, Driving, Free
  <2>3. QED BY <2>1, <2>2
<1>5. QED BY <1>1, <1>2, <1>4, TableRests DEF Moves

\* The thread that goes on to the parent has a parent row.
LEMMA ParentInHand ==
    ASSUME Base, NEW a \in Actors, actor[a].pc \in {"advance", "siblings"}
    PROVE  /\ task[actor[a].task].parent \in Tasks /\ Exists(task[actor[a].task].parent)
           /\ actor[a].task \in Tasks
<1>1. actor[a].task \in Tasks /\ Exists(actor[a].task) /\ task[actor[a].task].parent \in Tasks
  BY DEF Base, RowsInHand
<1>2. task[actor[a].task].parent # NoTask
  BY <1>1, BoundsAssumption DEF Tasks, NoTask
<1>3. QED BY <1>1, <1>2 DEF Base, RowsInOrder

\* The siblings are looked at, and the parent woken.
LEMMA SiblingsMoves ==
    ASSUME Base, NEW a \in Actors, WakeWhenSettled(a)
    PROVE  Moves(a)
<1>1. actor[a].pc = "siblings" /\ actor[a].pc # "idle" /\ Leave(a) /\ actor[a].pc \notin Free
  BY DEF WakeWhenSettled, At, Free
<1>2. UNCHANGED <<journal, jobVars, founderVars, bootVars>>
  BY DEF WakeWhenSettled, ConsumeUnchanged
<1>3. PICK p \in Tasks : p = task[actor[a].task].parent /\ Exists(p) /\ actor[a].task \in Tasks
  BY <1>1, ParentInHand
<1>4. queue' \in [Tasks -> Nat]
  BY <1>3, QueueTypes DEF WakeWhenSettled, Base, TypeOK
<1>5. TableMoves(a)
  <2>1. CASE task' = task
    BY <2>1, TableRests
  <2>2. CASE task' # task
    <3>1. task' = [task EXCEPT ![p].chain = 0]
      BY <1>3, <2>2 DEF WakeWhenSettled
    <3>2. Write(p, [task[p] EXCEPT !.chain = 0])
      BY <3>1 DEF Write, Base, TypeOK
    <3>3. 0 \in 0 .. ChainLegs
      BY BoundsAssumption
    <3>4. QED BY <1>3, <3>2, <3>3, ChainMoves
  <2>3. QED BY <2>1, <2>2
<1>6. QED BY <1>1, <1>2, <1>4, <1>5, Leaves DEF Moves

\* The table grows by rows below t whose birth is legitimate.
LEMMA GrowMoves ==
    ASSUME Base, NEW a \in Actors, actor[a].pc # "idle", NEW k \in Nat, Used + k <= MaxTasks,
           NEW t \in Tasks, Exists(t), NEW row \in TaskRecord, NEW kind \in {"task", "subtask"},
           row.status = task[t].status, row.parent = task[t].parent,
           row.cancelled = task[t].cancelled, row.steps = task[t].steps,
           row.kind = task[t].kind, row.report = task[t].report,
           row.block # "none" => row.status = "in_progress",
           row.block = task[t].block
             \/ (/\ t = actor[a].task /\ actor[a].pc \in Driving /\ actor'[a].pc \notin Driving
                 /\ task[t].report # "none"),
           \/ ~task[t].cancelled
           \/ row.block = task[t].block /\ k = 1 /\ a \in Advancing(t) /\ actor'[a].pc # "advance",
           kind = "subtask" \/ task[actor[a].task].report = "fanout_managers",
           task' \in [Tasks -> TaskRecord], task'[t] = row,
           \A u \in Tasks : u \in NextIds(k) => task'[u] = NewTask(t, kind),
           \A u \in Tasks : u # t /\ u \notin NextIds(k) => task'[u] = task[u]
    PROVE  TableMoves(a)
<1>1. TableStep
  BY GrowTable
<1>2. \A u \in NextIds(k) : ~Exists(u)
  BY NextIdsFacts DEF Base
<1>3. \A u \in Tasks : Exists(u) => SameSession(u)
  BY <1>2 DEF SameSession
<1>4. \A u \in Tasks : Exists(u) /\ u # t => SameState(u)
  BY <1>2 DEF SameState
<1>5. \/ SameState(t)
      \/ /\ t = actor[a].task /\ actor[a].pc \in Driving /\ actor'[a].pc \notin Driving
         /\ task[t].report # "none"
  BY DEF SameState
<1>6. \A u \in Tasks : u \in NextIds(k) => Born(a, u)
  <2>1. TAKE u \in Tasks
  <2>2. HAVE u \in NextIds(k)
  <2>3. /\ task'[u].status = "pending" /\ task'[u].cancelled = FALSE /\ task'[u].report = "none"
        /\ task'[u].parent = t /\ task'[u].kind = kind
    BY <2>2 DEF NewTask
  <2>4. k = 1 => u = Used + 1
    <3>1. Used \in Nat
      BY UsedFacts DEF Base
    <3>2. QED BY <2>2, <3>1 DEF NextIds
  <2>5. actor[a].task \in Tasks
    BY InHand
  <2>6. QED BY <2>3, <2>4, <2>5 DEF Born
<1>7. \A u \in Tasks : ~Exists(u) => task'[u] = task[u] \/ Born(a, u)
  BY <1>6
<1>8. actor[a].task \in Tasks /\ Exists(actor[a].task)
  BY InHand
<1>9. \A u \in Tasks : task'[u].block = "delegated" => task[u].block = "delegated" \/ ~task[u].cancelled
  <2>1. \A u \in NextIds(k) : u \in Tasks => task'[u].block = "none"
    BY DEF NewTask
  <2>2. QED BY <2>1
<1>10. QED BY <1>1, <1>3, <1>4, <1>5, <1>7, <1>8, <1>9 DEF TableMoves

\* Delegation, a chain's first leg, a fan-out.
LEMMA SpawnMoves ==
    ASSUME Base, NEW a \in Actors, actor[a].pc \in Driving, actor'[a].pc \notin Driving,
           NEW n \in Nat, NEW kind \in {"task", "subtask"},
           NEW chain \in 0 .. ChainLegs, NEW fanout \in BOOLEAN,
           kind = "subtask" \/ task[actor[a].task].report = "fanout_managers",
           task[actor[a].task].report # "none",
           Spawn(a, n, kind, [task[actor[a].task] EXCEPT !.block = "delegated",
                                                  !.chain = chain, !.fanout = fanout])
    PROVE  TableMoves(a) /\ queue' \in [Tasks -> Nat]
<1>1. PICK t \in Tasks : t = actor[a].task /\ Exists(t) /\ task[t] \in TaskRecord
  BY InHand DEF Driving
<1>2. PICK row : row = [task[t] EXCEPT !.block = "delegated", !.chain = chain, !.fanout = fanout]
  OBVIOUS
<1>3. /\ row \in TaskRecord /\ row.status = task[t].status /\ row.parent = task[t].parent
      /\ row.cancelled = task[t].cancelled /\ row.steps = task[t].steps
      /\ row.kind = task[t].kind /\ row.report = task[t].report /\ row.block = "delegated"
  BY <1>1, <1>2 DEF TaskRecord
<1>4. task \in [Tasks -> TaskRecord] /\ queue \in [Tasks -> Nat]
  BY DEF Base, TypeOK
<1>5. CASE ~ClaimMatches(a)
  BY <1>4, <1>5, TableRests DEF Spawn
<1>6. CASE ClaimMatches(a)
  <2>1. /\ Used + n <= MaxTasks
        /\ task' = [u \in Tasks |-> CASE u = t -> row
                                      [] u \in NextIds(n) -> NewTask(t, kind)
                                      [] OTHER -> task[u]]
        /\ queue' = [u \in Tasks |-> IF u \in NextIds(n) THEN queue[u] + 1 ELSE queue[u]]
    BY <1>1, <1>2, <1>6 DEF Spawn
  <2>2. task[t].status = "in_progress" /\ ~task[t].cancelled
    BY <1>1, <1>6 DEF ClaimMatches, Running, Parked
  <2>3. NewTask(t, kind) \in TaskRecord
    BY NewTaskType
  <2>4. \A u \in NextIds(n) : u # t
    BY <1>1, <2>1, NextIdsFacts DEF Base
  <2>5. task' \in [Tasks -> TaskRecord]
    BY <1>3, <1>4, <2>1, <2>3
  <2>6. task'[t] = row
    BY <2>1, <2>4
  <2>7. /\ \A u \in Tasks : u \in NextIds(n) => task'[u] = NewTask(t, kind)
        /\ \A u \in Tasks : u # t /\ u \notin NextIds(n) => task'[u] = task[u]
    BY <2>1, <2>4
  <2>8. TableMoves(a)
    BY <1>1, <1>3, <2>1, <2>2, <2>5, <2>6, <2>7, GrowMoves DEF Driving
  <2>9. QED BY <1>4, <2>1, <2>8
<1>7. QED BY <1>5, <1>6

\* try_delegate.
LEMMA DelegateMoves ==
    ASSUME Base, NEW a \in Actors, ConsumeDelegate(a)
    PROVE  Moves(a)
<1>1. /\ actor[a].pc = "consume" /\ actor[a].pc \in Driving /\ actor[a].pc # "idle" /\ Leave(a)
      /\ actor[a].pc \notin Free /\ task[actor[a].task].report # "none"
  BY DEF ConsumeDelegate, At, Driving, Free, Report
<1>2. UNCHANGED <<journal, jobVars, founderVars, bootVars>>
  BY DEF ConsumeDelegate, ConsumeUnchanged
<1>3. PICK row \in TaskRecord : row = task[actor[a].task]
  BY <1>1, InHand
<1>4. PICK fanout \in BOOLEAN, chain \in 0 .. ChainLegs : fanout = row.fanout /\ chain = row.chain
  BY <1>3 DEF TaskRecord
<1>5. /\ [row EXCEPT !.block = "delegated"]
           = [row EXCEPT !.block = "delegated", !.chain = chain, !.fanout = fanout]
      /\ [row EXCEPT !.block = "delegated", !.chain = ChainLegs]
           = [row EXCEPT !.block = "delegated", !.chain = ChainLegs, !.fanout = fanout]
  BY <1>3, <1>4 DEF TaskRecord
<1>6. PICK legs \in 0 .. ChainLegs :
          Spawn(a, 1, "subtask", [row EXCEPT !.block = "delegated", !.chain = legs, !.fanout = fanout])
  <2>1. ChainLegs \in 0 .. ChainLegs
    BY BoundsAssumption
  <2>2. \/ Spawn(a, 1, "subtask", [row EXCEPT !.block = "delegated"])
        \/ Spawn(a, 1, "subtask", [row EXCEPT !.block = "delegated", !.chain = ChainLegs])
    BY <1>3 DEF ConsumeDelegate
  <2>3. QED BY <1>5, <2>1, <2>2
<1>7. TableMoves(a) /\ queue' \in [Tasks -> Nat]
  BY <1>1, <1>3, <1>6, Leaves, SpawnMoves
<1>8. QED BY <1>1, <1>2, <1>7, Leaves DEF Moves

\* try_delegate_many.
LEMMA FanoutMoves ==
    ASSUME Base, NEW a \in Actors, ConsumeFanout(a)
    PROVE  Moves(a)
<1>1. /\ actor[a].pc = "consume" /\ actor[a].pc \in Driving /\ actor[a].pc # "idle" /\ Leave(a)
      /\ actor[a].pc \notin Free /\ task[actor[a].task].report # "none"
  BY DEF ConsumeFanout, At, Driving, Free, Report
<1>2. UNCHANGED <<journal, jobVars, founderVars, bootVars>>
  BY DEF ConsumeFanout, ConsumeUnchanged
<1>3. PICK row \in TaskRecord : row = task[actor[a].task]
  BY <1>1, InHand
<1>4. PICK chain \in 0 .. ChainLegs : chain = row.chain
  BY <1>3 DEF TaskRecord
<1>5. [row EXCEPT !.block = "delegated", !.fanout = TRUE]
        = [row EXCEPT !.block = "delegated", !.chain = chain, !.fanout = TRUE]
  BY <1>3, <1>4 DEF TaskRecord
<1>6. PICK kind \in {"task", "subtask"} :
          /\ kind = "subtask" \/ task[actor[a].task].report = "fanout_managers"
          /\ Spawn(a, Width, kind, [row EXCEPT !.block = "delegated", !.chain = chain, !.fanout = TRUE])
  BY <1>3, <1>5 DEF ConsumeFanout, Report
<1>7. Width \in Nat
  BY BoundsAssumption
<1>8. TableMoves(a) /\ queue' \in [Tasks -> Nat]
  BY <1>1, <1>3, <1>6, <1>7, Leaves, SpawnMoves
<1>9. QED BY <1>1, <1>2, <1>8, Leaves DEF Moves

\* The chain goes on or ends.
LEMMA AdvanceMoves ==
    ASSUME Base, NEW a \in Actors, AdvanceChain(a)
    PROVE  Moves(a)
<1>1. actor[a].pc = "advance" /\ actor[a].pc # "idle" /\ actor[a].pc \notin Free
  BY DEF AdvanceChain, At, Free
<1>2. UNCHANGED <<journal, jobVars, founderVars, bootVars>>
  BY DEF AdvanceChain, ConsumeUnchanged
<1>3. PICK p \in Tasks : p = task[actor[a].task].parent /\ Exists(p) /\ actor[a].task \in Tasks
  BY <1>1, ParentInHand
<1>4. task \in [Tasks -> TaskRecord] /\ queue \in [Tasks -> Nat] /\ 0 \in 0 .. ChainLegs
  BY BoundsAssumption DEF Base, TypeOK
<1>5. CASE /\ task[p].chain > 1 /\ Used < MaxTasks
           /\ task' = [task EXCEPT ![p].chain = @ - 1, ![Used + 1] = NewTask(p, "subtask")]
           /\ queue' = Put(Used + 1) /\ Leave(a)
  <2>1. Used \in Nat /\ MaxTasks \in Nat
    BY UsedFacts, BoundsAssumption DEF Base
  <2>2. Used + 1 \in Tasks /\ Used + 1 <= MaxTasks /\ NextIds(1) = {Used + 1}
    BY <1>5, <2>1 DEF Tasks, NextIds
  <2>3. ~Exists(Used + 1)
    BY <2>2, NextIdsFacts DEF Base
  <2>4. PICK row : row = [task[p] EXCEPT !.chain = @ - 1]
    OBVIOUS
  <2>5. task[p].chain - 1 \in 0 .. ChainLegs
    <3>1. task[p].chain \in 0 .. ChainLegs /\ ChainLegs \in Nat
      BY <1>4, BoundsAssumption DEF TaskRecord
    <3>2. QED BY <1>5, <3>1
  <2>6. /\ row \in TaskRecord /\ row.status = task[p].status /\ row.parent = task[p].parent
        /\ row.cancelled = task[p].cancelled /\ row.steps = task[p].steps
        /\ row.kind = task[p].kind /\ row.report = task[p].report /\ row.block = task[p].block
    BY <1>4, <2>4, <2>5 DEF TaskRecord
  <2>7. NewTask(p, "subtask") \in TaskRecord
    BY NewTaskType
  <2>8. /\ task' \in [Tasks -> TaskRecord] /\ task'[p] = row
        /\ task'[Used + 1] = NewTask(p, "subtask")
        /\ \A u \in Tasks : u # p /\ u # Used + 1 => task'[u] = task[u]
    BY <1>3, <1>4, <1>5, <2>2, <2>3, <2>4, <2>6, <2>7
  <2>9. /\ \A u \in Tasks : u \in NextIds(1) => task'[u] = NewTask(p, "subtask")
        /\ \A u \in Tasks : u # p /\ u \notin NextIds(1) => task'[u] = task[u]
    BY <2>2, <2>8
  <2>10. task[p].block # "none" => task[p].status = "in_progress"
    BY DEF Base, TypeOK
  <2>11. TableMoves(a)
    <3>1. PICK k \in Nat, kind \in {"task", "subtask"} : k = 1 /\ kind = "subtask"
      OBVIOUS
    <3>2. a \in Advancing(p) /\ actor'[a].pc # "advance"
      BY <1>1, <1>3, <1>5, Leaves DEF Advancing, Idle
    <3>3. /\ row.block # "none" => row.status = "in_progress"
          /\ Used + k <= MaxTasks /\ row.block = task[p].block /\ kind = "subtask"
          /\ \A u \in Tasks : u \in NextIds(k) => task'[u] = NewTask(p, kind)
          /\ \A u \in Tasks : u # p /\ u \notin NextIds(k) => task'[u] = task[u]
      BY <2>2, <2>6, <2>9, <2>10, <3>1
    <3>4. QED BY <1>1, <1>3, <2>6, <2>8, <3>1, <3>2, <3>3, GrowMoves
  <2>12. queue' \in [Tasks -> Nat]
    BY <1>4, <1>5, <2>2, QueueTypes
  <2>13. QED BY <1>1, <1>2, <1>5, <2>11, <2>12, Leaves DEF Moves
<1>6. CASE Write(p, [task[p] EXCEPT !.chain = 0]) /\ Goto(a, "siblings") /\ UNCHANGED queue
  <2>1. TableMoves(a)
    BY <1>3, <1>4, <1>6, ChainMoves
  <2>2. "siblings" \in PCs \ Free /\ "siblings" \notin Driving
    BY DEF PCs, Driving, Free
  <2>3. ActorMoves(a)
    BY <1>1, <1>3, <1>6, <2>2, GoesOn
  <2>4. QED BY <1>1, <1>2, <1>4, <1>6, <2>1, <2>3 DEF Moves
<1>7. CASE Goto(a, "siblings") /\ UNCHANGED <<task, queue>>
  <2>1. "siblings" \in PCs \ Free /\ "siblings" \notin Driving
    BY DEF PCs, Driving, Free
  <2>2. ActorMoves(a)
    BY <1>1, <1>3, <1>7, <2>1, GoesOn
  <2>3. QED BY <1>1, <1>2, <1>4, <1>7, <2>2, TableRests DEF Moves
<1>8. QED BY <1>3, <1>5, <1>6, <1>7 DEF AdvanceChain

\* Every step of a thread after its session.
LEMMA ConsumeMoves ==
    ASSUME Base, NEW a \in Actors, ConsumeStep(a)
    PROVE  Moves(a)
BY DoneMoves, CompleteMoves, FailMoves, ParkMoves, WakeMoves, SiblingsMoves, DelegateMoves,
   FanoutMoves, AdvanceMoves DEF ConsumeStep

-----------------------------------------------------------------------------
(* The steps that write a row outside run_step's consumption               *)

\* No row but t's is written, and t's stays a row below the same parent.
Rewrites(t) ==
    /\ TableStep
    /\ Exists(t)
    /\ \A u \in Tasks : u # t => task'[u] = task[u]
    /\ task'[t].kind = task[t].kind /\ task'[t].parent = task[t].parent
    /\ task[t].cancelled => task'[t].cancelled

\* The claiming transaction admits a task.
Admits(w, t) ==
    /\ actor[w].pc = "claim" /\ actor[w].task = t /\ Eligible(t)
    /\ Rewrites(t)
    /\ task'[t].status = "in_progress" /\ task'[t].block = "none"
    /\ task'[t].cancelled = task[t].cancelled /\ task'[t].report = "none"
    /\ actor' \in [Actors -> ActorRecord]
    /\ \A a \in Actors : a # w => actor'[a] = actor[a]
    /\ actor'[w].pc = "agent" /\ actor'[w].task = t
    /\ entry' = [entry EXCEPT ![t] = "launched"]

\* What Claim does.
LEMMA ClaimFacts ==
    ASSUME Base, NEW w \in Workers, Claim(w)
    PROVE  /\ actor[w].task \in Tasks /\ Admits(w, actor[w].task)
           /\ UNCHANGED <<queue, control, jobVars, founderVars, bootVars>>
<1>1. w \in Actors /\ actor[w].pc = "claim" /\ actor[w].pc # "idle"
  BY DEF Actors, Claim, At
<1>2. PICK t \in Tasks : t = actor[w].task /\ Exists(t) /\ task[t] \in TaskRecord /\ actor[w] \in ActorRecord
  BY <1>1, InHand
<1>3. Eligible(t)
  BY <1>2 DEF Claim, StillCurrent
<1>4. PICK row : row = [task[t] EXCEPT !.status = "in_progress", !.block = "none",
                           !.steps = @ + 1, !.fanout = FALSE, !.report = "none"]
  OBVIOUS
<1>5. /\ row \in TaskRecord /\ row.status = "in_progress" /\ row.block = "none"
      /\ row.cancelled = task[t].cancelled /\ row.kind = task[t].kind
      /\ row.parent = task[t].parent /\ row.report = "none"
  <2>1. "in_progress" \in Statuses
    BY DEF Statuses
  <2>2. task[t].steps + 1 \in Nat
    BY <1>2 DEF TaskRecord
  <2>3. QED BY <1>2, <1>4, <2>1, <2>2 DEF TaskRecord
<1>6. Write(t, row)
  BY <1>2, <1>4 DEF Claim
<1>7. TableStep /\ task'[t] = row /\ \A u \in Tasks : u # t => task'[u] = task[u]
  BY <1>2, <1>5, <1>6, WriteTable
<1>8. actor' = [actor EXCEPT ![w].pc = "agent", ![w].step = @ + 1]
  BY <1>2 DEF Claim
<1>9. actor \in [Actors -> ActorRecord]
  BY DEF Base, TypeOK
<1>10. [actor[w] EXCEPT !.pc = "agent", !.step = @ + 1] \in ActorRecord
  <2>1. actor[w].step + 1 \in Nat /\ "agent" \in PCs
    BY <1>2 DEF ActorRecord, PCs
  <2>2. QED BY <1>2, <2>1 DEF ActorRecord
<1>11. /\ actor'[w] = [actor[w] EXCEPT !.pc = "agent", !.step = @ + 1]
       /\ \A a \in Actors : a # w => actor'[a] = actor[a]
  BY <1>1, <1>8, <1>9
<1>12. actor' \in [Actors -> ActorRecord]
  BY <1>1, <1>8, <1>9, <1>10
<1>13. actor'[w].pc = "agent" /\ actor'[w].task = t
  BY <1>2, <1>11 DEF ActorRecord
<1>14. entry' = [entry EXCEPT ![t] = "launched"]
  BY <1>2 DEF Claim
<1>15. Admits(w, t)
  BY <1>1, <1>2, <1>3, <1>5, <1>7, <1>11, <1>12, <1>13, <1>14 DEF Admits, Rewrites
<1>16. QED BY <1>2, <1>15 DEF Claim

\* A preparation that failed ends a task that nobody runs.
LEMMA RefuseFacts ==
    ASSUME Base, NEW w \in Workers, RefuseLaunch(w)
    PROVE  /\ actor[w].task \in Tasks /\ Eligible(actor[w].task)
           /\ actor[w].pc = "claim" /\ actor'[w].pc = "wake" /\ ActorMoves(w)
           /\ Rewrites(actor[w].task)
           /\ task'[actor[w].task].status = "failed" /\ task'[actor[w].task].block = "none"
           /\ task'[actor[w].task].cancelled = task[actor[w].task].cancelled
           /\ task'[actor[w].task].steps = task[actor[w].task].steps
           /\ task'[actor[w].task].report = task[actor[w].task].report
           /\ UNCHANGED <<queue, journal, jobVars, founderVars, bootVars>>
<1>1. w \in Actors /\ actor[w].pc = "claim" /\ actor[w].pc \notin Free /\ Goto(w, "wake")
  BY DEF Actors, RefuseLaunch, At, Free
<1>2. PICK t \in Tasks : t = actor[w].task /\ Exists(t) /\ task[t] \in TaskRecord
  BY <1>1, InHand DEF Free
<1>3. PICK row : row = FailedRow(t)
  OBVIOUS
<1>4. "failed" \in Statuses /\ 0 \in 0 .. ChainLegs
  BY BoundsAssumption DEF Statuses, Terminal
<1>5. /\ row \in TaskRecord /\ row.status = "failed" /\ row.block = "none"
      /\ row.cancelled = task[t].cancelled /\ row.kind = task[t].kind /\ row.report = task[t].report
      /\ row.parent = task[t].parent /\ row.steps = task[t].steps
  BY <1>2, <1>3, <1>4 DEF TaskRecord, FailedRow
<1>6. Write(t, row) /\ Eligible(t)
  BY <1>2, <1>3 DEF RefuseLaunch, StillCurrent
<1>7. TableStep /\ task'[t] = row /\ \A u \in Tasks : u # t => task'[u] = task[u]
  BY <1>2, <1>5, <1>6, WriteTable
<1>8. "wake" \in PCs \ Free /\ "wake" \notin Driving
  BY DEF PCs, Free, Driving
<1>9. ActorMoves(w) /\ actor'[w].pc = "wake"
  BY <1>1, <1>8, GoesOn
<1>10. QED BY <1>1, <1>2, <1>5, <1>6, <1>7, <1>9 DEF RefuseLaunch, Rewrites

\* A report lands in the row of its session.
LEMMA SubmitFacts ==
    ASSUME Base, NEW w \in Workers, NEW d \in Decisions, SubmitCompletion(w, d)
    PROVE  /\ actor[w].task \in Tasks /\ Rewrites(actor[w].task)
           /\ MayReport(actor[w].task, d) /\ task'[actor[w].task].report = d
           /\ task'[actor[w].task].status = task[actor[w].task].status
           /\ task'[actor[w].task].block = task[actor[w].task].block
           /\ task'[actor[w].task].steps = task[actor[w].task].steps
           /\ task'[actor[w].task].cancelled = task[actor[w].task].cancelled
           /\ jobs' \in [Tasks -> SUBSET Jobs]
           /\ UNCHANGED <<queue, actor, journal, lost, checks, founderVars, bootVars>>
<1>1. w \in Actors /\ actor[w].pc = "agent" /\ actor[w].pc # "idle"
  BY DEF Actors, SubmitCompletion, At
<1>2. PICK t \in Tasks : t = actor[w].task /\ Exists(t) /\ task[t] \in TaskRecord
  BY <1>1, InHand
<1>3. PICK row : row = [task[t] EXCEPT !.report = d]
  OBVIOUS
<1>4. d \in AllDecisions
  BY InputsAssumption
<1>5. /\ row \in TaskRecord /\ row.status = task[t].status /\ row.block = task[t].block
      /\ row.cancelled = task[t].cancelled /\ row.kind = task[t].kind
      /\ row.parent = task[t].parent /\ row.report = d /\ row.steps = task[t].steps
  BY <1>2, <1>3, <1>4 DEF TaskRecord
<1>6. Write(t, row) /\ (row.block # "none" => row.status = "in_progress") /\ row.status # "absent"
  BY <1>2, <1>3, <1>5 DEF SubmitCompletion, Base, TypeOK, Exists
<1>7. TableStep /\ task'[t] = row /\ \A u \in Tasks : u # t => task'[u] = task[u]
  BY <1>2, <1>5, <1>6, WriteTable
<1>8. jobs' \in [Tasks -> SUBSET Jobs]
  BY <1>2 DEF SubmitCompletion, Base, TypeOK
<1>9. QED BY <1>2, <1>5, <1>7, <1>8 DEF SubmitCompletion, Rewrites

\* The founder's stamp.
LEMMA StampFacts ==
    ASSUME Base, NEW t \in Tasks, CancelStamp(t)
    PROVE  /\ Rewrites(t) /\ task'[t].cancelled /\ task'[t].block = "none"
           /\ task'[t].steps = task[t].steps /\ task'[t].report = task[t].report
           /\ stamping' = stamping \ {t}
           /\ UNCHANGED <<queue, actor, journal, jobVars, resolver, bootVars>>
<1>1. Exists(t) /\ task[t] \in TaskRecord
  BY DEF Base, TypeOK, RowsInHand, CancelStamp
<1>2. PICK row : row = [task[t] EXCEPT !.status = "cancelled", !.block = "none", !.cancelled = TRUE]
  OBVIOUS
<1>3. "cancelled" \in Statuses
  BY DEF Statuses, Terminal
<1>4. /\ row \in TaskRecord /\ row.status = "cancelled" /\ row.block = "none"
      /\ row.cancelled = TRUE /\ row.kind = task[t].kind /\ row.report = task[t].report
      /\ row.parent = task[t].parent /\ row.steps = task[t].steps
  BY <1>1, <1>2, <1>3 DEF TaskRecord
<1>5. Write(t, row)
  BY <1>2 DEF CancelStamp
<1>6. TableStep /\ task'[t] = row /\ \A u \in Tasks : u # t => task'[u] = task[u]
  BY <1>1, <1>4, <1>5, WriteTable
<1>7. QED BY <1>1, <1>4, <1>6 DEF CancelStamp, Rewrites

\* An escalation resolved with "continue".
LEMMA ContinueFacts ==
    ASSUME Base, NEW r \in Resolvers, ResolveContinue(r)
    PROVE  /\ resolver[r] \in Tasks /\ Rewrites(resolver[r])
           /\ task'[resolver[r]].steps = task[resolver[r]].steps
           /\ task'[resolver[r]].block = "none" /\ task'[resolver[r]].status = "pending"
           /\ task'[resolver[r]].cancelled = task[resolver[r]].cancelled
           /\ task'[resolver[r]].report = task[resolver[r]].report
           /\ queue' \in [Tasks -> Nat]
           /\ resolver' = [resolver EXCEPT ![r] = NoTask]
           /\ UNCHANGED <<actor, journal, jobVars, stamping, bootVars>>
<1>1. PICK t \in Tasks : t = resolver[r] /\ Exists(t) /\ task[t] \in TaskRecord
  BY DEF Base, TypeOK, RowsInHand, ResolveContinue
<1>2. PICK row : row = [task[t] EXCEPT !.status = "pending", !.block = "none"]
  OBVIOUS
<1>3. "pending" \in Statuses
  BY DEF Statuses
<1>4. /\ row \in TaskRecord /\ row.status = "pending" /\ row.block = "none"
      /\ row.cancelled = task[t].cancelled /\ row.kind = task[t].kind /\ row.report = task[t].report
      /\ row.parent = task[t].parent /\ row.steps = task[t].steps
  BY <1>1, <1>2, <1>3 DEF TaskRecord
<1>5. Write(t, row)
  BY <1>1, <1>2 DEF ResolveContinue
<1>6. TableStep /\ task'[t] = row /\ \A u \in Tasks : u # t => task'[u] = task[u]
  BY <1>1, <1>4, <1>5, WriteTable
<1>7. queue' \in [Tasks -> Nat]
  BY <1>1, QueueTypes DEF ResolveContinue, Base, TypeOK
<1>8. QED BY <1>1, <1>4, <1>6, <1>7 DEF ResolveContinue, Rewrites

\* What a thread has when it takes a task over.
Taken(a, t, pc) ==
    /\ actor' \in [Actors -> ActorRecord]
    /\ \A b \in Actors : b # a => actor'[b] = actor[b]
    /\ actor'[a].pc = pc /\ actor'[a].task = t

\* TakeOver, and the thread Enter starts, have the task in hand.
LEMMA TakeOverFacts ==
    ASSUME Base, NEW a \in Actors, NEW t \in Tasks, NEW pc \in PCs, TakeOver(a, t, pc)
    PROVE  Taken(a, t, pc)
<1>1. PICK r : r = [Idle EXCEPT !.pc = pc, !.task = t, !.step = task[t].steps]
  OBVIOUS
<1>2. <<"absent", "none">> \in Statuses \X {"none", "delegated", "job"} /\ task[t].steps \in Nat
  BY DEF Statuses, Base, TypeOK, TaskRecord
<1>3. r \in ActorRecord /\ r.pc = pc /\ r.task = t
  BY <1>1, <1>2 DEF Idle, ActorRecord
<1>4. actor' = [actor EXCEPT ![a] = r] /\ actor \in [Actors -> ActorRecord]
  BY <1>1 DEF TakeOver, Base, TypeOK
<1>5. QED BY <1>3, <1>4 DEF Taken

\* A worker dequeues a task.
LEMMA EnterFacts ==
    ASSUME Base, NEW w \in Workers, NEW t \in Tasks, Enter(w, t)
    PROVE  /\ task' = task /\ queue' \in [Tasks -> Nat]
           /\ \/ actor' = actor
              \/ /\ Exists(t) /\ ~AlreadyTerminal(t) /\ Taken(w, t, "prepare")
                 /\ actor'[w].from = <<task[t].status, task[t].block>>
           /\ actor[w].pc = "idle" /\ daemon = "up"
           /\ UNCHANGED <<journal, jobVars, founderVars, bootVars>>
<1>1. w \in Actors /\ queue \in [Tasks -> Nat] /\ actor \in [Actors -> ActorRecord]
  BY DEF Actors, Base, TypeOK
<1>2. queue' \in [Tasks -> Nat]
  <2>1. queue[t] - 1 \in Nat
    BY <1>1 DEF Enter
  <2>2. QED BY <1>1, <2>1 DEF Enter
<1>3. CASE Exists(t) /\ ~AlreadyTerminal(t)
  <2>1. PICK r : r = [Idle EXCEPT !.pc = "prepare", !.task = t, !.step = task[t].steps,
                          !.from = <<task[t].status, task[t].block>>]
    OBVIOUS
  <2>2. task[t].steps \in Nat /\ <<task[t].status, task[t].block>> \in Statuses \X {"none", "delegated", "job"}
    BY DEF Base, TypeOK, TaskRecord
  <2>3. r \in ActorRecord /\ r.pc = "prepare" /\ r.task = t /\ r.from = <<task[t].status, task[t].block>>
    BY <2>1, <2>2 DEF Idle, ActorRecord, PCs
  <2>4. actor' = [actor EXCEPT ![w] = r]
    BY <1>3, <2>1 DEF Enter
  <2>5. Taken(w, t, "prepare") /\ actor'[w].from = <<task[t].status, task[t].block>>
    BY <1>1, <2>3, <2>4 DEF Taken
  <2>6. QED BY <1>2, <1>3, <2>5 DEF Enter
<1>4. CASE ~(Exists(t) /\ ~AlreadyTerminal(t))
  BY <1>2, <1>4 DEF Enter
<1>5. QED BY <1>3, <1>4

\* A worker becomes the owner of its task's next invocation.
Prepares(w, t) ==
    /\ actor[w].pc = "prepare" /\ actor[w].task = t /\ Exists(t)
    /\ ~Barred(t) /\ EligibleAsRead(w)
    /\ Taken(w, t, "claim")
    /\ entry' = [entry EXCEPT ![t] = "prepared"] /\ control' = TRUE
    /\ UNCHANGED <<task, queue, jobVars, founderVars, bootVars>>

\* What Prepare does.
LEMMA PrepareFacts ==
    ASSUME Base, NEW w \in Workers, Prepare(w)
    PROVE  Moves(w) \/ (actor[w].task \in Tasks /\ Prepares(w, actor[w].task))
<1>1. w \in Actors /\ actor[w].pc = "prepare" /\ actor[w].pc # "idle"
  BY DEF Actors, Prepare, At
<1>2. actor[w].task \in Tasks /\ Exists(actor[w].task) /\ actor[w] \in ActorRecord
  BY <1>1, InHand
<1>3. UNCHANGED <<task, queue, jobVars, founderVars, bootVars>>
  BY DEF Prepare
<1>4. CASE Return(w) /\ UNCHANGED journal
  BY <1>1, <1>3, <1>4, Returns, TableRests, SameTable DEF Moves, Base, TypeOK
<1>5. CASE /\ ~Barred(actor[w].task) /\ EligibleAsRead(w) /\ Goto(w, "claim")
           /\ entry' = [entry EXCEPT ![actor[w].task] = "prepared"] /\ control' = TRUE
  <2>1. actor \in [Actors -> ActorRecord]
    BY DEF Base, TypeOK
  <2>2. /\ actor'[w] = [actor[w] EXCEPT !.pc = "claim"]
        /\ \A b \in Actors : b # w => actor'[b] = actor[b]
    BY <1>1, <1>5, <2>1 DEF Goto
  <2>3. [actor[w] EXCEPT !.pc = "claim"] \in ActorRecord
    BY <1>2 DEF ActorRecord, PCs
  <2>4. actor' \in [Actors -> ActorRecord] /\ actor'[w].pc = "claim" /\ actor'[w].task = actor[w].task
    BY <1>1, <1>2, <1>5, <2>1, <2>2, <2>3 DEF Goto, ActorRecord
  <2>5. QED BY <1>1, <1>2, <1>3, <1>5, <2>2, <2>4 DEF Prepares, Taken
<1>6. QED BY <1>4, <1>5 DEF Prepare

\* A worker without the row gives up.
LEMMA GiveUpMoves ==
    ASSUME Base, NEW w \in Workers, GiveUp(w)
    PROVE  Moves(w)
<1>1. w \in Actors /\ actor[w].pc = "claim" /\ actor[w].pc # "idle" /\ actor[w].pc \notin Free
  BY DEF Actors, GiveUp, At, Free
<1>2. QED BY <1>1, Leaves, TableRests DEF GiveUp, Moves, Base, TypeOK

\* A worker closes its invocation.
LEMMA CloseFacts ==
    ASSUME Base, NEW w \in Workers, Close(w)
    PROVE  /\ actor[w].pc = "close" /\ actor[w].task \in Tasks /\ Exists(actor[w].task)
           /\ ActorMoves(w) /\ actor'[w].pc = "idle"
           /\ \/ entry' = [entry EXCEPT ![actor[w].task] = "none"]
              \/ /\ entry' = [entry EXCEPT ![actor[w].task] = "unknown"]
                 /\ entry[actor[w].task] = "launched"
           /\ UNCHANGED <<task, queue, control, jobVars, founderVars, bootVars>>
<1>1. w \in Actors /\ actor[w].pc = "close" /\ actor[w].pc # "idle"
  BY DEF Actors, Close, At
<1>2. actor[w].task \in Tasks /\ Exists(actor[w].task)
  BY <1>1, InHand
<1>3. ActorMoves(w) /\ actor'[w].pc = "idle"
  BY <1>1, Returns DEF Close
<1>4. QED BY <1>1, <1>2, <1>3 DEF Close

\* The sweep or the reaper finds a running task without a process, and takes
\* over its report.
Recovers(a, t) ==
    Running(t) /\ t \notin orphans /\ task' = task /\ Taken(a, t, "consume")

\* A visit of the startup sweep.
LEMMA VisitFacts ==
    ASSUME Base, NEW t \in Tasks, SweepVisit(t)
    PROVE  /\ daemon = "boot" /\ actor[Sweeper].pc = "idle" /\ Sweeper \in Actors
           /\ (task' = task /\ actor' = actor) \/ Recovers(Sweeper, t)
           /\ queue' \in [Tasks -> Nat] /\ sweep' = sweep \ {t}
           /\ UNCHANGED <<journal, jobVars, founderVars, orphans, daemon, crashes>>
<1>1. daemon = "boot" /\ actor[Sweeper].pc = "idle" /\ Sweeper \in Actors /\ task' = task
  BY DEF SweepVisit, Actors
<1>2. queue' \in [Tasks -> Nat]
  BY QueueTypes DEF SweepVisit, Base, TypeOK
<1>3. "consume" \in PCs
  BY DEF PCs
<1>4. CASE Running(t) /\ ProcessDead(t) /\ TakeOver(Sweeper, t, "consume")
  <2>1. Recovers(Sweeper, t)
    BY <1>1, <1>3, <1>4, TakeOverFacts DEF Recovers, ProcessDead
  <2>2. QED BY <1>1, <1>2, <2>1 DEF SweepVisit
<1>5. CASE actor' = actor
  BY <1>1, <1>2, <1>5 DEF SweepVisit
<1>6. QED BY <1>4, <1>5 DEF SweepVisit

\* A tick of the reaper on a task.
LEMMA ReapFacts ==
    ASSUME Base, NEW t \in Tasks, Reap(t)
    PROVE  /\ daemon = "up" /\ actor[Reaper].pc = "idle" /\ Reaper \in Actors
           /\ \A a \in Actors : actor[a].task # t
           /\ Recovers(Reaper, t)
           /\ UNCHANGED <<queue, journal, jobVars, founderVars, bootVars>>
<1>1. Reaper \in Actors /\ "consume" \in PCs
  BY DEF Actors, PCs
<1>2. QED BY <1>1, TakeOverFacts DEF Reap, Recovers

\* What a cancellation collects are rows.
LEMMA CollectedExist ==
    ASSUME Base, NEW t \in Tasks, Exists(t)
    PROVE  \A u \in LiveUnder(t) : u \in Tasks /\ Exists(u)
<1>1. PICK S : S = {u \in Tasks : Exists(u)}
  OBVIOUS
<1>2. S \in SUBSET Tasks /\ t \in S /\ HoldsLiveChildren(S)
  BY <1>1 DEF HoldsLiveChildren
<1>3. QED BY <1>1, <1>2 DEF LiveUnder

-----------------------------------------------------------------------------
(* Types and rows are kept                                                 *)

\* What threads have in hand after a step.
HandsFull ==
    /\ actor' \in [Actors -> ActorRecord]
    /\ \A a \in Actors : actor'[a].pc # "idle" => actor'[a].task \in Tasks /\ Exists(actor'[a].task)
    /\ \A a \in Actors :
         actor'[a].pc \in {"advance", "siblings"} => task[actor'[a].task].parent \in Tasks

\* The invariant after a step that keeps the table and fills no hand with
\* what is not there.
LEMMA BaseKept ==
    ASSUME Base, TableStep, HandsFull, queue' \in [Tasks -> Nat], orphans' \in SUBSET Tasks,
           jobs' \in [Tasks -> SUBSET Jobs], lost' \in SUBSET Tasks, checks' \in SUBSET Tasks,
           stamping' \in SUBSET Tasks, \A t \in stamping' : Exists(t),
           resolver' \in [Resolvers -> Tasks \cup {NoTask}],
           \A r \in Resolvers : resolver'[r] # NoTask => Exists(resolver'[r]),
           daemon' \in {"up", "down", "boot"}, sweep' \in SUBSET Tasks,
           crashes' \in 0 .. MaxCrashes,
           entry' \in [Tasks -> Phases], control' \in BOOLEAN
    PROVE  Base'
<1>1. TypeOK'
  BY DEF TypeOK, TableStep, HandsFull
<1>2. \A t \in Tasks : Exists(t) => task'[t].status # "absent" /\ task'[t].parent = task[t].parent
  BY DEF TableStep, Exists
<1>3. RowsInHand'
  <2>1. \A a \in Actors : actor'[a].pc # "idle" =>
            actor'[a].task \in Tasks /\ task'[actor'[a].task].status # "absent"
    BY <1>2 DEF HandsFull
  <2>2. \A a \in Actors : actor'[a].pc \in {"advance", "siblings"} =>
            task'[actor'[a].task].parent \in Tasks
    BY <1>2 DEF HandsFull
  <2>3. \A t \in stamping' : task'[t].status # "absent"
    BY <1>2
  <2>4. \A r \in Resolvers : resolver'[r] # NoTask => task'[resolver'[r]].status # "absent"
    BY <1>2
  <2>5. QED BY <2>1, <2>2, <2>3, <2>4 DEF RowsInHand, Exists
<1>4. QED BY <1>1, <1>3 DEF Base, TableStep

\* Threads that stay, move, take a task, or all end.
LEMMA HandsKept ==
    ASSUME Base, \/ actor' = actor
                 \/ \E a \in Actors : ActorMoves(a)
                 \/ \E a \in Actors : \E t \in Tasks :
                      Exists(t) /\ \E pc \in PCs \ {"advance", "siblings"} : Taken(a, t, pc)
    PROVE  HandsFull
<1>1. /\ actor \in [Actors -> ActorRecord]
      /\ \A a \in Actors : actor[a].pc # "idle" => actor[a].task \in Tasks /\ Exists(actor[a].task)
      /\ \A a \in Actors :
           actor[a].pc \in {"advance", "siblings"} => task[actor[a].task].parent \in Tasks
  BY DEF Base, TypeOK, RowsInHand
<1>2. CASE actor' = actor
  BY <1>1, <1>2 DEF HandsFull
<1>3. CASE \E a \in Actors : ActorMoves(a)
  BY <1>1, <1>3 DEF HandsFull, ActorMoves
<1>4. CASE \E a \in Actors : \E t \in Tasks :
             Exists(t) /\ \E pc \in PCs \ {"advance", "siblings"} : Taken(a, t, pc)
  BY <1>1, <1>4 DEF HandsFull, Taken
<1>5. QED BY <1>2, <1>3, <1>4

\* The variables other than the table, the queue and the threads.
LEMMA RestTypes ==
    ASSUME Base
    PROVE  /\ queue \in [Tasks -> Nat] /\ orphans \in SUBSET Tasks /\ jobs \in [Tasks -> SUBSET Jobs]
           /\ lost \in SUBSET Tasks /\ checks \in SUBSET Tasks
           /\ stamping \in SUBSET Tasks /\ (\A t \in stamping : Exists(t))
           /\ resolver \in [Resolvers -> Tasks \cup {NoTask}]
           /\ (\A r \in Resolvers : resolver[r] # NoTask => Exists(resolver[r]))
           /\ daemon \in {"up", "down", "boot"} /\ sweep \in SUBSET Tasks
           /\ crashes \in 0 .. MaxCrashes
           /\ entry \in [Tasks -> Phases] /\ control \in BOOLEAN
BY DEF Base, TypeOK, RowsInHand

\* A step of a thread keeps types and rows.
LEMMA MovesBase ==
    ASSUME Base, NEW a \in Actors, Moves(a)
    PROVE  Base'
<1>1. TableStep /\ HandsFull
  BY HandsKept DEF Moves, TableMoves
<1>2. QED BY <1>1, RestTypes, BaseKept DEF journal, Moves, jobVars, founderVars, bootVars

\* So do dequeuing, claiming and reporting.
LEMMA WorkerBase ==
    ASSUME Base, NEW w \in Workers,
           \/ \E t \in Tasks : Enter(w, t)
           \/ \E d \in Decisions : SubmitCompletion(w, d)
           \/ RunStep(w)
    PROVE  Base'
<1>1. w \in Actors /\ {"prepare", "claim", "agent"} \subseteq PCs \ {"advance", "siblings"}
  BY DEF Actors, PCs
<1>2. CASE \E t \in Tasks : Enter(w, t)
  <2>1. PICK t \in Tasks : Enter(w, t)
    BY <1>2
  <2>2. TableStep /\ HandsFull
    BY <1>1, <2>1, EnterFacts, SameTable, HandsKept
  <2>3. QED BY <2>1, <2>2, EnterFacts, RestTypes, BaseKept DEF journal, jobVars, founderVars, bootVars
<1>3. CASE Prepare(w)
  <2>1. CASE Moves(w)
    BY <1>1, <2>1, MovesBase
  <2>2. CASE actor[w].task \in Tasks /\ Prepares(w, actor[w].task)
    <3>1. TableStep /\ HandsFull
      BY <1>1, <2>2, SameTable, HandsKept DEF Prepares
    <3>2. entry' \in [Tasks -> Phases] /\ control' \in BOOLEAN
      BY <2>2, RestTypes DEF Prepares, Phases
    <3>3. QED BY <2>2, <3>1, <3>2, RestTypes, BaseKept DEF Prepares, jobVars, founderVars, bootVars
  <2>3. QED BY <1>3, <2>1, <2>2, PrepareFacts
<1>4. CASE Claim(w)
  <2>1. /\ actor[w].task \in Tasks /\ Admits(w, actor[w].task)
        /\ UNCHANGED <<queue, control, jobVars, founderVars, bootVars>>
    BY <1>4, ClaimFacts
  <2>2. Taken(w, actor[w].task, "agent") /\ Exists(actor[w].task) /\ TableStep
    BY <2>1 DEF Admits, Rewrites, Taken
  <2>3. HandsFull
    BY <1>1, <2>1, <2>2, HandsKept
  <2>4. entry' \in [Tasks -> Phases]
    BY <2>1, RestTypes DEF Admits, Phases
  <2>5. QED BY <2>1, <2>2, <2>3, <2>4, RestTypes, BaseKept DEF jobVars, founderVars, bootVars
<1>5. CASE RefuseLaunch(w)
  <2>1. TableStep /\ HandsFull
    BY <1>1, <1>5, RefuseFacts, HandsKept DEF Rewrites
  <2>2. QED BY <1>5, <2>1, RefuseFacts, RestTypes, BaseKept DEF journal, jobVars, founderVars, bootVars
<1>6. CASE GiveUp(w) \/ AgentEnds(w)
  BY <1>1, <1>6, GiveUpMoves, AgentMoves, MovesBase DEF AgentEnds
<1>7. CASE Close(w)
  <2>1. TableStep /\ HandsFull
    BY <1>1, <1>7, CloseFacts, SameTable, HandsKept
  <2>2. entry' \in [Tasks -> Phases]
    BY <1>7, CloseFacts, RestTypes DEF Phases
  <2>3. QED BY <1>7, <2>1, <2>2, CloseFacts, RestTypes, BaseKept DEF jobVars, founderVars, bootVars
<1>8. CASE \E d \in Decisions : SubmitCompletion(w, d)
  <2>1. /\ Rewrites(actor[w].task) /\ jobs' \in [Tasks -> SUBSET Jobs]
        /\ UNCHANGED <<queue, actor, journal, lost, checks, founderVars, bootVars>>
    BY <1>8, SubmitFacts
  <2>2. TableStep /\ HandsFull
    BY <2>1, HandsKept DEF Rewrites
  <2>3. QED BY <2>1, <2>2, RestTypes, BaseKept DEF journal, founderVars, bootVars
<1>9. QED BY <1>2, <1>3, <1>4, <1>5, <1>6, <1>7, <1>8 DEF RunStep, ClaimStep

\* So does the founder.
LEMMA FounderBase ==
    ASSUME Base, FounderStep
    PROVE  Base'
<1>1. CASE \E t \in Tasks : CancelCollect(t)
  <2>1. PICK t \in Tasks : CancelCollect(t)
    BY <1>1
  <2>2. stamping' \in SUBSET Tasks /\ \A u \in stamping' : Exists(u)
    BY <2>1, CollectedExist DEF CancelCollect
  <2>3. TableStep /\ HandsFull
    BY <2>1, SameTable, HandsKept DEF CancelCollect
  <2>4. QED BY <2>1, <2>2, <2>3, RestTypes, BaseKept DEF journal, CancelCollect, jobVars, bootVars
<1>2. CASE \E t \in Tasks : CancelStamp(t)
  <2>1. PICK t \in Tasks : CancelStamp(t)
    BY <1>2
  <2>2. TableStep /\ HandsFull
    BY <2>1, StampFacts, HandsKept DEF Rewrites
  <2>3. stamping' \in SUBSET Tasks /\ \A u \in stamping' : Exists(u)
    BY <2>1, StampFacts, RestTypes
  <2>4. QED BY <2>1, <2>2, <2>3, StampFacts, RestTypes, BaseKept DEF journal, jobVars, bootVars
<1>3. CASE \E r \in Resolvers : ResolveContinue(r)
  <2>1. PICK r \in Resolvers : ResolveContinue(r)
    BY <1>3
  <2>2. TableStep /\ HandsFull
    BY <2>1, ContinueFacts, HandsKept DEF Rewrites
  <2>3. /\ resolver' \in [Resolvers -> Tasks \cup {NoTask}]
        /\ \A s \in Resolvers : resolver'[s] # NoTask => Exists(resolver'[s])
    BY <2>1, ContinueFacts, RestTypes
  <2>4. QED BY <2>1, <2>2, <2>3, ContinueFacts, RestTypes, BaseKept DEF journal, jobVars, bootVars
<1>4. CASE \E r \in Resolvers : \E t \in Tasks : ResolveRead(r, t)
  <2>1. PICK r \in Resolvers, t \in Tasks : ResolveRead(r, t)
    BY <1>4
  <2>2. TableStep /\ HandsFull
    BY <2>1, SameTable, HandsKept DEF ResolveRead
  <2>3. /\ resolver' \in [Resolvers -> Tasks \cup {NoTask}]
        /\ \A s \in Resolvers : resolver'[s] # NoTask => Exists(resolver'[s])
    BY <2>1, RestTypes DEF ResolveRead, Exists
  <2>4. QED BY <2>1, <2>2, <2>3, RestTypes, BaseKept DEF journal, ResolveRead, jobVars, bootVars
<1>5. QED BY <1>1, <1>2, <1>3, <1>4 DEF FounderStep

\* So do the job's end, the sweep and the reaper.
LEMMA SweepBase ==
    ASSUME Base, NEW t \in Tasks,
           \/ ResumeCheck(t) \/ OrphanEnds(t) \/ SweepVisit(t) \/ Reap(t) \/ Rediscover(t)
           \/ \E j \in Jobs : JobEnds(t, j)
    PROVE  Base'
<1>1. CASE ResumeCheck(t)
  <2>1. TableStep /\ HandsFull
    BY <1>1, SameTable, HandsKept DEF ResumeCheck
  <2>2. queue' \in [Tasks -> Nat] /\ checks' \in SUBSET Tasks
    BY <1>1, RestTypes, QueueTypes DEF ResumeCheck
  <2>3. QED BY <1>1, <2>1, <2>2, RestTypes, BaseKept DEF journal, ResumeCheck, founderVars, bootVars
<1>2. CASE OrphanEnds(t)
  <2>1. TableStep /\ HandsFull
    BY <1>2, SameTable, HandsKept DEF OrphanEnds
  <2>2. QED BY <1>2, <2>1, RestTypes, BaseKept DEF journal, OrphanEnds, jobVars, founderVars
<1>3. ASSUME NEW a \in Actors, Recovers(a, t)
      PROVE  TableStep /\ HandsFull
  <2>1. Exists(t) /\ "consume" \in PCs \ {"advance", "siblings"}
    BY <1>3 DEF Recovers, Running, Parked, Exists, PCs
  <2>2. TableStep
    BY <1>3, SameTable DEF Recovers
  <2>3. QED BY <1>3, <2>1, <2>2, HandsKept DEF Recovers
<1>4. CASE SweepVisit(t)
  <2>1. TableStep /\ HandsFull
    BY <1>3, <1>4, VisitFacts, SameTable, HandsKept
  <2>2. QED BY <1>4, <2>1, VisitFacts, RestTypes, BaseKept DEF journal, jobVars, founderVars
<1>5. CASE Reap(t)
  <2>1. TableStep /\ HandsFull
    BY <1>3, <1>5, ReapFacts
  <2>2. QED BY <1>5, <2>1, ReapFacts, RestTypes, BaseKept DEF journal, jobVars, founderVars, bootVars
<1>6. CASE \E j \in Jobs : JobEnds(t, j)
  <2>1. TableStep /\ HandsFull
    BY <1>6, SameTable, HandsKept DEF JobEnds
  <2>2. jobs' \in [Tasks -> SUBSET Jobs] /\ checks' \in SUBSET Tasks
    BY <1>6, RestTypes DEF JobEnds
  <2>3. QED BY <1>6, <2>1, <2>2, RestTypes, BaseKept DEF journal, JobEnds, founderVars, bootVars
<1>7. CASE Rediscover(t)
  <2>1. TableStep /\ HandsFull
    BY <1>7, SameTable, HandsKept DEF Rediscover
  <2>2. queue' \in [Tasks -> Nat]
    BY <1>7, RestTypes, QueueTypes DEF Rediscover
  <2>3. QED BY <1>7, <2>1, <2>2, RestTypes, BaseKept DEF Rediscover, journal, jobVars, founderVars, bootVars
<1>8. QED BY <1>1, <1>2, <1>4, <1>5, <1>6, <1>7

\* So do a crash and the restart.
LEMMA CrashBase ==
    ASSUME Base, Crash \/ Boot \/ BootDone
    PROVE  Base'
<1>1. TableStep
  BY SameTable DEF Crash, Boot, BootDone
<1>2. CASE Crash
  <2>1. Idle \in ActorRecord /\ Idle.pc = "idle"
    BY IdleType
  <2>2. HandsFull
    BY <1>2, <2>1 DEF Crash, HandsFull
  <2>3. orphans' \in SUBSET Tasks
    <3>1. \A w \in Workers : actor[w].pc = "agent" => actor[w].task \in Tasks
      BY DEF Base, RowsInHand, Actors
    <3>2. QED BY <1>2, <3>1, RestTypes DEF Crash
  <2>4. lost' \in SUBSET Tasks
    BY <1>2, RestTypes DEF Crash
  <2>5. crashes' \in 0 .. MaxCrashes
    BY <1>2, RestTypes, BoundsAssumption DEF Crash
  <2>6. queue' \in [Tasks -> Nat] /\ resolver' \in [Resolvers -> Tasks \cup {NoTask}]
        /\ \A r \in Resolvers : resolver'[r] = NoTask
    BY <1>2 DEF Crash
  <2>7. entry' \in [Tasks -> Phases]
    <3>1. \A t \in Tasks : Restored(entry[t]) \in Phases
      BY RestTypes DEF Restored, Phases
    <3>2. QED BY <1>2, <3>1 DEF Crash
  <2>8. QED BY <1>1, <1>2, <2>2, <2>3, <2>4, <2>5, <2>6, <2>7, RestTypes, BaseKept DEF Crash
<1>3. CASE Boot
  <2>1. HandsFull
    BY <1>3, HandsKept DEF Boot
  <2>2. sweep' \in SUBSET Tasks
    BY <1>3 DEF Boot
  <2>3. QED BY <1>1, <1>3, <2>1, <2>2, RestTypes, BaseKept DEF journal, Boot, jobVars, founderVars
<1>4. CASE BootDone
  <2>1. HandsFull
    BY <1>4, HandsKept DEF BootDone
  <2>2. queue' \in [Tasks -> Nat]
    BY <1>4, RestTypes DEF BootDone
  <2>3. QED BY <1>1, <1>4, <2>1, <2>2, RestTypes, BaseKept DEF journal, BootDone, jobVars, founderVars
<1>5. QED BY <1>2, <1>3, <1>4

\* Every step keeps types and rows.
LEMMA BaseStep ==
    ASSUME Base, [Next]_vars
    PROVE  Base'
<1>1. CASE UNCHANGED vars
  BY <1>1, SameTable, HandsKept, RestTypes, BaseKept
    DEF journal, vars, jobVars, founderVars, bootVars
<1>2. CASE Next
  BY <1>2, WorkerBase, ConsumeMoves, MovesBase, SweepBase, FounderBase, CrashBase DEF Next
<1>3. QED BY <1>1, <1>2

\* The dispatched root is the one row there is.
LEMMA BaseInit ==
    ASSUME Init
    PROVE  Base
<1>1. Root \in Tasks /\ 1 \in 0 .. MaxTasks /\ NoTask \notin Tasks /\ 0 \in 0 .. MaxCrashes
  BY BoundsAssumption DEF Root, Tasks, NoTask
<1>2. /\ NewTask(NoTask, "task") \in TaskRecord
      /\ NewTask(NoTask, "task").status = "pending" /\ NewTask(NoTask, "task").block = "none"
      /\ NewTask(NoTask, "task").parent = NoTask /\ NewTask(NoTask, "task").cancelled = FALSE
  BY NewTaskType
<1>3. /\ Absent \in TaskRecord /\ Absent.status = "absent" /\ Absent.block = "none"
      /\ Absent.cancelled = FALSE
  BY <1>2 DEF Absent, TaskRecord, Statuses
<1>4. Idle \in ActorRecord /\ Idle.pc = "idle"
  BY IdleType
<1>5. /\ task \in [Tasks -> TaskRecord] /\ task[Root] = NewTask(NoTask, "task")
      /\ \A t \in Tasks : t # Root => task[t] = Absent
  BY <1>1, <1>2, <1>3 DEF Init
<1>6. TypeOK
  BY <1>1, <1>2, <1>3, <1>4, <1>5 DEF Init, TypeOK, Phases
<1>7. RowsInOrder
  <2>1. \A t \in Tasks : Exists(t) <=> t <= 1
    BY <1>1, <1>2, <1>3, <1>5, BoundsAssumption DEF Tasks, Root, Exists
  <2>2. \A t \in Tasks : ~task[t].cancelled
    BY <1>2, <1>3, <1>5
  <2>3. \A t \in Tasks : Exists(t) => task[t].parent = NoTask
    BY <1>2, <1>3, <1>5 DEF Exists
  <2>4. QED BY <1>1, <2>1, <2>2, <2>3 DEF RowsInOrder
<1>8. RowsInHand
  BY <1>4 DEF Init, RowsInHand
<1>9. QED BY <1>6, <1>7, <1>8 DEF Base

\* Types and rows, invariantly.
LEMMA BaseInvariance == Spec => []Base
<1>1. Init => Base
  BY BaseInit
<1>2. Base /\ [Next]_vars => Base'
  BY BaseStep
<1>3. QED BY <1>1, <1>2, PTL DEF Spec

\* Whatever run_step, the agents' callbacks, the founder, the sweeps and a
\* crash do, in whatever order, the table, the queue and the threads hold
\* what TypeOK says: a row with a block_kind is in progress.
THEOREM TypeCorrect == Spec => []TypeOK
<1>1. Base => TypeOK
  BY DEF Base
<1>2. QED BY <1>1, BaseInvariance, PTL

-----------------------------------------------------------------------------
(* Sessions                                                                *)

\* A row that is in progress or cancelled is there.
LEMMA LiveRows ==
    ASSUME Base, NEW t \in Tasks, Running(t) \/ task[t].cancelled
    PROVE  Exists(t)
BY DEF Base, RowsInOrder, Running, Parked, Exists

\* Nobody takes a session up and the rows of sessions keep their state.
LEMMA SessionsRest ==
    ASSUME Inv, orphans' \subseteq orphans,
           \A t \in Tasks : \A a \in Actors : Drives(a, t)' => Drives(a, t),
           \A t \in Tasks : (t \in orphans' \/ \E a \in Actors : Drives(a, t)') =>
               \/ Running(t) => Running(t)'
               \/ task'[t].cancelled,
           \A t \in Tasks : task[t].cancelled => task'[t].cancelled
    PROVE  Owned' /\ OneDriver'
<1>1. Owned'
  BY DEF Inv, Owned
<1>2. OneDriver'
  BY DEF Inv, OneDriver
<1>3. QED BY <1>1, <1>2

\* What a validated escalation needs to stay valid.
LEMMA ValidatedRests ==
    ASSUME Inv, resolver' = resolver,
           \A t \in Tasks : task[t].cancelled => task'[t].cancelled,
           \A t \in Tasks : task[t].status = "escalated" =>
               task'[t].status = "escalated" \/ task'[t].cancelled
    PROVE  Validated'
<1>1. \A r \in Resolvers : resolver[r] # NoTask => resolver[r] \in Tasks
  BY DEF Inv, Base, TypeOK
<1>2. QED BY <1>1 DEF Inv, Validated

\* A step of a thread: it alone had the session it gives up.
LEMMA MovesSessions ==
    ASSUME Inv, NEW a \in Actors, Moves(a)
    PROVE  Owned' /\ OneDriver' /\ QuietBoot' /\ Validated'
<1>1. PICK t \in Tasks : t = actor[a].task /\ Exists(t)
  BY InHand DEF Moves, Inv
<1>2. orphans' = orphans /\ daemon' = daemon /\ resolver' = resolver
  BY DEF Moves, bootVars, founderVars
<1>3. \A u \in Tasks : \A b \in Actors : Drives(b, u)' => Drives(b, u)
  BY DEF Moves, ActorMoves, Drives, Driving
<1>4. \A u \in Tasks : task[u].cancelled => task'[u].cancelled
  BY LiveRows DEF Inv, Moves, TableMoves, SameSession
<1>5. \A u \in Tasks : Exists(u) =>
          SameState(u) \/ (u = t /\ Drives(a, t) /\ actor'[a].pc \notin Driving)
  BY <1>1 DEF Moves, TableMoves, Drives
<1>6. \A u \in Tasks : (u \in orphans' \/ \E b \in Actors : Drives(b, u)') => (Running(u) => Running(u)')
  <2>1. SUFFICES ASSUME NEW u \in Tasks, u \in orphans' \/ \E b \in Actors : Drives(b, u)', Running(u)
                 PROVE  Running(u)'
    OBVIOUS
  <2>2. Exists(u)
    BY <2>1, LiveRows DEF Inv
  <2>3. CASE SameState(u)
    BY <2>1, <2>3 DEF SameState, Running, Parked
  <2>4. CASE u = t /\ Drives(a, t) /\ actor'[a].pc \notin Driving
    <3>1. u \notin orphans /\ \A b \in Actors : Drives(b, u) => a = b
      BY <2>4 DEF Inv, OneDriver
    <3>2. ~Drives(a, u)'
      BY <2>4 DEF Drives
    <3>3. QED BY <1>2, <1>3, <2>1, <3>1, <3>2
  <2>5. QED BY <1>5, <2>2, <2>3, <2>4
<1>7. Owned' /\ OneDriver'
  BY <1>2, <1>3, <1>4, <1>6, SessionsRest
<1>8. QuietBoot'
  BY <1>2 DEF Inv, QuietBoot, Moves, ActorMoves
<1>9. \A u \in Tasks : task[u].status = "escalated" =>
          task'[u].status = "escalated" \/ task'[u].cancelled
  <2>1. SUFFICES ASSUME NEW u \in Tasks, task[u].status = "escalated", ~SameState(u)
                 PROVE  task'[u].cancelled
    BY DEF SameState
  <2>2. Exists(u)
    BY <2>1 DEF Exists
  <2>3. Drives(a, u)
    BY <1>5, <2>1, <2>2
  <2>4. Running(u) \/ task[u].cancelled
    BY <2>3 DEF Inv, Owned
  <2>5. QED BY <1>4, <2>1, <2>4 DEF Running, Parked
<1>10. Validated'
  BY <1>2, <1>4, <1>9, ValidatedRests
<1>11. QED BY <1>7, <1>8, <1>10

\* A worker dequeues, claims or hears from its agent: only a task that has
\* no session is admitted.
LEMMA WorkerSessions ==
    ASSUME Inv, NEW w \in Workers,
           \/ \E t \in Tasks : Enter(w, t)
           \/ \E d \in Decisions : SubmitCompletion(w, d)
           \/ RunStep(w)
    PROVE  Owned' /\ OneDriver' /\ QuietBoot' /\ Validated'
<1>1. w \in Actors /\ w # Sweeper /\ Base
  BY ActorsAssumption DEF Actors, Inv
<1>2. CASE \E t \in Tasks : Enter(w, t)
  <2>1. PICK t \in Tasks : Enter(w, t)
    BY <1>2
  <2>2. /\ task' = task /\ (actor' = actor \/ Taken(w, t, "prepare"))
        /\ orphans' = orphans /\ daemon' = daemon /\ daemon = "up" /\ resolver' = resolver
    BY <1>1, <2>1, EnterFacts DEF bootVars, founderVars
  <2>3. \A u \in Tasks : \A b \in Actors : Drives(b, u)' => Drives(b, u)
    BY <2>2 DEF Taken, Drives, Driving
  <2>4. Owned' /\ OneDriver'
    BY <2>2, <2>3, SessionsRest DEF Running, Parked
  <2>5. QED BY <2>2, <2>4, ValidatedRests DEF QuietBoot
<1>3. ASSUME actor[w].pc # "idle"
      PROVE  daemon # "down" /\ daemon # "boot"
  BY <1>1, <1>3 DEF Inv, QuietBoot
<1>4. CASE Prepare(w)
  <2>1. CASE Moves(w)
    BY <1>1, <2>1, MovesSessions
  <2>2. CASE actor[w].task \in Tasks /\ Prepares(w, actor[w].task)
    <3>1. /\ task' = task /\ Taken(w, actor[w].task, "claim") /\ actor[w].pc = "prepare"
          /\ orphans' = orphans /\ daemon' = daemon /\ resolver' = resolver
      BY <2>2 DEF Prepares, bootVars, founderVars
    <3>2. \A u \in Tasks : \A b \in Actors : Drives(b, u)' => Drives(b, u)
      BY <3>1 DEF Taken, Drives, Driving
    <3>3. Owned' /\ OneDriver'
      BY <3>1, <3>2, SessionsRest DEF Running, Parked
    <3>4. QED BY <1>3, <3>1, <3>3, ValidatedRests DEF QuietBoot
  <2>3. QED BY <1>1, <1>4, <2>1, <2>2, PrepareFacts
<1>5. CASE Claim(w)
  <2>1. PICK t \in Tasks : t = actor[w].task
    BY <1>1, <1>5, ClaimFacts
  <2>2. orphans' = orphans /\ daemon' = daemon /\ resolver' = resolver /\ Admits(w, t)
    BY <1>1, <1>5, <2>1, ClaimFacts DEF bootVars, founderVars
  <2>3. daemon # "down" /\ daemon # "boot"
    BY <1>3, <2>2 DEF Admits
  <2>4. ~task[t].cancelled /\ ~Running(t) /\ task[t].status # "escalated"
    BY <2>2 DEF Admits, Eligible, Running, Parked
  <2>5. t \notin orphans /\ \A b \in Actors : ~Drives(b, t)
    BY <2>4 DEF Inv, Owned
  <2>6. Running(t)' /\ \A u \in Tasks : u # t => task'[u] = task[u]
    BY <2>2 DEF Admits, Rewrites, Running, Parked
  <2>7. \A u \in Tasks : \A b \in Actors : Drives(b, u)' => (b = w /\ u = t) \/ (u # t /\ Drives(b, u))
    BY <2>2, <2>5 DEF Admits, Drives, Driving
  <2>8. Owned'
    BY <2>2, <2>6, <2>7 DEF Inv, Owned, Running, Parked
  <2>9. OneDriver'
    BY <2>2, <2>5, <2>7 DEF Inv, OneDriver
  <2>10. Validated'
    BY <2>2, <2>4, <2>6, ValidatedRests
  <2>11. QED BY <2>2, <2>3, <2>8, <2>9, <2>10 DEF QuietBoot
<1>6. CASE RefuseLaunch(w)
  <2>1. PICK t \in Tasks : t = actor[w].task
    BY <1>1, <1>6, RefuseFacts
  <2>2. /\ orphans' = orphans /\ daemon' = daemon /\ resolver' = resolver /\ Eligible(t)
        /\ actor[w].pc = "claim" /\ actor'[w].pc = "wake" /\ ActorMoves(w) /\ Rewrites(t)
    BY <1>1, <1>6, <2>1, RefuseFacts DEF bootVars, founderVars
  <2>3. ~task[t].cancelled /\ ~Running(t) /\ task[t].status # "escalated"
    BY <2>2 DEF Eligible, Running, Parked
  <2>4. /\ \A u \in Tasks : u # t => task'[u] = task[u]
        /\ \A u \in Tasks : task[u].cancelled => task'[u].cancelled
    BY <2>2 DEF Rewrites
  <2>5. \A u \in Tasks : \A b \in Actors : Drives(b, u)' => Drives(b, u)
    BY <2>2 DEF ActorMoves, Drives, Driving
  <2>6. Owned' /\ OneDriver'
    BY <2>2, <2>3, <2>4, <2>5, SessionsRest DEF Running, Parked
  <2>7. Validated'
    BY <2>2, <2>3, <2>4, ValidatedRests
  <2>8. QED BY <1>3, <2>2, <2>6, <2>7 DEF QuietBoot
<1>7. CASE Close(w)
  <2>1. /\ actor[w].pc = "close" /\ ActorMoves(w) /\ actor'[w].pc = "idle" /\ task' = task
        /\ orphans' = orphans /\ daemon' = daemon /\ resolver' = resolver
    BY <1>1, <1>7, CloseFacts DEF bootVars, founderVars
  <2>2. \A u \in Tasks : \A b \in Actors : Drives(b, u)' => Drives(b, u)
    BY <2>1 DEF ActorMoves, Drives, Driving
  <2>3. Owned' /\ OneDriver'
    BY <2>1, <2>2, SessionsRest DEF Running, Parked
  <2>4. QED BY <1>3, <2>1, <2>3, ValidatedRests DEF QuietBoot
<1>8. CASE \E d \in Decisions : SubmitCompletion(w, d)
  <2>1. PICK t \in Tasks : t = actor[w].task
    BY <1>1, <1>8, SubmitFacts
  <2>2. /\ Rewrites(t) /\ task'[t].status = task[t].status /\ task'[t].block = task[t].block
        /\ actor' = actor /\ orphans' = orphans /\ daemon' = daemon /\ resolver' = resolver
    BY <1>1, <1>8, <2>1, SubmitFacts DEF founderVars, bootVars
  <2>3. \A u \in Tasks : /\ task'[u].status = task[u].status /\ task'[u].block = task[u].block
                         /\ task[u].cancelled => task'[u].cancelled
    BY <2>2 DEF Rewrites
  <2>4. Owned' /\ OneDriver'
    BY <2>2, <2>3, SessionsRest DEF Running, Parked, Drives
  <2>5. Validated'
    BY <2>2, <2>3, ValidatedRests
  <2>6. QED BY <2>2, <2>4, <2>5 DEF Inv, QuietBoot
<1>9. CASE GiveUp(w) \/ AgentEnds(w)
  BY <1>1, <1>9, GiveUpMoves, AgentMoves, MovesSessions DEF AgentEnds
<1>10. QED BY <1>2, <1>4, <1>5, <1>6, <1>7, <1>8, <1>9 DEF RunStep, ClaimStep

\* The founder: an escalation that is continued has no session.
LEMMA FounderSessions ==
    ASSUME Inv, OneResolver, FounderStep
    PROVE  Owned' /\ OneDriver' /\ QuietBoot' /\ Validated'
<1>1. Base
  BY DEF Inv
<1>2. CASE \E t \in Tasks : CancelCollect(t)
  <2>1. task' = task /\ actor' = actor /\ orphans' = orphans /\ daemon' = daemon /\ resolver' = resolver
    BY <1>2 DEF CancelCollect, bootVars
  <2>2. Owned' /\ OneDriver'
    BY <2>1, SessionsRest DEF Running, Parked, Drives
  <2>3. QED BY <2>1, <2>2, ValidatedRests DEF Inv, QuietBoot
<1>3. CASE \E t \in Tasks : CancelStamp(t)
  <2>1. PICK t \in Tasks : CancelStamp(t)
    BY <1>3
  <2>2. /\ task'[t].cancelled /\ \A u \in Tasks : u # t => task'[u] = task[u]
        /\ actor' = actor /\ orphans' = orphans /\ daemon' = daemon /\ resolver' = resolver
    BY <1>1, <2>1, StampFacts DEF Rewrites, bootVars
  <2>3. Owned' /\ OneDriver'
    BY <2>2, SessionsRest DEF Running, Parked, Drives
  <2>4. QED BY <2>2, <2>3, ValidatedRests DEF Inv, QuietBoot
<1>4. CASE \E r \in Resolvers : ResolveContinue(r)
  <2>1. PICK r \in Resolvers : ResolveContinue(r)
    BY <1>4
  <2>2. PICK t \in Tasks : t = resolver[r] /\ t # NoTask
    BY <1>1, <2>1, ContinueFacts DEF ResolveContinue
  <2>3. /\ Rewrites(t) /\ resolver' = [resolver EXCEPT ![r] = NoTask]
        /\ actor' = actor /\ orphans' = orphans /\ daemon' = daemon
    BY <1>1, <2>1, <2>2, ContinueFacts DEF bootVars
  <2>4. task[t].status = "escalated" \/ task[t].cancelled
    BY <2>2 DEF Inv, Validated
  <2>5. ~Running(t) \/ task'[t].cancelled
    BY <2>3, <2>4 DEF Running, Parked, Rewrites
  <2>6. /\ \A u \in Tasks : task[u].cancelled => task'[u].cancelled
        /\ \A u \in Tasks : u # t => task'[u] = task[u]
    BY <2>3 DEF Rewrites
  <2>7. Owned' /\ OneDriver'
    BY <2>3, <2>5, <2>6, SessionsRest DEF Running, Parked, Drives
  <2>8. Validated'
    BY <2>3 DEF OneResolver, Validated, Inv, Base, TypeOK
  <2>9. QED BY <2>3, <2>7, <2>8 DEF Inv, QuietBoot
<1>5. CASE \E r \in Resolvers : \E t \in Tasks : ResolveRead(r, t)
  <2>1. PICK r \in Resolvers, t \in Tasks : ResolveRead(r, t)
    BY <1>5
  <2>2. /\ task' = task /\ actor' = actor /\ orphans' = orphans /\ daemon' = daemon
        /\ resolver' = [resolver EXCEPT ![r] = t] /\ task[t].status = "escalated"
    BY <2>1 DEF ResolveRead, bootVars
  <2>3. Owned' /\ OneDriver'
    BY <2>2, SessionsRest DEF Running, Parked, Drives
  <2>4. Validated'
    BY <2>2 DEF Inv, Validated, Base, TypeOK
  <2>5. QED BY <2>2, <2>3, <2>4 DEF Inv, QuietBoot
<1>6. QED BY <1>2, <1>3, <1>4, <1>5 DEF FounderStep

\* The sweep or the reaper takes over a task that nobody has.
LEMMA RecoverSessions ==
    ASSUME Inv, NEW a \in Actors, NEW t \in Tasks, Recovers(a, t),
           \A b \in Actors : ~Drives(b, t), actor[a].pc = "idle",
           daemon = "up" \/ (daemon = "boot" /\ a = Sweeper),
           daemon' = daemon, orphans' = orphans, resolver' = resolver
    PROVE  Owned' /\ OneDriver' /\ QuietBoot' /\ Validated'
<1>1. Running(t) /\ t \notin orphans /\ \A b \in Actors : b # a => actor'[b] = actor[b]
  BY DEF Recovers, Taken
<1>2. /\ \A u \in Tasks : u # t => task'[u] = task[u]
      /\ \A u \in Tasks : task[u].cancelled => task'[u].cancelled
  BY DEF Recovers
<1>3. QuietBoot'
  BY <1>1 DEF Inv, QuietBoot
<1>4. Validated'
  <2>1. task[t].status # "escalated"
    BY <1>1 DEF Running, Parked
  <2>2. QED BY <1>2, <2>1, ValidatedRests
<1>5. \A u \in Tasks : \A b \in Actors : u # t /\ Drives(b, u)' => Drives(b, u)
  BY DEF Recovers, Taken, Drives
<1>6. \A b \in Actors : Drives(b, t)' => b = a /\ task' = task
  BY <1>1 DEF Recovers, Taken, Drives, Driving
<1>7. Owned'
  <2>1. SUFFICES ASSUME NEW u \in Tasks, u \in orphans' \/ \E b \in Actors : Drives(b, u)'
                 PROVE  Running(u)' \/ task'[u].cancelled
    BY DEF Owned
  <2>2. CASE u = t
    BY <1>1, <1>6, <2>1, <2>2 DEF Running, Parked
  <2>3. CASE u # t
    <3>1. Running(u) \/ task[u].cancelled
      BY <1>5, <2>1, <2>3 DEF Inv, Owned
    <3>2. QED BY <1>2, <2>3, <3>1 DEF Running, Parked
  <2>4. QED BY <2>2, <2>3
<1>8. OneDriver'
  <2>1. SUFFICES ASSUME NEW u \in Tasks, NEW b \in Actors, Drives(b, u)'
                 PROVE  u \notin orphans' /\ \A c \in Actors : Drives(c, u)' => b = c
    BY DEF OneDriver
  <2>2. CASE u = t
    BY <1>1, <1>6, <2>1, <2>2
  <2>3. CASE u # t
    BY <1>5, <2>1, <2>3 DEF Inv, OneDriver
  <2>4. QED BY <2>2, <2>3
<1>9. QED BY <1>3, <1>4, <1>7, <1>8

\* Job ends, checks, orphans, the sweep and the reaper.
LEMMA SweepSessions ==
    ASSUME Inv, NEW t \in Tasks,
           \/ ResumeCheck(t) \/ OrphanEnds(t) \/ SweepVisit(t) \/ Reap(t) \/ Rediscover(t)
           \/ \E j \in Jobs : JobEnds(t, j)
    PROVE  Owned' /\ OneDriver' /\ QuietBoot' /\ Validated'
<1>1. Base
  BY DEF Inv
<1>2. ASSUME task' = task, actor' = actor, orphans' \subseteq orphans, daemon' = daemon, resolver' = resolver
      PROVE  Owned' /\ OneDriver' /\ QuietBoot' /\ Validated'
  <2>1. Owned' /\ OneDriver'
    BY <1>2, SessionsRest DEF Running, Parked, Drives
  <2>2. QED BY <1>2, <2>1, ValidatedRests DEF Inv, QuietBoot
<1>3. CASE ResumeCheck(t) \/ OrphanEnds(t) \/ Rediscover(t) \/ \E j \in Jobs : JobEnds(t, j)
  BY <1>2, <1>3 DEF ResumeCheck, OrphanEnds, Rediscover, JobEnds, founderVars, bootVars
<1>4. CASE SweepVisit(t)
  <2>1. /\ daemon = "boot" /\ actor[Sweeper].pc = "idle" /\ Sweeper \in Actors
        /\ (task' = task /\ actor' = actor) \/ Recovers(Sweeper, t)
        /\ orphans' = orphans /\ daemon' = daemon /\ resolver' = resolver
    BY <1>1, <1>4, VisitFacts DEF founderVars
  <2>2. \A b \in Actors : ~Drives(b, t)
    BY <2>1 DEF Inv, QuietBoot, Drives, Driving
  <2>3. CASE task' = task /\ actor' = actor
    BY <1>2, <2>1, <2>3
  <2>4. CASE Recovers(Sweeper, t)
    BY <2>1, <2>2, <2>4, RecoverSessions
  <2>5. QED BY <2>1, <2>3, <2>4
<1>5. CASE Reap(t)
  <2>1. /\ daemon = "up" /\ actor[Reaper].pc = "idle" /\ Reaper \in Actors /\ Recovers(Reaper, t)
        /\ \A a \in Actors : actor[a].task # t
        /\ orphans' = orphans /\ daemon' = daemon /\ resolver' = resolver
    BY <1>1, <1>5, ReapFacts DEF founderVars, bootVars
  <2>2. \A b \in Actors : ~Drives(b, t)
    BY <2>1 DEF Drives
  <2>3. QED BY <2>1, <2>2, RecoverSessions
<1>6. QED BY <1>3, <1>4, <1>5

\* A crash leaves no thread, and only sessions that were there.
LEMMA CrashSessions ==
    ASSUME Inv, Crash \/ Boot \/ BootDone
    PROVE  Owned' /\ OneDriver' /\ QuietBoot' /\ Validated'
<1>1. task' = task
  BY DEF Crash, Boot, BootDone
<1>2. CASE Crash
  <2>1. (\A a \in Actors : actor'[a].pc = "idle") /\ \A r \in Resolvers : resolver'[r] = NoTask
    BY <1>2 DEF Crash, Idle
  <2>2. \A t \in Tasks : \A a \in Actors : ~Drives(a, t)'
    BY <2>1 DEF Drives, Driving
  <2>3. \A t \in Tasks : t \in orphans' => t \in orphans \/ \E a \in Actors : Drives(a, t)
    BY <1>2 DEF Crash, Drives, Driving, Actors
  <2>4. Owned'
    BY <1>1, <2>2, <2>3 DEF Inv, Owned, Running, Parked
  <2>5. QED BY <2>1, <2>2, <2>4 DEF OneDriver, QuietBoot, Validated
<1>3. CASE Boot \/ BootDone
  <2>1. actor' = actor /\ orphans' = orphans /\ resolver' = resolver
    BY <1>3 DEF Boot, BootDone, founderVars
  <2>2. Owned' /\ OneDriver'
    BY <1>1, <2>1, SessionsRest DEF Running, Parked, Drives
  <2>3. Validated'
    BY <1>1, <2>1, ValidatedRests
  <2>4. QuietBoot'
    BY <1>3, <2>1 DEF Inv, QuietBoot, Boot, BootDone
  <2>5. QED BY <2>2, <2>3, <2>4
<1>4. QED BY <1>2, <1>3

\* Every step keeps the invariant, with one resolve request at a time.
LEMMA InvStep ==
    ASSUME Inv, OneResolver, [Next]_vars
    PROVE  Inv'
<1>1. Base'
  BY BaseStep DEF Inv
<1>2. Owned' /\ OneDriver' /\ QuietBoot' /\ Validated'
  <2>1. CASE UNCHANGED vars
    BY <2>1 DEF Inv, Owned, OneDriver, QuietBoot, Validated, Drives, Running, Parked,
                vars, bootVars, founderVars
  <2>2. CASE Next
    BY <2>2, WorkerSessions, ConsumeMoves, MovesSessions, SweepSessions, FounderSessions,
       CrashSessions DEF Next, Inv
  <2>3. QED BY <2>1, <2>2
<1>3. QED BY <1>1, <1>2 DEF Inv

\* Nothing runs at first.
LEMMA InvInit ==
    ASSUME Init
    PROVE  Inv
<1>1. /\ \A a \in Actors : actor[a].pc = "idle"
      /\ \A r \in Resolvers : resolver[r] = NoTask
      /\ orphans = {} /\ daemon = "up"
  BY DEF Init, Idle
<1>2. QED BY <1>1, BaseInit DEF Inv, Owned, OneDriver, QuietBoot, Validated, Drives, Driving

\* The inductive invariant, for one resolve request at a time.
THEOREM Invariance == OneResolver => (Spec => []Inv)
<1>1. SUFFICES ASSUME OneResolver PROVE Spec => []Inv
  OBVIOUS
<1>2. Init => Inv
  BY InvInit
<1>3. Inv /\ [Next]_vars => Inv'
  BY <1>1, InvStep
<1>4. QED BY <1>2, <1>3, PTL DEF Spec

-----------------------------------------------------------------------------
(* Cancelled tasks and resumed parents                                     *)

\* What any step does to a row: a session is added to an eligible task only,
\* a report is one the agent may give, a stamp stays, and a stamped row does
\* not get parked on children.
RowStep(t) ==
    /\ Exists(t) =>
         /\ Exists(t)' /\ task'[t].parent = task[t].parent /\ task'[t].kind = task[t].kind
         /\ task[t].cancelled => task'[t].cancelled
         /\ task'[t].steps = task[t].steps \/ Eligible(t)
         /\ \/ task'[t].report \in {task[t].report, "none"}
            \/ \E d \in Decisions : MayReport(t, d) /\ task'[t].report = d
    /\ ~Exists(t) => task'[t] = task[t] \/ \E a \in Actors : Born(a, t)
    /\ task'[t].cancelled /\ task'[t].block = "delegated" =>
         task[t].cancelled /\ task[t].block = "delegated"

\* What any step does to a thread: it sets out to advance the chain of a
\* parked parent only.
ThreadStep(a) ==
    actor'[a].pc = "advance" =>
        /\ actor[a].pc # "idle" /\ actor'[a].task = actor[a].task
        /\ actor[a].pc = "advance" \/ Parked(task[actor[a].task].parent, "delegated")

Step == (\A t \in Tasks : RowStep(t)) /\ (\A a \in Actors : ThreadStep(a))

\* A table that rests.
LEMMA RowsRest ==
    ASSUME task' = task, NEW t \in Tasks
    PROVE  RowStep(t)
BY DEF RowStep, Exists

\* One row written.
LEMMA RowsRewritten ==
    ASSUME Base, NEW t \in Tasks, Rewrites(t),
           task'[t].steps = task[t].steps \/ Eligible(t),
           \/ task'[t].report \in {task[t].report, "none"}
           \/ \E d \in Decisions : MayReport(t, d) /\ task'[t].report = d,
           \/ task'[t].block = "none"
           \/ task'[t].block = task[t].block /\ task'[t].cancelled = task[t].cancelled
    PROVE  \A u \in Tasks : RowStep(u)
<1>1. SUFFICES ASSUME NEW u \in Tasks PROVE RowStep(u)
  OBVIOUS
<1>2. TableStep /\ Exists(t) /\ \A v \in Tasks : v # t => task'[v] = task[v]
  BY DEF Rewrites
<1>3. CASE u = t
  BY <1>2, <1>3 DEF RowStep, Rewrites, TableStep
<1>4. CASE u # t
  BY <1>2, <1>4 DEF RowStep, Exists
<1>5. QED BY <1>3, <1>4

\* Threads that stay, return or take a task on set out to advance nothing.
LEMMA ThreadsRest ==
    ASSUME Base, \/ actor' = actor
                 \/ \E a \in Actors : ActorMoves(a)
                 \/ \E a \in Actors : \E t \in Tasks : \E pc \in PCs \ {"advance"} : Taken(a, t, pc)
    PROVE  \A a \in Actors : ThreadStep(a)
BY DEF ThreadStep, ActorMoves, Taken

\* A step of a thread on its task.
LEMMA MovesStep ==
    ASSUME Base, NEW a \in Actors, Moves(a)
    PROVE  Step
<1>1. \A b \in Actors : ThreadStep(b)
  BY ThreadsRest DEF Moves
<1>2. ASSUME NEW t \in Tasks
      PROVE  RowStep(t)
  <2>1. CASE Exists(t)
    BY <2>1 DEF Moves, TableMoves, TableStep, SameSession, RowStep
  <2>2. CASE ~Exists(t)
    <3>1. ~task[t].cancelled
      BY <2>2 DEF Base, RowsInOrder
    <3>2. task'[t] = task[t] \/ Born(a, t)
      BY <2>2 DEF Moves, TableMoves
    <3>3. ~task'[t].cancelled
      BY <3>1, <3>2 DEF Born
    <3>4. QED BY <2>2, <3>2, <3>3 DEF RowStep
  <2>3. QED BY <2>1, <2>2
<1>3. QED BY <1>1, <1>2 DEF Step

\* A worker dequeues, claims or hears from its agent.
LEMMA WorkerStep ==
    ASSUME Base, NEW w \in Workers,
           \/ \E t \in Tasks : Enter(w, t)
           \/ \E d \in Decisions : SubmitCompletion(w, d)
           \/ RunStep(w)
    PROVE  Step
<1>1. w \in Actors /\ {"prepare", "claim", "agent"} \subseteq PCs \ {"advance"}
  BY DEF Actors, PCs
<1>2. CASE \E t \in Tasks : Enter(w, t)
  BY <1>1, <1>2, EnterFacts, RowsRest, ThreadsRest DEF Step
<1>3. CASE Prepare(w)
  <2>1. CASE actor[w].task \in Tasks /\ Prepares(w, actor[w].task)
    BY <1>1, <2>1, RowsRest, ThreadsRest DEF Step, Prepares
  <2>2. QED BY <1>1, <1>3, <2>1, PrepareFacts, MovesStep
<1>4. CASE Claim(w)
  <2>1. PICK t \in Tasks : t = actor[w].task
    BY <1>4, ClaimFacts
  <2>2. Admits(w, t)
    BY <1>4, <2>1, ClaimFacts
  <2>3. \A u \in Tasks : RowStep(u)
    BY <2>2, RowsRewritten DEF Admits
  <2>4. Taken(w, t, "agent")
    BY <2>2 DEF Admits, Taken
  <2>5. QED BY <1>1, <2>3, <2>4, ThreadsRest DEF Step
<1>5. CASE RefuseLaunch(w)
  <2>1. PICK t \in Tasks : t = actor[w].task
    BY <1>5, RefuseFacts
  <2>2. \A u \in Tasks : RowStep(u)
    BY <1>5, <2>1, RefuseFacts, RowsRewritten
  <2>3. QED BY <1>1, <1>5, <2>2, RefuseFacts, ThreadsRest DEF Step
<1>6. CASE Close(w)
  BY <1>1, <1>6, CloseFacts, RowsRest, ThreadsRest DEF Step
<1>7. CASE \E d \in Decisions : SubmitCompletion(w, d)
  <2>1. PICK d \in Decisions : SubmitCompletion(w, d)
    BY <1>7
  <2>2. PICK t \in Tasks : t = actor[w].task
    BY <2>1, SubmitFacts
  <2>3. /\ Rewrites(t) /\ MayReport(t, d) /\ task'[t].report = d /\ actor' = actor
        /\ task'[t].steps = task[t].steps /\ task'[t].block = task[t].block
        /\ task'[t].cancelled = task[t].cancelled
    BY <2>1, <2>2, SubmitFacts
  <2>4. \A u \in Tasks : RowStep(u)
    BY <2>3, RowsRewritten
  <2>5. QED BY <2>3, <2>4, ThreadsRest DEF Step
<1>8. CASE GiveUp(w) \/ AgentEnds(w)
  BY <1>1, <1>8, GiveUpMoves, AgentMoves, MovesStep DEF AgentEnds
<1>9. QED BY <1>2, <1>3, <1>4, <1>5, <1>6, <1>7, <1>8 DEF RunStep, ClaimStep

\* The founder, the sweeps, a crash.
LEMMA OtherStep ==
    ASSUME Base,
           \/ \E t \in Tasks : \E j \in Jobs : JobEnds(t, j)
           \/ \E t \in Tasks : 
                ResumeCheck(t) \/ OrphanEnds(t) \/ SweepVisit(t) \/ Reap(t) \/ Rediscover(t)
           \/ FounderStep \/ Crash \/ Boot \/ BootDone
    PROVE  Step
<1>1. ASSUME task' = task, actor' = actor
      PROVE  Step
  BY <1>1, RowsRest, ThreadsRest DEF Step
<1>2. ASSUME NEW a \in Actors, NEW t \in Tasks, Recovers(a, t)
      PROVE  Step
  <2>1. "consume" \in PCs \ {"advance"}
    BY DEF PCs
  <2>2. \A b \in Actors : ThreadStep(b)
    BY <1>2, <2>1, ThreadsRest DEF Recovers
  <2>3. QED BY <1>2, <2>2, RowsRest DEF Step, Recovers
<1>3. CASE \E t \in Tasks : \E j \in Jobs : JobEnds(t, j)
  BY <1>1, <1>3 DEF JobEnds
<1>4. CASE \E t \in Tasks : ResumeCheck(t) \/ OrphanEnds(t) \/ Rediscover(t)
  BY <1>1, <1>4 DEF ResumeCheck, OrphanEnds, Rediscover
<1>5. CASE \E t \in Tasks : SweepVisit(t)
  BY <1>1, <1>2, <1>5, VisitFacts
<1>6. CASE \E t \in Tasks : Reap(t)
  BY <1>2, <1>6, ReapFacts
<1>7. CASE FounderStep
  <2>1. CASE \/ \E t \in Tasks : CancelCollect(t)
             \/ \E r \in Resolvers : \E t \in Tasks : ResolveRead(r, t)
    BY <1>1, <2>1 DEF CancelCollect, ResolveRead
  <2>2. CASE \E t \in Tasks : CancelStamp(t)
    <3>1. PICK t \in Tasks : CancelStamp(t)
      BY <2>2
    <3>2. \A u \in Tasks : RowStep(u)
      BY <3>1, StampFacts, RowsRewritten
    <3>3. QED BY <3>1, <3>2, StampFacts, ThreadsRest DEF Step
  <2>3. CASE \E r \in Resolvers : ResolveContinue(r)
    <3>1. PICK r \in Resolvers : ResolveContinue(r)
      BY <2>3
    <3>2. \A u \in Tasks : RowStep(u)
      BY <3>1, ContinueFacts, RowsRewritten
    <3>3. QED BY <3>1, <3>2, ContinueFacts, ThreadsRest DEF Step
  <2>4. QED BY <1>7, <2>1, <2>2, <2>3 DEF FounderStep
<1>8. CASE Crash
  <2>1. task' = task /\ \A a \in Actors : actor'[a].pc = "idle"
    BY <1>8 DEF Crash, Idle
  <2>2. QED BY <2>1, RowsRest DEF Step, ThreadStep
<1>9. CASE Boot \/ BootDone
  BY <1>1, <1>9 DEF Boot, BootDone
<1>10. QED BY <1>3, <1>4, <1>5, <1>6, <1>7, <1>8, <1>9

\* Every step does no more than Step says.
LEMMA EveryStep ==
    ASSUME Base, [Next]_vars
    PROVE  Step
<1>1. CASE UNCHANGED vars
  BY <1>1, RowsRest, ThreadsRest DEF Step, vars
<1>2. CASE Next
  BY <1>2, WorkerStep, ConsumeMoves, MovesStep, OtherStep DEF Next
<1>3. QED BY <1>1, <1>2

\* A stamped row is not parked on children.
Down == \A t \in Tasks : task[t].cancelled => task[t].block # "delegated"

\* Down is kept.
LEMMA DownInvariance == Spec => [](Base /\ Down)
<1>1. Init => Base /\ Down
  <2>1. ASSUME Init PROVE Down
    <3>1. \A t \in Tasks : task[t].block = "none"
      BY <2>1 DEF Init, NewTask, Absent
    <3>2. QED BY <3>1 DEF Down
  <2>2. QED BY <2>1, BaseInit
<1>2. Base /\ Down /\ [Next]_vars => Down'
  BY EveryStep DEF Step, RowStep, Down
<1>3. Base /\ [Next]_vars => Base'
  BY BaseStep
<1>4. QED BY <1>1, <1>2, <1>3, PTL DEF Spec

\* The children of a stamped task.
LEMMA NoNewChild ==
    ASSUME Base, Down, Step, RowsInOrder', NEW t \in Tasks, task[t].cancelled
    PROVE  /\ task'[t].steps = task[t].steps
           /\ Advancing(t)' \subseteq Advancing(t)
           /\ \/ Children(t)' = Children(t)
              \/ /\ Advancing(t)' # Advancing(t)
                 /\ \E leg \in Tasks : Children(t)' = Children(t) \cup {leg}
<1>1. Exists(t)
  BY LiveRows
<1>2. task'[t].steps = task[t].steps
  BY <1>1 DEF Step, RowStep, Eligible
<1>3. \A u \in Tasks : Exists(u) => Exists(u)' /\ task'[u].parent = task[u].parent
  BY DEF Step, RowStep
<1>4. \A a \in Actors : actor[a].pc # "idle" => actor[a].task \in Tasks /\ Exists(actor[a].task)
  BY DEF Base, RowsInHand
<1>5. Advancing(t)' \subseteq Advancing(t)
  <2>1. SUFFICES ASSUME NEW a \in Actors, actor'[a].pc = "advance", task'[actor'[a].task].parent = t
                 PROVE  a \in Advancing(t)
    BY DEF Advancing
  <2>2. /\ actor[a].pc # "idle" /\ actor'[a].task = actor[a].task
        /\ actor[a].pc = "advance" \/ Parked(task[actor[a].task].parent, "delegated")
    BY <2>1 DEF Step, ThreadStep
  <2>3. task[actor[a].task].parent = t
    BY <1>3, <1>4, <2>1, <2>2
  <2>4. actor[a].pc = "advance"
    BY <2>2, <2>3 DEF Down, Parked
  <2>5. QED BY <2>3, <2>4 DEF Advancing
<1>6. Children(t) = {u \in Tasks : Exists(u) /\ task[u].parent = t}
  BY DEF Children
<1>7. Children(t)' = {u \in Tasks : task'[u].status # "absent" /\ task'[u].parent = t}
  BY DEF Children, Exists
<1>8. Children(t) \subseteq Children(t)'
  BY <1>3, <1>6, <1>7 DEF Exists
<1>9. ASSUME NEW u \in Children(t)', u \notin Children(t)
      PROVE  u = Used + 1 /\ \E a \in Actors : a \in Advancing(t) /\ actor'[a].pc # "advance"
  <2>1. u \in Tasks /\ task'[u].parent = t /\ task'[u].status # "absent"
    BY <1>7, <1>9
  <2>2. ~Exists(u)
    BY <1>3, <1>6, <1>9, <2>1
  <2>3. PICK a \in Actors : Born(a, u)
    BY <2>1, <2>2 DEF Step, RowStep, Exists
  <2>4. QED BY <2>1, <2>3 DEF Born
<1>10. CASE Children(t)' \subseteq Children(t)
  <2>1. Children(t)' = Children(t)
    BY <1>8, <1>10
  <2>2. QED BY <1>2, <1>5, <2>1
<1>11. CASE ~(Children(t)' \subseteq Children(t))
  <2>1. PICK u \in Children(t)' : u \notin Children(t)
    BY <1>11
  <2>2. Children(t)' = Children(t) \cup {u} /\ u \in Tasks
    BY <1>7, <1>8, <1>9, <2>1
  <2>3. Advancing(t)' # Advancing(t)
    BY <1>9, <2>1 DEF Advancing
  <2>4. QED BY <1>2, <1>5, <2>2, <2>3
<1>12. QED BY <1>10, <1>11

\* For any table, any number of threads, requests and crashes: a task with
\* the founder's stamp gets no session, nobody sets out to advance its
\* chain, and each child it still gets uses up a thread that was already
\* advancing it when the stamp came.
THEOREM StaysDown == Spec => CancelledStaysDown
<1>1. Base /\ Down /\ [Next]_vars =>
        [\A t \in Tasks : task[t].cancelled =>
            /\ task'[t].steps = task[t].steps
            /\ Advancing(t)' \subseteq Advancing(t)
            /\ \/ Children(t)' = Children(t)
               \/ /\ Advancing(t)' # Advancing(t)
                  /\ \E leg \in Tasks : Children(t)' = Children(t) \cup {leg}]_vars
  BY EveryStep, BaseStep, NoNewChild DEF Base
<1>2. QED BY <1>1, DownInvariance, PTL DEF Spec, CancelledStaysDown

\* For any table and any schedule: a task that has ended gets no session
\* any more, whatever row a worker had read, for the claim looks again.
THEOREM EndedStaysEnded == Spec => EndedNeverRuns
<1>1. ASSUME Base, Step, NEW t \in Tasks, IsTerminal(t)
      PROVE  task'[t].steps = task[t].steps
  <2>1. Exists(t) /\ ~Eligible(t)
    BY <1>1 DEF IsTerminal, Terminal, Exists, Eligible, Parked
  <2>2. QED BY <1>1, <2>1 DEF Step, RowStep
<1>2. Base /\ [Next]_vars => [\A t \in Tasks : IsTerminal(t) => task'[t].steps = task[t].steps]_vars
  BY <1>1, EveryStep
<1>3. QED BY <1>2, BaseInvariance, PTL DEF Spec, EndedNeverRuns

\* Nobody fans out to managers.
OnlyLeaves == "fanout_managers" \notin Decisions

\* Reports are kept.
LEMMA ReportsStep ==
    ASSUME Base, Reports, OnlyLeaves, Step
    PROVE  Reports'
<1>1. SUFFICES ASSUME NEW t \in Tasks
               PROVE  /\ task'[t].report = "none" \/ task'[t].report \in Decisions
                      /\ task'[t].kind = "subtask" => task'[t].report \in Final \cup {"block", "none"}
                      /\ (task'[t].status # "absent" /\ task'[t].parent # NoTask) => task'[t].kind = "subtask"
  BY DEF Reports, Exists
<1>2. /\ task[t].report = "none" \/ task[t].report \in Decisions
      /\ task[t].kind = "subtask" => task[t].report \in Final \cup {"block", "none"}
      /\ (Exists(t) /\ task[t].parent # NoTask) => task[t].kind = "subtask"
  BY DEF Reports
<1>3. CASE Exists(t)
  BY <1>2, <1>3 DEF Step, RowStep, MayReport
<1>4. CASE ~Exists(t)
  <2>1. CASE task'[t] = task[t]
    BY <1>2, <1>4, <2>1 DEF Exists
  <2>2. CASE \E a \in Actors : Born(a, t)
    <3>1. PICK a \in Actors : Born(a, t)
      BY <2>2
    <3>2. CASE task'[t].kind = "subtask"
      BY <3>1, <3>2 DEF Born
    <3>3. CASE actor[a].task \in Tasks /\ task[actor[a].task].report = "fanout_managers"
      BY <3>3 DEF Reports, OnlyLeaves
    <3>4. QED BY <3>1, <3>2, <3>3 DEF Born
  <2>3. QED BY <1>4, <2>1, <2>2 DEF Step, RowStep
<1>5. QED BY <1>3, <1>4

\* A parent that is resumed.
LEMMA ResumedOverSettled ==
    ASSUME Base, Reports, OnlyLeaves, Step, NEW p \in Tasks,
           Parked(p, "delegated"), task'[p].steps > task[p].steps
    PROVE  \A c \in Children(p) : IsTerminal(c) \/ task[c].report \in Final
<1>1. Exists(p) /\ task[p].steps \in Nat
  BY DEF Parked, Exists, Base, TypeOK, TaskRecord
<1>2. task'[p].steps # task[p].steps
  BY <1>1
<1>3. Eligible(p)
  BY <1>1, <1>2 DEF Step, RowStep
<1>4. \A c \in Children(p) : SettledForParent(c)
  BY <1>3 DEF Eligible, Parked
<1>5. p # NoTask
  BY BoundsAssumption DEF Tasks, NoTask
<1>6. \A c \in Children(p) : task[c].report \in Final \cup {"block", "none"}
  BY <1>5 DEF Children, Reports
<1>7. QED BY <1>4, <1>6 DEF SettledForParent, LandedTerminalReport

\* Where nobody fans out to managers: however the completions of its
\* children, its wakes and the reports race, a delegating parent is resumed
\* only when every child is terminal or has reported that it is.
THEOREM ResumedWhenSettled == OnlyLeaves => (Spec => NoLiveChildAtResume)
<1>1. SUFFICES ASSUME OnlyLeaves PROVE Spec => NoLiveChildAtResume
  OBVIOUS
<1>2. Init => Base /\ Reports
  <2>1. ASSUME Init PROVE Reports
    <3>1. \A t \in Tasks : task[t].report = "none" /\ task[t].parent = NoTask
      BY <2>1 DEF Init, NewTask, Absent
    <3>2. QED BY <3>1 DEF Reports
  <2>2. QED BY <2>1, BaseInit
<1>3. Base /\ Reports /\ [Next]_vars => Base' /\ Reports'
  BY <1>1, BaseStep, EveryStep, ReportsStep
<1>4. Base /\ Reports /\ [Next]_vars =>
        [\A p \in Tasks :
           /\ Parked(p, "delegated") /\ task'[p].steps > task[p].steps
           => \A c \in Children(p) : IsTerminal(c) \/ task[c].report \in Final]_vars
  BY <1>1, EveryStep, ResumedOverSettled
<1>5. QED BY <1>2, <1>3, <1>4, PTL DEF Spec, NoLiveChildAtResume

=============================================================================
