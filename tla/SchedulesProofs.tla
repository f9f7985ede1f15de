---------------------------- MODULE SchedulesProofs ----------------------------
(***************************************************************************)
(* TypeOK and SpawnedOnce of Schedules, for any schedules, operators and   *)
(* bounds.                                                                 *)
(***************************************************************************)
EXTENDS Schedules, TLAPS

\* What TypeOK leaves open of the records the loop works with.
Requests == [what : {"none", "create", "pause", "cancel", "edit"},
             s : Schedules \cup {NoSchedule}, fireAt : Instants]
Workers == [s : Schedules \cup {NoSchedule}, pc : {"idle", "preparing", "running"},
            kind : Kinds]
Spawns == [s : Schedules \cup {NoSchedule}, read : Row]
Ticks == [now : Nat, due : SUBSET [s : Schedules, read : Row]]

Types ==
    /\ worker \in Workers /\ spawning \in Spawns /\ tick \in Ticks
    /\ worker.pc = "idle" => worker = Idle
    /\ worker # Idle => worker.s \in Schedules
    /\ spawning # NoSpawn => spawning.s \in Schedules
    /\ \A o \in Operators : op[o].s # NoSchedule => op[o].what \in {"pause", "cancel", "edit"}

\* The kind a step under way has read is the kind of the row, which exists.
SameKind(s, kind) == row[s].kind = kind /\ row[s].status # "absent"
KindsKnown ==
    /\ worker # Idle => SameKind(worker.s, worker.kind)
    /\ spawning # NoSpawn => SameKind(spawning.s, spawning.read.kind)
    /\ \A d \in tick.due : SameKind(d.s, d.read.kind)
    /\ \A o \in Operators : op[o].s # NoSchedule => row[op[o].s].status # "absent"

\* A firing row has a claim that has paid for no task yet, unless the callback
\* is just recording the task it paid for.
Credit(s) ==
    /\ tasks[s] <= claims[s] + cut[s]
    /\ (row[s].status = "firing" /\ spawning.s # s) => tasks[s] < claims[s] + cut[s]

\* A one-shot that can still be claimed has not been.
Claimed(s) ==
    /\ row[s].status = "absent" => claims[s] = 0
    /\ row[s].kind = "one_shot" =>
         claims[s] <= 1 /\ (row[s].status = "armed" => claims[s] = 0)

Inv == TypeOK /\ Types /\ KindsKnown /\ \A s \in Schedules : Credit(s) /\ Claimed(s)

\* A row that has been advanced is of its type, of its kind, and no longer
\* firing; it is armed or ended.
LEMMA AdvancedRow ==
  ASSUME NEW r \in Row, NEW t, NEW q \in Advanced(r, t)
  PROVE  /\ q \in Row /\ q.kind = r.kind /\ q.fired = r.fired
         /\ q.status \in {"armed", "fired", "expired", "failed"}
  BY DEF Advanced, Row, Statuses

\* After a failed attempt a one-shot has ended, and no row is firing.
LEMMA FailureRow ==
  ASSUME NEW r \in Row, NEW end \in {"failed", "timeout"},
         NEW q \in FailureTransition(r, r.kind, end)
  PROVE  /\ q \in Row /\ q.kind = r.kind
         /\ q.status \in {"armed", "fired", "expired", "failed", "timeout"}
         /\ r.kind = "one_shot" => q.status = end
  BY AdvancedRow DEF FailureTransition, Row, Statuses

\* After a recorded task a one-shot has fired, and no row is firing.
LEMMA RecordedRow ==
  ASSUME NEW r \in Row, NEW read \in Row, read.kind = r.kind, NEW q \in Recorded(r, read)
  PROVE  /\ q \in Row /\ q.kind = r.kind
         /\ q.status \in {"armed", "fired", "expired", "failed"}
         /\ r.kind = "one_shot" => q.status = "fired"
<1> DEFINE c == [r EXCEPT !.fired = read.fired + 1]
<1>1. c \in Row /\ c.kind = r.kind
  BY DEF Row
<1>2. CASE q = [c EXCEPT !.status = "fired"]
  BY <1>1, <1>2 DEF Row, Statuses
<1>3. CASE read.kind # "one_shot" /\ q \in Advanced(c, now)
  BY <1>1, <1>3, AdvancedRow
<1>4. QED
  BY <1>2, <1>3 DEF Recorded

\* The initial states satisfy the invariant.
LEMMA InitInv == Init => Inv
<1> SUFFICES ASSUME Init PROVE Inv
  OBVIOUS
<1>1. Absent \in Row /\ NoRequest \in Requests
  BY BoundsAssumption DEF Absent, Row, Kinds, Statuses, Instants, NoRequest, Requests
<1>2. TypeOK
  BY <1>1, BoundsAssumption DEF Init, TypeOK, NoTick, Idle, NoSpawn, Requests, Instants
<1>3. Types
  BY <1>1 DEF Init, Types, Workers, Spawns, Ticks, Idle, NoSpawn, NoTick, Kinds, NoRequest
<1>4. KindsKnown
  BY DEF Init, KindsKnown, NoTick, NoRequest
<1>5. \A s \in Schedules : Credit(s) /\ Claimed(s)
  BY DEF Init, Credit, Claimed, Absent
<1>6. QED
  BY <1>2, <1>3, <1>4, <1>5 DEF Inv

-----------------------------------------------------------------------------
(* What a step does to the row and the claims of one schedule              *)

Same(s) == row'[s] = row[s] /\ claims'[s] = claims[s]

Created(s) ==
    /\ row[s].status = "absent" /\ row'[s].status = "armed"
    /\ claims'[s] = claims[s]

Fires(s) ==
    /\ row[s].status = "armed" /\ row'[s].status = "firing" /\ row'[s].kind = row[s].kind
    /\ claims'[s] = claims[s] + 1

Moves(s) ==
    /\ row[s].status # "absent" /\ row'[s].status # "absent"
    /\ row'[s].kind = row[s].kind
    /\ row'[s].status = "firing" => row[s].status = "firing"
    /\ (row[s].kind = "one_shot" /\ row'[s].status = "armed") => row[s].status = "armed"
    /\ claims'[s] = claims[s]

RowStep(s) == Same(s) \/ Created(s) \/ Fires(s) \/ Moves(s)

RowSteps == row' \in [Schedules -> Row] /\ \A s \in Schedules : RowStep(s)

\* One row is replaced by another of its kind that has not become armed or
\* firing, or of a repeating kind that is armed again.
LEMMA OneMoves ==
  ASSUME TypeOK, NEW s \in Schedules, NEW q \in Row,
         row' = [row EXCEPT ![s] = q], UNCHANGED claims,
         row[s].status # "absent", q.status # "absent", q.kind = row[s].kind,
         q.status = "firing" => row[s].status = "firing",
         (q.kind = "one_shot" /\ q.status = "armed") => row[s].status = "armed"
  PROVE  RowSteps
  BY DEF TypeOK, RowSteps, RowStep, Moves, Same

\* A step that touches neither rows nor claims.
LEMMA RowsKept ==
  ASSUME TypeOK, UNCHANGED <<row, claims>>
  PROVE  RowSteps
  BY DEF TypeOK, RowSteps, RowStep, Same

\* The failure of the fire being run.
LEMMA FailMoves ==
  ASSUME Inv, worker # Idle, NEW end \in {"failed", "timeout"}, Fail(end), UNCHANGED claims
  PROVE  RowSteps
<1>1. PICK q \in FailureTransition(row[worker.s], worker.kind, end) :
         row' = [row EXCEPT ![worker.s] = q]
  BY DEF Fail
<1>2. /\ worker.s \in Schedules /\ row[worker.s] \in Row
      /\ row[worker.s].kind = worker.kind /\ row[worker.s].status # "absent"
  BY DEF Inv, Types, TypeOK, KindsKnown, SameKind
<1>3. /\ q \in Row /\ q.kind = row[worker.s].kind
      /\ q.status \in {"armed", "fired", "expired", "failed", "timeout"}
      /\ row[worker.s].kind = "one_shot" => q.status = end
  BY <1>1, <1>2, FailureRow
<1>4. QED
  BY <1>1, <1>2, <1>3, OneMoves DEF Inv

\* Every step.
LEMMA RowStepsHold ==
  ASSUME Inv, Next
  PROVE  RowSteps
<1>0. TypeOK /\ row \in [Schedules -> Row] /\ claims \in [Schedules -> Nat]
  BY DEF Inv, TypeOK
<1>1. ASSUME NEW o \in Operators, CreateCounts(o) PROVE RowSteps
  BY <1>0, <1>1, RowsKept DEF CreateCounts
<1>2. ASSUME NEW o \in Operators, CreateInserts(o) PROVE RowSteps
  <2>1. PICK s \in Schedules, k \in Kinds, at \in {i \in Instants : i > now} :
          /\ row[s].status = "absent"
          /\ row' = [row EXCEPT ![s] =
                      [kind |-> k, status |-> "armed", fireAt |-> at, fired |-> 0]]
    BY <1>2 DEF CreateInserts
  <2>2. claims' = claims
    BY <1>2 DEF CreateInserts
  <2>3. [kind |-> k, status |-> "armed", fireAt |-> at, fired |-> 0] \in Row
    BY DEF Row, Statuses
  <2>4. QED
    BY <1>0, <2>1, <2>2, <2>3 DEF RowSteps, RowStep, Created, Same
<1>3. ASSUME NEW o \in Operators, RequestWrites(o) PROVE RowSteps
  <2>1. /\ op[o].s \in Schedules /\ op[o].fireAt \in Instants
        /\ op[o].what \in {"pause", "cancel", "edit"} /\ row[op[o].s].status # "absent"
    BY <1>3 DEF RequestWrites, Inv, TypeOK, Types, KindsKnown
  <2> DEFINE r == row[op[o].s]
             q == Written(op[o], r)
  <2>2. r \in Row
    BY <1>0, <2>1
  <2>3. /\ q \in Row /\ q.kind = r.kind
        /\ q.status \in {"paused", "cancelled"} \/ q.status = r.status
    BY <2>1, <2>2 DEF Written, Row, Statuses
  <2>4. row' = [row EXCEPT ![op[o].s] = q] /\ claims' = claims
    BY <1>3 DEF RequestWrites
  <2> HIDE DEF q
  <2>5. QED
    BY <1>0, <2>1, <2>3, <2>4, OneMoves
<1>4. ASSUME NEW o \in Operators, NEW s \in Schedules,
             PauseReads(o, s) \/ CancelReads(o, s) \/ EditReads(o, s)
      PROVE  RowSteps
  BY <1>0, <1>4, RowsKept DEF PauseReads, CancelReads, EditReads, Requested
<1>5. CASE schedule_due_schedules
  BY <1>0, <1>5, RowsKept DEF schedule_due_schedules
<1>6. ASSUME NEW d \in tick.due, MissedOccurrence(d) PROVE RowSteps
  <2>1. PICK q \in Advanced(row[d.s], tick.now) : row' = [row EXCEPT ![d.s] = q]
    BY <1>6 DEF MissedOccurrence
  <2>2. /\ d.s \in Schedules /\ row[d.s] \in Row
        /\ row[d.s].kind = "repeating" /\ row[d.s].status # "absent" /\ claims' = claims
    BY <1>0, <1>6 DEF MissedOccurrence, Inv, TypeOK, KindsKnown, SameKind
  <2>3. /\ q \in Row /\ q.kind = row[d.s].kind
        /\ q.status \in {"armed", "fired", "expired", "failed"}
    BY <2>1, <2>2, AdvancedRow
  <2>4. QED
    BY <1>0, <2>1, <2>2, <2>3, OneMoves
<1>7. ASSUME NEW d \in tick.due, claim_firing(d) PROVE RowSteps
  <2>1. d.s \in Schedules
    BY <1>0 DEF TypeOK
  <2>2. CASE UNCHANGED <<row, claims>>
    BY <1>0, <2>2, RowsKept
  <2>3. CASE /\ row[d.s].status = "armed"
             /\ row' = [row EXCEPT ![d.s].status = "firing"]
             /\ claims' = [claims EXCEPT ![d.s] = @ + 1]
    BY <1>0, <2>1, <2>3 DEF RowSteps, RowStep, Fires, Same, Row, Statuses
  <2>4. QED
    BY <1>7, <2>2, <2>3 DEF claim_firing
<1>8. ASSUME NEW s \in Schedules, Put(s) \/ TakeFire(s) \/ SpawnInserts(s) PROVE RowSteps
  BY <1>0, <1>8, RowsKept DEF Put, TakeFire, SpawnInserts
<1>9. CASE PreparationFails
  BY <1>9, FailMoves DEF PreparationFails, Finish, Idle
<1>10. CASE LaunchRefused \/ RunRaises \/ Launch \/ SpawnFails \/ TimePasses
  BY <1>0, <1>10, RowsKept DEF LaunchRefused, RunRaises, Launch, SpawnFails, TimePasses, Finish
<1>11. CASE SessionEnds
  <2>1. worker # Idle /\ claims' = claims
    BY <1>11 DEF SessionEnds, Finish, Idle
  <2>2. CASE row' = row
    BY <1>0, <2>1, <2>2, RowsKept
  <2>3. CASE \E end \in {"failed", "timeout"} : Fail(end)
    BY <2>1, <2>3, FailMoves
  <2>4. QED
    BY <1>11, <2>2, <2>3 DEF SessionEnds
<1>12. CASE SpawnRecords
  <2>1. PICK q \in Recorded(row[spawning.s], spawning.read) :
          row' = [row EXCEPT ![spawning.s] = q]
    BY <1>12 DEF SpawnRecords
  <2>2. /\ spawning.s \in Schedules /\ row[spawning.s] \in Row /\ spawning.read \in Row
        /\ row[spawning.s].kind = spawning.read.kind
        /\ row[spawning.s].status # "absent" /\ claims' = claims
    BY <1>0, <1>12 DEF SpawnRecords, Inv, Types, TypeOK, KindsKnown, SameKind
  <2>3. /\ q \in Row /\ q.kind = row[spawning.s].kind
        /\ q.status \in {"armed", "fired", "expired", "failed"}
        /\ row[spawning.s].kind = "one_shot" => q.status = "fired"
    BY <2>1, <2>2, RecordedRow
  <2>4. QED
    BY <1>0, <2>1, <2>2, <2>3, OneMoves
<1>13. CASE Restart
  <2>1. ASSUME NEW s \in Schedules
        PROVE  Recovered(s) \in Row /\ (row'[s] = Recovered(s) => RowStep(s))
    BY <1>0, <1>13 DEF Restart, Recovered, RowStep, Moves, Same, Row, Statuses
  <2>2. QED
    BY <1>13, <2>1 DEF Restart, RowSteps
<1>14. QED
  BY <1>1, <1>2, <1>3, <1>4, <1>5, <1>6, <1>7, <1>8, <1>9, <1>10, <1>11, <1>12, <1>13
     DEF Next, SchedulerStep, WorkerStep

-----------------------------------------------------------------------------
(* The parts of the invariant                                              *)

\* A one-shot is never armed again after its claim.
LEMMA ClaimedKept ==
  ASSUME Inv, Next, NEW s \in Schedules
  PROVE  Claimed(s)'
<1>1. /\ RowStep(s) /\ Claimed(s) /\ claims[s] \in Nat
      /\ row[s] \in Row /\ row'[s] \in Row
  BY RowStepsHold DEF RowSteps, Inv, TypeOK
<1>2. QED
  BY <1>1 DEF RowStep, Same, Created, Fires, Moves, Claimed

\* A task is paid for by the claim of its row, or by the callback cut short
\* before it; only a callback that holds the loop spends a claim.
LEMMA CreditKept ==
  ASSUME Inv, Next, NEW s \in Schedules
  PROVE  Credit(s)'
<1>0. /\ RowStep(s) /\ Credit(s) /\ s # NoSchedule
      /\ row[s] \in Row /\ row'[s] \in Row
      /\ claims \in [Schedules -> Nat] /\ tasks \in [Schedules -> Nat] /\ cut \in [Schedules -> Nat]
  BY RowStepsHold, ScheduleAssumption DEF RowSteps, Inv, TypeOK
<1>1. CASE UNCHANGED <<tasks, cut, spawning>>
  BY <1>0, <1>1 DEF RowStep, Same, Created, Fires, Moves, Credit
<1>2. ASSUME NEW x \in Schedules, SpawnInserts(x) PROVE Credit(s)'
  <2>1. spawning.s = NoSchedule /\ spawning'.s = x /\ row[x].status = "firing"
    BY <1>2 DEF SpawnInserts, LoopFree, NoSpawn, SpawnAllowed
  <2>2. /\ tasks' = [tasks EXCEPT ![x] = @ + 1]
        /\ row' = row /\ claims' = claims /\ cut' = cut
    BY <1>2 DEF SpawnInserts
  <2>3. CASE s = x
    BY <1>0, <2>1, <2>2, <2>3 DEF Credit
  <2>4. CASE s # x
    BY <1>0, <2>1, <2>2, <2>4 DEF Credit
  <2>5. QED
    BY <2>3, <2>4
<1>3. CASE SpawnRecords
  <2>1. /\ spawning.s \in Schedules /\ row[spawning.s] \in Row /\ spawning.read \in Row
        /\ row[spawning.s].kind = spawning.read.kind
    BY <1>3 DEF SpawnRecords, Inv, Types, TypeOK, KindsKnown, SameKind
  <2>2. PICK q \in Recorded(row[spawning.s], spawning.read) :
          row' = [row EXCEPT ![spawning.s] = q]
    BY <1>3 DEF SpawnRecords
  <2>3. q.status # "firing"
    BY <2>1, <2>2, RecordedRow
  <2>4. spawning.s = s => row'[s].status # "firing"
    BY <2>2, <2>3, <2>1 DEF Inv, TypeOK
  <2>5. UNCHANGED <<tasks, cut, claims>>
    BY <1>3 DEF SpawnRecords
  <2>6. spawning.s # s => row'[s] = row[s]
    BY <2>2 DEF Inv, TypeOK
  <2>7. QED
    BY <1>0, <2>4, <2>5, <2>6 DEF Credit
<1>4. CASE SpawnFails
  <2>1. /\ spawning.s \in Schedules /\ cut' = [cut EXCEPT ![spawning.s] = @ + 1]
        /\ UNCHANGED <<row, tasks, claims>>
    BY <1>4 DEF SpawnFails, Inv, Types
  <2>2. cut'[s] = IF spawning.s = s THEN cut[s] + 1 ELSE cut[s]
    BY <1>0, <2>1
  <2>3. QED
    BY <1>0, <2>1, <2>2 DEF Credit
<1>5. CASE Restart
  <2>1. /\ cut'[s] = cut[s] + (IF spawning.s = s THEN 1 ELSE 0)
        /\ UNCHANGED <<tasks, claims>>
        /\ row'[s].status = "firing" => row[s].status = "firing"
    BY <1>0, <1>5 DEF Restart, Recovered, Row
  <2>2. QED
    BY <1>0, <2>1 DEF Credit
<1>6. QED
  BY <1>1, <1>2, <1>3, <1>4, <1>5 DEF Next, SchedulerStep, WorkerStep, CreateCounts,
     CreateInserts, RequestWrites, PauseReads, CancelReads, EditReads, Requested,
     schedule_due_schedules, MissedOccurrence, claim_firing, Put, TakeFire, PreparationFails,
     LaunchRefused, RunRaises, Launch, SessionEnds, Finish, TimePasses

\* A row that exists keeps its kind and goes on existing.
LEMMA SameKindKept ==
  ASSUME Inv, Next, NEW s \in Schedules, NEW k, SameKind(s, k)
  PROVE  SameKind(s, k)'
  BY RowStepsHold DEF SameKind, RowSteps, RowStep, Same, Created, Fires, Moves

\* What a step under way has read stays the kind of its row.
LEMMA KindsKept ==
  ASSUME Inv, Next
  PROVE  KindsKnown'
<1>0. TypeOK /\ Types /\ KindsKnown /\ row \in [Schedules -> Row]
  BY DEF Inv, TypeOK
<1>1. \A x \in Schedules : row[x].status # "absent" => row'[x].status # "absent"
  BY SameKindKept DEF SameKind
<1>2. worker' # Idle => SameKind(worker.s, worker.kind)'
  <2>1. CASE worker' = worker
    BY <1>0, <2>1, SameKindKept DEF KindsKnown, Types, SameKind
  <2>2. ASSUME NEW x \in Schedules, TakeFire(x), worker' # worker PROVE SameKind(worker.s, worker.kind)'
    <3>1. worker' = [s |-> x, pc |-> "preparing", kind |-> row[x].kind] /\ row' = row
          /\ row[x].status = "firing"
      BY <2>2 DEF TakeFire, Runnable
    <3>2. QED
      BY <3>1 DEF SameKind
  <2>3. CASE Launch
    <3>1. /\ worker # Idle /\ worker'.s = worker.s /\ worker'.kind = worker.kind
      BY <1>0, <2>3 DEF Launch, Types, Workers, Idle
    <3>2. QED
      BY <1>0, <3>1, SameKindKept DEF KindsKnown, Types, SameKind
  <2>4. CASE worker' = Idle
    BY <2>4
  <2>5. QED
    BY <2>1, <2>2, <2>3, <2>4 DEF Next, SchedulerStep, WorkerStep, CreateCounts,
       CreateInserts, RequestWrites, PauseReads, CancelReads, EditReads, Requested,
       schedule_due_schedules, MissedOccurrence, claim_firing, Put, PreparationFails,
       LaunchRefused, RunRaises, SessionEnds, Finish, TimePasses, SpawnInserts, SpawnRecords,
       SpawnFails, Restart
<1>3. spawning' # NoSpawn => SameKind(spawning.s, spawning.read.kind)'
  <2>1. CASE spawning' = spawning
    BY <1>0, <2>1, SameKindKept DEF KindsKnown, Types, SameKind
  <2>2. ASSUME NEW x \in Schedules, SpawnInserts(x) PROVE SameKind(spawning.s, spawning.read.kind)'
    <3>1. spawning' = [s |-> x, read |-> row[x]] /\ row' = row /\ row[x].status = "firing"
      BY <2>2 DEF SpawnInserts, SpawnAllowed
    <3>2. QED
      BY <3>1 DEF SameKind
  <2>3. CASE spawning' = NoSpawn
    BY <2>3
  <2>4. QED
    BY <2>1, <2>2, <2>3 DEF Next, SchedulerStep, WorkerStep, CreateCounts,
       CreateInserts, RequestWrites, PauseReads, CancelReads, EditReads, Requested,
       schedule_due_schedules, MissedOccurrence, claim_firing, Put, TakeFire, PreparationFails,
       LaunchRefused, RunRaises, Launch, SessionEnds, Finish, TimePasses, SpawnRecords,
       SpawnFails, Restart
<1>4. ASSUME NEW d \in tick'.due PROVE SameKind(d.s, d.read.kind)'
  <2>1. CASE schedule_due_schedules
    <3>1. PICK x \in Schedules : Due(x) /\ d = [s |-> x, read |-> row[x]]
      BY <1>4, <2>1 DEF schedule_due_schedules
    <3>2. row' = row
      BY <2>1 DEF schedule_due_schedules
    <3>3. QED
      BY <3>1, <3>2 DEF SameKind, Due
  <2>2. CASE d \in tick.due
    BY <1>0, <2>2, SameKindKept DEF KindsKnown, TypeOK, SameKind
  <2>3. ASSUME NEW e \in tick.due, Taken(e) PROVE d \in tick.due
    BY <1>0, <1>4, <2>3 DEF Taken, NoTick, Types, Ticks
  <2>4. CASE tick' = NoTick
    BY <1>4, <2>4 DEF NoTick
  <2>5. CASE tick' = tick
    BY <1>4, <2>2, <2>5
  <2>6. QED
    BY <2>1, <2>2, <2>3, <2>4, <2>5 DEF Next, SchedulerStep, WorkerStep, CreateCounts,
       CreateInserts, RequestWrites, PauseReads, CancelReads, EditReads, Requested,
       MissedOccurrence, claim_firing, Put, TakeFire, PreparationFails,
       LaunchRefused, RunRaises, Launch, SessionEnds, Finish, TimePasses, SpawnInserts,
       SpawnRecords, SpawnFails, Restart
<1>5. ASSUME NEW o \in Operators, op'[o].s # NoSchedule PROVE row'[op'[o].s].status # "absent"
  <2>0. op \in [Operators -> Requests] /\ (op[o].s # NoSchedule => op[o].s \in Schedules)
    BY <1>0 DEF TypeOK, Requests
  <2>1. CASE op'[o].s = op[o].s
    BY <1>0, <1>1, <1>5, <2>0, <2>1 DEF KindsKnown
  <2>2. ASSUME NEW p \in Operators, NEW x \in Schedules,
               PauseReads(p, x) \/ CancelReads(p, x) \/ EditReads(p, x), op'[o].s # op[o].s
        PROVE  row'[op'[o].s].status # "absent"
    <3>1. PICK what \in {"pause", "cancel", "edit"}, at \in Instants :
             Requested(p, what, x, at) /\ row[x].status \in {"armed", "paused"}
      BY <2>2, BoundsAssumption DEF PauseReads, CancelReads, EditReads, Editable, Instants
    <3>2. op' = [op EXCEPT ![p] = [what |-> what, s |-> x, fireAt |-> at]] /\ row' = row
      BY <3>1 DEF Requested
    <3>3. op'[o].s = x
      BY <2>0, <2>2, <3>2
    <3>4. QED
      BY <3>1, <3>2, <3>3
  <2>3. ASSUME NEW p \in Operators, CreateCounts(p) PROVE op'[o].s = op[o].s
    BY <2>0, <2>3 DEF CreateCounts, Requests
  <2>4. ASSUME NEW p \in Operators, op' = [op EXCEPT ![p] = NoRequest]
        PROVE  op'[o].s = op[o].s
    BY <1>5, <2>0, <2>4 DEF NoRequest
  <2>5. CASE op' = [p \in Operators |-> NoRequest]
    BY <1>5, <2>5 DEF NoRequest
  <2>6. CASE op' = op
    BY <2>1, <2>6
  <2>7. QED
    BY <2>1, <2>2, <2>3, <2>4, <2>5, <2>6 DEF Next, SchedulerStep, WorkerStep,
       CreateInserts, RequestWrites, schedule_due_schedules,
       MissedOccurrence, claim_firing, Put, TakeFire, PreparationFails,
       LaunchRefused, RunRaises, Launch, SessionEnds, Finish, TimePasses, SpawnInserts,
       SpawnRecords, SpawnFails, Restart
<1>6. QED
  BY <1>2, <1>3, <1>4, <1>5 DEF KindsKnown

-----------------------------------------------------------------------------
(* Types                                                                   *)

\* The operators' requests.
OpTypes ==
    /\ op \in [Operators -> Requests]
    /\ \A o \in Operators : op[o].s # NoSchedule => op[o].what \in {"pause", "cancel", "edit"}

\* A request in hand is one of the three that write to a schedule.
LEMMA OpTypesKept ==
  ASSUME Inv, Next
  PROVE  OpTypes'
<1>0. OpTypes /\ NoRequest \in Requests
  BY BoundsAssumption DEF Inv, TypeOK, Types, OpTypes, Requests, NoRequest, Instants
<1>1. ASSUME NEW o \in Operators, CreateCounts(o) PROVE OpTypes'
  <2>1. op' = [op EXCEPT ![o].what = "create"] /\ op[o].s = NoSchedule
    BY <1>1 DEF CreateCounts, NoRequest
  <2>2. QED
    BY <1>0, <2>1 DEF OpTypes, Requests
<1>2. ASSUME NEW o \in Operators, op' = [op EXCEPT ![o] = NoRequest] PROVE OpTypes'
  BY <1>0, <1>2 DEF OpTypes, NoRequest
<1>3. ASSUME NEW o \in Operators, NEW s \in Schedules,
             PauseReads(o, s) \/ CancelReads(o, s) \/ EditReads(o, s)
      PROVE  OpTypes'
  <2>1. PICK what \in {"pause", "cancel", "edit"}, at \in Instants : Requested(o, what, s, at)
    BY <1>3, BoundsAssumption DEF PauseReads, CancelReads, EditReads, Instants
  <2>2. op' = [op EXCEPT ![o] = [what |-> what, s |-> s, fireAt |-> at]]
    BY <2>1 DEF Requested
  <2>3. QED
    BY <1>0, <2>2 DEF OpTypes, Requests
<1>4. CASE op' = op
  BY <1>0, <1>4 DEF OpTypes
<1>5. CASE op' = [o \in Operators |-> NoRequest]
  BY <1>0, <1>5 DEF OpTypes, NoRequest
<1>6. QED
  BY <1>1, <1>2, <1>3, <1>4, <1>5 DEF Next, SchedulerStep, WorkerStep,
     CreateInserts, RequestWrites, schedule_due_schedules,
     MissedOccurrence, claim_firing, Put, TakeFire, PreparationFails,
     LaunchRefused, RunRaises, Launch, SessionEnds, Finish, TimePasses, SpawnInserts,
     SpawnRecords, SpawnFails, Restart

\* The clock, the tick and the callback: the loop is in one of them at a time.
LoopTypes ==
    /\ now \in 0..MaxTime
    /\ tick \in Ticks /\ tick.now \in 0..now
    /\ spawning \in Spawns
    /\ spawning # NoSpawn => spawning.s \in Schedules
    /\ tick.due # {} => spawning = NoSpawn

\* Ticks and callbacks begin only on a free loop.
LEMMA LoopTypesKept ==
  ASSUME Inv, Next
  PROVE  LoopTypes'
<1>0. LoopTypes /\ row \in [Schedules -> Row]
  BY DEF Inv, TypeOK, Types, LoopTypes
<1>1. CASE schedule_due_schedules
  BY <1>0, <1>1, BoundsAssumption DEF schedule_due_schedules, LoopTypes, LoopFree, Ticks
<1>2. ASSUME NEW d \in tick.due, Taken(d), UNCHANGED <<now, spawning>> PROVE LoopTypes'
  BY <1>0, <1>2, BoundsAssumption DEF Taken, NoTick, LoopTypes, Ticks
<1>3. ASSUME NEW s \in Schedules, SpawnInserts(s) PROVE LoopTypes'
  BY <1>0, <1>3 DEF SpawnInserts, LoopTypes, LoopFree, Spawns
<1>4. CASE spawning' = NoSpawn /\ tick' \in {tick, NoTick} /\ now' = now
  <2>1. NoSpawn \in Spawns /\ NoTick \in Ticks
    BY BoundsAssumption DEF NoSpawn, Spawns, NoTick, Ticks, Absent, Row, Kinds, Statuses, Instants
  <2>2. QED
    BY <1>0, <1>4, <2>1, BoundsAssumption DEF LoopTypes, NoTick
<1>5. CASE TimePasses
  BY <1>0, <1>5, BoundsAssumption DEF TimePasses, LoopTypes
<1>6. CASE UNCHANGED <<now, tick, spawning>>
  BY <1>0, <1>6 DEF LoopTypes
<1>7. QED
  BY <1>1, <1>2, <1>3, <1>4, <1>5, <1>6 DEF Next, SchedulerStep, WorkerStep, CreateCounts,
     CreateInserts, RequestWrites, PauseReads, CancelReads, EditReads, Requested,
     MissedOccurrence, claim_firing, Put, TakeFire, PreparationFails,
     LaunchRefused, RunRaises, Launch, SessionEnds, Finish, SpawnRecords, SpawnFails, Restart

\* The queue and the worker: what is being run is not queued, and has been
\* heard of.
WorkerTypes ==
    /\ puts \subseteq Schedules /\ queued \subseteq Schedules /\ launched \subseteq Schedules
    /\ doubt \subseteq Schedules
    /\ heard \in [Schedules -> SUBSET (Nat \X Instants)]
    /\ worker \in Workers
    /\ worker.pc = "idle" => worker = Idle
    /\ worker # Idle => worker.s \in Schedules /\ heard[worker.s] # {}
    /\ worker.s \notin queued

\* Only the worker takes a fire, and reserves it when it does.
LEMMA WorkerTypesKept ==
  ASSUME Inv, Next
  PROVE  WorkerTypes'
<1>0. /\ WorkerTypes /\ TypeOK /\ Types /\ row \in [Schedules -> Row]
      /\ NoSchedule \notin Schedules /\ Idle \in Workers
  BY ScheduleAssumption DEF Inv, TypeOK, Types, WorkerTypes, Idle, Workers, Kinds
<1>1. CASE UNCHANGED <<puts, queued, launched, doubt, heard, worker>>
  BY <1>0, <1>1 DEF WorkerTypes
<1>2. CASE schedule_due_schedules
  BY <1>0, <1>2 DEF schedule_due_schedules, WorkerTypes, Redeliverable, Owned
<1>3. ASSUME NEW d \in tick.due, claim_firing(d) PROVE WorkerTypes'
  <2>1. d.s \in Schedules
    BY <1>0 DEF TypeOK
  <2>2. QED
    BY <1>0, <1>3, <2>1 DEF claim_firing, WorkerTypes
<1>4. ASSUME NEW s \in Schedules, Put(s) PROVE WorkerTypes'
  BY <1>0, <1>4 DEF Put, WorkerTypes, Owned
<1>5. ASSUME NEW s \in Schedules, TakeFire(s) PROVE WorkerTypes'
  <2>1. CASE UNCHANGED <<worker, heard>>
    BY <1>0, <1>5, <2>1 DEF TakeFire, WorkerTypes
  <2>2. CASE /\ worker' = [s |-> s, pc |-> "preparing", kind |-> row[s].kind]
             /\ heard' = [heard EXCEPT ![s] = @ \cup {Occurrence(row[s])}]
    <3>1. Occurrence(row[s]) \in Nat \X Instants /\ row[s].kind \in Kinds
      BY <1>0 DEF Occurrence, Row
    <3>2. /\ heard' \in [Schedules -> SUBSET (Nat \X Instants)]
          /\ heard'[s] # {}
      BY <1>0, <2>2, <3>1 DEF WorkerTypes
    <3>3. worker' \in Workers /\ worker'.s = s /\ worker'.pc = "preparing"
      BY <2>2, <3>1 DEF Workers
    <3>4. QED
      BY <1>0, <1>5, <3>2, <3>3 DEF TakeFire, WorkerTypes
  <2>3. QED
    BY <1>5, <2>1, <2>2 DEF TakeFire
<1>6. ASSUME NEW proofs, Finish(proofs), worker # Idle PROVE WorkerTypes'
  BY <1>0, <1>6 DEF Finish, WorkerTypes, Idle
<1>7. CASE Launch
  <2>1. worker.pc = "preparing" /\ worker # Idle
    BY <1>7 DEF Launch, Idle
  <2>2. /\ worker' \in Workers /\ worker'.s = worker.s /\ worker'.pc = "running"
    BY <1>0, <1>7 DEF Launch, Workers, WorkerTypes
  <2>3. QED
    BY <1>0, <1>7, <2>1, <2>2 DEF Launch, WorkerTypes
<1>8. CASE Restart
  <2>1. Doubted \ {NoSchedule} \subseteq Schedules
    BY <1>0 DEF Doubted, WorkerTypes, Workers
  <2>2. QED
    BY <1>0, <1>8, <2>1 DEF Restart, WorkerTypes, Idle
<1>9. (PreparationFails \/ LaunchRefused \/ RunRaises \/ SessionEnds)
        => \E proofs \in {BOOLEAN, {FALSE}} : Finish(proofs) /\ worker # Idle
  BY DEF PreparationFails, LaunchRefused, RunRaises, SessionEnds, Idle
<1>10. QED
  BY <1>1, <1>2, <1>3, <1>4, <1>5, <1>6, <1>7, <1>8, <1>9 DEF Next, SchedulerStep, WorkerStep,
     CreateCounts, CreateInserts, RequestWrites, PauseReads, CancelReads, EditReads, Requested,
     MissedOccurrence, TimePasses, SpawnInserts, SpawnRecords, SpawnFails

\* The history variables.
CountTypes ==
    /\ claims \in [Schedules -> Nat] /\ tasks \in [Schedules -> Nat]
    /\ cut \in [Schedules -> Nat] /\ requests \in 0..MaxRequests
    /\ restarts \in 0..MaxRestarts

\* Counts stay natural numbers within their bounds.
LEMMA CountTypesKept ==
  ASSUME Inv, Next
  PROVE  CountTypes'
<1>0. CountTypes /\ TypeOK /\ Types
  BY DEF Inv, TypeOK, CountTypes
<1>1. CASE UNCHANGED <<claims, tasks, cut, requests, restarts>>
  BY <1>0, <1>1 DEF CountTypes
<1>2. ASSUME NEW o \in Operators, NEW s \in Schedules,
             PauseReads(o, s) \/ CancelReads(o, s) \/ EditReads(o, s)
      PROVE  CountTypes'
  <2>1. /\ requests' = requests + 1 /\ requests < MaxRequests
        /\ UNCHANGED <<claims, tasks, cut, restarts>>
    BY <1>2 DEF PauseReads, CancelReads, EditReads, Requested
  <2>2. QED
    BY <1>0, <2>1, BoundsAssumption DEF CountTypes
<1>3. ASSUME NEW d \in tick.due, claim_firing(d) PROVE CountTypes'
  <2>1. d.s \in Schedules
    BY <1>0 DEF TypeOK
  <2>2. claims' \in {claims, [claims EXCEPT ![d.s] = @ + 1]}
    BY <1>3 DEF claim_firing
  <2>3. UNCHANGED <<tasks, cut, requests, restarts>>
    BY <1>3 DEF claim_firing
  <2>4. QED
    BY <1>0, <2>1, <2>2, <2>3 DEF CountTypes
<1>4. ASSUME NEW s \in Schedules, SpawnInserts(s) PROVE CountTypes'
  BY <1>0, <1>4 DEF SpawnInserts, CountTypes
<1>5. CASE SpawnFails
  <2>1. spawning.s \in Schedules /\ cut' = [cut EXCEPT ![spawning.s] = @ + 1]
    BY <1>0, <1>5 DEF SpawnFails, Types
  <2>2. UNCHANGED <<claims, tasks, requests, restarts>>
    BY <1>5 DEF SpawnFails
  <2>3. QED
    BY <1>0, <2>1, <2>2 DEF CountTypes
<1>6. CASE Restart
  BY <1>0, <1>6, BoundsAssumption DEF Restart, CountTypes
<1>7. QED
  BY <1>1, <1>2, <1>3, <1>4, <1>5, <1>6 DEF Next, SchedulerStep, WorkerStep,
     CreateCounts, CreateInserts, RequestWrites, schedule_due_schedules, Put, TakeFire,
     PreparationFails, LaunchRefused, RunRaises, Launch, SessionEnds, Finish,
     MissedOccurrence, TimePasses, SpawnRecords

-----------------------------------------------------------------------------
(* Theorems                                                                *)

\* Every step preserves the invariant.
LEMMA NextInv ==
  ASSUME Inv, [Next]_vars
  PROVE  Inv'
<1>1. CASE Next
  <2>1. row' \in [Schedules -> Row]
    BY <1>1, RowStepsHold DEF RowSteps
  <2>2. OpTypes' /\ LoopTypes' /\ WorkerTypes' /\ CountTypes'
    BY <1>1, OpTypesKept, LoopTypesKept, WorkerTypesKept, CountTypesKept
  <2>3. TypeOK'
    BY <2>1, <2>2 DEF TypeOK, OpTypes, LoopTypes, WorkerTypes, CountTypes, Requests, Ticks,
       Spawns, Workers
  <2>4. Types'
    BY <2>2 DEF Types, OpTypes, LoopTypes, WorkerTypes
  <2>5. QED
    BY <1>1, <2>3, <2>4, KindsKept, CreditKept, ClaimedKept DEF Inv
<1>2. CASE UNCHANGED vars
  BY <1>2 DEF vars, Inv, TypeOK, Types, KindsKnown, SameKind, Credit, Claimed
<1>3. QED
  BY <1>1, <1>2

\* The invariant holds throughout.
LEMMA Invariance == Spec => []Inv
  BY InitInv, NextInv, PTL DEF Spec

\* The rows, the queue, the worker and the callback keep their types, nothing
\* is queued while it runs, and the loop is in one activity at a time, for any
\* schedules, operators and bounds (schedule_queue.py, schedule_runner.py).
THEOREM TypeCorrect == Spec => []TypeOK
<1>1. Inv => TypeOK
  BY DEF Inv
<1>2. QED
  BY <1>1, Invariance, PTL

\* A schedule never has more tasks than claims and callbacks cut short after
\* their task, and a one-shot is claimed at most once, for any schedules,
\* operators, requests and restarts (routes/schedules.py, schedule_store.py).
THEOREM SpawnedOnceHolds == Spec => []SpawnedOnce
<1>1. Inv => SpawnedOnce
  BY DEF Inv, SpawnedOnce, Credit, Claimed
<1>2. QED
  BY <1>1, Invariance, PTL

\* A schedule that is cancelled with nothing in flight stays so: a queued fire
\* is dropped, and ticks, requests, callbacks and recovery pass it by, for any
\* schedules and operators (schedule_service.py, schedule_runner.py).
THEOREM CancelledStaysIdleHolds == Spec => CancelledStaysIdle
<1>1. ASSUME Inv, [Next]_vars, NEW s \in Schedules, Down(s) PROVE Down(s)'
  <2>0. /\ row[s].status = "cancelled" /\ s # worker.s /\ s # spawning.s /\ s # NoSchedule
        /\ \A d \in tick.due : d.s # s
        /\ \A o \in Operators : op[o].s # s
        /\ row \in [Schedules -> Row] /\ op \in [Operators -> Requests]
        /\ tick \in Ticks /\ worker \in Workers
    BY <1>1, ScheduleAssumption DEF Down, InFlight, Inv, TypeOK, Types, Requests
  <2>1. row'[s] = row[s]
    <3>1. ASSUME NEW o \in Operators, CreateInserts(o) PROVE row'[s] = row[s]
      BY <2>0, <3>1 DEF CreateInserts
    <3>2. ASSUME NEW o \in Operators, RequestWrites(o) PROVE row'[s] = row[s]
      BY <2>0, <3>2 DEF RequestWrites
    <3>3. ASSUME NEW d \in tick.due, MissedOccurrence(d) \/ claim_firing(d) PROVE row'[s] = row[s]
      BY <2>0, <3>3 DEF MissedOccurrence, claim_firing
    <3>4. CASE PreparationFails \/ SessionEnds
      BY <2>0, <3>4 DEF PreparationFails, SessionEnds, Fail
    <3>5. CASE SpawnRecords
      BY <2>0, <3>5 DEF SpawnRecords
    <3>6. CASE Restart
      BY <2>0, <3>6 DEF Restart, Recovered
    <3>7. QED
      BY <1>1, <3>1, <3>2, <3>3, <3>4, <3>5, <3>6 DEF Next, SchedulerStep, WorkerStep, vars,
         CreateCounts, PauseReads, CancelReads, EditReads, Requested,
         schedule_due_schedules, Put, TakeFire, LaunchRefused, RunRaises, Launch, Finish,
         TimePasses, SpawnInserts, SpawnFails
  <2>2. s # worker'.s
    <3>1. ASSUME NEW x \in Schedules, TakeFire(x) PROVE s # worker'.s
      BY <2>0, <3>1 DEF TakeFire, Runnable
    <3>2. CASE Launch
      BY <2>0, <3>2 DEF Launch, Workers
    <3>3. CASE worker' = Idle
      BY <2>0, <3>3 DEF Idle
    <3>4. CASE worker' = worker
      BY <2>0, <3>4
    <3>5. QED
      BY <1>1, <3>1, <3>2, <3>3, <3>4 DEF Next, SchedulerStep, WorkerStep, vars, CreateCounts,
         CreateInserts, RequestWrites, PauseReads, CancelReads, EditReads, Requested,
         schedule_due_schedules, MissedOccurrence, claim_firing, Put, PreparationFails,
         LaunchRefused, RunRaises, SessionEnds, Finish, TimePasses, SpawnInserts, SpawnRecords,
         SpawnFails, Restart
  <2>3. s # spawning'.s
    <3>1. ASSUME NEW x \in Schedules, SpawnInserts(x) PROVE s # spawning'.s
      BY <2>0, <3>1 DEF SpawnInserts, SpawnAllowed
    <3>2. CASE spawning' = NoSpawn
      BY <2>0, <3>2 DEF NoSpawn
    <3>3. CASE spawning' = spawning
      BY <2>0, <3>3
    <3>4. QED
      BY <1>1, <3>1, <3>2, <3>3 DEF Next, SchedulerStep, WorkerStep, vars, CreateCounts,
         CreateInserts, RequestWrites, PauseReads, CancelReads, EditReads, Requested,
         schedule_due_schedules, MissedOccurrence, claim_firing, Put, TakeFire, PreparationFails,
         LaunchRefused, RunRaises, Launch, SessionEnds, Finish, TimePasses, SpawnRecords,
         SpawnFails, Restart
  <2>4. \A d \in tick'.due : d.s # s
    <3>1. CASE schedule_due_schedules
      BY <2>0, <3>1 DEF schedule_due_schedules, Due
    <3>2. ASSUME NEW e \in tick.due, Taken(e) PROVE \A d \in tick'.due : d.s # s
      BY <2>0, <3>2 DEF Taken, NoTick, Ticks
    <3>3. CASE tick' \in {tick, NoTick}
      BY <2>0, <3>3 DEF NoTick
    <3>4. QED
      BY <1>1, <3>1, <3>2, <3>3 DEF Next, SchedulerStep, WorkerStep, vars, CreateCounts,
         CreateInserts, RequestWrites, PauseReads, CancelReads, EditReads, Requested,
         MissedOccurrence, claim_firing, Put, TakeFire, PreparationFails,
         LaunchRefused, RunRaises, Launch, SessionEnds, Finish, TimePasses, SpawnInserts,
         SpawnRecords, SpawnFails, Restart
  <2>5. \A o \in Operators : op'[o].s # s
    <3>1. ASSUME NEW o \in Operators, NEW x \in Schedules,
                 PauseReads(o, x) \/ CancelReads(o, x) \/ EditReads(o, x)
          PROVE  \A p \in Operators : op'[p].s # s
      <4>1. PICK what, at : Requested(o, what, x, at) /\ row[x].status \in {"armed", "paused"}
        BY <3>1 DEF PauseReads, CancelReads, EditReads, Editable
      <4>2. x # s /\ op' = [op EXCEPT ![o] = [what |-> what, s |-> x, fireAt |-> at]]
        BY <2>0, <4>1 DEF Requested
      <4>3. QED
        BY <2>0, <4>2
    <3>2. ASSUME NEW o \in Operators, CreateCounts(o) PROVE \A p \in Operators : op'[p].s # s
      BY <2>0, <3>2 DEF CreateCounts, Requests
    <3>3. ASSUME NEW o \in Operators, op' = [op EXCEPT ![o] = NoRequest]
          PROVE  \A p \in Operators : op'[p].s # s
      BY <2>0, <3>3 DEF NoRequest
    <3>4. CASE op' = [o \in Operators |-> NoRequest]
      BY <2>0, <3>4 DEF NoRequest
    <3>5. CASE op' = op
      BY <2>0, <3>5
    <3>6. QED
      BY <1>1, <3>1, <3>2, <3>3, <3>4, <3>5 DEF Next, SchedulerStep, WorkerStep, vars,
         CreateInserts, RequestWrites, schedule_due_schedules,
         MissedOccurrence, claim_firing, Put, TakeFire, PreparationFails,
         LaunchRefused, RunRaises, Launch, SessionEnds, Finish, TimePasses, SpawnInserts,
         SpawnRecords, SpawnFails, Restart
  <2>6. QED
    BY <2>0, <2>1, <2>2, <2>3, <2>4, <2>5 DEF Down, InFlight
<1>2. Inv /\ [Next]_vars => [\A s \in Schedules : Down(s) => Down(s)']_vars
  BY <1>1
<1>3. QED
  BY <1>2, Invariance, PTL DEF Spec, CancelledStaysIdle

================================================================================
