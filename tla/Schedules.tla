------------------------------- MODULE Schedules -------------------------------
(***************************************************************************)
(* Scheduled work. A schedule is armed for an instant; the scheduler claims *)
(* it when it is due and queues a fire; the single worker runs an agent     *)
(* session for the fire, whose only job is to call back and have one task   *)
(* created; the callback then ends or re-arms the schedule.                 *)
(*                                                                          *)
(* The scheduler, the worker and the callback share the event loop, which   *)
(* they leave only where they await. The operator's routes run in a thread  *)
(* pool: each reads the row, decides, and writes without comparing. The     *)
(* rows and what producers recorded survive a restart, nothing else does.     *)
(***************************************************************************)
EXTENDS Integers, FiniteSets, TLC

CONSTANTS
    Schedules,    \* identifiers a schedule may be given
    Operators,    \* pool threads running an operator's request
    MaxTime,      \* bound on the clock
    Tolerance,    \* how late a repeating schedule may still be claimed
    MaxArmed,     \* cap on the schedules armed at a time
    MaxRequests,  \* bound on the requests to pause, cancel or edit
    MaxCuts,      \* bound on the callbacks that fail after their task
    MaxRestarts   \* bound on restarts of the daemon

ASSUME BoundsAssumption ==
    /\ MaxTime \in Nat /\ Tolerance \in Nat
    /\ MaxArmed \in Nat /\ MaxRequests \in Nat /\ MaxCuts \in Nat /\ MaxRestarts \in Nat

VARIABLES
    now,          \* the clock
    row,          \* the schedules table
    heard,        \* occurrences of each schedule a runner has reserved
    doubt,        \* schedules with a fire that never settled with proof
    op,           \* what each operator's request has read
    tick,         \* the scheduler's pass: its clock and the due rows it read
    puts,         \* fires whose put has been scheduled on the loop
    queued,       \* fires in the queue (their order is abstracted)
    worker,       \* the fire being run
    launched,     \* schedules a session was ever launched for
    spawning,     \* the callback between its task and its update of the row
    claims,       \* history: claims of the schedule
    tasks,        \* history: tasks created for it
    cut,          \* history: callbacks cut short after their task
    requests,     \* requests made so far
    restarts

vars == <<now, row, heard, doubt, op, tick, puts, queued, worker, launched, spawning,
          claims, tasks, cut, requests, restarts>>

-----------------------------------------------------------------------------
(* State                                                                   *)

Kinds == {"one_shot", "repeating"}
Statuses == {"absent", "armed", "firing", "fired", "paused", "cancelled",
             "expired", "failed", "timeout"}

\* The instant past MaxTime never comes.
Instants == 1..MaxTime + 1

\* The review expiry is abstracted: any next instant may be past it.
Row == [kind : Kinds, status : Statuses, fireAt : Instants, fired : Nat]
Absent == [kind |-> "one_shot", status |-> "absent", fireAt |-> 1, fired |-> 0]

NoSchedule == "none"
ASSUME ScheduleAssumption == NoSchedule \notin Schedules

NoTick == [now |-> 0, due |-> {}]
Idle == [s |-> NoSchedule, pc |-> "idle", kind |-> "one_shot"]
NoSpawn == [s |-> NoSchedule, read |-> Absent]
NoRequest == [what |-> "none", s |-> NoSchedule, fireAt |-> 1]

\* A fire is reserved under the row's epoch, not under its claim.
Occurrence(r) == <<r.fired, r.fireAt>>
Heard(s) == Occurrence(row[s]) \in heard[s]

Armed == {s \in Schedules : row[s].status = "armed"}

\* A mutant of Owned: the fire being run is no longer owned.
OwnedUntilTaken == queued

\* What the queue takes no second put of: a fire queued or being run.
Owned == queued \cup {worker.s}

\* The event loop is between two of its steps.
LoopFree == tick.due = {} /\ spawning = NoSpawn

TypeOK ==
    /\ now \in 0..MaxTime
    /\ row \in [Schedules -> Row]
    /\ heard \in [Schedules -> SUBSET (Nat \X Instants)]
    /\ doubt \subseteq Schedules
    /\ op \in [Operators -> [what : {"none", "create", "pause", "cancel", "edit"},
                             s : Schedules \cup {NoSchedule}, fireAt : Instants]]
    /\ tick.now \in 0..now /\ \A d \in tick.due : d.s \in Schedules /\ d.read \in Row
    /\ puts \subseteq Schedules /\ queued \subseteq Schedules
    /\ worker.s \in Schedules \cup {NoSchedule}
    /\ worker.pc \in {"idle", "preparing", "running"}
    /\ worker.s \notin queued
    /\ worker # Idle => heard[worker.s] # {}
    /\ launched \subseteq Schedules
    /\ spawning.s \in Schedules \cup {NoSchedule} /\ spawning.read \in Row
    /\ tick.due # {} => spawning = NoSpawn
    /\ claims \in [Schedules -> Nat] /\ tasks \in [Schedules -> Nat]
    /\ cut \in [Schedules -> Nat] /\ requests \in 0..MaxRequests
    /\ restarts \in 0..MaxRestarts

Init ==
    /\ now = 0
    /\ row = [s \in Schedules |-> Absent]
    /\ heard = [s \in Schedules |-> {}] /\ doubt = {}
    /\ op = [o \in Operators |-> NoRequest]
    /\ tick = NoTick /\ puts = {} /\ queued = {}
    /\ worker = Idle /\ launched = {} /\ spawning = NoSpawn
    /\ claims = [s \in Schedules |-> 0]
    /\ tasks = [s \in Schedules |-> 0]
    /\ cut = [s \in Schedules |-> 0]
    /\ requests = 0 /\ restarts = 0

-----------------------------------------------------------------------------
(* What a finished occurrence makes of its row                             *)

\* The row r once its occurrence is over at time t: the rule has ended, the
\* next instant is past the expiry, there is none, or the row goes on.
Advanced(r, t) ==
    {[r EXCEPT !.status = end] : end \in {"fired", "expired", "failed"}}
    \cup {[r EXCEPT !.status = "armed", !.fireAt = n] : n \in {i \in Instants : i > t}}

\* A record of this kind after an attempt that created nothing.
FailureTransition(r, kind, end) ==
    IF kind = "one_shot" THEN {[r EXCEPT !.status = end]} ELSE Advanced(r, now)

-----------------------------------------------------------------------------
(* The operator's requests: read and decide, then write                    *)

Editable(s) == row[s].status \in {"armed", "paused"}

\* create counts the armed rows, and inserts in a later transaction.
CreateCounts(o) ==
    /\ op[o] = NoRequest
    /\ Cardinality(Armed) < MaxArmed
    /\ op' = [op EXCEPT ![o].what = "create"]
    /\ UNCHANGED <<now, row, heard, doubt, tick, puts, queued, worker, launched, spawning,
                   claims, tasks, cut, requests, restarts>>

CreateInserts(o) ==
    /\ op[o].what = "create"
    /\ \E s \in Schedules, k \in Kinds, at \in {i \in Instants : i > now} :
        /\ row[s].status = "absent"
        /\ row' = [row EXCEPT ![s] =
                    [kind |-> k, status |-> "armed", fireAt |-> at, fired |-> 0]]
    /\ op' = [op EXCEPT ![o] = NoRequest]
    /\ UNCHANGED <<now, heard, doubt, tick, puts, queued, worker, launched, spawning,
                   claims, tasks, cut, requests, restarts>>

Requested(o, what, s, at) ==
    /\ op[o] = NoRequest
    /\ requests < MaxRequests /\ requests' = requests + 1
    /\ op' = [op EXCEPT ![o] = [what |-> what, s |-> s, fireAt |-> at]]
    /\ UNCHANGED <<now, row, heard, doubt, tick, puts, queued, worker, launched, spawning,
                   claims, tasks, cut, restarts>>

PauseReads(o, s)  == row[s].status = "armed" /\ Requested(o, "pause", s, 1)
CancelReads(o, s) == Editable(s) /\ Requested(o, "cancel", s, 1)
\* The new instant is a later one, as of this read.
EditReads(o, s) ==
    Editable(s) /\ \E at \in {i \in Instants : i > now} : Requested(o, "edit", s, at)

\* The row the request leaves: nothing it read is compared again.
Written(q, r) ==
    CASE q.what = "pause"  -> [r EXCEPT !.status = "paused"]
      [] q.what = "cancel" -> [r EXCEPT !.status = "cancelled"]
      [] q.what = "edit"   -> [r EXCEPT !.fireAt = q.fireAt]

RequestWrites(o) ==
    /\ op[o].s # NoSchedule
    /\ row' = [row EXCEPT ![op[o].s] = Written(op[o], @)]
    /\ op' = [op EXCEPT ![o] = NoRequest]
    /\ UNCHANGED <<now, heard, doubt, tick, puts, queued, worker, launched, spawning,
                   claims, tasks, cut, requests, restarts>>

-----------------------------------------------------------------------------
(* The scheduler                                                           *)

Due(s) == row[s].status = "armed" /\ row[s].fireAt <= now

\* A mutant of Redeliverable: nothing is delivered a second time.
NothingRedelivered == {}

\* Claimed rows no runner has heard of are put again; the queue drops the
\* ones it owns.
Redeliverable == {s \in Schedules : row[s].status = "firing" /\ ~Heard(s)}

schedule_due_schedules ==
    /\ LoopFree
    /\ queued' = queued \cup (Redeliverable \ Owned)
    /\ tick' = [now |-> now,
                due |-> {[s |-> s, read |-> row[s]] : s \in {x \in Schedules : Due(x)}}]
    /\ UNCHANGED <<now, row, heard, doubt, op, puts, worker, launched, spawning,
                   claims, tasks, cut, requests, restarts>>

Taken(d) == tick' = IF tick.due = {d} THEN NoTick ELSE [tick EXCEPT !.due = @ \ {d}]

\* A repeating schedule whose instant was missed goes on without a fire.
MissedOccurrence(d) ==
    /\ d \in tick.due
    /\ d.read.kind = "repeating" /\ d.read.fireAt < tick.now - Tolerance
    /\ \E r \in Advanced(row[d.s], tick.now) : row' = [row EXCEPT ![d.s] = r]
    /\ Taken(d)
    /\ UNCHANGED <<now, heard, doubt, op, puts, queued, worker, launched, spawning,
                   claims, tasks, cut, requests, restarts>>

\* The claim compares the status, not the instant that was read.
claim_firing(d) ==
    /\ d \in tick.due
    /\ d.read.kind = "one_shot" \/ d.read.fireAt >= tick.now - Tolerance
    /\ Taken(d)
    /\ \/ /\ row[d.s].status = "armed"
          /\ row' = [row EXCEPT ![d.s].status = "firing"]
          /\ claims' = [claims EXCEPT ![d.s] = @ + 1]
          /\ puts' = puts \cup {d.s}
       \/ /\ row[d.s].status # "armed"
          /\ UNCHANGED <<row, claims, puts>>
    /\ UNCHANGED <<now, heard, doubt, op, queued, worker, launched, spawning, tasks, cut, requests, restarts>>

\* The queue drops the put of a schedule it already owns.
Put(s) ==
    /\ LoopFree /\ s \in puts
    /\ puts' = puts \ {s}
    /\ queued' = IF s \in Owned THEN queued ELSE queued \cup {s}
    /\ UNCHANGED <<now, row, heard, doubt, op, tick, worker, launched, spawning,
                   claims, tasks, cut, requests, restarts>>

-----------------------------------------------------------------------------
(* The worker                                                              *)

\* A mutant of Runnable: the fire is run whatever became of its row.
RunUnheard(s) == ~Heard(s)

\* Only a firing row whose occurrence nobody has reserved is reserved.
Runnable(s) == row[s].status = "firing" /\ ~Heard(s)

TakeFire(s) ==
    /\ LoopFree /\ worker = Idle /\ s \in queued
    /\ queued' = queued \ {s}
    /\ \/ /\ Runnable(s)
          /\ worker' = [s |-> s, pc |-> "preparing", kind |-> row[s].kind]
          /\ heard' = [heard EXCEPT ![s] = @ \cup {Occurrence(row[s])}]
       \/ /\ ~Runnable(s)
          /\ UNCHANGED <<worker, heard>>
    /\ UNCHANGED <<now, row, doubt, op, tick, puts, launched, spawning, claims, tasks, cut, requests, restarts>>

\* The producer settles, with proof that its processes are gone or without,
\* and the queue lets go of it.
Finish(proofs) ==
    /\ worker' = Idle
    /\ \E proof \in proofs : doubt' = IF proof THEN doubt ELSE doubt \cup {worker.s}
    /\ UNCHANGED <<now, heard, op, tick, puts, queued, launched, spawning, claims, tasks, cut, requests, restarts>>

Fail(end) ==
    \E r \in FailureTransition(row[worker.s], worker.kind, end) :
        row' = [row EXCEPT ![worker.s] = r]

\* No agent, no workspace, or no command line to launch.
PreparationFails ==
    /\ LoopFree /\ worker.pc = "preparing"
    /\ Fail("failed")
    /\ Finish(BOOLEAN)

\* The host refuses the launch, at shutdown: the row is left firing.
LaunchRefused ==
    /\ LoopFree /\ worker.pc = "preparing"
    /\ UNCHANGED row
    /\ Finish(BOOLEAN)

\* Anything else that raises: the row is left firing, the doubt is recorded.
RunRaises ==
    /\ LoopFree /\ worker # Idle
    /\ UNCHANGED row
    /\ Finish({FALSE})

Launch ==
    /\ LoopFree /\ worker.pc = "preparing"
    /\ worker' = [worker EXCEPT !.pc = "running"]
    /\ launched' = launched \cup {worker.s}
    /\ UNCHANGED <<now, row, heard, doubt, op, tick, puts, queued, spawning,
                   claims, tasks, cut, requests, restarts>>

\* Statuses the runner takes for the callback's own.
CallbackSeen(r) == r.status \in {"fired", "armed", "expired", "failed"}

SessionEnds ==
    /\ LoopFree /\ worker.pc = "running"
    /\ IF CallbackSeen(row[worker.s]) THEN UNCHANGED row
       ELSE \E end \in {"failed", "timeout"} : Fail(end)
    /\ Finish(BOOLEAN)

-----------------------------------------------------------------------------
(* The callback                                                            *)

SpawnAllowed(s) == row[s].status = "firing"

\* Any session the schedule ever had may call, or call again.
SpawnInserts(s) ==
    /\ LoopFree
    /\ s \in launched /\ SpawnAllowed(s)
    /\ tasks' = [tasks EXCEPT ![s] = @ + 1]
    /\ spawning' = [s |-> s, read |-> row[s]]
    /\ UNCHANGED <<now, row, heard, doubt, op, tick, puts, queued, worker, launched,
                   claims, cut, requests, restarts>>

\* The counted rule may have run out; a one-shot always has.
Recorded(r, read) ==
    LET counted == [r EXCEPT !.fired = read.fired + 1]
    IN  {[counted EXCEPT !.status = "fired"]}
        \cup (IF read.kind = "one_shot" THEN {} ELSE Advanced(counted, now))

SpawnRecords ==
    /\ spawning # NoSpawn
    /\ \E r \in Recorded(row[spawning.s], spawning.read) :
            row' = [row EXCEPT ![spawning.s] = r]
    /\ spawning' = NoSpawn
    /\ UNCHANGED <<now, heard, doubt, op, tick, puts, queued, worker, launched,
                   claims, tasks, cut, requests, restarts>>

\* The transcript cannot be written: the task exists, the row is left firing.
SpawnFails ==
    /\ spawning # NoSpawn /\ cut[spawning.s] < MaxCuts
    /\ spawning' = NoSpawn
    /\ cut' = [cut EXCEPT ![spawning.s] = @ + 1]
    /\ UNCHANGED <<now, row, heard, doubt, op, tick, puts, queued, worker, launched,
                   claims, tasks, requests, restarts>>

-----------------------------------------------------------------------------
(* Time and restarts                                                       *)

TimePasses ==
    /\ now < MaxTime
    /\ now' = now + 1
    /\ UNCHANGED <<row, heard, doubt, op, tick, puts, queued, worker, launched, spawning,
                   claims, tasks, cut, requests, restarts>>

\* Preserved by recovery: schedules with a fire whose producer never settled,
\* or settled without proof.
Doubted == doubt \cup {worker.s}

\* A mutant of Recovered: the interrupted fire is armed again.
RecoveredArmed(s) ==
    IF row[s].status = "firing" /\ s \notin Doubted
    THEN [row[s] EXCEPT !.status = "armed"] ELSE row[s]

\* recover_firing, before the loop runs anything.
Recovered(s) ==
    IF row[s].status = "firing" /\ s \notin Doubted
    THEN [row[s] EXCEPT !.status = "failed"] ELSE row[s]

Restart ==
    /\ restarts < MaxRestarts
    /\ restarts' = restarts + 1
    /\ row' = [s \in Schedules |-> Recovered(s)]
    /\ cut' = [s \in Schedules |-> cut[s] + (IF spawning.s = s THEN 1 ELSE 0)]
    /\ op' = [o \in Operators |-> NoRequest]
    /\ tick' = NoTick /\ puts' = {} /\ queued' = {}
    /\ worker' = Idle /\ spawning' = NoSpawn
    /\ doubt' = Doubted \ {NoSchedule}
    /\ UNCHANGED <<now, heard, launched, claims, tasks, requests>>

-----------------------------------------------------------------------------
SchedulerStep ==
    \/ schedule_due_schedules
    \/ \E d \in tick.due : MissedOccurrence(d)
    \/ \E d \in tick.due : claim_firing(d)

WorkerStep ==
    \/ \E s \in Schedules : TakeFire(s)
    \/ PreparationFails
    \/ LaunchRefused
    \/ RunRaises
    \/ Launch
    \/ SessionEnds

Next ==
    \/ \E o \in Operators : CreateCounts(o) \/ CreateInserts(o) \/ RequestWrites(o)
    \/ \E o \in Operators, s \in Schedules :
            PauseReads(o, s) \/ CancelReads(o, s) \/ EditReads(o, s)
    \/ SchedulerStep
    \/ \E s \in Schedules : Put(s)
    \/ WorkerStep
    \/ \E s \in Schedules : SpawnInserts(s)
    \/ SpawnRecords
    \/ SpawnFails
    \/ TimePasses
    \/ Restart

Spec == Init /\ [][Next]_vars

\* The scheduler loops for ever, scheduled puts run, the worker goes on and a
\* session ends at its timeout, and a callback that began returns.
Fairness ==
    /\ WF_vars(SchedulerStep)
    /\ \A s \in Schedules : WF_vars(Put(s))
    /\ WF_vars(WorkerStep)
    /\ WF_vars(SpawnRecords \/ SpawnFails)

FairSpec == Spec /\ Fairness

-----------------------------------------------------------------------------
(* Properties                                                              *)

\* Every task belongs to a claim of its own, whatever callbacks are retried,
\* sessions outlive their fire or restarts intervene; only a callback cut
\* short after its task may be repeated. A one-shot is claimed at most once.
SpawnedOnce ==
    \A s \in Schedules :
        /\ tasks[s] <= claims[s] + cut[s]
        /\ row[s].kind = "one_shot" => claims[s] <= 1

\* A step already under way on the schedule, that writes without comparing.
InFlight(s) ==
    \/ s \in {worker.s, spawning.s}
    \/ \E d \in tick.due : d.s = s
    \/ \E o \in Operators : op[o].s = s

Down(s) == row[s].status = "cancelled" /\ ~InFlight(s)

\* A schedule that is cancelled with nothing in flight is never taken up
\* again: a fire still queued for it is dropped, ticks and requests pass it by.
CancelledStaysIdle == [][\A s \in Schedules : Down(s) => Down(s)']_vars

Unheard(s) == row[s].status = "firing" /\ ~Heard(s)

\* A claimed fire is never forgotten: a runner takes it up, or its row moves
\* on, even if the queue dropped its put while an earlier fire was running.
ClaimIsHeard == \A s \in Schedules : Unheard(s) ~> ~Unheard(s)

=============================================================================
