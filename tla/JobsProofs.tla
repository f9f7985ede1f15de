------------------------------ MODULE JobsProofs -------------------------------
(***************************************************************************)
(* LaunchedOnce and VerdictKept of Jobs, for any jobs, clients and number  *)
(* of crashes.                                                              *)
(***************************************************************************)
EXTENDS Jobs, TLAPS

Limits == {"output_cap", "timeout", "founder_stop", "agent_stop", "task_ended",
           "daemon_shutdown"}
Places == {"none", "registered", "spawning", "waiting", "draining", "expired",
           "committed", "done"}

Reasons == Limits \cup {"none", "spawn_failed", "internal_error"}

Rows == [status : {"absent", "pending", "running"} \cup Ended, reason : Reasons]
Runners == [pc : Places, cause : Limits \cup {"none"}, cap : BOOLEAN]

\* The types the argument uses.
Types ==
    /\ row \in [Jobs -> Rows]
    /\ runner \in [Jobs -> Runners]
    /\ proc \in [Jobs -> {"none", "alive", "exited", "reaped"}]
    /\ launched \in [Jobs -> {0, 1}]
    /\ first \in [Jobs -> Limits \cup {"none"}]
    /\ reserved \subseteq Jobs
    /\ taskLive \in BOOLEAN
    /\ cleanup \in [pc : {"none", "signal", "grace"}, jobs : SUBSET Jobs]

\* A row from which a launch may still be committed, or that was rejected, has
\* no runner, had no process and nothing happened to one.
Unlaunched(j) ==
    row[j] \in {Absent, Pending, Rejected} =>
        runner[j].pc = "none" /\ launched[j] = 0 /\ first[j] = "none"

\* Until it spawns, a runner has started nothing; until it captures the
\* process, nothing can have reached it.
Fresh(j) ==
    /\ runner[j].pc = "registered" => launched[j] = 0
    /\ runner[j].pc \in {"registered", "spawning"} =>
         runner[j].cause = "none" /\ ~runner[j].cap /\ first[j] = "none"

\* What the runner would report agrees with what came first.
CauseKnown(j) ==
    Pumping(j) =>
        \/ /\ runner[j].cause = "none" /\ ~runner[j].cap /\ first[j] = "none"
        \/ /\ runner[j].cause = "none" /\ runner[j].cap /\ first[j] = "output_cap"
        \/ /\ runner[j].cause # "none" /\ first[j] = runner[j].cause
        \/ /\ runner[j].cause = "timeout" /\ first[j] = "output_cap"

\* The runner gives up waiting only with a cause, and drains only the output
\* of a process it has reaped.
Awaited(j) ==
    /\ runner[j].pc = "expired" => runner[j].cause # "none"
    /\ runner[j].pc = "draining" => proc[j] = "reaped"

\* The cleanup runs only for a task that has ended.
CleanupLate == cleanup.pc # "none" => ~taskLive

JobInv(j) == Unlaunched(j) /\ Fresh(j) /\ CauseKnown(j) /\ Awaited(j)

Inv == Types /\ CleanupLate /\ \A j \in Jobs : JobInv(j)

kept == <<row, runner, proc, launched, first, taskLive>>

\* The rows and the runner an action writes are of their types.
LEMMA RowTypes ==
    /\ {Absent, Pending, Running, Rejected, Completed} \subseteq Rows
    /\ \A why \in Reasons : Failed(why) \in Rows
  BY DEF Rows, Reasons, Ended, Absent, Pending, Running, Rejected, Completed, Failed

LEMMA RunnerTypes ==
    /\ NoRunner \in Runners
    /\ \A r \in Runners, pc \in Places : [r EXCEPT !.pc = pc] \in Runners
    /\ \A r \in Runners, why \in Limits : [r EXCEPT !.cause = why] \in Runners
    /\ \A r \in Runners : [r EXCEPT !.cap = TRUE] \in Runners
  BY DEF Runners, NoRunner, Limits, Places

\* The initial states satisfy the invariant.
LEMMA InitInv == Init => Inv
<1> SUFFICES ASSUME Init PROVE Inv
  OBVIOUS
<1>1. Types
  BY RowTypes, RunnerTypes DEF Init, Types, NoCleanup, Limits
<1>2. CleanupLate
  BY DEF Init, CleanupLate, NoCleanup
<1>3. \A j \in Jobs : JobInv(j)
  BY DEF Init, JobInv, Unlaunched, Fresh, CauseKnown, Awaited, Pumping, NoRunner
<1>4. QED
  BY <1>1, <1>2, <1>3 DEF Inv

\* A step that touches nothing the invariant is about keeps it.
LEMMA KeptInv ==
  ASSUME Inv, UNCHANGED kept, reserved' \subseteq Jobs,
         UNCHANGED cleanup
  PROVE  Inv'
  BY DEF Inv, Types, CleanupLate, JobInv, Unlaunched, Fresh, CauseKnown, Awaited, Pumping,
         kept, Ended, Limits, Places

\* Admission, submission and rejection.
LEMMA AdmissionInv ==
  ASSUME Inv, NEW j \in Jobs, Admission(j)
  PROVE  Inv'
<1> USE DEF Inv, Types
<1>1. CASE Submit(j)
  <2>1. Types'
    BY <1>1, RowTypes DEF Submit, world, history
  <2>2. \A k \in Jobs : JobInv(k)'
    BY <1>1 DEF Submit, world, history, Absent, Pending, Running, Rejected, Failed, JobInv, Unlaunched, Fresh, CauseKnown, Awaited,
       Pumping
  <2>3. CleanupLate'
    BY <1>1 DEF Submit, CleanupLate, world
  <2>4. QED
    BY <2>1, <2>2, <2>3
<1>2. CASE reject_job(j)
  <2>1. Types'
    BY <1>2, RowTypes DEF reject_job, world, history
  <2>2. \A k \in Jobs : JobInv(k)'
    BY <1>2 DEF reject_job, world, history, Absent, Pending, Running, Rejected, Failed, JobInv, Unlaunched, Fresh, CauseKnown, Awaited,
       Pumping
  <2>3. CleanupLate'
    BY <1>2 DEF reject_job, CleanupLate, world
  <2>4. QED
    BY <2>1, <2>2, <2>3
<1>3. ASSUME NEW who \in {"submit", "sweep"}, reserve(j, who) \/ ReserveRefused(j, who)
      PROVE  Inv'
  BY <1>3, KeptInv DEF reserve, ReserveRefused, durable, world, history, kept
<1>4. CASE Unpending(j) \/ Deferred(j)
  BY <1>4, KeptInv DEF Unpending, Deferred, Decide, world, history, kept
<1>5. CASE PreflightFails(j)
  <2>1. Types'
    BY <1>5, RowTypes DEF PreflightFails, Decide, world, history, Reasons
  <2>2. \A k \in Jobs : JobInv(k)'
    BY <1>5 DEF PreflightFails, world, history, Absent, Pending, Running, Rejected, Failed, JobInv, Unlaunched, Fresh, CauseKnown, Awaited,
       Pumping
  <2>3. CleanupLate'
    BY <1>5 DEF PreflightFails, CleanupLate, world
  <2>4. QED
    BY <2>1, <2>2, <2>3
<1>6. CASE Admitted(j)
  <2>1. Types'
    BY <1>6, RowTypes, RunnerTypes DEF Admitted, Decide, world, history, Places
  <2>2. \A k \in Jobs : JobInv(k)'
    BY <1>6 DEF Admitted, world, history, NoRunner, Absent, Pending, Running, Rejected, Failed, JobInv, Unlaunched, Fresh, CauseKnown, Awaited,
       Pumping
  <2>3. CleanupLate'
    BY <1>6 DEF Admitted, CleanupLate, world
  <2>4. QED
    BY <2>1, <2>2, <2>3
<1>7. QED
  BY <1>1, <1>2, <1>3, <1>4, <1>5, <1>6 DEF Admission

\* A runner that moves keeps what it has seen, and moves no other.
LEMMA Moved ==
  ASSUME Types, NEW j \in Jobs, NEW pc \in Places, runner' = [runner EXCEPT ![j].pc = pc]
  PROVE  /\ runner' \in [Jobs -> Runners]
         /\ runner'[j].pc = pc
         /\ runner'[j].cause = runner[j].cause /\ runner'[j].cap = runner[j].cap
         /\ \A k \in Jobs : k # j => runner'[k] = runner[k]
<1>1. runner[j] \in Runners /\ runner'[j] = [runner[j] EXCEPT !.pc = pc]
  BY DEF Types
<1>2. \A k \in Jobs : k # j => runner'[k] = runner[k]
  BY DEF Types
<1>3. runner' \in [Jobs -> Runners]
  BY <1>1, RunnerTypes DEF Types
<1>4. QED
  BY <1>1, <1>2, <1>3 DEF Runners

\* A commit of the runner, of a verdict whose reason is known.
LEMMA PersistInv ==
  ASSUME Inv, NEW j \in Jobs, NEW v \in Rows, v.status \in {"completed", "failed"},
         runner[j].pc # "none", Persist(j, v),
         UNCHANGED <<asked, reserved, proc, world, stream, history>>
  PROVE  Inv'
<1> USE DEF Inv, Types
<1>1. PICK pc \in {"committed", "done"} : runner' = [runner EXCEPT ![j].pc = pc]
  BY DEF Persist
<1>2. row' = row \/ row' = [row EXCEPT ![j] = v]
  <2>1. CASE row[j] = Running
    BY <2>1 DEF Persist
  <2>2. CASE row[j] # Running
    BY <2>2 DEF Persist, durable
  <2>3. QED
    BY <2>1, <2>2
<1>3. /\ runner'[j].pc = pc /\ runner' \in [Jobs -> Runners]
      /\ \A k \in Jobs : k # j => runner'[k] = runner[k]
  BY <1>1, Moved DEF Places
<1>4. Types'
  BY <1>2, <1>3 DEF world, history
<1>5. JobInv(j)'
  <2>1. row'[j] \in {Absent, Pending, Rejected} => row'[j] = row[j]
    BY <1>2 DEF Absent, Pending, Rejected
  <2>2. runner'[j].pc \in {"committed", "done"} /\ runner[j].pc # "none"
    BY <1>3
  <2>3. QED
    BY <2>1, <2>2 DEF history, JobInv, Unlaunched, Fresh, CauseKnown, Awaited, Pumping
<1>6. ASSUME NEW k \in Jobs, k # j PROVE JobInv(k)'
  <2>1. row'[k] = row[k] /\ runner'[k] = runner[k]
    BY <1>2, <1>3, <1>6
  <2>2. QED
    BY <2>1 DEF history, JobInv, Unlaunched, Fresh, CauseKnown, Awaited, Pumping
<1>7. CleanupLate'
  BY DEF CleanupLate, world
<1>8. QED
  BY <1>4, <1>5, <1>6, <1>7

\* What a cause becomes is one of the limits.
LEMMA EstablishedType ==
  ASSUME NEW r \in Runners, NEW why \in Limits
  PROVE  Established(r, why) \in Limits
  BY DEF Established, Runners, Limits

\* A signal keeps the invariant.
LEMMA SignalInv ==
  ASSUME Inv, NEW S, NEW why \in Limits, SignalRegistered(S, why),
         UNCHANGED <<row, proc, launched, reserved>>
  PROVE  /\ runner' \in [Jobs -> Runners] /\ first' \in [Jobs -> Limits \cup {"none"}]
         /\ \A k \in Jobs : JobInv(k)'
<1> USE DEF Inv, Types
<1>1. PICK missed \in SUBSET {j \in S : Inflight(j) /\ proc[j] = "exited"} :
        LET hit == {j \in S : Inflight(j)} \ missed
        IN  /\ runner' = [j \in Jobs |->
                 IF j \in hit
                 THEN [runner[j] EXCEPT !.cause = Established(runner[j], why)]
                 ELSE IF j \in missed /\ runner[j].cap
                 THEN [runner[j] EXCEPT !.cause = Established(runner[j], "output_cap")]
                 ELSE runner[j]]
            /\ first' = [j \in Jobs |-> IF j \in hit THEN FirstOf(j, why) ELSE first[j]]
  BY DEF SignalRegistered
<1> DEFINE hit == {j \in S : Inflight(j)} \ missed
<1>2. runner' \in [Jobs -> Runners]
  <2>1. \A j \in Jobs : /\ Established(runner[j], why) \in Limits
                        /\ Established(runner[j], "output_cap") \in Limits
    BY EstablishedType DEF Limits
  <2>2. QED
    BY <1>1, <2>1, RunnerTypes
<1>3. first' \in [Jobs -> Limits \cup {"none"}]
  BY <1>1 DEF FirstOf
<1>4. ASSUME NEW k \in Jobs PROVE JobInv(k)'
  <2>1. CASE k \in hit
    <3>1. /\ runner'[k] = [runner[k] EXCEPT !.cause = Established(runner[k], why)]
          /\ first'[k] = FirstOf(k, why) /\ Pumping(k)
      BY <1>1, <2>1 DEF Inflight
    <3>2. /\ runner'[k].pc = runner[k].pc /\ runner'[k].cap = runner[k].cap
          /\ runner'[k].cause = Established(runner[k], why)
      BY <3>1 DEF Runners
    <3>3. JobInv(k) /\ runner[k] \in Runners
      OBVIOUS
    <3>4. QED
      BY <3>1, <3>2, <3>3 DEF JobInv, Unlaunched, Fresh, CauseKnown, Awaited, Pumping,
         Established, FirstOf, Runners, Limits
  <2>2. CASE k \notin hit /\ k \in missed /\ runner[k].cap
    <3>1. /\ runner'[k] = [runner[k] EXCEPT !.cause = Established(runner[k], "output_cap")]
          /\ first'[k] = first[k] /\ Pumping(k)
      BY <1>1, <2>2 DEF Inflight
    <3>2. /\ runner'[k].pc = runner[k].pc /\ runner'[k].cap = runner[k].cap
          /\ runner'[k].cause = Established(runner[k], "output_cap")
      BY <3>1 DEF Runners
    <3>3. JobInv(k) /\ runner[k] \in Runners
      OBVIOUS
    <3>4. QED
      BY <2>2, <3>1, <3>2, <3>3 DEF JobInv, Unlaunched, Fresh, CauseKnown, Awaited, Pumping,
         Established, Runners, Limits
  <2>3. CASE k \notin hit /\ ~(k \in missed /\ runner[k].cap)
    <3>1. runner'[k] = runner[k] /\ first'[k] = first[k]
      BY <1>1, <2>3
    <3>2. QED
      BY <3>1 DEF JobInv, Unlaunched, Fresh, CauseKnown, Awaited, Pumping
  <2>4. QED
    BY <2>1, <2>2, <2>3
<1>5. QED
  BY <1>2, <1>3, <1>4

\* The invariant of a job that a step leaves alone.
LEMMA SameJob ==
  ASSUME NEW k \in Jobs, JobInv(k), row'[k] = row[k], runner'[k] = runner[k],
         proc'[k] = proc[k], launched'[k] = launched[k], first'[k] = first[k]
  PROVE  JobInv(k)'
  BY DEF JobInv, Unlaunched, Fresh, CauseKnown, Awaited, Pumping

\* The steps of a runner and of its process.
LEMMA RunInv ==
  ASSUME Inv, NEW j \in Jobs, Run(j)
  PROVE  Inv'
<1> USE DEF Inv, Types
<1>0. runner[j] \in Runners /\ JobInv(j)
  OBVIOUS
<1>1. CASE SpawnFails(j)
  <2>1. PICK why \in {"spawn_failed", "internal_error"} : Persist(j, Failed(why))
    BY <1>1 DEF SpawnFails
  <2>2. Failed(why) \in Rows /\ Failed(why).status = "failed"
    BY RowTypes DEF Reasons, Failed
  <2>3. QED
    BY <1>1, <2>1, <2>2, PersistInv DEF SpawnFails
<1>2. CASE Finish(j)
  <2>1. /\ Verdict(runner[j]) \in Rows
        /\ Verdict(runner[j]).status \in {"completed", "failed"}
    <3>1. Completed \in Rows /\ \A why \in Limits : Failed(why) \in Rows
      BY RowTypes DEF Reasons
    <3>2. Completed.status = "completed" /\ \A why : Failed(why).status = "failed"
      BY DEF Completed, Failed
    <3>3. runner[j].cause # "none" => runner[j].cause \in Limits
      BY <1>0 DEF Runners
    <3>4. QED
      BY <3>1, <3>2, <3>3 DEF Verdict, Limits
  <2>2. QED
    BY <1>2, <2>1, PersistInv DEF Finish
<1>3. CASE Spawn(j)
  <2>1. /\ runner' \in [Jobs -> Runners] /\ runner'[j].pc = "spawning"
        /\ runner'[j].cause = runner[j].cause /\ runner'[j].cap = runner[j].cap
        /\ \A k \in Jobs : k # j => runner'[k] = runner[k]
    BY <1>3, Moved DEF Spawn, Places
  <2>2. Types'
    <3>1. launched[j] = 0
      BY <1>0, <1>3 DEF Spawn, JobInv, Fresh
    <3>2. QED
      BY <1>3, <2>1, <3>1 DEF Spawn, durable, world, history
  <2>3. JobInv(j)'
    BY <1>0, <1>3, <2>1 DEF Spawn, durable, world, history, JobInv,
       Unlaunched, Fresh, CauseKnown, Awaited, Pumping
  <2>4. \A k \in Jobs : JobInv(k)'
    BY <1>3, <2>1, <2>3, SameJob DEF Spawn, durable, world, history
  <2>5. QED
    BY <1>3, <2>2, <2>4 DEF Spawn, CleanupLate, world
<1>4. CASE Capture(j)
  <2>1. /\ runner' \in [Jobs -> Runners] /\ runner'[j].pc = "waiting"
        /\ runner'[j].cause = runner[j].cause /\ runner'[j].cap = runner[j].cap
        /\ \A k \in Jobs : k # j => runner'[k] = runner[k]
    BY <1>4, Moved DEF Capture, Places
  <2>2. Types'
    BY <1>4, <2>1 DEF Capture, durable, world, history
  <2>3. JobInv(j)'
    BY <1>0, <1>4, <2>1 DEF Capture, durable, world, history, JobInv,
       Unlaunched, Fresh, CauseKnown, Awaited, Pumping
  <2>4. \A k \in Jobs : JobInv(k)'
    BY <1>4, <2>1, <2>3, SameJob DEF Capture, durable, world, history
  <2>5. QED
    BY <1>4, <2>2, <2>4 DEF Capture, CleanupLate, world
<1>5. CASE WaitReturns(j)
  <2>1. /\ runner' \in [Jobs -> Runners] /\ runner'[j].pc = "draining"
        /\ runner'[j].cause = runner[j].cause /\ runner'[j].cap = runner[j].cap
        /\ \A k \in Jobs : k # j => runner'[k] = runner[k]
    BY <1>5, Moved DEF WaitReturns, Places
  <2>2. Types'
    BY <1>5, <2>1 DEF WaitReturns, durable, world, history
  <2>3. JobInv(j)'
    BY <1>0, <1>5, <2>1 DEF WaitReturns, durable, world, history, JobInv,
       Unlaunched, Fresh, CauseKnown, Awaited, Pumping
  <2>4. \A k \in Jobs : JobInv(k)'
    BY <1>5, <2>1, <2>3, SameJob DEF WaitReturns, durable, world, history
  <2>5. QED
    BY <1>5, <2>2, <2>4 DEF WaitReturns, CleanupLate, world
<1>6. CASE PublishTerminal(j)
  <2>1. /\ runner' \in [Jobs -> Runners] /\ runner'[j].pc = "done"
        /\ runner'[j].cause = runner[j].cause /\ runner'[j].cap = runner[j].cap
        /\ \A k \in Jobs : k # j => runner'[k] = runner[k]
    BY <1>6, Moved DEF PublishTerminal, Places
  <2>2. Types'
    BY <1>6, <2>1 DEF PublishTerminal, durable, world, history
  <2>3. JobInv(j)'
    BY <1>0, <1>6, <2>1 DEF PublishTerminal, durable, world, history, JobInv,
       Unlaunched, Fresh, CauseKnown, Awaited, Pumping
  <2>4. \A k \in Jobs : JobInv(k)'
    BY <1>6, <2>1, <2>3, SameJob DEF PublishTerminal, durable, world, history
  <2>5. QED
    BY <1>6, <2>2, <2>4 DEF PublishTerminal, CleanupLate, world
<1>7. CASE Exit(j) \/ Reap(j)
  <2>1. Types' /\ proc[j] # "reaped"
    BY <1>7 DEF Exit, Reap, durable, world, history
  <2>2. JobInv(j)'
    BY <1>0, <1>7, <2>1 DEF Exit, Reap, durable, world, history, JobInv, Unlaunched, Fresh,
       CauseKnown, Awaited, Pumping
  <2>3. \A k \in Jobs : JobInv(k)'
    BY <1>7, <2>2, SameJob DEF Exit, Reap, durable, world, history
  <2>4. QED
    BY <1>7, <2>1, <2>3 DEF Exit, Reap, CleanupLate, world
<1>8. CASE Line(j)
  BY <1>8, KeptInv DEF Line, durable, world, history, kept
<1>9. CASE CapReached(j)
  <2>1. /\ runner'[j] = [runner[j] EXCEPT !.cap = TRUE]
        /\ first'[j] = FirstOf(j, "output_cap")
        /\ \A k \in Jobs : k # j => runner'[k] = runner[k] /\ first'[k] = first[k]
    BY <1>9 DEF CapReached
  <2>2. /\ runner'[j].pc = runner[j].pc /\ runner'[j].cause = runner[j].cause
        /\ runner'[j].cap = TRUE
    BY <1>0, <2>1 DEF Runners
  <2>3. runner' \in [Jobs -> Runners]
    BY <1>9, RunnerTypes DEF CapReached
  <2>4. Types'
    BY <1>9, <2>3 DEF CapReached, durable, world, history, FirstOf, Limits
  <2>5. JobInv(j)'
    BY <1>0, <1>9, <2>1, <2>2 DEF CapReached, durable, FirstOf, Limits, Runners, JobInv,
       Unlaunched, Fresh, CauseKnown, Awaited, Pumping
  <2>6. \A k \in Jobs : JobInv(k)'
    BY <1>9, <2>1, <2>5, SameJob DEF CapReached, durable
  <2>7. QED
    BY <1>9, <2>4, <2>6 DEF CapReached, CleanupLate, world
<1>10. CASE watch_cap(j)
  <2>1. /\ runner'[j] = [runner[j] EXCEPT !.cause = "output_cap"]
        /\ \A k \in Jobs : k # j => runner'[k] = runner[k]
    BY <1>10 DEF watch_cap
  <2>2. /\ runner'[j].pc = runner[j].pc /\ runner'[j].cause = "output_cap"
        /\ runner'[j].cap = runner[j].cap
    BY <1>0, <2>1 DEF Runners
  <2>3. runner' \in [Jobs -> Runners]
    BY <1>10, RunnerTypes DEF watch_cap, Limits
  <2>4. Types'
    BY <1>10, <2>3 DEF watch_cap, durable, world, history
  <2>5. JobInv(j)'
    BY <1>0, <1>10, <2>2 DEF watch_cap, durable, history, Limits, Runners, JobInv,
       Unlaunched, Fresh, CauseKnown, Awaited, Pumping
  <2>6. \A k \in Jobs : JobInv(k)'
    BY <1>10, <2>1, <2>5, SameJob DEF watch_cap, durable, history
  <2>7. QED
    BY <1>10, <2>4, <2>6 DEF watch_cap, CleanupLate, world
<1>11. CASE Deadline(j)
  <2> DEFINE why == IF runner[j].cause = "none" THEN "timeout" ELSE runner[j].cause
  <2>1. /\ runner'[j] = [runner[j] EXCEPT !.pc = "expired", !.cause = why]
        /\ first'[j] = FirstOf(j, "timeout")
        /\ \A k \in Jobs : k # j => runner'[k] = runner[k] /\ first'[k] = first[k]
    BY <1>11 DEF Deadline
  <2>2. why \in Limits
    BY <1>0 DEF Runners, Limits
  <2>3. /\ runner'[j].pc = "expired" /\ runner'[j].cause = why
        /\ runner'[j].cap = runner[j].cap /\ runner'[j] \in Runners
    BY <1>0, <2>1, <2>2 DEF Runners, Places
  <2>4. runner' \in [Jobs -> Runners]
    BY <1>11, <2>1, <2>3 DEF Deadline
  <2>5. Types'
    BY <1>11, <2>4 DEF Deadline, durable, world, history, FirstOf, Limits
  <2>6. JobInv(j)'
    BY <1>0, <1>11, <2>1, <2>3 DEF Deadline, durable, FirstOf, Limits, Runners, JobInv,
       Unlaunched, Fresh, CauseKnown, Awaited, Pumping
  <2>7. \A k \in Jobs : JobInv(k)'
    BY <1>11, <2>1, <2>6, SameJob DEF Deadline, durable
  <2>8. QED
    BY <1>11, <2>5, <2>7 DEF Deadline, CleanupLate, world
<1>12. ASSUME NEW who \in {"founder_stop", "agent_stop"}, stop_job(j, who)
       PROVE  Inv'
  <2>1. /\ runner' \in [Jobs -> Runners] /\ first' \in [Jobs -> Limits \cup {"none"}]
        /\ \A k \in Jobs : JobInv(k)'
    BY <1>12, SignalInv DEF stop_job, durable, Limits
  <2>2. QED
    BY <1>12, <2>1 DEF stop_job, durable, world, CleanupLate
<1>13. QED
  BY <1>1, <1>2, <1>3, <1>4, <1>5, <1>6, <1>7, <1>8, <1>9, <1>10, <1>11, <1>12 DEF Run

\* The end of the task, pauses, sweeps, shutdown and crashes.
LEMMA EnvironmentInv ==
  ASSUME Inv, Environment
  PROVE  Inv'
<1> USE DEF Inv, Types
<1>1. CASE discover_pause_work
  BY <1>1, KeptInv DEF discover_pause_work, world, history, kept
<1>2. CASE Hold
  BY <1>2, KeptInv DEF Hold, durable, history, kept
<1>3. CASE TaskEnds
  <2>1. Types' /\ CleanupLate'
    BY <1>3 DEF TaskEnds, durable, history, NoCleanup, CleanupLate
  <2>2. \A k \in Jobs : JobInv(k)'
    BY <1>3, SameJob DEF TaskEnds, durable, history
  <2>3. QED
    BY <2>1, <2>2
<1>4. CASE terminate_jobs_for_task
  <2>1. /\ runner' \in [Jobs -> Runners] /\ first' \in [Jobs -> Limits \cup {"none"}]
        /\ \A k \in Jobs : JobInv(k)'
    BY <1>4, SignalInv DEF terminate_jobs_for_task, durable, Limits
  <2>2. cleanup' \in [pc : {"none", "signal", "grace"}, jobs : SUBSET Jobs] /\ ~taskLive
    BY <1>4 DEF terminate_jobs_for_task, CleanupLate
  <2>3. QED
    BY <1>4, <2>1, <2>2 DEF terminate_jobs_for_task, durable, CleanupLate
<1>5. CASE backstop_terminated_task_jobs
  <2>1. \A k \in Jobs : \/ row'[k] = row[k]
                        \/ row[k] = Running /\ row'[k] = Failed("task_ended")
    BY <1>5 DEF backstop_terminated_task_jobs
  <2>2. row' \in [Jobs -> Rows]
    BY <1>5, RowTypes DEF backstop_terminated_task_jobs, Reasons, Limits
  <2>3. Types' /\ CleanupLate'
    BY <1>5, <2>2 DEF backstop_terminated_task_jobs, history, NoCleanup, CleanupLate
  <2>4. \A k \in Jobs : JobInv(k)'
    BY <1>5, <2>1 DEF backstop_terminated_task_jobs, history, Absent, Pending, Rejected,
       Running, Failed, JobInv, Unlaunched, Fresh, CauseKnown, Awaited, Pumping
  <2>5. QED
    BY <2>3, <2>4
<1>6. CASE terminate_all_inflight
  <2>1. /\ runner' \in [Jobs -> Runners] /\ first' \in [Jobs -> Limits \cup {"none"}]
        /\ \A k \in Jobs : JobInv(k)'
    BY <1>6, SignalInv DEF terminate_all_inflight, durable, Limits
  <2>2. QED
    BY <1>6, <2>1 DEF terminate_all_inflight, durable, CleanupLate
<1>7. CASE Crash
  <2>1. \A k \in Jobs : runner'[k] = NoRunner
    BY <1>7 DEF Crash
  <2>2. Types' /\ CleanupLate'
    BY <1>7, RunnerTypes DEF Crash, durable, NoCleanup, CleanupLate
  <2>3. \A k \in Jobs : JobInv(k)'
    BY <1>7, <2>1 DEF Crash, durable, NoRunner, JobInv, Unlaunched, Fresh, CauseKnown,
       Awaited, Pumping
  <2>4. QED
    BY <2>2, <2>3
<1>8. QED
  BY <1>1, <1>2, <1>3, <1>4, <1>5, <1>6, <1>7 DEF Environment

\* Every step keeps the invariant.
LEMMA NextInv ==
  ASSUME Inv, [Next]_vars
  PROVE  Inv'
<1>1. ASSUME NEW c \in Clients, ClientStep(c) PROVE Inv'
  BY <1>1, KeptInv DEF ClientStep, Subscribe, TakeEvent, Poll, OpenStream, durable, world,
     history, kept, Inv, Types
<1>2. CASE UNCHANGED vars
  BY <1>2, KeptInv DEF vars, kept, Inv, Types
<1>3. QED
  BY <1>1, <1>2, AdmissionInv, RunInv, EnvironmentInv DEF Next

LEMMA Invariance == Spec => []Inv
  BY InitInv, NextInv, PTL DEF Spec

-----------------------------------------------------------------------------
(* The results                                                             *)

\* A script is started at most once and never from a row a sweep would still
\* admit, whatever the number of jobs and crashes (_run_job_core).
THEOREM LaunchedOnceHolds == Spec => []LaunchedOnce
<1>1. Inv => LaunchedOnce
  BY DEF Inv, Types, JobInv, Unlaunched, LaunchedOnce
<1>2. QED
  BY <1>1, Invariance, PTL

\* A verdict, once committed, stands, and names what first ended the process
\* (_run_and_persist, _signal_registered_job, backstop_terminated_task_jobs).
THEOREM VerdictKeptHolds == Spec => VerdictKept
<1> DEFINE Final(j) ==
         /\ Terminal(j) => row'[j] = row[j]
         /\ row[j] = Running /\ row'[j] # row[j] =>
              \/ row'[j] = Completed /\ first[j] = "none" /\ proc[j] = "reaped"
              \/ row'[j] = Failed(first[j]) /\ first[j] # "none"
              \/ row'[j] = Failed("timeout") /\ first[j] = "output_cap"
              \/ row'[j] = Failed("task_ended") /\ ~taskLive
              \/ row'[j].reason \in {"spawn_failed", "internal_error"} /\ launched[j] = 0
<1>1. ASSUME Inv, [Next]_vars, NEW k \in Jobs PROVE Final(k)
  <2>1. CASE row'[k] = row[k]
    BY <2>1
  <2>2. ASSUME NEW j \in Jobs, Admission(j), row'[k] # row[k] PROVE Final(k)
    <3>1. row[k] \in {Absent, Pending}
      BY <1>1, <2>2 DEF Admission, Submit, reject_job, reserve, ReserveRefused, Unpending,
         Deferred, PreflightFails, Admitted, durable, Inv, Types
    <3>2. QED
      BY <3>1 DEF Terminal, Ended, Absent, Pending, Running
  <2>3. ASSUME NEW j \in Jobs, Run(j), row'[k] # row[k] PROVE Final(k)
    <3>1. SpawnFails(j) \/ Finish(j)
      BY <2>3 DEF Run, Spawn, Capture, Exit, Reap, Line, CapReached, watch_cap, Deadline,
         WaitReturns, PublishTerminal, stop_job, durable
    <3>2. ~Terminal(k) /\ row[k] = Running /\ k = j
      BY <1>1, <2>3, <3>1 DEF SpawnFails, Finish, Persist, durable, Inv, Types, Running,
         Terminal, Ended
    <3>3. CASE SpawnFails(j)
      <4>1. PICK why \in {"spawn_failed", "internal_error"} : row'[j] = Failed(why)
        BY <1>1, <3>2, <3>3 DEF SpawnFails, Persist, Inv, Types
      <4>2. launched[j] = 0
        BY <1>1, <3>3 DEF SpawnFails, Inv, JobInv, Fresh
      <4>3. QED
        BY <3>2, <4>1, <4>2 DEF Failed
    <3>4. CASE Finish(j)
      <4>1. row'[j] = Verdict(runner[j])
        BY <1>1, <3>2, <3>4 DEF Finish, Persist, Inv, Types
      <4>2. /\ JobInv(j) /\ Pumping(j)
            /\ runner[j].pc \in {"draining", "expired"} /\ runner[j] \in Runners
        BY <1>1, <3>4 DEF Finish, Inv, Types, Pumping
      <4>3. QED
        BY <3>2, <4>1, <4>2 DEF Verdict, JobInv, CauseKnown, Awaited, Runners
    <3>5. QED
      BY <3>1, <3>3, <3>4
  <2>4. ASSUME Environment, row'[k] # row[k] PROVE Final(k)
    <3>1. backstop_terminated_task_jobs
      BY <2>4 DEF Environment, discover_pause_work, Hold, TaskEnds, terminate_jobs_for_task,
         terminate_all_inflight, Crash, durable
    <3>2. row[k] = Running /\ row'[k] = Failed("task_ended")
      BY <2>4, <3>1 DEF backstop_terminated_task_jobs
    <3>3. ~taskLive
      BY <1>1, <3>1 DEF backstop_terminated_task_jobs, Inv, CleanupLate
    <3>4. QED
      BY <3>2, <3>3 DEF Terminal, Ended, Running
  <2>5. ASSUME NEW c \in Clients, ClientStep(c) PROVE row' = row
    BY <2>5 DEF ClientStep, Subscribe, TakeEvent, Poll, OpenStream, durable
  <2>6. QED
    BY <1>1, <2>1, <2>2, <2>3, <2>4, <2>5 DEF Next, vars
<1>2. Inv /\ [Next]_vars => [\A j \in Jobs : Final(j)]_vars
  BY <1>1
<1>3. QED
  BY <1>2, Invariance, PTL DEF Spec, VerdictKept

================================================================================
