--------------------------------- MODULE Jobs ----------------------------------
(***************************************************************************)
(* Background jobs. An agent submits a script with its task; the row is    *)
(* inserted pending and the same request, or a later sweep, admits it: the *)
(* row is committed running and a runner registered, which spawns the      *)
(* script, watches its limits, and commits the verdict. An operator may    *)
(* reject a pending job or stop a running one, the end of the task ends    *)
(* its jobs, and a client may follow a job through the event bus.          *)
(*                                                                          *)
(* Rows, journal entries and producer evidence survive a crash, and so do  *)
(* the scripts, which run in sessions of their own. Every job here belongs *)
(* to one task.                                                             *)
(***************************************************************************)
EXTENDS Naturals

CONSTANTS
    Jobs,         \* identifiers a job may be given
    Clients,      \* clients that follow a job
    MaxCrashes    \* bound on the daemon's ends

ASSUME CrashAssumption == MaxCrashes \in Nat

VARIABLES
    row,          \* the jobs table: status and reason
    entry,        \* the job's entry in the pause journal
    evidence,     \* what producer admission has recorded for the job
    asked,        \* calls that are about to ask for the job's admission
    reserved,     \* jobs whose admission has been reserved and not decided
    runner,       \* the registered runner: where it is, its cause, its cap
    proc,         \* the script's process
    taskLive,     \* the owning task has not ended
    held,         \* the task's root is paused
    cleanup,      \* the end of the task: where it is, the jobs it read
    stopping,     \* the daemon is shutting down
    stream,       \* what each client follows, and the events queued for it
    launched,     \* history: processes ever started for the job
    first,        \* history: what first ended or exceeded the process
    crashes

vars == <<row, entry, evidence, asked, reserved, runner, proc, taskLive, held,
          cleanup, stopping, stream, launched, first, crashes>>

-----------------------------------------------------------------------------
(* State                                                                   *)

Ended == {"completed", "failed", "rejected"}
Absent == [status |-> "absent", reason |-> "none"]
Pending == [status |-> "pending", reason |-> "none"]
Running == [status |-> "running", reason |-> "none"]
Rejected == [status |-> "rejected", reason |-> "none"]
Completed == [status |-> "completed", reason |-> "none"]
Failed(why) == [status |-> "failed", reason |-> why]

Terminal(j) == row[j].status \in Ended

NoRunner == [pc |-> "none", cause |-> "none", cap |-> FALSE]
NoCleanup == [pc |-> "none", jobs |-> {}]
NoStream == [pc |-> "none", job |-> "none", line |-> FALSE, terminal |-> FALSE]

\* The runner has captured the process and its pumps still read from it.
Pumping(j) == runner[j].pc \in {"waiting", "draining", "expired"}

\* The runner can publish nothing further.
Quiet(j) == runner[j].pc \in {"none", "committed", "done"}

Init ==
    /\ row = [j \in Jobs |-> Absent]
    /\ entry = [j \in Jobs |-> "none"]
    /\ evidence = [j \in Jobs |-> "none"]
    /\ asked = {} /\ reserved = {}
    /\ runner = [j \in Jobs |-> NoRunner]
    /\ proc = [j \in Jobs |-> "none"]
    /\ taskLive = TRUE /\ held = FALSE
    /\ cleanup = NoCleanup /\ stopping = FALSE
    /\ stream = [c \in Clients |-> NoStream]
    /\ launched = [j \in Jobs |-> 0]
    /\ first = [j \in Jobs |-> "none"]
    /\ crashes = 0

durable == <<row, entry, evidence>>
history == <<launched, first, crashes>>
world == <<taskLive, held, cleanup, stopping>>

-----------------------------------------------------------------------------
(* Submission, rediscovery and admission                                   *)

\* The session that submits is live, so its task is; the row and its journal
\* entry are one commit, after which the request asks for admission.
Submit(j) ==
    /\ ~stopping /\ taskLive
    /\ row[j] = Absent
    /\ row' = [row EXCEPT ![j] = Pending]
    /\ entry' = [entry EXCEPT ![j] = "pending_job"]
    /\ asked' = asked \cup {<<j, "submit">>}
    /\ UNCHANGED <<evidence, reserved, runner, proc, world, stream, history>>

\* The job's entry was never launched, and its row has ended.
ClosedPending(j) == entry[j] = "pending_job" /\ Terminal(j)

\* The sweep of a root, at startup, periodically or on release of a pause, as
\* far as jobs go (TaskLifecycle has the tasks): entries of jobs that ended
\* without an admission are dropped, and unless the root is held the pending
\* ones are asked for again.
discover_pause_work ==
    /\ ~stopping
    /\ \A j \in Jobs : <<j, "sweep">> \notin asked
    /\ \E j \in Jobs : entry[j] = "pending_job"
    /\ entry' = [j \in Jobs |-> IF ClosedPending(j) THEN "none" ELSE entry[j]]
    /\ asked' = asked \cup {<<j, "sweep">> :
                              j \in {k \in Jobs : ~held /\ entry[k] = "pending_job"
                                                        /\ row[k] = Pending}}
    /\ UNCHANGED <<row, evidence, reserved, runner, proc, world, stream, history>>

\* A job somebody already owns, in this process or by what an earlier one left
\* unsettled, is not reserved again.
Reservable(j) ==
    /\ row[j] = Pending
    /\ j \notin reserved
    /\ evidence[j] \in {"none", "deferred"}

reserve(j, who) ==
    /\ <<j, who>> \in asked
    /\ Reservable(j)
    /\ asked' = asked \ {<<j, who>>}
    /\ reserved' = reserved \cup {j}
    /\ evidence' = [evidence EXCEPT ![j] = "open"]
    /\ UNCHANGED <<row, entry, runner, proc, world, stream, history>>

ReserveRefused(j, who) ==
    /\ <<j, who>> \in asked
    /\ ~Reservable(j)
    /\ asked' = asked \ {<<j, who>>}
    /\ UNCHANGED <<durable, reserved, runner, proc, world, stream, history>>

\* The rest of the admission, under the database lock, ends in one of the four
\* ways below.
Decide(j) == j \in reserved /\ reserved' = reserved \ {j}

Unpending(j) ==
    /\ Decide(j)
    /\ row[j] # Pending
    /\ evidence' = [evidence EXCEPT ![j] = "settled"]
    /\ UNCHANGED <<row, entry, asked, runner, proc, world, stream, history>>

\* The task has ended, or its root is paused and the submitting session is not
\* one that was running when it was.
Deferred(j) ==
    /\ Decide(j)
    /\ row[j] = Pending
    /\ ~taskLive \/ held
    /\ evidence' = [evidence EXCEPT ![j] = "deferred"]
    /\ UNCHANGED <<row, entry, asked, runner, proc, world, stream, history>>

\* The interpreter or the directory is gone: the job fails without a launch.
PreflightFails(j) ==
    /\ Decide(j)
    /\ row[j] = Pending /\ taskLive
    /\ row' = [row EXCEPT ![j] = Failed("spawn_failed")]
    /\ entry' = [entry EXCEPT ![j] = "none"]
    /\ evidence' = [evidence EXCEPT ![j] = "settled"]
    /\ UNCHANGED <<asked, runner, proc, world, stream, history>>

\* A mutant of Admitted: the runner is started before the row is committed.
AdmittedEarly(j) ==
    /\ Decide(j)
    /\ row[j] = Pending /\ taskLive
    /\ runner' = [runner EXCEPT ![j] = [NoRunner EXCEPT !.pc = "registered"]]
    /\ UNCHANGED <<row, entry, evidence, asked, proc, world, stream, history>>

\* The row is committed running, and the runner created, before anything of
\* the launch happens.
Admitted(j) ==
    /\ Decide(j)
    /\ row[j] = Pending /\ taskLive
    /\ row' = [row EXCEPT ![j] = Running]
    /\ entry' = [entry EXCEPT ![j] = "possible_launch"]
    /\ runner' = [runner EXCEPT ![j] = [NoRunner EXCEPT !.pc = "registered"]]
    /\ UNCHANGED <<evidence, asked, proc, world, stream, history>>

\* The operator's rejection compares the row and writes.
reject_job(j) ==
    /\ ~stopping
    /\ row[j] = Pending
    /\ row' = [row EXCEPT ![j] = Rejected]
    /\ UNCHANGED <<entry, evidence, asked, reserved, runner, proc, world, stream, history>>

Hold == held' = ~held /\ UNCHANGED <<durable, asked, reserved, runner, proc, taskLive, cleanup,
                                     stopping, stream, history>>

-----------------------------------------------------------------------------
(* Causes. What ends a process is established once.                        *)

\* A mutant of Established: the latest signal names the cause.
LatestCause(r, why) == why

\* The cause after a signal: an earlier one stays, and a cap the pump has
\* seen counts although its watcher has not run.
Established(r, why) ==
    IF r.cause # "none" THEN r.cause ELSE IF r.cap THEN "output_cap" ELSE why

\* Who can be signalled: the process is captured and not known to have ended.
Inflight(j) == Pumping(j) /\ proc[j] # "reaped"

FirstOf(j, why) == IF first[j] = "none" THEN why ELSE first[j]

\* Signal each job of S in flight. A process that has ended but is not yet
\* known to have may be missed; the cause is then withdrawn, unless it is the
\* cap's.
SignalRegistered(S, why) ==
    \E missed \in SUBSET {j \in S : Inflight(j) /\ proc[j] = "exited"} :
        LET hit == {j \in S : Inflight(j)} \ missed
        IN  /\ runner' = [j \in Jobs |->
                 IF j \in hit
                 THEN [runner[j] EXCEPT !.cause = Established(runner[j], why)]
                 ELSE IF j \in missed /\ runner[j].cap
                 THEN [runner[j] EXCEPT !.cause = Established(runner[j], "output_cap")]
                 ELSE runner[j]]
            /\ first' = [j \in Jobs |-> IF j \in hit THEN FirstOf(j, why) ELSE first[j]]

stop_job(j, who) ==
    /\ ~stopping
    /\ row[j] = Running
    /\ Inflight(j)
    /\ SignalRegistered({j}, who)
    /\ UNCHANGED <<durable, asked, reserved, proc, world, stream, launched, crashes>>

-----------------------------------------------------------------------------
(* The runner                                                              *)

Subscribed(c, j) == stream[c].job = j /\ stream[c].pc = "subscribed"

\* The verdict is written only over a running row; when the end of the task
\* has written first, the runner has nothing to publish.
Persist(j, verdict) ==
    IF row[j] = Running
    THEN /\ row' = [row EXCEPT ![j] = verdict]
         /\ entry' = [entry EXCEPT ![j] = "unknown"]
         /\ evidence' = [evidence EXCEPT ![j] = "settled"]
         /\ runner' = [runner EXCEPT ![j].pc = "committed"]
    ELSE /\ runner' = [runner EXCEPT ![j].pc = "done"]
         /\ UNCHANGED durable

\* Preparation or the spawn raises: nothing was started, and the verdict is
\* committed, unless another has been.
SpawnFails(j) ==
    /\ runner[j].pc = "registered"
    /\ \E why \in {"spawn_failed", "internal_error"} : Persist(j, Failed(why))
    /\ UNCHANGED <<asked, reserved, proc, world, stream, history>>

\* The process exists from here on, the runner has not captured it yet.
Spawn(j) ==
    /\ runner[j].pc = "registered"
    /\ runner' = [runner EXCEPT ![j].pc = "spawning"]
    /\ proc' = [proc EXCEPT ![j] = "alive"]
    /\ launched' = [launched EXCEPT ![j] = @ + 1]
    /\ UNCHANGED <<durable, asked, reserved, world, stream, first, crashes>>

Capture(j) ==
    /\ runner[j].pc = "spawning"
    /\ runner' = [runner EXCEPT ![j].pc = "waiting"]
    /\ UNCHANGED <<durable, asked, reserved, proc, world, stream, history>>

\* The process ends, by itself or by a signal; the loop learns of it later.
Exit(j) ==
    /\ proc[j] = "alive"
    /\ proc' = [proc EXCEPT ![j] = "exited"]
    /\ UNCHANGED <<durable, asked, reserved, runner, world, stream, history>>

Reap(j) ==
    /\ proc[j] = "exited" /\ Pumping(j)
    /\ proc' = [proc EXCEPT ![j] = "reaped"]
    /\ UNCHANGED <<durable, asked, reserved, runner, world, stream, history>>

\* A pump publishes a line to the clients subscribed.
Line(j) ==
    /\ Pumping(j)
    /\ stream' = [c \in Clients |-> IF Subscribed(c, j)
                                    THEN [stream[c] EXCEPT !.line = TRUE] ELSE stream[c]]
    /\ UNCHANGED <<durable, asked, reserved, runner, proc, world, history>>

\* A pump reads past the output cap.
CapReached(j) ==
    /\ Pumping(j) /\ ~runner[j].cap
    /\ runner' = [runner EXCEPT ![j].cap = TRUE]
    /\ first' = [first EXCEPT ![j] = FirstOf(j, "output_cap")]
    /\ UNCHANGED <<durable, asked, reserved, proc, world, stream, launched, crashes>>

\* The cap's watcher runs: it names the cause and kills.
watch_cap(j) ==
    /\ Pumping(j) /\ runner[j].cap /\ runner[j].cause = "none"
    /\ runner' = [runner EXCEPT ![j].cause = "output_cap"]
    /\ UNCHANGED <<durable, asked, reserved, proc, world, stream, history>>

\* The runtime limit passes before the loop knows of an end. The cap is not
\* looked at here.
Deadline(j) ==
    /\ runner[j].pc = "waiting" /\ proc[j] # "reaped"
    /\ runner' = [runner EXCEPT ![j].pc = "expired",
                                ![j].cause = IF @ = "none" THEN "timeout" ELSE @]
    /\ first' = [first EXCEPT ![j] = FirstOf(j, "timeout")]
    /\ UNCHANGED <<durable, asked, reserved, proc, world, stream, launched, crashes>>

WaitReturns(j) ==
    /\ runner[j].pc = "waiting" /\ proc[j] = "reaped"
    /\ runner' = [runner EXCEPT ![j].pc = "draining"]
    /\ UNCHANGED <<durable, asked, reserved, proc, world, stream, history>>

Verdict(r) ==
    IF r.cause # "none" THEN Failed(r.cause)
    ELSE IF r.cap THEN Failed("output_cap") ELSE Completed

\* The pumps are joined, or after the limit given up on, and the verdict is
\* committed.
Finish(j) ==
    /\ runner[j].pc \in {"draining", "expired"}
    /\ Persist(j, Verdict(runner[j]))
    /\ UNCHANGED <<asked, reserved, proc, world, stream, history>>

\* The committed verdict is published to the clients subscribed.
PublishTerminal(j) ==
    /\ runner[j].pc = "committed"
    /\ runner' = [runner EXCEPT ![j].pc = "done"]
    /\ stream' = [c \in Clients |-> IF Subscribed(c, j)
                                    THEN [stream[c] EXCEPT !.terminal = TRUE] ELSE stream[c]]
    /\ UNCHANGED <<durable, asked, reserved, proc, world, history>>

-----------------------------------------------------------------------------
(* The end of the task, shutdown and crash                                 *)

\* The task ends; its cleanup starts if it has running jobs.
TaskEnds ==
    /\ taskLive
    /\ taskLive' = FALSE
    /\ LET running == {j \in Jobs : row[j] = Running}
       IN  cleanup' = IF running = {} THEN NoCleanup ELSE [pc |-> "signal", jobs |-> running]
    /\ UNCHANGED <<durable, asked, reserved, runner, proc, held, stopping, stream, history>>

terminate_jobs_for_task ==
    /\ cleanup.pc = "signal"
    /\ cleanup' = [cleanup EXCEPT !.pc = "grace"]
    /\ SignalRegistered(cleanup.jobs, "task_ended")
    /\ UNCHANGED <<durable, asked, reserved, proc, taskLive, held, stopping, stream,
                   launched, crashes>>

\* After the grace the signalled processes are killed, and whatever is still
\* running in the table is failed. (The kill changes no cause; a process may
\* end at any time.)
backstop_terminated_task_jobs ==
    /\ cleanup.pc = "grace"
    /\ cleanup' = NoCleanup
    /\ row' = [j \in Jobs |-> IF row[j] = Running THEN Failed("task_ended") ELSE row[j]]
    /\ UNCHANGED <<entry, evidence, asked, reserved, runner, proc, taskLive, held, stopping,
                   stream, history>>

terminate_all_inflight ==
    /\ ~stopping /\ stopping' = TRUE
    /\ SignalRegistered(Jobs, "daemon_shutdown")
    /\ UNCHANGED <<durable, asked, reserved, proc, taskLive, held, cleanup, stream,
                   launched, crashes>>

\* The daemon ends, after a shutdown or at any moment, and starts again: the
\* rows left running are reported and left as they are.
Crash ==
    /\ crashes < MaxCrashes
    /\ crashes' = crashes + 1
    /\ asked' = {} /\ reserved' = {}
    /\ runner' = [j \in Jobs |-> NoRunner]
    /\ cleanup' = NoCleanup /\ stopping' = FALSE
    /\ stream' = [c \in Clients |-> IF stream[c].pc = "none" THEN NoStream
                                    ELSE [stream[c] EXCEPT !.pc = "ended"]]
    /\ UNCHANGED <<durable, proc, taskLive, held, launched, first>>

-----------------------------------------------------------------------------
(* Clients                                                                 *)

\* The row is read first; the subscription is made when the stream is first
\* advanced, and what was published before is not replayed.
OpenStream(c, j) ==
    /\ ~stopping
    /\ stream[c].pc = "none" /\ row[j] # Absent
    /\ stream' = [stream EXCEPT ![c] = [NoStream EXCEPT !.job = j,
                        !.pc = IF Terminal(j) THEN "ended" ELSE "opened"]]
    /\ UNCHANGED <<durable, asked, reserved, runner, proc, world, history>>

Subscribe(c) ==
    /\ stream[c].pc = "opened"
    /\ stream' = [stream EXCEPT ![c].pc = "subscribed"]
    /\ UNCHANGED <<durable, asked, reserved, runner, proc, world, history>>

\* Lines precede the terminal event, whose only effect is a look at the row.
TakeEvent(c) ==
    /\ stream[c].pc = "subscribed" /\ (stream[c].line \/ stream[c].terminal)
    /\ stream' = [stream EXCEPT ![c] =
          IF stream[c].line THEN [stream[c] EXCEPT !.line = FALSE]
          ELSE [stream[c] EXCEPT !.terminal = FALSE,
                                 !.pc = IF Terminal(stream[c].job) THEN "ended" ELSE @]]
    /\ UNCHANGED <<durable, asked, reserved, runner, proc, world, history>>

\* A mutant of Poll: only events are waited for.
NeverPolls(c) == FALSE /\ UNCHANGED vars

\* No event for a second: the client looks at the row.
Poll(c) ==
    /\ stream[c].pc \in {"opened", "subscribed"}
    /\ ~stream[c].line /\ ~stream[c].terminal
    /\ Terminal(stream[c].job)
    /\ stream' = [stream EXCEPT ![c].pc = "ended"]
    /\ UNCHANGED <<durable, asked, reserved, runner, proc, world, history>>

-----------------------------------------------------------------------------
(* Specification                                                           *)

Admission(j) ==
    \/ Submit(j) \/ reject_job(j)
    \/ \E who \in {"submit", "sweep"} : reserve(j, who) \/ ReserveRefused(j, who)
    \/ Unpending(j) \/ Deferred(j) \/ PreflightFails(j) \/ Admitted(j)

Run(j) ==
    \/ SpawnFails(j) \/ Spawn(j) \/ Capture(j) \/ Exit(j) \/ Reap(j) \/ Line(j)
    \/ CapReached(j) \/ watch_cap(j) \/ Deadline(j) \/ WaitReturns(j)
    \/ Finish(j) \/ PublishTerminal(j)
    \/ \E who \in {"founder_stop", "agent_stop"} : stop_job(j, who)

Environment ==
    \/ discover_pause_work \/ Hold \/ TaskEnds \/ terminate_jobs_for_task
    \/ backstop_terminated_task_jobs \/ terminate_all_inflight \/ Crash

ClientStep(c) ==
    \/ Subscribe(c) \/ TakeEvent(c) \/ Poll(c)
    \/ \E j \in Jobs : OpenStream(c, j)

Next ==
    \/ \E j \in Jobs : Admission(j) \/ Run(j)
    \/ Environment
    \/ \E c \in Clients : ClientStep(c)

\* The event loop resumes a client whose event or timer is due.
Fairness == \A c \in Clients : WF_vars(Subscribe(c)) /\ WF_vars(TakeEvent(c)) /\ WF_vars(Poll(c))

Spec == Init /\ [][Next]_vars
FairSpec == Spec /\ Fairness

-----------------------------------------------------------------------------
(* Properties                                                              *)

\* A script is started at most once, whatever crashes, sweeps and repeated
\* admissions there are, and never while the row still says pending, from
\* where a sweep would start it again, nor after a rejection.
LaunchedOnce ==
    \A j \in Jobs :
        /\ launched[j] \in {0, 1}
        /\ row[j] \in {Absent, Pending, Rejected} => launched[j] = 0

\* A verdict is final and says what happened first: the runner's commit, the
\* backstop and the operator race, and stop, cap, deadline, shutdown and the
\* task's end race for the cause. Only a deadline may overtake a cap that
\* its watcher has not acted on.
VerdictKept ==
    [][\A j \in Jobs :
         /\ Terminal(j) => row'[j] = row[j]
         /\ row[j] = Running /\ row'[j] # row[j] =>
              \/ row'[j] = Completed /\ first[j] = "none" /\ proc[j] = "reaped"
              \/ row'[j] = Failed(first[j]) /\ first[j] # "none"
              \/ row'[j] = Failed("timeout") /\ first[j] = "output_cap"
              \/ row'[j] = Failed("task_ended") /\ ~taskLive
              \/ row'[j].reason \in {"spawn_failed", "internal_error"} /\ launched[j] = 0]_vars

\* A client following a job ends once the row is terminal and the runner is
\* silent, although its subscription may have missed the terminal event and
\* rejections, preflight failures and the backstop publish none.
StreamEnds ==
    \A c \in Clients, j \in Jobs :
        (stream[c].job = j /\ Terminal(j) /\ Quiet(j)) ~> stream[c].pc = "ended"

================================================================================
