# A TLA+ model of the HappyRanch runtime

HappyRanch runs organisations of AI agents. A daemon keeps, per organisation, a
SQLite database of tasks; a pool of workers executes tasks by starting agent
sessions; agents call back over HTTP with a completion report whose decision
makes the daemon finish, fail, delegate, chain, fan out, park or escalate the
task. Around that core it delivers thread messages to agents, fires schedules,
runs background jobs and registers the command-line tools that agents run on.
This directory holds TLA+ modules translated from `src/runtime`, the TLC
configurations that check them on small instances, and TLAPS proofs, for every
instance, of every safety property that the runs check.

## Contents

| file | what it is |
|---|---|
| `TaskQueue.tla` | the in-memory queue, its worker pool, native works, shutdown, removal of an organisation |
| `TaskQueueProofs.tla` | theorems about `TaskQueue`: types, native works, shutdown |
| `PublicationProofs.tla` | theorems about `TaskQueue`: publication |
| `TaskLifecycle.tla` | the tasks table, `run_step`, the invocation journal, callbacks, founder actions, crash, startup sweep, reaper, rediscovery |
| `TaskLifecycleProofs.tla` | theorems about `TaskLifecycle`: types, cancellation, resumption, ended tasks |
| `TaskJournalProofs.tla` | theorems about `TaskLifecycle`: one session per task, and what its journal bars |
| `ReplyDelivery.tla` | delivery of a thread's messages to its agents: wakes, exchanges, breaker, recovery |
| `WakeContract.tla` | the abstract specification `ReplyDelivery` implements: one wake per agent |
| `ReplyDeliveryProofs.tla` | theorems about `ReplyDelivery`, its refinement of `WakeContract` included |
| `Schedules.tla` | scheduled work: requests, tick, claim, fire, callback, restart |
| `SchedulesProofs.tla` | theorems about `Schedules` |
| `Jobs.tla` | background jobs: admission, runner, causes and verdict, end of the task, event stream |
| `JobsProofs.tla` | theorems about `Jobs` |
| `RegistrationToken.tla` | the in-memory table of registration tokens |
| `DirectConnect.tla` | composes `RegistrationToken` with candidates, projection, retry and restart |
| `DirectConnectProofs.tla` | theorems about `DirectConnect` and the tokens it uses |
| `MC*.tla` | model values and symmetry sets for TLC |
| `*.cfg` | one per run |
| `PROJECT.json` | components, runs, mutants, the map from definitions to source lines, findings, hazards, theorems |

Run with `tlc -config X.cfg M`; check the proofs of a module with
`tlapm M.tla`, for each of the eight modules whose name ends in `Proofs`.

## Inventory

For each part: its state, its operations, who it interacts with, what is hard,
and what makes it correct. "Modelled" parts come first.

**Task queue** (`daemon/queue.py`, `daemon/dispatcher.py`). State: an
`asyncio.Queue` of `(slug, task_id)` items, `_pending_counts`,
`_admission_reservations`, `_native_work`, the consumer tasks, `_stopping` and
the one drain task. Operations: `enqueue`, `enqueue_if_absent`, the attachment
adapter's cross-thread enqueue, the worker loop, `_submit` / `_run_owned`
(prepare, run, retire on executor threads), `stop` / `_drain`. Hard: three kinds
of actor (producer threads, coroutines, executor threads), a loop callback that
may run after its caller gave up, consumers cancelled while their thread runs
on. Correct when a bounded wake is never doubled and never lost to a leaked
reservation, when no thread outlives the database it uses, when nothing is
launched behind the fence, and when the drain ends with a true verdict.

**Organisation attachment** (`daemon/org_state.py`, `daemon/state.py`). State:
whether an organisation is attached, and its native task users. Operations:
load, remove, close all. Shares the close barrier with the queue.

**Tasks and `run_step`** (`orchestrator/run_step.py`,
`infrastructure/db/tasks.py`). State: one row per task (status, `block_kind`,
`cancelled_at`, parent, step count, `active_chain`, `active_fanout`) and the
`task_results` rows. Operations: entry test and claim, agent session,
consumption of the report, `_complete`, `_fail`, `try_delegate`,
`try_delegate_many`, `_advance_chain_for_completed_child`,
`_enqueue_parent_if_waiting`, `_maybe_resume_blocked_task`. Hard: every database
call is atomic and no sequence of them is. Correct when a task has one session
at a time, a parked task is resumed only when what it waits for is over, a
cancelled one stays down, and every task ends.

**Invocation journal** (`orchestrator/task_pause.py`,
`infrastructure/task_pause_controls.py`, `orchestrator/launch_refusals.py`).
State: per root a control row with the journal, an entry per invocation that has
not been settled. Whether or not anybody pauses anything, `run_step` prepares an
entry before it launches and closes it at the end; an unsettled entry bars the
task, so that an item dequeued meanwhile is dropped; a restart keeps what it finds
open as unknown, and sweep and reaper leave such a task alone unless its report
has landed; `discover_pause_work` publishes every eligible task again, on each
tick of the reaper's loop, at boot and on release. Hard: wakes are dropped by
design and repaired later, and an entry that is never settled bars its task for
good. Correct when only live invocations bar a task and dropped wakes come back.

**Task routes** (`daemon/routes/tasks.py`). Submit, completion callback,
resolve-escalation, cancel. They run on the event loop and interleave with the
workers between any two of their database calls.

**Startup sweep and zombie reaper** (`daemon/__main__.py`, `daemon/app.py`,
`daemon/zombie_reaper.py`). No durable state of their own; they reconstruct from
the database what the queue and the session tracker lost, except where the journal
says that an invocation is of unknown fate. Hard: agent processes
may have outlived the daemon, and a crash may hit the sweep itself.

**Jobs** (`infrastructure/db/jobs.py`, `daemon/jobs_runner.py`,
`daemon/routes/jobs.py`, with `producer_move.py` and `task_pause.py` for
admission). State: the row (pending, running, terminal or rejected), the entry in
the pause journal, the producer's evidence, the registered runner with the cause
of its process's end, the process. Operations: submit, rediscover, reserve and
admit, reject, stop, spawn, capture, cap, deadline, verdict, end of the task with
its backstop, shutdown. Hard: admission is asked for by a request and by a sweep,
five causes race for one process that may have just exited, scripts outlive the
daemon. Correct when a script is started once, a verdict is final and names what
happened first.

**Event bus** (`daemon/event_bus.py`). State: subscriber queues. A job's stream
reads the row, subscribes without replay and polls beside its queue. Correct when
no follower waits for ever on a job that is over.

**Thread reply delivery** (`infrastructure/db/reply_delivery.py`,
`reply_exchange.py`, `daemon/thread_runner.py`). State, per thread and agent:
acknowledged and required watermarks, a queued and a running slot, pending
receipts, a catch-up marker, a breaker; per thread: an exchange with its held
members. Operations: arrival, peek, prepare, claim, answer, decline, settle,
release, reap, probe, abort, remove, invite, recover. Hard: messages arrive
between reading the thread, claiming the range and settling it; an exchange may
close over a run that does not cover what its member missed; a restart preserves
the slot of a process that may still answer. Correct when there
is one wake per agent, nothing is acknowledged unread, and no owed wake is lost.

**Schedules** (`daemon/schedule_*.py`, `orchestrator/schedule_service.py`,
`daemon/routes/schedules.py`). State: the row (status, instant, epoch), what
producers reserved, the put callbacks, the queue, the one worker, the callback.
Operations: create, pause, cancel, edit, tick, claim, put, run, spawn callback,
recover. Hard: requests run in a thread pool and write without comparing; the
queue drops a put while an earlier fire runs; the callback is not atomic.
Correct when each task has a claim of its own and each claim is heard of.

**Registration tokens and direct connect** (`daemon/registration_token.py`,
`direct_connect_*.py`, their routes). State: tokens in memory; authority,
candidates, projections and identity history in a database; the profile. Operations: mint, check in, reserve,
commit, release, connect, project (by sweep or by route), correct, validate
again, forget. Hard: three kinds of thread, a token that dies with the process
while its candidate does not. Correct when a token pays once, an accepted
candidate is finished by somebody, and the profile is what was committed.

**Everything else** is listed under "Not modelled".

## How the modules correspond to the code

### TaskQueue

An action is what one actor does between two points where another may run: a
critical section of the admission lock, or the code between two awaits.

- `Enqueue`, `PlainEnqueue` are `enqueue` and `put_nowait`. A *work* is one
  delivery: the queue item and, after `_submit`, its `_NativeWork`. The set
  `Works` bounds how many items are ever put.
- `ReserveBoundedEnqueue`, `PublishDirect`, `PublisherDeclines`, `SubmitPut`,
  `SubmitPutRaises`, `RunPut`, `PublishReturns` split `enqueue_if_absent` and the
  adapter at the lock, at the hand-over to the loop and at its return. `Releases`
  is the condition in the `finally` clause: a put whose Future is not done keeps
  the reservation. `SubmitPutRaises` leaves open whether the callback was
  scheduled, since the code cannot know either.
- `Take` is `queue.get` and `_consume` up to its first await, `_submit`
  included; `ConsumerCancelled` delivers a cancellation to either await.
- `RunOwnedStarts`, `Prepared`, `RunReturned`, `Retired`, `Settle` are
  `_run_owned` between its awaits, `ThreadReturns` the executor thread, and
  `FutureCancelled` the cancellation of a wrapped Future while its thread runs.
- `Stop`, `DrainCancelsWorkers`, `DrainJoinsWorkers`, `DrainJoinsNative` are
  `stop` and `_drain`. `CloseOrg` is `remove_org` while the daemon runs, or
  `close_all` after a clean drain. It omits `remove_org`'s refusal for
  nonterminal tasks, so the model closes more often than the code.
- Left out: the heartbeat (telemetry), logging, `queue.join`, and the contents
  of dispatch metadata.

### TaskLifecycle

An action is one database transaction with the local steps up to the next one.
`task` is the table, `entry` the phase of each task's unsettled journal entry,
`control` whether the root has a control row (it has one since its first
preparation), `actor` the program counter of each worker thread, of the
startup sweep and of the reaper. The sweep and the reaper go through the same
`Consume...`, `Fail` and `WakeParent` actions as a worker, as in the code. `queue` is a
bag of ids: what the tasks rely on is that a queued item is eventually served,
which `ItemsAreServed` checks of `TaskQueue`.

- `Enter` dequeues and reads the row; `Prepare` tests eligibility on that row and
  inserts the entry, or drops the item because the task is barred (`Barred`:
  "invocation already live", "already owned") or not eligible. `Claim` is the
  launching commit: the fingerprint and eligibility again (`StillCurrent`), the row
  and the entry's phase in one transaction. `GiveUp` is a commit that found the row
  changed, `RefuseLaunch` a preparation that raised (`settle_refusal`). `Close` is
  `release_live` and `close`: the entry goes, or stays as unknown where the end of
  the process tree was not seen (`Unseen`). `SettledProducer` is
  `_observe_settled_producers`: an unknown entry whose report is there and whose
  task has moved on bars nothing. It is a test here and a mark in the code; the
  mark is never taken back while the test holds.
- `SubmitCompletion`: the callback with Guard A and the session test.
  `AgentReturns`: the end of the session with Guard B.
- `ConsumeDone` + `CompleteWrite` (test and write of `_complete` apart, because
  no lock spans them), `Fail` (test and write together, because one does),
  `ConsumeBlock` + `ResumeAfterPark`, `ConsumeEscalate`, `ConsumeFeedback`,
  `ConsumeDelegate`, `ConsumeFanout`.
- `WakeParent`, `AdvanceChain`, `WakeWhenSettled`: `_enqueue_parent_if_waiting`,
  read by read.
- `JobEnds`, `ResumeCheck`; `CancelCollect`, `CancelStamp`; `ResolveRead`,
  `ResolveContinue`.
- `Rediscover` is the task half of `discover_pause_work`, per task: it puts without
  looking whether the task is queued. `MaxItems` bounds how many items it adds to.
- `Crash` empties everything in memory, and chooses which agent processes
  survive and which jobs are left with unknown liveness; `Restored` is
  `restore_pause_preparations`, which the next boot runs before anything reads the
  journal. `Boot`, `SweepVisit`, `BootDone`, `Reap` are the recovery, `SweepVisit`
  and `Reap` behind `PauseDeferredOwner`. Two branches of the code are not
  there, because that test comes first: the sweep's failing and the reaper's
  cancelling of a dead session without a report. A session of `run_step` has an
  entry from before its launch until its close, so if it is dead and unreported the
  entry is unknown and defers it. (They remain for sessions older than the journal
  and for completion recovery.)

Abstractions. Sessions are named by the step count. A decision is one of nine
kinds; a validation failure of any decision is `feedback`. A chain is the number
of legs left, and a leg's verdict may end it at any point. Over-budget and
workflow checks, which turn a decision into feedback or failure, are covered by
those kinds. Left out: carriers (fan-out children with their own chain), retry
lineage (a failed sibling always clears the chain; the code excuses one whose
retry succeeded), completion recovery, the hold of a paused root (which withholds
launches and nothing else), the `retry_deferred` and `recovery_deferred` phases,
the three attempts a failing admission gets before its task fails (here a refused
launch always fails it), supersede and revisit, authority version 2.

### ReplyDelivery and WakeContract

Every method of the store is `_synchronized` and one transaction: one action, or
an operator on one pair's record where several methods share a transaction.
The definitions keep the methods' names.

- `record_conversational_arrival` is a post by the founder or an agent, with the
  exchange it opens, extends or closes and an arrival per recipient
  (`apply_arrival`). `reply_conversational` and `decline_thread` are the agent's
  two answers, which settle its own wake and arrive at the others in one step. They
  come from the process of the running wake, be it of this daemon or of the one
  before. `ReplyIsolated` is the answer of a bootstrap or task follow-up: it settles
  no reply and wakes every other participant, also those an exchange holds back.
- A worker peeks (`peek_conversational_reply`, or `RefuseLaunch` when the agent
  is missing or archived), prepares the workspace and reads the thread, claims
  (`claim_conversational_reply`: the range claimed must be the range read),
  launches, and settles (`InvocationFails`, `InvocationEnds`).
- `reaper_sweep_reply_exchanges` closes an exchange whose bound has passed or whose cohort
  has answered; `Release` leaves a wake, or a marker where a run is in the way.
- `DeferLaunch` puts a prepared worker back at any time: admission is refused for a
  changed range, but also by a team move or because an aborted predecessor is not
  known to have ended, neither of which is modelled.
- `recover_reply_delivery_state` is the end of a daemon, by a crash or an orderly
  shutdown, with the recovery before the next one serves. A pair with an invocation that
  is not known to have ended is preserved as it is (`preserve_pair_uncommitted`);
  which ones are known to have ended is a choice, except that a launched wake that
  was preserved once is preserved again. `lost` names the invocation whose owner is
  gone: `reserve` refuses to take it up again, while its process may still answer.
- `shown` and `owed` are history: what a launched prompt was built from, and the
  wake a release still owes.

Abstractions: an agent has one executor key; the release predicate admits every
pair; time is a nondeterministic choice; the in-memory queue of tokens is left
out, since the sweep publishes a missing token and a duplicate is dropped;
archiving acts as an abort. Left out: team moves, the life of bootstrap and
follow-up turns before they answer, and the sweep of corrupt rows.

`WakeContract` says what all this is for: per agent, an acknowledged and a due
message, one wake that is absent, queued or running, an answer that acknowledges
what its wake covered, a failure that acknowledges nothing, and only explicit
interventions that discard. `ImplementsContract` maps watermarks and slots to it.

### Schedules

`schedule_due_schedules` is the tick up to its reads; it redelivers rows that are
firing and unheard, then works through the rows it read with `MissedOccurrence`
or `claim_firing`. `Put` is the callback a claim scheduled on the loop.
`TakeFire`, `PreparationFails`, `LaunchRefused`, `RunRaises`, `Launch`,
`SessionEnds` are the runner. `SpawnInserts`, `SpawnRecords`, `SpawnFails` split
the callback where it may be cut. Requests read (`PauseReads`, `CancelReads`,
`EditReads`, `CreateCounts`) and later write (`RequestWrites`, `CreateInserts`).
`Restart` includes `recover_firing`. Abstractions: the expiry and the recurrence
rule are a choice of any later instant or an end; `renew` changes only the
expiry; the reservation and the read after it are one step, and so are the
runner's last read and its write. Deferral by a team move is left out, with
`reserve`'s refusal of an identity that is not available
(`producer_move.py:466-468`), which needs the agent to vanish between two reads.

### Jobs

`Submit` and `discover_pause_work` (its job half) ask for admission; `reserve` and one of
`Unpending`, `Deferred`, `PreflightFails`, `Admitted` are the admission, apart
because a crash may come between the evidence and the row. `Spawn` and `Capture`
are apart because the process exists before the runner knows it. `Exit` is the
process, `Reap` the loop learning of it. `SignalRegistered` is a signal with the
comparison of causes before it, `Persist` the verdict's compare-and-write.
`TaskEnds`, `terminate_jobs_for_task`, `backstop_terminated_task_jobs` are the
end of the task; `terminate_all_inflight` is shutdown. `OpenStream`, `Subscribe`,
`TakeEvent`, `Poll` are a client's stream. `first` and `launched` are history.
Abstractions: all jobs belong to one task; SIGTERM and SIGKILL are one signal;
`wait_job` is the same loop as a stream, with a deadline. Left out: deferral by
a team move, the founder trigger, output files and reads of them.

### RegistrationToken and DirectConnect

`RegistrationToken` is the table of runtime-wide tokens, one operator per method
(`mint_runtime`, `validate_runtime`, `reserve_runtime`, `commit_runtime`,
`release_runtime`).
`DirectConnect` extends it with the authority database and the three kinds of
thread. A connect checks its token, awaits its body, is admitted as a candidate,
reserves the token and is received; `SweepStarts` .. `SweepCommits` and `RouteStarts` ..
`RouteCommits` are the two projections, under the profile's lease (`Leased`);
`claim_retry_attempt` .. `RetrySucceeds` the validation of a failed candidate.
Abstractions: saving the adapter and binding it are one step; the reads with which
a projection is planned (`direct_connect_projection.py:117-150`) are one, which is
harmless because the in-process claim is taken before them (77-81); a failed
validation attempt counts as none. Left out: organisation-scoped tokens, check-in
of direct tokens, the backfill of version 0 rows, the status route.

## Runs

| run | instance | states | shows |
|---|---|---|---|
| `queue_publication` | 1 key, 2 producers, 1 worker, 3 deliveries | 2.6 M | `TypeOK`, `CountsExact`, `BoundedWake`, `OneHolder` |
| `queue_shutdown` | 2 workers, 3 deliveries, fairness | 0.2 M | `ThreadsHaveOpenOrg`, `CleanDrainIsQuiet`, `NoLaunchAfterStop`, `ItemsAreServed`, `DrainEnds` |
| `tasks_fanin` | 3 tasks, 2 workers, unseen process ends, fairness | 0.14 M | `OneSession`, `OnlyLiveInvocationsBar`, `NoLiveChildAtResume`, `AllSettle` |
| `tasks_crash` | 2 tasks, 1 worker, 1 job, 2 crashes, refused launch, cancelled child, fairness | 0.17 M | `OneSession`, `OnlyLiveInvocationsBar`, `AllSettle` |
| `tasks_cancel` | 3 tasks, 2 workers, cancel and resolve | 1.4 M | `TypeOK`, `CancelledStaysDown`, `EndedNeverRuns` |
| `reply_delivery` | 2 agents, 2 workers, 3 messages, threshold 1, 1 intervention | 1.6 M | `TypeOK`, `OneWake`, `NothingSwallowed`, `ReleaseKept`, `HeldUndisturbed`, `OpenLaunchesNothing`, `ImplementsContract` |
| `direct_connect` | 4 tokens, 2 identities, 2 pool threads, 2 mints, 1 restart | 1.8 M | `TypeOK`, `TokenSpentOnce`, `IdentitiesDistinct`, `OneProbePerToken`, `NeverStranded`, `CommittedAsBound`, `NewerStaysBound` |
| `schedules` | 1 schedule, 1 operator, 2 requests, 1 cut, 1 restart, fairness | 0.8 M | `TypeOK`, `SpawnedOnce`, `CancelledStaysIdle`, `ClaimIsHeard` |
| `jobs` | 1 job, 2 clients, 2 crashes, fairness | 0.7 M | `LaunchedOnce`, `VerdictKept`, `StreamEnds` |
| `cancel_overwritten` | 1 task | | violates `CancelIsHardStop` |
| `chain_leg` | 3 tasks, 2 workers | | violates `NextLegKeepsParentParked` |
| `manager_fanout` | 4 tasks | | violates `NoLiveChildAtResume` |

The three violation runs each state what a document or comment of the
repository says, and show what the code does instead; `findings` in
`PROJECT.json` quotes the lines.

1. A cancellation can be overwritten by the consumption of a report that was
   already read. The weaker `CancelledStaysDown` holds: `cancelled_at` survives,
   so the task gets no further session, and no child but one leg from each thread
   that was already advancing its chain when the stamp came. But a parent that
   waits for the overwritten task waits for a child that neither runs nor ends.
2. Between the end of one leg of a chain and the insertion of the next, all
   children of the chained parent are terminal. A tick that reads it then publishes
   it, and it runs beside its next leg.
3. A fan-out child that leads a team and reports a delegation counts as
   finished, and its parent may be resumed over it. Among subtasks, whose
   reports do end them, `NoLiveChildAtResume` holds.

### What the properties had to except

Some statements one would like do not hold. The properties of the runs state what
does, and their exceptions name these behaviours:

- *Tasks.* Two resolve-escalation requests that both validated one escalation
  both write `pending`, the second without comparing (`routes/tasks.py:1757`),
  possibly over a task that was claimed in between. The journal entry keeps a second
  session out, but only in the life of the daemon: after a crash the session's
  landed report takes its entry for settled while its process may still run.
  `TaskCrash.cfg` with a second resolver violates `OneSession` and
  `OnlyLiveInvocationsBar`; the run has one, and the theorems say so as a hypothesis.
  (The model lets other steps come between any two waits for `db_lock`; in the code
  the claim fits in only if a third coroutine has the lock in between and awaits
  while it holds it, as `routes/threads.py:2904` does.) `AllSettle` excepts what a
  crash left unknown: a session without a report, whose entry is retained for the
  founder (`Retained`; `runtime-lifecycle.md` says so), an invocation found prepared
  and not launched, and a job whose liveness nobody can tell. It also excepts a
  cancellation that a decision overwrote (`Overwritten`), the first finding. A chain
  may survive a crash: a leg
  fails, the daemon dies before the chain is cleared, and the parent is resumed
  with legs left. If it then fans out, its newest child advances the old chain
  beside a running sibling, also under a parent cancelled meanwhile. So
  `CancelledStaysDown` does not say that a late leg is alone, only that it uses
  up a thread that was advancing when the stamp came.
- *Schedules.* A cancelled or paused schedule can be overwritten, and armed again,
  by a session, tick or request that was already under way: none compares the row
  it read. (`schedule_service.py:268` says "Terminate a schedule permanently".)
  `CancelledStaysIdle` starts from a schedule with nothing in flight. A callback
  cut after its task leaves the row firing, and its repetition creates a second
  task: the `cut` term of `SpawnedOnce`. A crash during a fire leaves the row
  firing for good, because recovery preserves a row whose producer never settled.
  Concurrent creations may exceed the cap. A claim compares the status only, so an
  edit between the tick's read and the claim is fired at the old instant.
- *Jobs.* A job committed running and not yet captured is not signalled when its
  task ends; the backstop fails its row and the script runs on, unattended. A
  client of such a job does not poll while the script prints, hence `Quiet` in
  `StreamEnds`. A crash between the evidence and the row leaves a pending job that
  cannot be admitted again, only rejected. The deadline may overtake a cap whose
  watcher has not run (an explicit disjunct of `VerdictKept`).
  `recover_orphaned_running_jobs` writes nothing; a docstring in `db/tasks.py:3201`
  says it "force-fails any leftovers".
- *ReplyDelivery.* Recovery mints a wake from a leftover marker for a member that
  a newer open exchange holds, and the answer of a bootstrap or follow-up wakes
  whoever is held, by design: the exceptions of `HeldUndisturbed`, beside mentions.
  A wake that was launched when the daemon died keeps its slot until its process
  answers or somebody intervenes, and one that was prepared is not taken up again:
  both are safe and neither is live. A discard
  leaves a stale marker, so a later failed settlement retries at once. A probe
  that ends by a failure that does not qualify leaves the breaker in `probe` with
  no slot, and the timer does not probe again; therefore no liveness is claimed.
- *DirectConnect.* A corrected candidate whose probe fails leaves its parent open.
  A retry attempt left running by a crash is never finished and blocks
  validation, forgetting and admission. An invalid body, sent while the first
  candidate is in progress, closes the parent though the candidate may then be
  committed. A candidate admitted and never received stays listed by the sweep.

### Bounds

Two producers and one key are the least at which reservations collide, three
deliveries the least with one queued, one outstanding callback and one running.
One key and one organisation suffice because nothing relates two keys or two
organisations but the workers they share; the proofs are for any number. Three
tasks hold a parent with two children (the fan-in race) or a chain of two legs,
and a child that delegates. `MaxSteps = 1` lets a task be resumed once after
each kind of wait before it has to end. `MaxItems = 1` lets the tick publish a task
whose item was dropped or is in a worker's hands, and the other publishers add to
that; more ticks only repeat what one adds. `Unseen` and `Refusable` are one task
each, the parent whose next step an unsettled entry would bar and the child whose
failure its parent must hear of. Two crashes include a crash during the
recovery from the first; that run has two tasks and one worker, since what a crash
loses is between a parent and one child. Symmetry (workers, producers, deliveries) is used only
in runs without liveness. Deadlock is not checked in those runs: all tasks being
over, or a drained queue, is a proper end.

`reply_delivery`: three messages are the least with one answered, one claimed and
one arriving meanwhile, and with an exchange opened, closed and opened again; two
agents are a cohort and a member held back; two workers can hold one agent's wake
in turn. `Threshold = 1` opens the breaker at the first failure; a failure that is only
counted changes nothing any property looks at.
`MaxEvents = 1` lets one abort, removal or restart hit any state, and a removed agent be invited again.
`direct_connect`: two direct tokens and one of each pool purpose, of which
`MaxMints = 2` are minted in a behaviour, so that each pair of kinds meets; two identities are a
candidate and its correction, or a repetition. `schedules`: an instant now, one
later and one that never comes; a second claim of a repeating schedule while its
first fire runs. One schedule suffices, as schedules meet only in the worker's
turn and in the cap. `jobs`: jobs meet only in the end of their task, which treats
each alike; two clients subscribe at different moments; two crashes let a job be
reserved, admitted and rediscovered in different lives of the daemon. Its
deadlock check is on: a client or the task always has something left to do, or
the root is held and released.

### Fairness

The event loop runs every ready callback, and threads are scheduled: weak
fairness of every continuation. Native calls, sessions and jobs end because the
executor kills them at their time limits. The process supervisor restarts the
daemon, and the reaper and the rediscovery beside it are a periodic task. `Enter` is
strongly fair per task: the queue is first in, first out, so an item is served
however often other tasks come back before it. Producers, agents' decisions, the founder,
crashes and the start of a shutdown are never assumed. An orphaned agent
process is assumed to end by itself. In `Schedules`: the scheduler loops for ever,
a scheduled put runs, the worker goes on and its session has a timeout, a callback
that began returns. The operator, the agent's call, time and restarts are not assumed. In
`Jobs` only the clients are fair, the loop resuming whoever has an event or a
timer due; neither the runner nor the process need ever move.

## Proofs

The proofs about the queue use no assumption on the constants: they hold for any sets of keys,
organisations, producers, consumers and deliveries. (`SlugAssumption` and
`NullAssumption` only make the constants meaningful.) `TaskQueueProofs` proves:

- `TypeCorrect`: `Spec => []TypeOK`;
- `OrgOutlivesThreads`: `Spec => []ThreadsHaveOpenOrg`;
- `CleanDrainCorrect`: `Spec => []CleanDrainIsQuiet`;
- `FenceHolds`: `Spec => NoLaunchAfterStop`.

`ThreadsHaveOpenOrg` is not inductive: that an organisation about to close has
no thread follows only if every executing work is registered as its user. The
invariant is `BarrierInv`:

- `Barrier`: `users` and `_native_work` agree; whatever executes, has failed or
  has an owner is registered; whatever is registered has an open organisation;
- `QueueSound`: a queued delivery is in the queue once, and nothing runs for it
  (else `Take` could register a work that already runs or is finished);
- `PublishSound`: a publication in progress has a key, and a posted put belongs
  to a pending Future (so a late callback puts an item of a real key);
- `DrainSound`: the drain is past the joins it claims, and a clean verdict
  leaves nothing registered, which the fence keeps true.

`StepKinds` sorts every step into an enqueue, a dequeue, or one that leaves the
deliveries' places alone, so that the queue part has three cases.

`PublicationProofs` adds:

- `CountsCorrect`: `Spec => []CountsExact`;
- `ReservationsCorrect`: `Spec => []OneHolder`;
- `WakesBounded`: `Spec => []BoundedWake`.

`BoundedWake` is not inductive either. The invariant is `PublicationInv`:
`QueueSound` and `PublishSound` as above, `CountsExact`, `OneHolder` and
`Unplaced`: a bounded producer that may still put, be it about to publish or
represented by a callback the loop has not run, finds no bounded item of its key.
A reservation establishes it because a count of zero means an empty queue for
the key (`CountsExact`); another producer's put keeps it because that producer
would hold the same reservation (`OneHolder`); and a put ends the producer's own
right to put (`PutOnce`). The count across a dequeue rests on `ShiftedSize`, a
bijection between the indices before and after.

`JobsProofs` proves, for any sets of jobs and clients and any number of crashes:

- `LaunchedOnceHolds`: `Spec => []LaunchedOnce`;
- `VerdictKeptHolds`: `Spec => VerdictKept`.

Neither follows from itself: that a verdict names what came first is a fact about
the runner's registers, not about the row. The invariant `Inv` is, beside types:

- `Unlaunched`: a row that is absent, pending or rejected has no runner and had no
  process (so admission from `pending` starts the first one);
- `Fresh`: before the spawn nothing was started, before the capture no cause or
  cap can have been recorded;
- `CauseKnown`: while the pumps run, the recorded cause, the cap flag and the
  first event agree, up to the deadline that overtakes a cap;
- `Awaited`: the runner gives up only with a cause and drains only a reaped
  process (so a verdict without a cause is an exit);
- `CleanupLate`: a cleanup in progress belongs to a task that has ended (so the
  backstop's verdict is justified).

`SignalRegistered` is treated once, in a lemma for any set of jobs and any cause,
and used for stop, the end of the task and shutdown.

`SchedulesProofs` proves, for any schedules, operators and bounds (assuming only
that the bounds are natural numbers and that no schedule is named like the
placeholder for none):

- `TypeCorrect`: `Spec => []TypeOK`;
- `SpawnedOnceHolds`: `Spec => []SpawnedOnce`;
- `CancelledStaysIdleHolds`: `Spec => CancelledStaysIdle`.

A count of tasks says nothing about whether the next one is paid for. The
invariant `Inv` adds to the types:

- `Credit`: a firing row has a claim that has paid for no task yet, unless the
  callback that holds the loop is recording the task it paid for (so a repeated
  callback finds a row that is not firing, or a cut that gives the claim back);
- `Claimed`: a one-shot that can still be claimed has not been;
- `KindsKnown`: the kind that a tick, the worker or a callback has read is still
  the kind of the row (so no step under way re-arms a one-shot as if it repeated).

`RowStepsHold` sorts every step's effect on a row into unchanged, created, claimed
or moved on; `Claimed` and `KindsKnown` follow from that alone.

`DirectConnectProofs` proves, for any tokens, identities, requests, threads,
mints and restarts (assuming that the two bounds are natural numbers and that the
kinds of token are disjoint):

- `TypeCorrect`, `SpentOnce`, `Distinct`, `OneProbe`, `NoneStranded`: `Spec => []`
  of `TypeOK`, `TokenSpentOnce`, `IdentitiesDistinct`, `OneProbePerToken` and
  `NeverStranded`;
- `BoundWhenCommitted`: `Spec => CommittedAsBound`;
- `NewerStays`: `Spec => NewerStaysBound`.

Of these only the type is near to inductive. The invariant `Inv` adds:

- `Candidates`: what the columns of a candidate say of each other (one that is
  received and accepted has its artifacts, so the sweep lists it, which is what
  `NeverStranded` rests on);
- `Superseded`: a candidate that was corrected is accepted, settled and has another
  identity (so nobody binds it again, and the third acceptance never comes);
- `Working` and `OneProbePerToken`: what a worker works on is recorded as such, and
  no second worker has the token (so each finds its own record when it is done);
- `Lease`: whoever has bound holds the profile's lease, and the profile is its own;
- `Holders`: a thread in the middle of a registration holds its token alone, and a
  reserved token is minted;
- `Paid`: a token that has paid is gone, consumed or reserved (so no second
  reservation of it succeeds).

`CandidateSteps` sorts every step into: candidates unchanged, one added, or one
moved under `Moves`, which says who may change what. Each conjunct follows from
that rather than from the twenty-odd actions.

`ReplyDeliveryProofs` proves, for any finite sets of agents and workers and any
number of messages, interventions and threshold:

- `TypeCorrect`, `OneWakeEach`, `NoneSwallowed`, `DebtKept`: `Spec => []` of
  `TypeOK`, `OneWake`, `NothingSwallowed` and `ReleaseKept`;
- `OpenNeverLaunches`: `Spec => OpenLaunchesNothing`;
- `HeldStaysUndisturbed`: `Spec => HeldUndisturbed`;
- `Refinement`: `Spec => ImplementsContract`.

The invariant `Inv` is the types and:

- `Rows`: the columns of one agent's row agree: one wake, which is the one pending
  receipt; watermarks in order; a queued wake has something to deliver; a running
  one claims a range that its prompt showed (without it an answer could acknowledge
  what nobody was shown); a debt is for what no wake covers;
- `Debts`: only a run, or an exchange that holds the agent back, delays a debt;
- `WorkerState`: a launched worker's token is no longer the queued one, and a
  prepared worker whose token is still queued read a breaker that has not opened
  since (so the late claim can rely on the early read);
- `ExchangeState`: who is held is held by an open exchange and is not in its cohort.

A fresh token exists because there are two more tokens than workers
(`FreshFacts`, by the pigeonhole principle). The refinement maps each step to a
step of `WakeContract` for the agents it concerns and needs `Rows` throughout.

`TaskLifecycleProofs` and `TaskJournalProofs` are about every number of tasks,
steps, workers, jobs, legs and crashes (positive or natural bounds, decisions of
the known kinds, the sweep and the reaper not among the workers):

- `TypeCorrect`: `Spec => []TypeOK`;
- `StaysDown`: `Spec => CancelledStaysDown`;
- `EndedStaysEnded`: `Spec => EndedNeverRuns`;
- `ResumedWhenSettled`: `OnlyLeaves => (Spec => NoLiveChildAtResume)`;
- `OneSessionEach`: `OneResolver => (Spec => []OneSession)`;
- `NothingElseBars`: `OneResolver => (Spec => []OnlyLiveInvocationsBar)`.

The hypotheses are about the constants, and each is there because the property
fails without it: `OneResolver` (at most one resolve request) for the double
write above; `OnlyLeaves` (nobody fans out to managers) is the finding of
`manager_fanout`. The runs that check these properties satisfy them.

`Base` says that rows are allocated in order, that parents exist, and that
whatever a thread or a request has in hand exists. `Inv` adds what a session and
its row have to do with each other:

- `Owned`: a session, driven or left behind by a crash, has its task in progress
  unless the task was cancelled (so the claim, the sweep and the reaper, which ask
  for a row in another state or a dead process, do not take it for theirs);
- `OneDriver`: a task is driven by one thread, and not while an orphan has it;
- `QuietBoot`: until the startup sweep is done only the sweep has anything in hand;
- `Validated`: what a resolve request has validated is still escalated, or
  cancelled (so its unconditional write hits no session).

`StaysDown` needs only `Base` and `Down`, that a stamped row is not parked on
children, so nobody sets out to advance its chain. `EndedStaysEnded` needs that the
claim compares what it read with what is there. `ResumedWhenSettled` needs that
a child is a subtask and reports no decision of a manager (`Reports`).

About the journal `Inv` says nothing, and neither `OneSession` nor
`OnlyLiveInvocationsBar` speaks of what a worker that has merely read a row will
do. `JournalInv` is `Inv` and:

- `Hands`: the open entries are those of the workers that hold an invocation, one
  each; a driven session has been launched; the process of an earlier daemon has an
  unknown entry, and a worker about to prepare its task read it in progress, which
  is not eligible;
- `EntryExists`: an entry belongs to a row;
- `Unreported`: a launched or unknown entry without a report belongs to a task
  that is in progress or has ended (so, the task being eligible, its report has
  landed and its entry is settled).

`JournalInv` was checked by TLC before it was proved.

Only model-checked, because liveness under fairness is beyond TLAPS here:
`ItemsAreServed` and `DrainEnds` of the queue, `AllSettle` of the tasks,
`ClaimIsHeard` of the schedules and `StreamEnds` of the jobs. The three violations
are counterexamples of TLC.

## Not modelled

The runtime is 413 files of about 237 000 lines with the clients; the modules
stand for the protocols between concurrent actors that carry its correctness.
What is left out, and why:

- *Protocols of the same kind, not reached*: completion recovery
  (`db/task_reconciliation.py`), the hold of a paused root and the deferred retries
  it gives rise to (`task_pause.py`; the journal itself is in `TaskLifecycle`), team
  moves (a fence over every producer, with
  recovery), the authority attempts of version 2
  (`db/authority_v2_attempts.py`, `authority_v2_continuation.py`), activation of
  workflows. Each is a module of its own. Where one of them reaches into a modelled
  part without being asked for (the journal, the preserved pairs of a restart, the
  rediscovery on every tick), that part has it; otherwise the modules
  have the actions taken when no move, pause, recovery or attempt is in progress,
  and say nothing about behaviours in which one is.
- *Dreams, wakes and work hours* repeat the claim-then-run protocol of schedules
  over other tables.
- *Validation, projection and rendering*: most of `models.py`,
  `orchestrator/authority.py`, `workspace_adapters.py`, `routes/agents.py`, read models,
  dashboards, usage, metrics. Functions of their input with no state between
  actors; a model would restate them.
- *Input and output*: executors, host supervision, workspaces, adapters,
  document stores, disk sweeping, remote access and remote jobs, portability.
- *Clients*: the desktop app, the web UI, the CLI.

## Plan

1. Theorems: every safety property of the runs is proved. Worth adding: what
   `WakeContract` promises by itself, proved of the abstract specification and
   so inherited by `ReplyDelivery`; `OneSession` under several resolvers once the
   write compares.
2. In `TaskLifecycle`: completion recovery, and the hold of a paused root with the
   phases it defers entries to.
3. An abstract queue (a set of wanted wakes) refined by `TaskQueue`.
4. Team moves as a fence over the producers of `Jobs`, `Schedules` and
   `ReplyDelivery`.
