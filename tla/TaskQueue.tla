------------------------------ MODULE TaskQueue ------------------------------
(***************************************************************************)
(* The daemon's in-memory task queue (runtime/daemon/queue.py): bounded    *)
(* and ordinary publication, the worker pool, the native works that a      *)
(* delivery starts on executor threads, shutdown (stop/_drain) and the     *)
(* removal of an organisation whose database native threads still use.     *)
(*                                                                         *)
(* Three kinds of actor interleave: producer threads, coroutines of the    *)
(* event loop (consumers, native-work owners, the drain, loop callbacks)   *)
(* and executor threads.  One action is what one of them does between two  *)
(* points at which another may run: a critical section of the admission    *)
(* lock, or the code between two awaits.                                   *)
(***************************************************************************)
EXTENDS Integers, Sequences, FiniteSets

CONSTANTS
    Keys,       \* (slug, task_id) pairs
    Orgs,       \* organisations
    SlugOf,     \* the organisation of a key
    Producers,  \* threads that publish wake-ups
    Consumers,  \* the worker pool started by start_workers
    Works       \* deliveries: bounds how many items are ever put

ASSUME SlugAssumption == SlugOf \in [Keys -> Orgs]

NoKey == "no key"
NoWork == "no work"

ASSUME NullAssumption == NoKey \notin Keys /\ NoWork \notin Works

VARIABLES
    stopping,   \* TaskQueue._stopping
    queue,      \* the items of the asyncio.Queue, each one delivery
    pending,    \* _pending_counts
    reserved,   \* _admission_reservations
    producer,   \* what each producer thread is doing
    work,       \* the delivery, and its _NativeWork once submitted
    nativeWork, \* _native_work
    users,      \* the OrgStates' _native_task_users, together
    consumer,   \* the worker-pool coroutines
    cancelled,  \* consumers with a cancellation not yet delivered
    drain,      \* progress of the one _drain task
    org         \* whether an organisation is attached and admits runners

vars == <<stopping, queue, pending, reserved, producer, work, nativeWork,
          users, consumer, cancelled, drain, org>>

producerVars == <<reserved, producer>>
nativeVars == <<nativeWork, users>>
stopVars == <<stopping, cancelled, drain, org>>

-----------------------------------------------------------------------------
(* Shapes of the state                                                     *)

Phases == {"free", "queued", "dropped", "submitted", "preparing", "running",
           "retiring", "finished"}

\* What the executor thread of a work is doing, or what it returned with.
Executing == {"prep", "run", "retire"}
Threads == Executing \cup {"idle", "ok", "error"}

WorkRecord == [phase : Phases, key : Keys \cup {NoKey}, bounded : BOOLEAN,
               thread : Threads, owner : BOOLEAN, failed : BOOLEAN,
               abandoned : BOOLEAN]

\* put: the Future of the loop put ("none", "pending" or "done");
\* posted: whether the callback really is scheduled on the loop.
ProducerRecord == [pc : {"idle", "publish", "wait", "return", "uncertain"},
                   key : Keys \cup {NoKey}, bounded : BOOLEAN,
                   put : {"none", "pending", "done"}, posted : BOOLEAN]

ConsumerRecord == [pc : {"get", "consume", "done"}, work : Works \cup {NoWork}]

FreeWork == [phase |-> "free", key |-> NoKey, bounded |-> FALSE,
             thread |-> "idle", owner |-> FALSE, failed |-> FALSE,
             abandoned |-> FALSE]

IdleProducer == [pc |-> "idle", key |-> NoKey, bounded |-> FALSE,
                 put |-> "none", posted |-> FALSE]

TypeOK ==
    /\ stopping \in BOOLEAN
    /\ queue \in Seq(Works)
    /\ pending \in [Keys -> Nat]
    /\ reserved \in SUBSET Keys
    /\ producer \in [Producers -> ProducerRecord]
    /\ work \in [Works -> WorkRecord]
    /\ nativeWork \in SUBSET Works
    /\ users \in SUBSET Works
    /\ consumer \in [Consumers -> ConsumerRecord]
    /\ cancelled \in SUBSET Consumers
    /\ drain \in {"none", "cancel", "workers", "native", "clean", "incomplete"}
    /\ org \in [Orgs -> {"open", "closed"}]

Init ==
    /\ stopping = FALSE
    /\ queue = <<>>
    /\ pending = [k \in Keys |-> 0]
    /\ reserved = {}
    /\ producer = [p \in Producers |-> IdleProducer]
    /\ work = [w \in Works |-> FreeWork]
    /\ nativeWork = {}
    /\ users = {}
    /\ consumer = [c \in Consumers |-> [pc |-> "get", work |-> NoWork]]
    /\ cancelled = {}
    /\ drain = "none"
    /\ org = [o \in Orgs |-> "open"]

-----------------------------------------------------------------------------
(* Publication                                                             *)

\* enqueue: one critical section; refused with a log line when stopping.
Enqueue(k, bounded) ==
    \/ /\ stopping
       /\ UNCHANGED <<queue, pending, work>>
    \/ /\ ~stopping
       /\ \E w \in Works :
            /\ work[w].phase = "free"
            /\ queue' = Append(queue, w)
            /\ work' = [work EXCEPT ![w] = [FreeWork EXCEPT
                            !.phase = "queued", !.key = k, !.bounded = bounded]]
       /\ pending' = [pending EXCEPT ![k] = @ + 1]

\* An ordinary enqueue / put_nowait: never deduplicated.
PlainEnqueue(k) ==
    /\ ~stopping
    /\ Enqueue(k, FALSE)
    /\ UNCHANGED <<producerVars, nativeVars, consumer, stopVars>>

MayReserve(k) == ~stopping /\ pending[k] = 0 /\ k \notin reserved

\* enqueue_if_absent, first critical section. A refusal changes nothing.
ReserveBoundedEnqueue(p, k) ==
    /\ producer[p].pc = "idle"
    /\ MayReserve(k)
    /\ reserved' = reserved \cup {k}
    /\ producer' = [producer EXCEPT ![p] = [IdleProducer EXCEPT
                        !.pc = "publish", !.key = k, !.bounded = TRUE]]
    /\ UNCHANGED <<queue, pending, work, nativeVars, consumer, stopVars>>

\* The attachment adapter's ordinary enqueue, from a native thread.
AdapterEnqueue(p, k) ==
    /\ producer[p].pc = "idle"
    /\ producer' = [producer EXCEPT ![p] = [IdleProducer EXCEPT
                        !.pc = "publish", !.key = k]]
    /\ UNCHANGED <<queue, pending, reserved, work, nativeVars, consumer, stopVars>>

\* No publisher was given: the queue's own enqueue, on the calling thread.
PublishDirect(p) ==
    /\ producer[p].pc = "publish"
    /\ producer[p].bounded
    /\ Enqueue(producer[p].key, TRUE)
    /\ producer' = [producer EXCEPT ![p].pc = "return"]
    /\ UNCHANGED <<reserved, nativeVars, consumer, stopVars>>

\* The publisher refuses (generation check) or raises before any put.
PublisherDeclines(p) ==
    /\ producer[p].pc = "publish"
    /\ producer[p].bounded
    /\ producer' = [producer EXCEPT ![p].pc = "return"]
    /\ UNCHANGED <<queue, pending, reserved, work, nativeVars, consumer, stopVars>>

\* Adapter: the Future is retained, then the put is posted to the loop.
SubmitPut(p) ==
    /\ producer[p].pc = "publish"
    /\ producer' = [producer EXCEPT ![p].pc = "wait", ![p].put = "pending",
                                    ![p].posted = TRUE]
    /\ UNCHANGED <<queue, pending, reserved, work, nativeVars, consumer, stopVars>>

\* call_soon_threadsafe raises; the callback may or may not be scheduled.
SubmitPutRaises(p) ==
    /\ producer[p].pc = "publish"
    /\ \E posted \in BOOLEAN :
         producer' = [producer EXCEPT ![p].pc = "return", ![p].put = "pending",
                                      ![p].posted = posted]
    /\ UNCHANGED <<queue, pending, reserved, work, nativeVars, consumer, stopVars>>

\* The loop runs the posted callback, and completes the Future.
RunPut(p) ==
    /\ producer[p].posted
    /\ Enqueue(producer[p].key, producer[p].bounded)
    /\ producer' = [producer EXCEPT ![p].posted = FALSE, ![p].put = "done",
                        ![p].pc = IF @ = "wait" THEN "return" ELSE @]
    /\ UNCHANGED <<reserved, nativeVars, consumer, stopVars>>

\* Mutant: the reservation is dropped whatever became of the put.
AlwaysReleases(p) == producer[p].bounded

\* The finally clause: an uncertain put keeps the reservation.
Releases(p) == producer[p].bounded /\ producer[p].put # "pending"

\* The publisher returned. A caller whose put is uncertain is never used
\* again, so that its outstanding callback keeps its identity.
PublishReturns(p) ==
    /\ producer[p].pc = "return"
    /\ reserved' = IF Releases(p) THEN reserved \ {producer[p].key} ELSE reserved
    /\ producer' = [producer EXCEPT ![p] =
                        IF @.put = "pending" THEN [@ EXCEPT !.pc = "uncertain"]
                                             ELSE IdleProducer]
    /\ UNCHANGED <<queue, pending, work, nativeVars, consumer, stopVars>>

-----------------------------------------------------------------------------
(* The worker pool                                                         *)

\* Mutant: a key's count is never allowed to fall to nothing.
StickyDequeue(k) == [pending EXCEPT ![k] = IF @ <= 1 THEN 1 ELSE @ - 1]

\* Mutant: the dequeue is recorded by the getter and by _consume.
DequeuesTwice(k) == [pending EXCEPT ![k] = @ - 2]

RecordDequeue(k) == [pending EXCEPT ![k] = IF @ <= 1 THEN 0 ELSE @ - 1]

MaySubmit(w) == ~stopping /\ org[SlugOf[work[w].key]] = "open"

\* queue.get, then _consume as far as its first await: the item leaves the
\* queue and its count, and _submit registers the work before any thread.
Take(c) ==
    LET w == Head(queue) IN
    /\ consumer[c].pc = "get"
    /\ c \notin cancelled
    /\ queue # <<>>
    /\ queue' = Tail(queue)
    /\ pending' = RecordDequeue(work[w].key)
    /\ \/ /\ MaySubmit(w)
          /\ work' = [work EXCEPT ![w].phase = "submitted"]
          /\ nativeWork' = nativeWork \cup {w}
          /\ users' = users \cup {w}
          /\ consumer' = [consumer EXCEPT ![c] = [pc |-> "consume", work |-> w]]
       \/ /\ ~MaySubmit(w)
          /\ work' = [work EXCEPT ![w].phase = "dropped"]
          /\ consumer' = [consumer EXCEPT ![c].pc = IF stopping THEN "done" ELSE "get"]
          /\ UNCHANGED nativeVars
    /\ UNCHANGED <<producerVars, stopVars>>

\* Mutant: a failed work takes its worker down with it.
FailureEndsWorker(c) ==
    /\ consumer[c].pc = "consume"
    /\ c \notin cancelled
    /\ work[consumer[c].work].phase = "finished"
    /\ consumer' = [consumer EXCEPT ![c] =
                        [pc |-> IF stopping \/ work[consumer[c].work].failed
                                  THEN "done" ELSE "get",
                         work |-> NoWork]]
    /\ UNCHANGED <<queue, pending, producerVars, work, nativeVars, stopVars>>

\* The shielded work finished; the worker loop tests the flag again.
ConsumeReturns(c) ==
    /\ consumer[c].pc = "consume"
    /\ c \notin cancelled
    /\ work[consumer[c].work].phase = "finished"
    /\ consumer' = [consumer EXCEPT ![c] =
                        [pc |-> IF stopping THEN "done" ELSE "get", work |-> NoWork]]
    /\ UNCHANGED <<queue, pending, producerVars, work, nativeVars, stopVars>>

\* CancelledError in the consumer: its work is abandoned, not stopped.
ConsumerCancelled(c) ==
    /\ c \in cancelled
    /\ cancelled' = cancelled \ {c}
    /\ consumer' = [consumer EXCEPT ![c] = [pc |-> "done", work |-> NoWork]]
    /\ work' = IF consumer[c].pc = "consume"
                 THEN [work EXCEPT ![consumer[c].work].abandoned = TRUE]
                 ELSE work
    /\ UNCHANGED <<stopping, queue, pending, producerVars, nativeVars, drain, org>>

-----------------------------------------------------------------------------
(* A native work: its owning coroutine and its executor thread             *)

\* Mutant: a failed work leaves the close barrier as well.
AlwaysSettles(w, failed) ==
    /\ work' = [work EXCEPT ![w].phase = "finished", ![w].failed = failed,
                            ![w].thread = IF @ \in Executing THEN @ ELSE "idle"]
    /\ nativeWork' = nativeWork \ {w}
    /\ users' = users \ {w}

\* End of _run_owned: only a work without failures leaves the close barrier.
Settle(w, failed) ==
    /\ work' = [work EXCEPT ![w].phase = "finished", ![w].failed = failed,
                            ![w].thread = IF @ \in Executing THEN @ ELSE "idle"]
    /\ nativeWork' = IF failed THEN nativeWork ELSE nativeWork \ {w}
    /\ users' = IF failed THEN users ELSE users \ {w}

\* The next executor call of the work.
Launch(w, phase, thread, failed) ==
    /\ work' = [work EXCEPT ![w].phase = phase, ![w].thread = thread,
                            ![w].failed = failed]
    /\ UNCHANGED nativeVars

NativeUnchanged == UNCHANGED <<queue, pending, producerVars, consumer, stopVars>>

Withdrawn(w) == stopping \/ work[w].abandoned

\* Start of _run_owned: withdrawn, refused by the dispatcher, or prepared.
RunOwnedStarts(w) ==
    /\ work[w].phase = "submitted"
    /\ \/ Withdrawn(w) /\ Settle(w, FALSE)
       \/ ~Withdrawn(w) /\ \E failed \in BOOLEAN : Settle(w, failed)
       \/ ~Withdrawn(w) /\ Launch(w, "preparing", "prep", FALSE)
    /\ NativeUnchanged

\* The executor thread returns or raises.
ThreadReturns(w) ==
    /\ work[w].thread \in Executing
    /\ \E result \in {"ok", "error"} :
         work' = [work EXCEPT ![w].thread =
                    IF work[w].phase = "finished" THEN "idle" ELSE result]
    /\ UNCHANGED nativeVars
    /\ NativeUnchanged

\* Mutant: the run is launched without looking at the flags again.
LaunchesAnyway(w) == TRUE

StillWanted(w) == ~Withdrawn(w)

\* worker_started came back: with an owner, or with an exception.
Prepared(w) ==
    /\ work[w].phase = "preparing"
    /\ \/ work[w].thread = "error" /\ Settle(w, TRUE)
       \/ /\ work[w].thread = "ok"
          /\ \E owner \in BOOLEAN :
               \/ /\ StillWanted(w)
                  /\ work' = [work EXCEPT ![w].phase = "running", ![w].thread = "run",
                                          ![w].owner = owner]
                  /\ UNCHANGED nativeVars
               \/ /\ ~StillWanted(w) /\ owner
                  /\ work' = [work EXCEPT ![w].phase = "retiring", ![w].thread = "retire",
                                          ![w].owner = TRUE]
                  /\ UNCHANGED nativeVars
               \/ ~StillWanted(w) /\ ~owner /\ Settle(w, FALSE)
    /\ NativeUnchanged

\* run_step came back; an owner is retired even after an exception.
RunReturned(w) ==
    /\ work[w].phase = "running"
    /\ work[w].thread \in {"ok", "error"}
    /\ LET failed == work[w].thread = "error" IN
         \/ work[w].owner /\ Launch(w, "retiring", "retire", failed)
         \/ ~work[w].owner /\ Settle(w, failed)
    /\ NativeUnchanged

\* worker_finished came back.
Retired(w) ==
    /\ work[w].phase = "retiring"
    /\ work[w].thread \in {"ok", "error"}
    /\ Settle(w, work[w].failed \/ work[w].thread = "error")
    /\ NativeUnchanged

\* Shutdown of the event loop cancels the Future the owner awaits, while
\* the thread behind it runs on: not a return, so nothing is retired.
FutureCancelled(w) ==
    /\ stopping
    /\ work[w].phase \in {"preparing", "running", "retiring"}
    /\ work[w].thread \in Executing
    /\ Settle(w, TRUE)
    /\ NativeUnchanged

-----------------------------------------------------------------------------
(* Shutdown and removal of an organisation                                 *)

\* stop, and the daemon's earlier close_admission: fence, then one _drain.
Stop ==
    /\ ~stopping
    /\ stopping' = TRUE
    /\ drain' = "cancel"
    /\ UNCHANGED <<queue, pending, producerVars, work, nativeVars, consumer,
                   cancelled, org>>

\* Mutant: workers idle in queue.get are thought to need no cancellation.
BusyWorkers == {c \in Consumers : consumer[c].pc = "consume"}

UnfinishedWorkers == {c \in Consumers : consumer[c].pc # "done"}

DrainCancelsWorkers ==
    /\ drain = "cancel"
    /\ drain' = "workers"
    /\ cancelled' = UnfinishedWorkers
    /\ UNCHANGED <<stopping, queue, pending, producerVars, work, nativeVars,
                   consumer, org>>

WorkersJoined == \A c \in Consumers : consumer[c].pc = "done"

DrainJoinsWorkers ==
    /\ drain = "workers"
    /\ WorkersJoined
    /\ drain' = "native"
    /\ UNCHANGED <<stopping, queue, pending, producerVars, work, nativeVars,
                   consumer, cancelled, org>>

\* Mutant: the drain believes its joins and does not look at _native_work.
BelievesJoins == "clean"

DrainVerdict == IF nativeWork = {} THEN "clean" ELSE "incomplete"

\* Every owning task has ended; assert_native_idle decides.
DrainJoinsNative ==
    /\ drain = "native"
    /\ \A w \in nativeWork : work[w].phase = "finished"
    /\ drain' = DrainVerdict
    /\ UNCHANGED <<stopping, queue, pending, producerVars, work, nativeVars,
                   consumer, cancelled, org>>

\* OrgState._assert_runners_idle, as far as native tasks go.
RunnersIdle(o) == \A w \in users : SlugOf[work[w].key] # o

\* remove_org while the daemon runs, close_all after a clean drain. The
\* check and the close of the database are one stretch of the event loop.
CloseOrg(o) ==
    /\ org[o] = "open"
    /\ stopping => drain = "clean"
    /\ RunnersIdle(o)
    /\ org' = [org EXCEPT ![o] = "closed"]
    /\ UNCHANGED <<stopping, queue, pending, producerVars, work, nativeVars,
                   consumer, cancelled, drain>>

-----------------------------------------------------------------------------

ProducerStep(p) ==
    \/ \E k \in Keys : ReserveBoundedEnqueue(p, k) \/ AdapterEnqueue(p, k)
    \/ PublishDirect(p) \/ PublisherDeclines(p)
    \/ SubmitPut(p) \/ SubmitPutRaises(p) \/ PublishReturns(p)

ConsumerStep(c) == Take(c) \/ ConsumeReturns(c) \/ ConsumerCancelled(c)

OwnerStep(w) ==
    RunOwnedStarts(w) \/ Prepared(w) \/ RunReturned(w) \/ Retired(w)

DrainStep == DrainCancelsWorkers \/ DrainJoinsWorkers \/ DrainJoinsNative

Next ==
    \/ \E k \in Keys : PlainEnqueue(k)
    \/ \E p \in Producers : ProducerStep(p) \/ RunPut(p)
    \/ \E c \in Consumers : ConsumerStep(c)
    \/ \E w \in Works : OwnerStep(w) \/ ThreadReturns(w) \/ FutureCancelled(w)
    \/ Stop \/ DrainStep
    \/ \E o \in Orgs : CloseOrg(o)

\* The event loop runs every ready coroutine and callback, and every native
\* call ends: run_step's agent sessions are killed at their time limit.
Fairness ==
    /\ \A c \in Consumers : WF_vars(ConsumerStep(c))
    /\ \A w \in Works : WF_vars(OwnerStep(w)) /\ WF_vars(ThreadReturns(w))
    /\ \A p \in Producers : WF_vars(RunPut(p))
    /\ WF_vars(DrainStep)

Spec == Init /\ [][Next]_vars
FairSpec == Spec /\ Fairness

-----------------------------------------------------------------------------
(* Properties                                                              *)

QueuedAt(k) == {i \in DOMAIN queue : work[queue[i]].key = k}

\* _pending_counts is exactly the number of items of the key in the
\* asyncio.Queue, at every interleaving of puts and gets: an
\* enqueue_if_absent refused because of the count is owed a dequeue.
CountsExact == \A k \in Keys : pending[k] = Cardinality(QueuedAt(k))

\* However ordinary enqueues and late loop callbacks interleave with them,
\* bounded producers never have two items of one key in the queue.
BoundedWake ==
    \A i, j \in DOMAIN queue :
        /\ i # j
        /\ work[queue[i]].bounded /\ work[queue[j]].bounded
        => work[queue[i]].key # work[queue[j]].key

\* A producer that holds, or may still hold, the reservation of its key.
Holds(p, k) ==
    producer[p].bounded /\ producer[p].pc # "idle" /\ producer[p].key = k

\* A reserved key has one holder, and only a holder's key is reserved:
\* no return path of enqueue_if_absent leaks or steals a reservation.
OneHolder ==
    \A k \in Keys :
        /\ k \in reserved <=> \E p \in Producers : Holds(p, k)
        /\ \A p, q \in Producers : Holds(p, k) /\ Holds(q, k) => p = q

\* No executor thread runs against a closed organisation database, be its
\* consumer cancelled, its Future cancelled or its owner failed.
ThreadsHaveOpenOrg ==
    \A w \in Works :
        work[w].thread \in Executing => org[SlugOf[work[w].key]] = "open"

\* A drain that reports success left no worker, no executor thread and no
\* failed work behind: the lifespan goes on to close databases after it.
CleanDrainIsQuiet ==
    drain = "clean" =>
        /\ WorkersJoined
        /\ \A w \in Works : work[w].thread \notin Executing /\ ~work[w].failed

\* Once admission is closed no new run_step is launched, not even by a
\* preparation that returns late.
NoLaunchAfterStop ==
    [][stopping => \A w \in Works :
            work'[w].thread = "run" => work[w].thread = "run"]_vars

\* An item in the queue is delivered, or admission closes: a failed work
\* never takes the pool's capacity away.
ItemsAreServed ==
    \A k \in Keys : pending[k] > 0 ~> (pending[k] = 0 \/ stopping)

\* A shutdown ends, with one verdict or the other.
DrainEnds == stopping ~> drain \in {"clean", "incomplete"}

=============================================================================
