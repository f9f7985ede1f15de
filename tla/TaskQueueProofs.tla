---------------------------- MODULE TaskQueueProofs ----------------------------
(***************************************************************************)
(* Proofs about TaskQueue, for any sets of keys, organisations, producers, *)
(* consumers and deliveries.                                               *)
(***************************************************************************)
EXTENDS TaskQueue, FiniteSetTheorems, TLAPS

-----------------------------------------------------------------------------
(* Types                                                                   *)

\* An enqueue keeps the types of what it writes, whatever the key's count.
LEMMA EnqueueType ==
    ASSUME TypeOK, NEW k \in Keys \cup {NoKey}, NEW b \in BOOLEAN, Enqueue(k, b)
    PROVE  /\ queue' \in Seq(Works)
           /\ pending' \in [Keys -> Nat]
           /\ work' \in [Works -> WorkRecord]
<1>1. CASE stopping /\ UNCHANGED <<queue, pending, work>>
  BY <1>1 DEF TypeOK
<1>2. ASSUME NEW w \in Works,
             queue' = Append(queue, w),
             work' = [work EXCEPT ![w] = [FreeWork EXCEPT
                            !.phase = "queued", !.key = k, !.bounded = b]],
             pending' = [pending EXCEPT ![k] = @ + 1]
      PROVE  /\ queue' \in Seq(Works)
             /\ pending' \in [Keys -> Nat]
             /\ work' \in [Works -> WorkRecord]
  <2>1. queue' \in Seq(Works)
    BY <1>2 DEF TypeOK
  <2>2. pending' \in [Keys -> Nat]
    <3>1. CASE k \in Keys
      BY <1>2, <3>1 DEF TypeOK
    <3>2. CASE k \notin Keys
      BY <1>2, <3>2 DEF TypeOK
    <3> QED BY <3>1, <3>2
  <2>3. [FreeWork EXCEPT !.phase = "queued", !.key = k, !.bounded = b] \in WorkRecord
    BY DEF FreeWork, WorkRecord, Phases, Threads
  <2>4. work' \in [Works -> WorkRecord]
    BY <1>2, <2>3 DEF TypeOK
  <2> QED BY <2>1, <2>2, <2>4
<1> QED BY <1>1, <1>2 DEF Enqueue

\* Settling and launching keep the types of the native state.
LEMMA SettleType ==
    ASSUME TypeOK, NEW w \in Works, NEW f \in BOOLEAN, Settle(w, f)
    PROVE  /\ work' \in [Works -> WorkRecord]
           /\ nativeWork' \in SUBSET Works
           /\ users' \in SUBSET Works
<1>1. work[w] \in WorkRecord
  BY DEF TypeOK
<1>2. [work[w] EXCEPT !.phase = "finished", !.failed = f,
           !.thread = IF work[w].thread \in Executing THEN work[w].thread ELSE "idle"]
        \in WorkRecord
  BY <1>1 DEF WorkRecord, Phases, Threads, Executing
<1> QED BY <1>1, <1>2 DEF TypeOK, Settle, WorkRecord, Phases, Threads, Executing

\* So does the next executor call of a work.
LEMMA LaunchType ==
    ASSUME TypeOK, NEW w \in Works, NEW ph \in Phases, NEW th \in Threads,
           NEW f \in BOOLEAN, Launch(w, ph, th, f)
    PROVE  /\ work' \in [Works -> WorkRecord]
           /\ nativeWork' \in SUBSET Works
           /\ users' \in SUBSET Works
<1>1. [work[w] EXCEPT !.phase = ph, !.thread = th, !.failed = f] \in WorkRecord
  BY DEF TypeOK, WorkRecord
<1>2. work' = [work EXCEPT ![w] = [work[w] EXCEPT !.phase = ph, !.thread = th, !.failed = f]]
  BY DEF TypeOK, Launch, WorkRecord
<1> QED BY <1>1, <1>2 DEF TypeOK, Launch, nativeVars

\* Every step keeps the types.
LEMMA TypeStep == TypeOK /\ [Next]_vars => TypeOK'
<1> SUFFICES ASSUME TypeOK, [Next]_vars PROVE TypeOK'
  OBVIOUS
<1>1. ASSUME NEW k \in Keys, PlainEnqueue(k) PROVE TypeOK'
  BY <1>1, EnqueueType DEF TypeOK, PlainEnqueue, producerVars, nativeVars, stopVars
<1>2. ASSUME NEW p \in Producers, ProducerStep(p) \/ RunPut(p) PROVE TypeOK'
  <2>1. producer[p] \in ProducerRecord
    BY DEF TypeOK
  <2>2. ASSUME NEW k \in Keys, ReserveBoundedEnqueue(p, k) PROVE TypeOK'
    BY <2>2 DEF TypeOK, ReserveBoundedEnqueue, IdleProducer, ProducerRecord, nativeVars, stopVars
  <2>3. ASSUME NEW k \in Keys, AdapterEnqueue(p, k) PROVE TypeOK'
    BY <2>3 DEF TypeOK, AdapterEnqueue, IdleProducer, ProducerRecord, nativeVars, stopVars
  <2>4. CASE PublisherDeclines(p)
    BY <2>1, <2>4 DEF TypeOK, PublisherDeclines, ProducerRecord, nativeVars, stopVars
  <2>5. CASE SubmitPut(p)
    BY <2>1, <2>5 DEF TypeOK, SubmitPut, ProducerRecord, nativeVars, stopVars
  <2>6. CASE SubmitPutRaises(p)
    <3>1. PICK posted \in BOOLEAN :
            producer' = [producer EXCEPT ![p].pc = "return", ![p].put = "pending",
                                         ![p].posted = posted]
      BY <2>6 DEF SubmitPutRaises
    <3>2. producer' \in [Producers -> ProducerRecord]
      BY <2>1, <3>1 DEF TypeOK, ProducerRecord
    <3> QED BY <2>6, <3>2 DEF TypeOK, SubmitPutRaises, nativeVars, stopVars
  <2>7. CASE PublishReturns(p)
    BY <2>1, <2>7 DEF TypeOK, PublishReturns, ProducerRecord, IdleProducer, nativeVars, stopVars
  <2>8. CASE PublishDirect(p)
    <3>1. producer[p].key \in Keys \cup {NoKey}
      BY <2>1 DEF ProducerRecord
    <3>2. producer' \in [Producers -> ProducerRecord]
      BY <2>1, <2>8 DEF TypeOK, PublishDirect, ProducerRecord
    <3> QED BY <2>8, <3>1, <3>2, EnqueueType DEF TypeOK, PublishDirect, nativeVars, stopVars
  <2>9. CASE RunPut(p)
    <3>1. producer[p].key \in Keys \cup {NoKey} /\ producer[p].bounded \in BOOLEAN
      BY <2>1 DEF ProducerRecord
    <3>2. producer' \in [Producers -> ProducerRecord]
      BY <2>1, <2>9 DEF TypeOK, RunPut, ProducerRecord
    <3> QED BY <2>9, <3>1, <3>2, EnqueueType DEF TypeOK, RunPut, nativeVars, stopVars
  <2> QED
    BY <1>2, <2>2, <2>3, <2>4, <2>5, <2>6, <2>7, <2>8, <2>9 DEF ProducerStep
<1>3. ASSUME NEW c \in Consumers, ConsumerStep(c) PROVE TypeOK'
  <2>1. consumer[c] \in ConsumerRecord
    BY DEF TypeOK
  <2>2. CASE Take(c)
    <3> DEFINE w == Head(queue)
    <3>1. w \in Works /\ queue' \in Seq(Works)
      BY <2>2 DEF TypeOK, Take
    <3>2. pending' \in [Keys -> Nat]
      <4> DEFINE k == work[w].key
      <4>1. pending' = [pending EXCEPT ![k] = IF @ <= 1 THEN 0 ELSE @ - 1]
        BY <2>2 DEF Take, RecordDequeue
      <4>2. CASE k \in Keys
        <5>1. (IF pending[k] <= 1 THEN 0 ELSE pending[k] - 1) \in Nat
          BY <4>2 DEF TypeOK
        <5> QED BY <4>1, <5>1 DEF TypeOK
      <4>3. CASE k \notin Keys
        BY <4>1, <4>3 DEF TypeOK
      <4> QED BY <4>2, <4>3
    <3>3. work[w] \in WorkRecord
      BY <3>1 DEF TypeOK
    <3>4. /\ work' \in [Works -> WorkRecord]
          /\ nativeWork' \in SUBSET Works /\ users' \in SUBSET Works
          /\ consumer' \in [Consumers -> ConsumerRecord]
      <4>1. CASE MaySubmit(w) /\ work' = [work EXCEPT ![w].phase = "submitted"]
        <5>1. work' \in [Works -> WorkRecord]
          BY <3>1, <3>3, <4>1 DEF TypeOK, WorkRecord, Phases
        <5>2. /\ nativeWork' = nativeWork \cup {w} /\ users' = users \cup {w}
              /\ consumer' = [consumer EXCEPT ![c] = [pc |-> "consume", work |-> w]]
          BY <2>2, <4>1 DEF Take
        <5>3. [pc |-> "consume", work |-> w] \in ConsumerRecord
          BY <3>1 DEF ConsumerRecord
        <5> QED BY <3>1, <5>1, <5>2, <5>3 DEF TypeOK
      <4>2. CASE ~MaySubmit(w) /\ work' = [work EXCEPT ![w].phase = "dropped"]
        <5>1. work' \in [Works -> WorkRecord]
          BY <3>1, <3>3, <4>2 DEF TypeOK, WorkRecord, Phases
        <5>2. /\ UNCHANGED nativeVars
              /\ consumer' = [consumer EXCEPT ![c].pc = IF stopping THEN "done" ELSE "get"]
          BY <2>2, <4>2 DEF Take
        <5>3. consumer' \in [Consumers -> ConsumerRecord]
          BY <2>1, <5>2 DEF TypeOK, ConsumerRecord
        <5> QED BY <5>1, <5>2, <5>3 DEF TypeOK, nativeVars
      <4> QED BY <2>2, <4>1, <4>2 DEF Take
    <3> QED BY <2>2, <3>1, <3>2, <3>4 DEF TypeOK, Take, producerVars, stopVars
  <2>3. CASE ConsumeReturns(c)
    BY <2>1, <2>3 DEF TypeOK, ConsumeReturns, ConsumerRecord, producerVars, nativeVars, stopVars
  <2>4. CASE ConsumerCancelled(c)
    <3>1. consumer' \in [Consumers -> ConsumerRecord]
      BY <2>1, <2>4 DEF TypeOK, ConsumerCancelled, ConsumerRecord
    <3>2. work' \in [Works -> WorkRecord]
      BY <2>4 DEF TypeOK, ConsumerCancelled, WorkRecord
    <3> QED BY <2>4, <3>1, <3>2 DEF TypeOK, ConsumerCancelled, producerVars, nativeVars
  <2> QED BY <1>3, <2>2, <2>3, <2>4 DEF ConsumerStep
<1>4. ASSUME NEW w \in Works, OwnerStep(w) \/ ThreadReturns(w) \/ FutureCancelled(w)
      PROVE  TypeOK'
  <2>1. work[w] \in WorkRecord
    BY DEF TypeOK
  <2>2. NativeUnchanged /\ work' \in [Works -> WorkRecord] /\ nativeWork' \in SUBSET Works
          /\ users' \in SUBSET Works => TypeOK'
    BY DEF TypeOK, NativeUnchanged, producerVars, stopVars
  <2>3. CASE RunOwnedStarts(w)
    <3>1. "preparing" \in Phases /\ "prep" \in Threads
      BY DEF Phases, Threads, Executing
    <3> QED BY <2>2, <2>3, <3>1, SettleType, LaunchType DEF RunOwnedStarts
  <2>4. CASE Prepared(w)
    <3>1. CASE Settle(w, TRUE) \/ Settle(w, FALSE)
      BY <2>2, <2>4, <3>1, SettleType DEF Prepared
    <3>2. ASSUME NEW owner \in BOOLEAN,
                 work' = [work EXCEPT ![w].phase = "running", ![w].thread = "run",
                                      ![w].owner = owner],
                 UNCHANGED nativeVars
          PROVE  TypeOK'
      <4>1. work' \in [Works -> WorkRecord]
        BY <2>1, <3>2 DEF TypeOK, WorkRecord, Phases, Threads, Executing
      <4> QED BY <2>2, <2>4, <3>2, <4>1 DEF Prepared, TypeOK, nativeVars
    <3>3. CASE /\ work' = [work EXCEPT ![w].phase = "retiring", ![w].thread = "retire",
                                       ![w].owner = TRUE]
               /\ UNCHANGED nativeVars
      <4>1. work' \in [Works -> WorkRecord]
        BY <2>1, <3>3 DEF TypeOK, WorkRecord, Phases, Threads, Executing
      <4> QED BY <2>2, <2>4, <3>3, <4>1 DEF Prepared, TypeOK, nativeVars
    <3> QED BY <2>4, <3>1, <3>2, <3>3 DEF Prepared
  <2>5. CASE RunReturned(w)
    <3>1. "retiring" \in Phases /\ "retire" \in Threads
      BY DEF Phases, Threads, Executing
    <3> QED BY <2>2, <2>5, <3>1, SettleType, LaunchType DEF RunReturned
  <2>6. CASE Retired(w)
    <3>1. (work[w].failed \/ work[w].thread = "error") \in BOOLEAN
      OBVIOUS
    <3> QED BY <2>2, <2>6, <3>1, SettleType DEF Retired
  <2>7. CASE ThreadReturns(w)
    <3>1. PICK result \in {"ok", "error"} :
            work' = [work EXCEPT ![w].thread =
                        IF work[w].phase = "finished" THEN "idle" ELSE result]
      BY <2>7 DEF ThreadReturns
    <3>2. (IF work[w].phase = "finished" THEN "idle" ELSE result) \in Threads
      BY DEF Threads
    <3>3. work' \in [Works -> WorkRecord]
      BY <2>1, <3>1, <3>2 DEF TypeOK, WorkRecord
    <3> QED BY <2>2, <2>7, <3>3 DEF ThreadReturns, TypeOK, nativeVars
  <2>8. CASE FutureCancelled(w)
    BY <2>2, <2>8, SettleType DEF FutureCancelled
  <2> QED BY <1>4, <2>3, <2>4, <2>5, <2>6, <2>7, <2>8 DEF OwnerStep
<1>5. CASE Stop \/ DrainStep
  <2>1. CASE Stop
    BY <2>1 DEF TypeOK, Stop, producerVars, nativeVars
  <2>2. CASE DrainCancelsWorkers
    BY <2>2 DEF TypeOK, DrainCancelsWorkers, UnfinishedWorkers, producerVars, nativeVars
  <2>3. CASE DrainJoinsWorkers
    BY <2>3 DEF TypeOK, DrainJoinsWorkers, producerVars, nativeVars
  <2>4. CASE DrainJoinsNative
    BY <2>4 DEF TypeOK, DrainJoinsNative, DrainVerdict, producerVars, nativeVars
  <2> QED BY <1>5, <2>1, <2>2, <2>3, <2>4 DEF DrainStep
<1>6. ASSUME NEW o \in Orgs, CloseOrg(o) PROVE TypeOK'
  BY <1>6 DEF TypeOK, CloseOrg, producerVars, nativeVars
<1>7. CASE UNCHANGED vars
  BY <1>7 DEF TypeOK, vars
<1> QED
  BY <1>1, <1>2, <1>3, <1>4, <1>5, <1>6, <1>7 DEF Next

\* A queue just constructed has the types.
LEMMA InitType == Init => TypeOK
<1>1. FreeWork \in WorkRecord /\ IdleProducer \in ProducerRecord
        /\ [pc |-> "get", work |-> NoWork] \in ConsumerRecord
  BY DEF WorkRecord, ProducerRecord, ConsumerRecord, FreeWork, IdleProducer, Phases, Threads
<1> SUFFICES ASSUME Init PROVE TypeOK
  OBVIOUS
<1>2. queue \in Seq(Works) /\ pending \in [Keys -> Nat] /\ org \in [Orgs -> {"open", "closed"}]
  BY DEF Init
<1>3. /\ producer \in [Producers -> ProducerRecord] /\ work \in [Works -> WorkRecord]
      /\ consumer \in [Consumers -> ConsumerRecord]
  BY <1>1 DEF Init
<1> QED BY <1>2, <1>3 DEF Init, TypeOK

\* Every variable keeps its type, for every instance of the queue.
THEOREM TypeCorrect == Spec => []TypeOK
BY InitType, TypeStep, PTL DEF Spec

-----------------------------------------------------------------------------
(* The inductive invariant                                                 *)

\* A queued delivery is in the queue once, has a key, and nothing runs for it.
QueueSound ==
    /\ \A i \in 1 .. Len(queue) :
         work[queue[i]].phase = "queued" /\ work[queue[i]].key \in Keys
    /\ \A i, j \in 1 .. Len(queue) : queue[i] = queue[j] => i = j

\* A publication in progress has a key, and a posted put is one whose Future
\* is pending.
PublishSound ==
    \A p \in Producers :
        /\ producer[p].pc # "idle" => producer[p].key \in Keys
        /\ producer[p].posted =>
             producer[p].put = "pending" /\ producer[p].pc \in {"wait", "return", "uncertain"}

\* The close barrier: what executes, has failed or has an owner is in
\* _native_work, and what is there keeps its organisation open.
BarrierAt(w) ==
    /\ work[w].thread \in Executing => w \in nativeWork
    /\ work[w].failed = TRUE => w \in nativeWork
    /\ work[w].phase \in {"submitted", "preparing", "running", "retiring"} => w \in nativeWork
    /\ work[w].phase \in {"free", "queued"} => w \notin nativeWork
    /\ work[w].phase \in {"free", "queued", "dropped", "submitted"} => work[w].thread = "idle"
    /\ w \in nativeWork => work[w].key \in Keys /\ org[SlugOf[work[w].key]] = "open"

Barrier == users = nativeWork /\ \A w \in Works : BarrierAt(w)

\* The drain gets to its verdict only past joined workers, under the fence.
DrainSound ==
    /\ drain # "none" => stopping = TRUE
    /\ drain \in {"native", "clean", "incomplete"} => WorkersJoined
    /\ drain = "clean" => nativeWork = {}

-----------------------------------------------------------------------------
(* What a step does to the deliveries                                      *)

\* No delivery enters or leaves the queue, and none changes its key.
Kept ==
    \A v \in Works :
        /\ work'[v].key = work[v].key
        /\ work'[v].bounded = work[v].bounded
        /\ work'[v].phase = "queued" <=> work[v].phase = "queued"

\* The steps of a native work leave every delivery's place in the queue alone.
LEMMA NativeKeeps ==
    ASSUME TypeOK, NEW w \in Works,
           OwnerStep(w) \/ ThreadReturns(w) \/ FutureCancelled(w)
    PROVE  Kept /\ NativeUnchanged
<1> USE DEF Kept
<1>1. work[w] \in WorkRecord
  BY DEF TypeOK
<1>2. ASSUME NEW f \in BOOLEAN, Settle(w, f), work[w].phase # "queued" PROVE Kept
  BY <1>1, <1>2 DEF Settle, TypeOK, WorkRecord
<1>3. ASSUME NEW ph \in Phases, NEW th \in Threads, NEW f \in BOOLEAN,
             Launch(w, ph, th, f), work[w].phase # "queued", ph # "queued"
      PROVE  Kept
  BY <1>1, <1>3 DEF Launch, TypeOK, WorkRecord
<1>4. CASE RunOwnedStarts(w)
  <2>1. "preparing" \in Phases /\ "prep" \in Threads
    BY DEF Phases, Threads, Executing
  <2> QED BY <1>2, <1>3, <1>4, <2>1 DEF RunOwnedStarts
<1>5. CASE Prepared(w)
  <2>1. CASE Settle(w, TRUE) \/ Settle(w, FALSE)
    BY <1>2, <1>5, <2>1 DEF Prepared
  <2>2. CASE \E owner \in BOOLEAN :
               work' = [work EXCEPT ![w].phase = "running", ![w].thread = "run",
                                    ![w].owner = owner]
    <3>1. PICK owner \in BOOLEAN :
               work' = [work EXCEPT ![w].phase = "running", ![w].thread = "run",
                                    ![w].owner = owner]
      BY <2>2
    <3> QED BY <1>1, <1>5, <3>1 DEF Prepared, TypeOK, WorkRecord
  <2>3. CASE work' = [work EXCEPT ![w].phase = "retiring", ![w].thread = "retire",
                                  ![w].owner = TRUE]
    BY <1>1, <1>5, <2>3 DEF Prepared, TypeOK, WorkRecord
  <2> QED BY <1>5, <2>1, <2>2, <2>3 DEF Prepared
<1>6. CASE RunReturned(w)
  <2>1. "retiring" \in Phases /\ "retire" \in Threads
    BY DEF Phases, Threads, Executing
  <2> QED BY <1>2, <1>3, <1>6, <2>1 DEF RunReturned
<1>7. CASE Retired(w)
  <2>1. (work[w].failed \/ work[w].thread = "error") \in BOOLEAN
    OBVIOUS
  <2> QED BY <1>2, <1>7, <2>1 DEF Retired
<1>8. CASE ThreadReturns(w)
  BY <1>1, <1>8 DEF ThreadReturns, TypeOK, WorkRecord
<1>9. CASE FutureCancelled(w)
  BY <1>2, <1>9 DEF FutureCancelled
<1> QED BY <1>4, <1>5, <1>6, <1>7, <1>8, <1>9 DEF OwnerStep

\* Where a step is no enqueue and no dequeue, the queue keeps its deliveries.
LEMMA StepKinds ==
    ASSUME TypeOK, PublishSound, [Next]_vars
    PROVE  \/ \E k \in Keys, b \in BOOLEAN : Enqueue(k, b)
           \/ \E c \in Consumers : Take(c)
           \/ queue' = queue /\ pending' = pending /\ Kept
<1>1. ASSUME work' = work PROVE Kept
  BY <1>1 DEF Kept
<1>2. ASSUME NEW k \in Keys, PlainEnqueue(k) PROVE Enqueue(k, FALSE)
  BY <1>2 DEF PlainEnqueue
<1>3. ASSUME NEW p \in Producers, PublishDirect(p) \/ RunPut(p)
      PROVE  \E k \in Keys, b \in BOOLEAN : Enqueue(k, b)
  <2>1. producer[p] \in ProducerRecord
    BY DEF TypeOK
  <2>2. producer[p].key \in Keys /\ producer[p].bounded \in BOOLEAN
    BY <1>3, <2>1 DEF PublishSound, ProducerRecord, PublishDirect, RunPut
  <2>3. Enqueue(producer[p].key, TRUE) \/ Enqueue(producer[p].key, producer[p].bounded)
    BY <1>3 DEF PublishDirect, RunPut
  <2> QED BY <2>2, <2>3
<1>4. ASSUME NEW p \in Producers,
             \/ \E k \in Keys : ReserveBoundedEnqueue(p, k) \/ AdapterEnqueue(p, k)
             \/ PublisherDeclines(p) \/ SubmitPut(p) \/ SubmitPutRaises(p)
             \/ PublishReturns(p)
      PROVE  queue' = queue /\ pending' = pending /\ Kept
  BY <1>1, <1>4 DEF ReserveBoundedEnqueue, AdapterEnqueue, PublisherDeclines,
                    SubmitPut, SubmitPutRaises, PublishReturns
<1>5. ASSUME NEW c \in Consumers, ConsumeReturns(c) \/ ConsumerCancelled(c)
      PROVE  queue' = queue /\ pending' = pending /\ Kept
  <2>1. CASE ConsumeReturns(c)
    BY <1>1, <2>1 DEF ConsumeReturns
  <2>2. CASE ConsumerCancelled(c)
    BY <2>2 DEF ConsumerCancelled, Kept, TypeOK, WorkRecord
  <2> QED BY <1>5, <2>1, <2>2
<1>6. ASSUME NEW w \in Works, OwnerStep(w) \/ ThreadReturns(w) \/ FutureCancelled(w)
      PROVE  queue' = queue /\ pending' = pending /\ Kept
  BY <1>6, NativeKeeps DEF NativeUnchanged
<1>7. CASE Stop \/ DrainStep \/ \E o \in Orgs : CloseOrg(o)
  BY <1>1, <1>7 DEF Stop, DrainStep, DrainCancelsWorkers, DrainJoinsWorkers,
                    DrainJoinsNative, CloseOrg
<1>8. CASE UNCHANGED vars
  BY <1>1, <1>8 DEF vars
<1> QED
  BY <1>2, <1>3, <1>4, <1>5, <1>6, <1>7, <1>8 DEF Next, ProducerStep, ConsumerStep

\* No producer step and no loop callback spoils a publication in progress.
LEMMA PublishStep ==
    ASSUME TypeOK, PublishSound, [Next]_vars PROVE PublishSound'
<1>1. ASSUME NEW p \in Producers, ProducerStep(p) \/ RunPut(p) PROVE PublishSound'
  <2>1. producer[p] \in ProducerRecord
    BY DEF TypeOK
  <2> USE DEF PublishSound, TypeOK, ProducerRecord, IdleProducer
  <2>2. ASSUME NEW k \in Keys, ReserveBoundedEnqueue(p, k) \/ AdapterEnqueue(p, k)
        PROVE  PublishSound'
    <3>1. CASE ReserveBoundedEnqueue(p, k)
      BY <3>1 DEF ReserveBoundedEnqueue
    <3>2. CASE AdapterEnqueue(p, k)
      BY <3>2 DEF AdapterEnqueue
    <3> QED BY <2>2, <3>1, <3>2
  <2>3. CASE PublishDirect(p) \/ PublisherDeclines(p) \/ SubmitPut(p)
    <3>1. CASE PublishDirect(p)
      BY <2>1, <3>1 DEF PublishDirect
    <3>2. CASE PublisherDeclines(p)
      BY <2>1, <3>2 DEF PublisherDeclines
    <3>3. CASE SubmitPut(p)
      BY <2>1, <3>3 DEF SubmitPut
    <3> QED BY <2>3, <3>1, <3>2, <3>3
  <2>4. CASE SubmitPutRaises(p)
    BY <2>1, <2>4 DEF SubmitPutRaises
  <2>5. CASE PublishReturns(p)
    BY <2>1, <2>5 DEF PublishReturns
  <2>6. CASE RunPut(p)
    BY <2>1, <2>6 DEF RunPut
  <2> QED BY <1>1, <2>2, <2>3, <2>4, <2>5, <2>6 DEF ProducerStep
<1>2. CASE UNCHANGED producer
  BY <1>2 DEF PublishSound
<1> QED
  <2>1. ASSUME NEW w \in Works, OwnerStep(w) \/ ThreadReturns(w) \/ FutureCancelled(w)
        PROVE  UNCHANGED producer
    BY <2>1, NativeKeeps DEF NativeUnchanged, producerVars
  <2>2. ASSUME NEW c \in Consumers, ConsumerStep(c) PROVE UNCHANGED producer
    BY <2>2 DEF ConsumerStep, Take, ConsumeReturns, ConsumerCancelled, producerVars
  <2>3. ASSUME \/ \E k \in Keys : PlainEnqueue(k)
               \/ Stop \/ DrainStep \/ \E o \in Orgs : CloseOrg(o)
        PROVE  UNCHANGED producer
    BY <2>3 DEF PlainEnqueue, Stop, DrainStep, DrainCancelsWorkers, DrainJoinsWorkers,
                DrainJoinsNative, CloseOrg, producerVars
  <2> QED BY <1>1, <1>2, <2>1, <2>2, <2>3 DEF Next, vars

\* Puts append a delivery that was in no queue; gets take one out: no item
\* is ever in the asyncio.Queue twice.
LEMMA QueueStep ==
    ASSUME TypeOK, PublishSound, QueueSound, [Next]_vars PROVE QueueSound'
<1>1. ASSUME NEW k \in Keys, NEW b \in BOOLEAN, Enqueue(k, b) PROVE QueueSound'
  <2>1. CASE UNCHANGED <<queue, work>>
    BY <2>1 DEF QueueSound
  <2>2. ASSUME NEW w \in Works, work[w].phase = "free", queue' = Append(queue, w),
               work' = [work EXCEPT ![w] = [FreeWork EXCEPT
                            !.phase = "queued", !.key = k, !.bounded = b]]
        PROVE  QueueSound'
    <3>1. work'[w].phase = "queued" /\ work'[w].key = k
      BY <2>2 DEF TypeOK, FreeWork
    <3>2. \A i \in 1 .. Len(queue) : queue[i] \in Works /\ queue[i] # w
      BY <2>2 DEF QueueSound, TypeOK
    <3>3. Len(queue') = Len(queue) + 1 /\ queue'[Len(queue) + 1] = w
            /\ \A i \in 1 .. Len(queue) : queue'[i] = queue[i]
      BY <2>2 DEF TypeOK
    <3>4. \A i \in 1 .. Len(queue) : work'[queue[i]] = work[queue[i]]
      BY <2>2, <3>2 DEF TypeOK
    <3>5. Len(queue) \in Nat
      BY DEF TypeOK
    <3> QED BY <3>1, <3>2, <3>3, <3>4, <3>5 DEF QueueSound
  <2> QED BY <1>1, <2>1, <2>2 DEF Enqueue
<1>2. ASSUME NEW c \in Consumers, Take(c) PROVE QueueSound'
  <2> DEFINE w == Head(queue)
  <2>1. queue # <<>> /\ queue' = Tail(queue)
    BY <1>2 DEF Take
  <2>2. /\ Len(queue) \in Nat \ {0} /\ Len(queue') = Len(queue) - 1
        /\ \A i \in 1 .. Len(queue') : i + 1 \in 1 .. Len(queue) /\ queue'[i] = queue[i + 1]
        /\ w = queue[1]
    BY <2>1 DEF TypeOK
  <2>3. \A v \in Works : v # w => work'[v] = work[v]
    BY <1>2 DEF Take, TypeOK
  <2>4. \A i \in 1 .. Len(queue') : queue'[i] # w /\ queue'[i] \in Works
    <3> TAKE i \in 1 .. Len(queue')
    <3>1. i + 1 \in 1 .. Len(queue) /\ i + 1 # 1 /\ 1 \in 1 .. Len(queue)
      BY <2>2
    <3>2. queue[i + 1] # queue[1]
      BY <3>1 DEF QueueSound
    <3>3. queue[i + 1] \in Works
      BY <3>1 DEF TypeOK
    <3> QED BY <2>2, <3>2, <3>3
  <2> QED BY <2>2, <2>3, <2>4 DEF QueueSound
<1>3. CASE queue' = queue /\ pending' = pending /\ Kept
  <2>1. \A i \in 1 .. Len(queue) : queue[i] \in Works
    BY DEF TypeOK
  <2> QED BY <1>3, <2>1 DEF Kept, QueueSound
<1> QED BY <1>1, <1>2, <1>3, StepKinds

-----------------------------------------------------------------------------
(* The close barrier                                                       *)

\* The end of _run_owned keeps the barrier, provided that a work settled
\* without failure has no executor thread left.
LEMMA SettleBarrier ==
    ASSUME TypeOK, Barrier, NEW w \in Works, NEW f \in BOOLEAN, Settle(w, f),
           w \in nativeWork, f = FALSE => work[w].thread \notin Executing,
           UNCHANGED org
    PROVE  Barrier'
<1>1. work[w] \in WorkRecord /\ BarrierAt(w)
  BY DEF TypeOK, Barrier
<1>2. /\ work'[w].phase = "finished" /\ work'[w].failed = f /\ work'[w].key = work[w].key
      /\ work'[w].thread = IF work[w].thread \in Executing THEN work[w].thread ELSE "idle"
      /\ \A v \in Works : v # w => work'[v] = work[v]
  BY <1>1 DEF Settle, TypeOK, WorkRecord
<1>3. /\ f = FALSE => nativeWork' = nativeWork \ {w} /\ users' = users \ {w}
      /\ f = TRUE => nativeWork' = nativeWork /\ users' = users
  BY DEF Settle
<1>4. users' = nativeWork'
  BY <1>3 DEF Barrier
<1>5. ASSUME NEW v \in Works, v # w PROVE BarrierAt(v)'
  <2>1. BarrierAt(v) /\ (v \in nativeWork' <=> v \in nativeWork)
    BY <1>3, <1>5 DEF Barrier
  <2> QED BY <1>2, <1>5, <2>1 DEF BarrierAt
<1>6. BarrierAt(w)'
  <2>1. CASE f = TRUE
    BY <1>1, <1>2, <1>3, <2>1 DEF BarrierAt
  <2>2. CASE f = FALSE
    <3>1. work'[w].thread = "idle" /\ w \notin nativeWork' /\ "idle" \notin Executing
      BY <1>2, <1>3, <2>2 DEF Executing
    <3> QED BY <1>2, <2>2, <3>1 DEF BarrierAt
  <2> QED BY <2>1, <2>2
<1> QED BY <1>4, <1>5, <1>6 DEF Barrier

\* A work that is registered stays registered through its next phase.
LEMMA RegisteredBarrier ==
    ASSUME TypeOK, Barrier, NEW w \in Works, w \in nativeWork,
           work' \in [Works -> WorkRecord],
           \A v \in Works : v # w => work'[v] = work[v],
           work'[w].key = work[w].key,
           work'[w].phase \in {"preparing", "running", "retiring", "finished"},
           UNCHANGED <<nativeWork, users, org>>
    PROVE  Barrier'
<1>1. ASSUME NEW v \in Works, v # w PROVE BarrierAt(v)'
  BY <1>1 DEF Barrier, BarrierAt
<1>2. BarrierAt(w)'
  BY DEF Barrier, BarrierAt
<1> QED BY <1>1, <1>2 DEF Barrier

\* Every step keeps the close barrier: the case that matters is a closing
\* organisation, which has no registered work by RunnersIdle.
LEMMA BarrierStep ==
    ASSUME TypeOK, PublishSound, QueueSound, Barrier, [Next]_vars PROVE Barrier'
<1>1. CASE UNCHANGED <<work, nativeWork, users, org>>
  BY <1>1 DEF Barrier, BarrierAt
<1>2. ASSUME NEW k \in Keys, NEW b \in BOOLEAN, Enqueue(k, b),
             UNCHANGED <<nativeWork, users, org>>
      PROVE  Barrier'
  <2>1. CASE UNCHANGED work
    BY <1>1, <1>2, <2>1
  <2>2. ASSUME NEW w \in Works, work[w].phase = "free",
               work' = [work EXCEPT ![w] = [FreeWork EXCEPT
                            !.phase = "queued", !.key = k, !.bounded = b]]
        PROVE  Barrier'
    <3>1. /\ work'[w].phase = "queued" /\ work'[w].thread = "idle"
          /\ work'[w].failed = FALSE /\ w \notin nativeWork
      BY <2>2 DEF TypeOK, FreeWork, Barrier, BarrierAt
    <3>2. ASSUME NEW v \in Works, v # w PROVE BarrierAt(v)'
      BY <1>2, <2>2, <3>2 DEF TypeOK, Barrier, BarrierAt
    <3>3. BarrierAt(w)'
      BY <1>2, <3>1 DEF BarrierAt, Executing
    <3> QED BY <1>2, <3>2, <3>3 DEF Barrier
  <2> QED BY <1>2, <2>1, <2>2 DEF Enqueue
<1>3. ASSUME NEW k \in Keys, PlainEnqueue(k) PROVE Barrier'
  BY <1>2, <1>3 DEF PlainEnqueue, nativeVars, stopVars
<1>4. ASSUME NEW p \in Producers, ProducerStep(p) \/ RunPut(p) PROVE Barrier'
  <2>1. producer[p] \in ProducerRecord
    BY DEF TypeOK
  <2>2. CASE PublishDirect(p)
    <3>1. producer[p].key \in Keys
      BY <2>2 DEF PublishSound, PublishDirect
    <3> QED BY <1>2, <2>2, <3>1 DEF PublishDirect, nativeVars, stopVars
  <2>3. CASE RunPut(p)
    <3>1. producer[p].key \in Keys /\ producer[p].bounded \in BOOLEAN
      BY <2>1, <2>3 DEF PublishSound, RunPut, ProducerRecord
    <3> QED BY <1>2, <2>3, <3>1 DEF RunPut, nativeVars, stopVars
  <2>4. ASSUME \/ \E k \in Keys : ReserveBoundedEnqueue(p, k) \/ AdapterEnqueue(p, k)
               \/ PublisherDeclines(p) \/ SubmitPut(p) \/ SubmitPutRaises(p)
               \/ PublishReturns(p)
        PROVE  UNCHANGED <<work, nativeWork, users, org>>
    BY <2>4 DEF ReserveBoundedEnqueue, AdapterEnqueue, PublisherDeclines, SubmitPut,
                SubmitPutRaises, PublishReturns, nativeVars, stopVars
  <2> QED BY <1>1, <1>4, <2>2, <2>3, <2>4 DEF ProducerStep
<1>5. ASSUME NEW c \in Consumers, Take(c) PROVE Barrier'
  <2>0. PICK w \in Works : w = Head(queue)
    BY <1>5 DEF Take, TypeOK
  <2>1. work[w].phase = "queued" /\ work[w].key \in Keys
    <3>1. w = queue[1] /\ 1 \in 1 .. Len(queue)
      BY <1>5, <2>0 DEF Take, TypeOK
    <3> QED BY <3>1 DEF QueueSound
  <2>2. work[w] \in WorkRecord /\ work[w].thread = "idle" /\ work[w].failed # TRUE
          /\ w \notin nativeWork /\ users = nativeWork /\ UNCHANGED org
    <3>1. work[w] \in WorkRecord /\ users = nativeWork /\ BarrierAt(w)
      BY DEF TypeOK, Barrier
    <3>2. UNCHANGED org
      BY <1>5 DEF Take, stopVars
    <3> QED BY <2>1, <3>1, <3>2 DEF BarrierAt
  <2>3. CASE MaySubmit(w) /\ work' = [work EXCEPT ![w].phase = "submitted"]
    <3>1. nativeWork' = nativeWork \cup {w} /\ users' = users \cup {w}
      BY <1>5, <2>0, <2>3 DEF Take
    <3>2. /\ work'[w].phase = "submitted" /\ work'[w].thread = "idle"
          /\ work'[w].failed # TRUE /\ work'[w].key = work[w].key
      BY <2>1, <2>2, <2>3 DEF TypeOK, WorkRecord
    <3>3. org'[SlugOf[work'[w].key]] = "open"
      BY <2>2, <2>3, <3>2 DEF MaySubmit
    <3>4. ASSUME NEW v \in Works, v # w PROVE BarrierAt(v)'
      BY <2>2, <2>3, <3>1, <3>4 DEF TypeOK, Barrier, BarrierAt
    <3>5. BarrierAt(w)'
      BY <2>1, <3>1, <3>2, <3>3 DEF BarrierAt
    <3> QED BY <2>2, <3>1, <3>4, <3>5 DEF Barrier
  <2>4. CASE ~MaySubmit(w) /\ work' = [work EXCEPT ![w].phase = "dropped"]
    <3>1. UNCHANGED <<nativeWork, users>>
      BY <1>5, <2>0, <2>4 DEF Take, nativeVars
    <3>2. /\ work'[w].phase = "dropped" /\ work'[w].thread = "idle"
          /\ work'[w].failed # TRUE
      BY <2>1, <2>2, <2>4 DEF TypeOK, WorkRecord
    <3>3. ASSUME NEW v \in Works, v # w PROVE BarrierAt(v)'
      BY <2>2, <2>4, <3>1, <3>3 DEF TypeOK, Barrier, BarrierAt
    <3>4. BarrierAt(w)'
      BY <2>2, <3>1, <3>2 DEF BarrierAt, Executing
    <3> QED BY <2>2, <3>1, <3>3, <3>4 DEF Barrier
  <2> QED BY <1>5, <2>0, <2>3, <2>4 DEF Take
<1>6. ASSUME NEW c \in Consumers, ConsumeReturns(c) \/ ConsumerCancelled(c) PROVE Barrier'
  <2>1. CASE ConsumeReturns(c)
    BY <1>1, <2>1 DEF ConsumeReturns, nativeVars, stopVars
  <2>2. CASE ConsumerCancelled(c)
    <3>1. UNCHANGED <<nativeWork, users, org>>
      BY <2>2 DEF ConsumerCancelled, nativeVars
    <3>2. \A v \in Works : /\ work'[v].phase = work[v].phase /\ work'[v].key = work[v].key
                           /\ work'[v].thread = work[v].thread
                           /\ work'[v].failed = work[v].failed
      BY <2>2 DEF ConsumerCancelled, TypeOK, WorkRecord
    <3> QED BY <3>1, <3>2 DEF Barrier, BarrierAt
  <2> QED BY <1>6, <2>1, <2>2
<1>7. ASSUME NEW w \in Works, OwnerStep(w) \/ ThreadReturns(w) \/ FutureCancelled(w)
      PROVE  Barrier'
  <2>1. UNCHANGED org /\ work[w] \in WorkRecord /\ BarrierAt(w)
    BY <1>7, NativeKeeps DEF NativeUnchanged, stopVars, TypeOK, Barrier
  <2>2. TypeOK'
    BY TypeStep
  <2>3. ASSUME NEW ph \in {"preparing", "retiring"}, NEW th \in Threads,
               NEW f \in BOOLEAN, Launch(w, ph, th, f), w \in nativeWork
        PROVE  Barrier'
    <3>1. /\ \A v \in Works : v # w => work'[v] = work[v]
          /\ work'[w].key = work[w].key /\ work'[w].phase = ph
      BY <2>1, <2>3 DEF Launch, TypeOK, WorkRecord
    <3> QED BY <2>1, <2>2, <2>3, <3>1, RegisteredBarrier DEF Launch, nativeVars, TypeOK
  <2>4. CASE RunOwnedStarts(w)
    <3>1. w \in nativeWork /\ work[w].thread \notin Executing /\ "prep" \in Threads
      BY <2>1, <2>4 DEF RunOwnedStarts, BarrierAt, Executing, Threads
    <3> QED BY <2>1, <2>3, <2>4, <3>1, SettleBarrier DEF RunOwnedStarts
  <2>5. CASE Prepared(w)
    <3>1. w \in nativeWork /\ work[w].thread \notin Executing
      BY <2>1, <2>5 DEF Prepared, BarrierAt, Executing
    <3>2. CASE Settle(w, TRUE) \/ Settle(w, FALSE)
      BY <2>1, <3>1, <3>2, SettleBarrier
    <3>3. ASSUME NEW owner \in BOOLEAN,
                 \/ work' = [work EXCEPT ![w].phase = "running", ![w].thread = "run",
                                         ![w].owner = owner]
                 \/ work' = [work EXCEPT ![w].phase = "retiring", ![w].thread = "retire",
                                         ![w].owner = TRUE],
                 UNCHANGED nativeVars
          PROVE  Barrier'
      <4>1. /\ \A v \in Works : v # w => work'[v] = work[v]
            /\ work'[w].key = work[w].key
            /\ work'[w].phase \in {"preparing", "running", "retiring", "finished"}
        BY <2>1, <3>3 DEF TypeOK, WorkRecord
      <4> QED BY <2>1, <2>2, <3>1, <3>3, <4>1, RegisteredBarrier DEF nativeVars, TypeOK
    <3> QED BY <2>5, <3>2, <3>3 DEF Prepared
  <2>6. CASE RunReturned(w)
    <3>1. w \in nativeWork /\ work[w].thread \notin Executing /\ "retire" \in Threads
      BY <2>1, <2>6 DEF RunReturned, BarrierAt, Executing, Threads
    <3> QED BY <2>1, <2>3, <2>6, <3>1, SettleBarrier DEF RunReturned
  <2>7. CASE Retired(w)
    <3>1. w \in nativeWork /\ work[w].thread \notin Executing
            /\ (work[w].failed \/ work[w].thread = "error") \in BOOLEAN
      BY <2>1, <2>7 DEF Retired, BarrierAt, Executing
    <3> QED BY <2>1, <2>7, <3>1, SettleBarrier DEF Retired
  <2>8. CASE ThreadReturns(w)
    <3>1. PICK result \in {"ok", "error"} :
            work' = [work EXCEPT ![w].thread =
                        IF work[w].phase = "finished" THEN "idle" ELSE result]
      BY <2>8 DEF ThreadReturns
    <3>2. w \in nativeWork
      BY <2>1, <2>8 DEF ThreadReturns, BarrierAt
    <3>3. work[w].phase \in {"preparing", "running", "retiring", "finished"}
      BY <2>1, <2>8 DEF ThreadReturns, BarrierAt, WorkRecord, Phases, Executing
    <3>4. /\ \A v \in Works : v # w => work'[v] = work[v]
          /\ work'[w].key = work[w].key /\ work'[w].phase = work[w].phase
      BY <2>1, <3>1 DEF TypeOK, WorkRecord
    <3> QED BY <2>1, <2>2, <2>8, <3>2, <3>3, <3>4, RegisteredBarrier
            DEF ThreadReturns, nativeVars, TypeOK
  <2>9. CASE FutureCancelled(w)
    <3>1. w \in nativeWork
      BY <2>1, <2>9 DEF FutureCancelled, BarrierAt
    <3> QED BY <2>1, <2>9, <3>1, SettleBarrier DEF FutureCancelled
  <2> QED BY <1>7, <2>4, <2>5, <2>6, <2>7, <2>8, <2>9 DEF OwnerStep
<1>8. CASE Stop \/ DrainStep
  BY <1>1, <1>8 DEF Stop, DrainStep, DrainCancelsWorkers, DrainJoinsWorkers,
                    DrainJoinsNative, nativeVars
<1>9. ASSUME NEW o \in Orgs, CloseOrg(o) PROVE Barrier'
  <2>1. UNCHANGED <<work, nativeWork, users>>
    BY <1>9 DEF CloseOrg, nativeVars
  <2>2. ASSUME NEW w \in Works, w \in nativeWork
        PROVE  org'[SlugOf[work[w].key]] = org[SlugOf[work[w].key]]
    BY <1>9, <2>2 DEF CloseOrg, RunnersIdle, Barrier, TypeOK
  <2> QED BY <2>1, <2>2 DEF Barrier, BarrierAt
<1>10. CASE UNCHANGED vars
  BY <1>1, <1>10 DEF vars
<1> QED
  BY <1>3, <1>4, <1>5, <1>6, <1>7, <1>8, <1>9, <1>10 DEF Next, ConsumerStep

-----------------------------------------------------------------------------
(* The drain                                                               *)

\* The drain moves on only past the joins it claims, and behind the fence
\* no work is registered any more.
LEMMA DrainProgress ==
    ASSUME TypeOK, PublishSound, QueueSound, Barrier, DrainSound, [Next]_vars
    PROVE  DrainSound'
<1>1. CASE UNCHANGED <<stopping, drain, consumer, nativeWork>>
  BY <1>1 DEF DrainSound, WorkersJoined
<1>2. ASSUME NEW k \in Keys, PlainEnqueue(k) PROVE DrainSound'
  BY <1>1, <1>2 DEF PlainEnqueue, nativeVars, stopVars
<1>3. ASSUME NEW p \in Producers, ProducerStep(p) \/ RunPut(p) PROVE DrainSound'
  BY <1>1, <1>3 DEF ProducerStep, ReserveBoundedEnqueue, AdapterEnqueue, PublishDirect,
                    PublisherDeclines, SubmitPut, SubmitPutRaises, PublishReturns, RunPut,
                    nativeVars, stopVars
<1>4. ASSUME NEW c \in Consumers, Take(c) PROVE DrainSound'
  <2>1. consumer[c].pc = "get" /\ UNCHANGED <<stopping, drain>>
    BY <1>4 DEF Take, stopVars
  <2>2. drain \notin {"native", "clean", "incomplete"}
    BY <2>1 DEF DrainSound, WorkersJoined
  <2> QED BY <2>1, <2>2 DEF DrainSound
<1>5. ASSUME NEW c \in Consumers, ConsumeReturns(c) PROVE DrainSound'
  <2>1. consumer[c].pc = "consume" /\ UNCHANGED <<stopping, drain>>
    BY <1>5 DEF ConsumeReturns, stopVars
  <2>2. drain \notin {"native", "clean", "incomplete"}
    BY <2>1 DEF DrainSound, WorkersJoined
  <2> QED BY <2>1, <2>2 DEF DrainSound
<1>6. ASSUME NEW c \in Consumers, ConsumerCancelled(c) PROVE DrainSound'
  <2>1. UNCHANGED <<stopping, drain, nativeWork>>
    BY <1>6 DEF ConsumerCancelled, nativeVars
  <2>2. WorkersJoined => WorkersJoined'
    BY <1>6 DEF ConsumerCancelled, WorkersJoined, TypeOK
  <2> QED BY <2>1, <2>2 DEF DrainSound
<1>7. ASSUME NEW w \in Works, OwnerStep(w) \/ ThreadReturns(w) \/ FutureCancelled(w)
      PROVE  DrainSound'
  <2>1. UNCHANGED <<stopping, drain, consumer>>
    BY <1>7, NativeKeeps DEF NativeUnchanged, stopVars
  <2>2. nativeWork' \subseteq nativeWork
    BY <1>7 DEF OwnerStep, RunOwnedStarts, Prepared, RunReturned, Retired, ThreadReturns,
                FutureCancelled, Settle, Launch, nativeVars
  <2> QED BY <2>1, <2>2 DEF DrainSound, WorkersJoined
<1>8. CASE Stop
  BY <1>8 DEF Stop, DrainSound
<1>9. CASE DrainStep
  <2>1. CASE DrainCancelsWorkers
    BY <2>1 DEF DrainCancelsWorkers, DrainSound
  <2>2. CASE DrainJoinsWorkers
    BY <2>2 DEF DrainJoinsWorkers, DrainSound, WorkersJoined
  <2>3. CASE DrainJoinsNative
    BY <2>3 DEF DrainJoinsNative, DrainVerdict, DrainSound, WorkersJoined, nativeVars
  <2> QED BY <1>9, <2>1, <2>2, <2>3 DEF DrainStep
<1>10. ASSUME NEW o \in Orgs, CloseOrg(o) PROVE DrainSound'
  BY <1>1, <1>10 DEF CloseOrg, nativeVars
<1>11. CASE UNCHANGED vars
  BY <1>1, <1>11 DEF vars
<1> QED
  BY <1>2, <1>3, <1>4, <1>5, <1>6, <1>7, <1>8, <1>9, <1>10, <1>11 DEF Next, ConsumerStep

-----------------------------------------------------------------------------
(* Theorems on native works and shutdown                                   *)

\* The inductive invariant behind the close barrier.
BarrierInv == TypeOK /\ PublishSound /\ QueueSound /\ Barrier /\ DrainSound

\* The barrier holds from construction on.
LEMMA BarrierInvariant == Spec => []BarrierInv
<1>1. Init => BarrierInv
  <2> SUFFICES ASSUME Init PROVE BarrierInv
    OBVIOUS
  <2>1. PublishSound
    BY DEF Init, PublishSound, IdleProducer
  <2>2. QueueSound
    BY DEF Init, QueueSound
  <2>3. Barrier
    BY DEF Init, Barrier, BarrierAt, FreeWork, Executing
  <2>4. DrainSound
    BY DEF Init, DrainSound
  <2> QED BY <2>1, <2>2, <2>3, <2>4, InitType DEF BarrierInv
<1>2. BarrierInv /\ [Next]_vars => BarrierInv'
  BY TypeStep, PublishStep, QueueStep, BarrierStep, DrainProgress DEF BarrierInv
<1> QED BY <1>1, <1>2, PTL DEF Spec

\* No executor thread of any delivery ever runs against a closed database:
\* what _native_task_users holds outlives cancelled consumers, cancelled
\* Futures and failed owners.
THEOREM OrgOutlivesThreads == Spec => []ThreadsHaveOpenOrg
<1>1. BarrierInv => ThreadsHaveOpenOrg
  BY DEF BarrierInv, Barrier, BarrierAt, ThreadsHaveOpenOrg
<1> QED BY <1>1, BarrierInvariant, PTL

\* A drain that ends clean has joined every worker, and no executor thread
\* and no failed work is left.
THEOREM CleanDrainCorrect == Spec => []CleanDrainIsQuiet
<1>1. BarrierInv => CleanDrainIsQuiet
  <2> SUFFICES ASSUME BarrierInv, drain = "clean"
               PROVE  /\ WorkersJoined
                      /\ \A w \in Works : work[w].thread \notin Executing /\ ~work[w].failed
    BY DEF CleanDrainIsQuiet
  <2>1. WorkersJoined /\ nativeWork = {}
    BY DEF BarrierInv, DrainSound
  <2>2. ASSUME NEW w \in Works PROVE work[w].thread \notin Executing /\ ~work[w].failed
    <3>1. work[w].failed \in BOOLEAN
      BY DEF BarrierInv, TypeOK, WorkRecord
    <3> QED BY <2>1, <3>1 DEF BarrierInv, Barrier, BarrierAt
  <2> QED BY <2>1, <2>2
<1> QED BY <1>1, BarrierInvariant, PTL

\* Behind the fence of stop nothing launches run_step any more.
THEOREM FenceHolds == Spec => NoLaunchAfterStop
<1> DEFINE Step == stopping => \A w \in Works : work'[w].thread = "run" => work[w].thread = "run"
<1>1. ASSUME TypeOK, [Next]_vars, stopping, NEW v \in Works, work'[v].thread = "run"
      PROVE  work[v].thread = "run"
  <2>1. CASE UNCHANGED work
    BY <1>1, <2>1
  <2>2. ASSUME NEW w \in Works, OwnerStep(w) \/ ThreadReturns(w) \/ FutureCancelled(w)
        PROVE  work[v].thread = "run"
    <3>1. work[w] \in WorkRecord
      BY <1>1 DEF TypeOK
    <3>2. ASSUME NEW f \in BOOLEAN, Settle(w, f) PROVE work[v].thread = "run"
      BY <1>1, <3>1, <3>2 DEF Settle, TypeOK, WorkRecord
    <3>3. ASSUME NEW ph, NEW th, NEW f, Launch(w, ph, th, f), th # "run"
          PROVE  work[v].thread = "run"
      BY <1>1, <3>1, <3>3 DEF Launch, TypeOK, WorkRecord
    <3>4. CASE RunOwnedStarts(w)
      BY <3>2, <3>3, <3>4 DEF RunOwnedStarts
    <3>5. CASE Prepared(w)
      <4>1. ~StillWanted(w)
        BY <1>1 DEF StillWanted, Withdrawn
      <4>2. CASE work' = [work EXCEPT ![w].phase = "retiring", ![w].thread = "retire",
                                      ![w].owner = TRUE]
        BY <1>1, <3>1, <4>2 DEF TypeOK, WorkRecord
      <4> QED BY <3>2, <3>5, <4>1, <4>2 DEF Prepared
    <3>6. CASE RunReturned(w)
      BY <3>2, <3>3, <3>6 DEF RunReturned
    <3>7. CASE Retired(w)
      <4>1. (work[w].failed \/ work[w].thread = "error") \in BOOLEAN
        OBVIOUS
      <4> QED BY <3>2, <3>7, <4>1 DEF Retired
    <3>8. CASE ThreadReturns(w)
      BY <1>1, <3>1, <3>8 DEF ThreadReturns, TypeOK, WorkRecord
    <3>9. CASE FutureCancelled(w)
      BY <3>2, <3>9 DEF FutureCancelled
    <3> QED BY <2>2, <3>4, <3>5, <3>6, <3>7, <3>8, <3>9 DEF OwnerStep
  <2>3. ASSUME NEW c \in Consumers, ConsumerStep(c) PROVE work[v].thread = "run"
    <3>1. CASE Take(c)
      <4>1. PICK w \in Works : \/ work' = [work EXCEPT ![w].phase = "submitted"]
                               \/ work' = [work EXCEPT ![w].phase = "dropped"]
        <5>1. Head(queue) \in Works
          BY <1>1, <3>1 DEF Take, TypeOK
        <5> QED BY <3>1, <5>1 DEF Take
      <4>2. work[w] \in WorkRecord /\ work[v] \in WorkRecord
        BY <1>1 DEF TypeOK
      <4>3. work \in [Works -> WorkRecord]
        BY <1>1 DEF TypeOK
      <4>4. work'[v].thread = work[v].thread
        <5>1. CASE work' = [work EXCEPT ![w].phase = "submitted"]
          BY <4>2, <4>3, <5>1 DEF WorkRecord
        <5>2. CASE work' = [work EXCEPT ![w].phase = "dropped"]
          BY <4>2, <4>3, <5>2 DEF WorkRecord
        <5> QED BY <4>1, <5>1, <5>2
      <4> QED BY <1>1, <4>4
    <3>2. CASE ConsumeReturns(c)
      BY <1>1, <3>2 DEF ConsumeReturns
    <3>3. CASE ConsumerCancelled(c)
      <4>1. CASE work' = work
        BY <1>1, <4>1
      <4>2. CASE work' = [work EXCEPT ![consumer[c].work].abandoned = TRUE]
        <5> DEFINE u == consumer[c].work
        <5>1. CASE u = v
          <6>1. work[v] \in WorkRecord
            BY <1>1 DEF TypeOK
          <6> QED BY <1>1, <4>2, <5>1, <6>1 DEF TypeOK, WorkRecord
        <5>2. CASE u # v
          BY <1>1, <4>2, <5>2 DEF TypeOK
        <5> QED BY <5>1, <5>2
      <4> QED BY <3>3, <4>1, <4>2 DEF ConsumerCancelled
    <3> QED BY <2>3, <3>1, <3>2, <3>3 DEF ConsumerStep
  <2>4. ASSUME \/ \E k \in Keys : PlainEnqueue(k)
               \/ \E p \in Producers : ProducerStep(p) \/ RunPut(p)
               \/ Stop \/ DrainStep \/ \E o \in Orgs : CloseOrg(o)
               \/ UNCHANGED vars
        PROVE  UNCHANGED work
    BY <1>1, <2>4 DEF PlainEnqueue, ProducerStep, ReserveBoundedEnqueue, AdapterEnqueue,
         PublishDirect, PublisherDeclines, SubmitPut, SubmitPutRaises, PublishReturns,
         RunPut, Enqueue, Stop, DrainStep, DrainCancelsWorkers, DrainJoinsWorkers,
         DrainJoinsNative, CloseOrg, vars
  <2> QED BY <1>1, <2>1, <2>2, <2>3, <2>4 DEF Next
<1>2. TypeOK /\ [Next]_vars => [Step]_vars
  BY <1>1
<1> QED BY <1>2, TypeCorrect, PTL DEF Spec, NoLaunchAfterStop

=============================================================================
