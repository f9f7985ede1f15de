--------------------------- MODULE PublicationProofs ---------------------------
(***************************************************************************)
(* Proofs about publication in TaskQueue, for any sets of keys, producers, *)
(* consumers and deliveries: counts are exact, a reservation has one       *)
(* holder, and bounded wakes are never doubled.                            *)
(***************************************************************************)
EXTENDS TaskQueueProofs

-----------------------------------------------------------------------------
(* The inductive invariant                                                 *)

\* A bounded producer about to publish, or whose callback the loop still has.
MayPut(p) ==
    producer[p].bounded = TRUE /\ (producer[p].pc = "publish" \/ producer[p].posted = TRUE)

BoundedItem(i, k) == work[queue[i]].bounded = TRUE /\ work[queue[i]].key = k

\* A bounded producer that can still put finds no bounded item of its key.
Unplaced ==
    \A p \in Producers : MayPut(p) =>
        \A i \in 1 .. Len(queue) : ~BoundedItem(i, producer[p].key)

PublicationInv ==
    TypeOK /\ PublishSound /\ QueueSound /\ CountsExact /\ OneHolder
      /\ Unplaced /\ BoundedWake

-----------------------------------------------------------------------------
(* What a put and a get do to the queue                                    *)

\* A put appends one delivery and leaves the others as they are.
LEMMA PutEffect ==
    ASSUME TypeOK, QueueSound, NEW k \in Keys, NEW b \in BOOLEAN, Enqueue(k, b)
    PROVE  \/ UNCHANGED <<queue, pending, work>>
           \/ /\ Len(queue) \in Nat /\ Len(queue') = Len(queue) + 1
              /\ \A i \in 1 .. Len(queue) :
                    queue'[i] = queue[i] /\ work'[queue'[i]] = work[queue[i]]
              /\ work'[queue'[Len(queue) + 1]].key = k
              /\ work'[queue'[Len(queue) + 1]].bounded = b
              /\ pending' = [pending EXCEPT ![k] = @ + 1]
<1>1. ASSUME NEW w \in Works, work[w].phase = "free", queue' = Append(queue, w),
             work' = [work EXCEPT ![w] = [FreeWork EXCEPT
                            !.phase = "queued", !.key = k, !.bounded = b]]
      PROVE  /\ Len(queue) \in Nat /\ Len(queue') = Len(queue) + 1
             /\ \A i \in 1 .. Len(queue) :
                   queue'[i] = queue[i] /\ work'[queue'[i]] = work[queue[i]]
             /\ work'[queue'[Len(queue) + 1]].key = k
             /\ work'[queue'[Len(queue) + 1]].bounded = b
  <2>1. work'[w].key = k /\ work'[w].bounded = b
    BY <1>1 DEF TypeOK, FreeWork
  <2>2. \A i \in 1 .. Len(queue) : queue[i] \in Works /\ queue[i] # w
    BY <1>1 DEF QueueSound, TypeOK
  <2>3. /\ Len(queue) \in Nat /\ Len(queue') = Len(queue) + 1
        /\ queue'[Len(queue) + 1] = w
        /\ \A i \in 1 .. Len(queue) : queue'[i] = queue[i]
    BY <1>1 DEF TypeOK
  <2>4. \A i \in 1 .. Len(queue) : work'[queue[i]] = work[queue[i]]
    BY <1>1, <2>2 DEF TypeOK
  <2> QED BY <2>1, <2>3, <2>4
<1> QED BY <1>1 DEF Enqueue

\* A get takes the first delivery and shifts the others, keys unchanged.
LEMMA GetEffect ==
    ASSUME TypeOK, QueueSound, NEW c \in Consumers, Take(c)
    PROVE  /\ Len(queue) \in Nat \ {0} /\ Len(queue') = Len(queue) - 1
           /\ \A i \in 1 .. Len(queue') :
                /\ i + 1 \in 1 .. Len(queue)
                /\ work'[queue'[i]].key = work[queue[i + 1]].key
                /\ work'[queue'[i]].bounded = work[queue[i + 1]].bounded
           /\ work[queue[1]].key \in Keys
           /\ pending' = RecordDequeue(work[queue[1]].key)
           /\ UNCHANGED <<reserved, producer>>
<1>1. queue # <<>> /\ queue' = Tail(queue)
  BY DEF Take
<1>2. /\ Len(queue) \in Nat \ {0} /\ Len(queue') = Len(queue) - 1
      /\ \A i \in 1 .. Len(queue') : i + 1 \in 1 .. Len(queue) /\ queue'[i] = queue[i + 1]
      /\ Head(queue) = queue[1] /\ 1 \in 1 .. Len(queue)
  BY <1>1 DEF TypeOK
<1>3. \A v \in Works : work'[v].key = work[v].key /\ work'[v].bounded = work[v].bounded
  <2>1. PICK ph \in {"submitted", "dropped"} : work' = [work EXCEPT ![Head(queue)].phase = ph]
    BY DEF Take
  <2>2. \A v \in Works : v # Head(queue) => work'[v] = work[v]
    BY <2>1 DEF TypeOK
  <2>3. Head(queue) \in Works
    BY <1>1 DEF TypeOK
  <2>4. work'[Head(queue)] = [work[Head(queue)] EXCEPT !.phase = ph]
    BY <2>1, <2>3 DEF TypeOK
  <2>5. work[Head(queue)] \in WorkRecord
    BY <2>3 DEF TypeOK
  <2>6. /\ work'[Head(queue)].key = work[Head(queue)].key
        /\ work'[Head(queue)].bounded = work[Head(queue)].bounded
    BY <2>4, <2>5 DEF WorkRecord
  <2> QED BY <2>2, <2>6
<1>4. \A i \in 1 .. Len(queue) : queue[i] \in Works
  BY DEF TypeOK
<1>5. work[queue[1]].key \in Keys
  BY <1>2 DEF QueueSound
<1>6. pending' = RecordDequeue(work[queue[1]].key) /\ UNCHANGED <<reserved, producer>>
  BY <1>2 DEF Take, producerVars
<1> QED BY <1>2, <1>3, <1>4, <1>5, <1>6

-----------------------------------------------------------------------------
(* Counts                                                                  *)

\* The items of a key are finitely many.
LEMMA QueuedFinite ==
    ASSUME TypeOK, NEW k
    PROVE  /\ QueuedAt(k) \subseteq 1 .. Len(queue)
           /\ IsFiniteSet(QueuedAt(k)) /\ Cardinality(QueuedAt(k)) \in Nat
<1>1. Len(queue) \in Nat /\ DOMAIN queue = 1 .. Len(queue)
  BY DEF TypeOK
<1>2. QueuedAt(k) \in SUBSET (1 .. Len(queue))
  BY <1>1 DEF QueuedAt
<1>3. IsFiniteSet(1 .. Len(queue))
  BY <1>1, FS_Interval
<1>4. IsFiniteSet(QueuedAt(k))
  BY <1>2, <1>3, FS_Subset
<1> QED BY <1>2, <1>4, FS_CardinalityType

\* A set of positive indices without 1, shifted down, keeps its size.
LEMMA ShiftedSize ==
    ASSUME NEW S \in SUBSET (Nat \ {0}), NEW T \in SUBSET (Nat \ {0}), IsFiniteSet(S),
           \A i \in T : i + 1 \in S,
           \A i \in S : i = 1 \/ i - 1 \in T
    PROVE  Cardinality(T) = Cardinality(S \ {1})
<1> DEFINE f == [i \in S \ {1} |-> i - 1]
<1>1. f \in [S \ {1} -> T]
  OBVIOUS
<1>2. \A i, j \in S \ {1} : f[i] = f[j] => i = j
  OBVIOUS
<1>3. \A t \in T : \E i \in S \ {1} : f[i] = t
  <2> TAKE t \in T
  <2>1. t + 1 \in S \ {1} /\ f[t + 1] = t
    OBVIOUS
  <2> QED BY <2>1
<1>4. f \in Bijection(S \ {1}, T)
  BY <1>1, <1>2, <1>3 DEF Bijection, Injection, Surjection, IsInjective
<1>5. IsFiniteSet(S \ {1})
  BY FS_RemoveElement
<1> HIDE DEF f
<1>6. ExistsBijection(S \ {1}, T)
  BY <1>4 DEF ExistsBijection
<1> QED BY <1>5, <1>6, FS_Bijection

\* Counts stay exact: a put adds an index and one, a get removes the first
\* index and one, and nothing else moves either.
LEMMA CountStep ==
    ASSUME TypeOK, PublishSound, QueueSound, CountsExact, [Next]_vars PROVE CountsExact'
<1>1. ASSUME NEW k \in Keys, NEW b \in BOOLEAN, Enqueue(k, b) PROVE CountsExact'
  <2>1. CASE UNCHANGED <<queue, pending, work>>
    BY <2>1 DEF CountsExact, QueuedAt
  <2>2. CASE /\ Len(queue) \in Nat /\ Len(queue') = Len(queue) + 1
             /\ \A i \in 1 .. Len(queue) :
                   queue'[i] = queue[i] /\ work'[queue'[i]] = work[queue[i]]
             /\ work'[queue'[Len(queue) + 1]].key = k
             /\ pending' = [pending EXCEPT ![k] = @ + 1]
    <3>1. TypeOK'
      BY TypeStep
    <3>2. DOMAIN queue = 1 .. Len(queue) /\ DOMAIN queue' = 1 .. Len(queue) + 1
      BY <2>2, <3>1 DEF TypeOK
    <3>3. ASSUME NEW l \in Keys, l # k PROVE pending'[l] = Cardinality(QueuedAt(l)')
      <4>1. QueuedAt(l)' = QueuedAt(l)
        BY <2>2, <3>2, <3>3 DEF QueuedAt
      <4>2. pending'[l] = pending[l]
        BY <2>2, <3>3 DEF TypeOK
      <4> QED BY <4>1, <4>2 DEF CountsExact
    <3>4. pending'[k] = Cardinality(QueuedAt(k)')
      <4>1. QueuedAt(k)' = QueuedAt(k) \cup {Len(queue) + 1}
        BY <2>2, <3>2 DEF QueuedAt
      <4>2. Len(queue) + 1 \notin QueuedAt(k)
        BY <2>2, <3>2 DEF QueuedAt
      <4>3. Cardinality(QueuedAt(k)') = Cardinality(QueuedAt(k)) + 1
        BY <4>1, <4>2, QueuedFinite, FS_AddElement
      <4>4. pending'[k] = pending[k] + 1
        BY <2>2 DEF TypeOK
      <4> QED BY <4>3, <4>4 DEF CountsExact
    <3> QED BY <3>3, <3>4 DEF CountsExact
  <2> QED BY <1>1, <2>1, <2>2, PutEffect
<1>2. ASSUME NEW c \in Consumers, Take(c) PROVE CountsExact'
  <2> DEFINE h == work[queue[1]].key
  <2>1. /\ Len(queue) \in Nat \ {0} /\ Len(queue') = Len(queue) - 1
        /\ \A i \in 1 .. Len(queue') :
             /\ i + 1 \in 1 .. Len(queue)
             /\ work'[queue'[i]].key = work[queue[i + 1]].key
        /\ h \in Keys
        /\ pending' = RecordDequeue(h)
    BY <1>2, GetEffect
  <2>2. TypeOK'
    BY TypeStep
  <2>3. DOMAIN queue = 1 .. Len(queue) /\ DOMAIN queue' = 1 .. Len(queue) - 1
    BY <2>1, <2>2 DEF TypeOK
  <2> SUFFICES ASSUME NEW k \in Keys PROVE pending'[k] = Cardinality(QueuedAt(k)')
    BY DEF CountsExact
  <2>4. Cardinality(QueuedAt(k)') = Cardinality(QueuedAt(k) \ {1})
    <3>1. QueuedAt(k) \in SUBSET (Nat \ {0}) /\ QueuedAt(k)' \in SUBSET (Nat \ {0})
      BY <2>1, <2>3 DEF QueuedAt
    <3>2. \A i \in QueuedAt(k)' : i + 1 \in QueuedAt(k)
      BY <2>1, <2>3 DEF QueuedAt
    <3>3. \A i \in QueuedAt(k) : i = 1 \/ i - 1 \in QueuedAt(k)'
      <4> SUFFICES ASSUME NEW i \in QueuedAt(k), i # 1 PROVE i - 1 \in QueuedAt(k)'
        OBVIOUS
      <4>1. i \in 2 .. Len(queue) /\ work[queue[i]].key = k
        BY <2>1, <2>3 DEF QueuedAt
      <4>2. i - 1 \in 1 .. Len(queue') /\ (i - 1) + 1 = i
        BY <2>1, <4>1
      <4>3. work'[queue'[i - 1]].key = k
        BY <2>1, <4>1, <4>2
      <4> QED BY <2>1, <2>3, <4>2, <4>3 DEF QueuedAt
    <3> QED BY <3>1, <3>2, <3>3, QueuedFinite, ShiftedSize
  <2>5. CASE k # h
    <3>1. 1 \notin QueuedAt(k)
      BY <2>5 DEF QueuedAt
    <3>2. Cardinality(QueuedAt(k) \ {1}) = Cardinality(QueuedAt(k))
      BY <3>1, QueuedFinite, FS_RemoveElement
    <3>3. pending'[k] = pending[k]
      BY <2>1, <2>5 DEF RecordDequeue, TypeOK
    <3> QED BY <2>4, <3>2, <3>3 DEF CountsExact
  <2>6. CASE k = h
    <3>1. 1 \in QueuedAt(k)
      BY <2>1, <2>3, <2>6 DEF QueuedAt
    <3>2. Cardinality(QueuedAt(k) \ {1}) = Cardinality(QueuedAt(k)) - 1
      BY <3>1, QueuedFinite, FS_RemoveElement
    <3>3. Cardinality(QueuedAt(k)) \in Nat \ {0}
      BY <3>1, QueuedFinite, FS_EmptySet
    <3>4. pending[k] \in Nat \ {0} /\ pending[k] = Cardinality(QueuedAt(k))
      BY <3>3 DEF CountsExact
    <3>5. pending'[k] = pending[k] - 1
      BY <2>1, <2>6, <3>4 DEF RecordDequeue, TypeOK
    <3> QED BY <2>4, <3>2, <3>4, <3>5
  <2> QED BY <2>5, <2>6
<1>3. CASE queue' = queue /\ pending' = pending /\ Kept
  <2>1. \A i \in DOMAIN queue : queue[i] \in Works
    BY DEF TypeOK
  <2>2. \A k \in Keys : QueuedAt(k)' = QueuedAt(k)
    BY <1>3, <2>1 DEF Kept, QueuedAt
  <2> QED BY <1>3, <2>2 DEF CountsExact
<1> QED BY <1>1, <1>2, <1>3, StepKinds

-----------------------------------------------------------------------------
(* Reservations                                                            *)

\* What only producers and their callbacks change.
PublicationUnchanged == UNCHANGED <<reserved, producer>>

\* Only producers and the callbacks they posted touch a publication.
LEMMA PublicationSteps ==
    ASSUME TypeOK, [Next]_vars
    PROVE  \/ \E p \in Producers : ProducerStep(p) \/ RunPut(p)
           \/ \E k \in Keys : PlainEnqueue(k)
           \/ \E c \in Consumers : Take(c)
           \/ PublicationUnchanged /\ queue' = queue /\ Kept
<1>1. ASSUME work' = work PROVE Kept
  BY <1>1 DEF Kept
<1>2. ASSUME NEW w \in Works, OwnerStep(w) \/ ThreadReturns(w) \/ FutureCancelled(w)
      PROVE  PublicationUnchanged /\ queue' = queue /\ Kept
  BY <1>2, NativeKeeps DEF NativeUnchanged, producerVars, PublicationUnchanged
<1>3. ASSUME NEW c \in Consumers, ConsumeReturns(c)
      PROVE  PublicationUnchanged /\ queue' = queue /\ Kept
  BY <1>1, <1>3 DEF ConsumeReturns, producerVars, PublicationUnchanged
<1>4. ASSUME NEW c \in Consumers, ConsumerCancelled(c)
      PROVE  PublicationUnchanged /\ queue' = queue /\ Kept
  BY <1>4 DEF ConsumerCancelled, Kept, TypeOK, WorkRecord, producerVars, PublicationUnchanged
<1>5. CASE Stop \/ DrainStep \/ \E o \in Orgs : CloseOrg(o)
  BY <1>1, <1>5 DEF Stop, DrainStep, DrainCancelsWorkers, DrainJoinsWorkers,
                    DrainJoinsNative, CloseOrg, producerVars, PublicationUnchanged
<1>6. CASE UNCHANGED vars
  BY <1>1, <1>6 DEF vars, PublicationUnchanged
<1> QED BY <1>2, <1>3, <1>4, <1>5, <1>6 DEF Next, ConsumerStep

\* A reservation is taken by a producer that finds none, and given up only
\* by the producer that holds it.
LEMMA HolderStep ==
    ASSUME TypeOK, PublishSound, OneHolder, [Next]_vars PROVE OneHolder'
<1>1. ASSUME NEW p \in Producers, ProducerStep(p) \/ RunPut(p) PROVE OneHolder'
  <2>1. producer[p] \in ProducerRecord
    BY DEF TypeOK
  <2>2. ASSUME NEW k \in Keys, ReserveBoundedEnqueue(p, k) PROVE OneHolder'
    <3>1. producer'[p].bounded /\ producer'[p].pc # "idle" /\ producer'[p].key = k
      BY <2>2 DEF ReserveBoundedEnqueue, IdleProducer, TypeOK
    <3>2. producer[p].pc = "idle" /\ k \notin reserved /\ reserved' = reserved \cup {k}
      BY <2>2 DEF ReserveBoundedEnqueue, MayReserve
    <3>3. \A q \in Producers : q # p => producer'[q] = producer[q]
      BY <2>2 DEF ReserveBoundedEnqueue, TypeOK
    <3> QED BY <3>1, <3>2, <3>3 DEF OneHolder, Holds
  <2>3. ASSUME NEW k \in Keys, AdapterEnqueue(p, k) PROVE OneHolder'
    <3>1. producer'[p].bounded = FALSE /\ producer[p].pc = "idle" /\ reserved' = reserved
      BY <2>3 DEF AdapterEnqueue, IdleProducer, TypeOK
    <3>2. \A q \in Producers : q # p => producer'[q] = producer[q]
      BY <2>3 DEF AdapterEnqueue, TypeOK
    <3> QED BY <3>1, <3>2 DEF OneHolder, Holds
  <2>4. ASSUME reserved' = reserved,
               \A q \in Producers : q # p => producer'[q] = producer[q],
               producer'[p].bounded = producer[p].bounded,
               producer'[p].key = producer[p].key,
               producer'[p].pc # "idle", producer[p].pc # "idle"
        PROVE  OneHolder'
    <3>1. \A q \in Producers, k \in Keys : Holds(q, k)' <=> Holds(q, k)
      BY <2>4 DEF Holds
    <3> QED BY <2>4, <3>1 DEF OneHolder
  <2>5. CASE PublishDirect(p)
    BY <2>1, <2>4, <2>5 DEF PublishDirect, TypeOK, ProducerRecord
  <2>6. CASE PublisherDeclines(p)
    BY <2>1, <2>4, <2>6 DEF PublisherDeclines, TypeOK, ProducerRecord
  <2>7. CASE SubmitPut(p)
    BY <2>1, <2>4, <2>7 DEF SubmitPut, TypeOK, ProducerRecord
  <2>8. CASE SubmitPutRaises(p)
    BY <2>1, <2>4, <2>8 DEF SubmitPutRaises, TypeOK, ProducerRecord
  <2>9. CASE RunPut(p)
    BY <2>1, <2>4, <2>9 DEF RunPut, TypeOK, ProducerRecord, PublishSound
  <2>10. CASE PublishReturns(p)
    <3>1. \A q \in Producers : q # p => producer'[q] = producer[q]
      BY <2>10 DEF PublishReturns, TypeOK
    <3>2. CASE producer[p].put = "pending"
      BY <2>1, <2>4, <2>10, <3>1, <3>2 DEF PublishReturns, Releases, TypeOK, ProducerRecord
    <3>3. CASE producer[p].put # "pending" /\ producer[p].bounded
      <4>1. producer'[p].pc = "idle" /\ reserved' = reserved \ {producer[p].key}
        BY <2>10, <3>3 DEF PublishReturns, Releases, TypeOK, IdleProducer
      <4>2. Holds(p, producer[p].key)
        BY <2>10, <3>3 DEF PublishReturns, Holds
      <4>3. \A q \in Producers, k \in Keys :
                Holds(q, k)' <=> q # p /\ Holds(q, k)
        BY <3>1, <4>1 DEF Holds
      <4>4. \A k \in Keys : Holds(p, k) => k = producer[p].key
        BY DEF Holds
      <4>5. producer[p].key \in Keys
        BY <2>10 DEF PublishReturns, PublishSound
      <4> QED BY <4>1, <4>2, <4>3, <4>4, <4>5 DEF OneHolder
    <3>4. CASE producer[p].put # "pending" /\ ~producer[p].bounded
      <4>1. producer'[p].pc = "idle" /\ reserved' = reserved
        BY <2>10, <3>4 DEF PublishReturns, Releases, TypeOK, IdleProducer
      <4>2. \A q \in Producers, k \in Keys : Holds(q, k)' <=> Holds(q, k)
        BY <3>1, <3>4, <4>1 DEF Holds
      <4> QED BY <4>1, <4>2 DEF OneHolder
    <3> QED BY <3>2, <3>3, <3>4
  <2> QED BY <1>1, <2>2, <2>3, <2>5, <2>6, <2>7, <2>8, <2>9, <2>10 DEF ProducerStep
<1>2. CASE PublicationUnchanged
  BY <1>2 DEF PublicationUnchanged, OneHolder, Holds
<1>3. ASSUME NEW k \in Keys, PlainEnqueue(k) PROVE PublicationUnchanged
  BY <1>3 DEF PlainEnqueue, producerVars, PublicationUnchanged
<1>4. ASSUME NEW c \in Consumers, Take(c) PROVE PublicationUnchanged
  BY <1>4 DEF Take, producerVars, PublicationUnchanged
<1> QED BY <1>1, <1>2, <1>3, <1>4, PublicationSteps

-----------------------------------------------------------------------------
(* Bounded wakes                                                           *)

\* A put by, or for, producer p, and what p may still do after it.
PutBy(p, b) ==
    /\ Enqueue(producer[p].key, b)
    /\ producer[p].key \in Keys
    /\ b = producer[p].bounded
    /\ b = TRUE => MayPut(p)
    /\ ~MayPut(p)'
    /\ producer'[p].key = producer[p].key
    /\ producer'[p].bounded = producer[p].bounded
    /\ \A q \in Producers : q # p => producer'[q] = producer[q]

\* A producer puts at most once: afterwards it may not put again.
LEMMA PutOnce ==
    ASSUME TypeOK, PublishSound, NEW p \in Producers, PublishDirect(p) \/ RunPut(p)
    PROVE  PutBy(p, producer[p].bounded)
<1>1. producer[p] \in ProducerRecord
  BY DEF TypeOK
<1>2. producer[p].key \in Keys
  BY DEF PublishSound, PublishDirect, RunPut
<1>3. CASE PublishDirect(p)
  <2>1. producer[p].bounded = TRUE /\ producer[p].pc = "publish"
    BY <1>1, <1>3 DEF PublishDirect, ProducerRecord
  <2>2. producer[p].posted = FALSE
    BY <1>1, <2>1 DEF PublishSound, ProducerRecord
  <2>3. /\ producer'[p].pc = "return" /\ producer'[p].posted = FALSE
        /\ producer'[p].key = producer[p].key /\ producer'[p].bounded = producer[p].bounded
        /\ \A q \in Producers : q # p => producer'[q] = producer[q]
    BY <1>1, <1>3, <2>2 DEF PublishDirect, TypeOK, ProducerRecord
  <2>4. Enqueue(producer[p].key, producer[p].bounded)
    BY <1>3, <2>1 DEF PublishDirect
  <2> QED BY <1>2, <2>1, <2>3, <2>4 DEF PutBy, MayPut
<1>4. CASE RunPut(p)
  <2>1. producer[p].posted = TRUE /\ producer[p].pc \in {"wait", "return", "uncertain"}
    BY <1>1, <1>4 DEF RunPut, PublishSound, ProducerRecord
  <2>2. /\ producer'[p].pc # "publish" /\ producer'[p].posted = FALSE
        /\ producer'[p].key = producer[p].key /\ producer'[p].bounded = producer[p].bounded
        /\ \A q \in Producers : q # p => producer'[q] = producer[q]
    BY <1>1, <1>4, <2>1 DEF RunPut, TypeOK, ProducerRecord
  <2>3. Enqueue(producer[p].key, producer[p].bounded)
    BY <1>4 DEF RunPut
  <2> QED BY <1>2, <2>1, <2>2, <2>3 DEF PutBy, MayPut
<1> QED BY <1>3, <1>4

\* Two bounded producers that may put have different keys, by the reservation.
LEMMA OneMayPut ==
    ASSUME TypeOK, PublishSound, OneHolder, NEW p \in Producers, NEW q \in Producers,
           MayPut(p), MayPut(q), producer[p].key = producer[q].key
    PROVE  p = q
<1>1. producer[p].pc # "idle" /\ producer[q].pc # "idle"
  BY DEF MayPut, PublishSound, TypeOK, ProducerRecord
<1>2. producer[p].key \in Keys
  BY <1>1 DEF PublishSound
<1>3. Holds(p, producer[p].key) /\ Holds(q, producer[p].key)
  BY <1>1 DEF Holds, MayPut
<1> QED BY <1>2, <1>3 DEF OneHolder

\* A put of a bounded producer is the only bounded item of its key.
LEMMA BoundedPut ==
    ASSUME TypeOK, PublishSound, QueueSound, OneHolder, Unplaced, BoundedWake,
           NEW p \in Producers, PutBy(p, producer[p].bounded)
    PROVE  Unplaced' /\ BoundedWake'
<1> DEFINE k == producer[p].key
           b == producer[p].bounded
<1>1. k \in Keys /\ b \in BOOLEAN /\ Enqueue(k, b)
  BY DEF PutBy, TypeOK, ProducerRecord
<1>2. \A q \in Producers : MayPut(q)' => q # p /\ MayPut(q) /\ producer'[q] = producer[q]
  BY DEF PutBy, MayPut
<1>3. CASE UNCHANGED <<queue, work>>
  BY <1>2, <1>3 DEF Unplaced, BoundedItem, BoundedWake
<1>4. CASE /\ Len(queue) \in Nat /\ Len(queue') = Len(queue) + 1
           /\ \A i \in 1 .. Len(queue) :
                 queue'[i] = queue[i] /\ work'[queue'[i]] = work[queue[i]]
           /\ work'[queue'[Len(queue) + 1]].key = k
           /\ work'[queue'[Len(queue) + 1]].bounded = b
  <2>3. \A i \in 1 .. Len(queue') : i \in 1 .. Len(queue) \/ i = Len(queue) + 1
    BY <1>4
  <2>4. Unplaced'
    <3> SUFFICES ASSUME NEW q \in Producers, MayPut(q)', NEW i \in 1 .. Len(queue')
                 PROVE  ~BoundedItem(i, producer[q].key)'
      BY DEF Unplaced
    <3>1. q # p /\ MayPut(q) /\ producer'[q].key = producer[q].key
      BY <1>2
    <3>2. CASE i \in 1 .. Len(queue)
      <4>1. ~BoundedItem(i, producer[q].key)
        BY <3>1, <3>2 DEF Unplaced
      <4> QED BY <1>4, <3>1, <3>2, <4>1 DEF BoundedItem
    <3>3. CASE i = Len(queue) + 1
      <4>1. b = TRUE => producer[q].key # k
        BY <3>1, OneMayPut DEF PutBy
      <4> QED BY <1>4, <3>1, <3>3, <4>1 DEF BoundedItem
    <3> QED BY <2>3, <3>2, <3>3
  <2>5. BoundedWake'
    <3>1. DOMAIN queue = 1 .. Len(queue) /\ \A i \in 1 .. Len(queue) : queue[i] \in Works
      BY DEF TypeOK
    <3>2. DOMAIN queue' = 1 .. Len(queue')
      BY <1>1, EnqueueType
    <3> SUFFICES ASSUME NEW i \in 1 .. Len(queue'), NEW j \in 1 .. Len(queue'), i # j,
                        work'[queue'[i]].bounded, work'[queue'[j]].bounded
                 PROVE  work'[queue'[i]].key # work'[queue'[j]].key
      BY <3>2 DEF BoundedWake
    <3>3. CASE i \in 1 .. Len(queue) /\ j \in 1 .. Len(queue)
      BY <1>4, <3>1, <3>3 DEF BoundedWake
    <3>4. ASSUME NEW n \in 1 .. Len(queue), work'[queue'[n]].bounded, b
          PROVE  work'[queue'[n]].key # k
      <4>1. b = TRUE /\ MayPut(p)
        BY <1>1, <3>4 DEF PutBy
      <4>2. ~BoundedItem(n, k)
        BY <4>1 DEF Unplaced
      <4>3. work[queue[n]].bounded \in BOOLEAN
        BY <3>1 DEF TypeOK, WorkRecord
      <4> QED BY <1>4, <3>4, <4>2, <4>3 DEF BoundedItem
    <3> QED BY <1>4, <2>3, <3>3, <3>4
  <2> QED BY <2>4, <2>5
<1> QED BY <1>1, <1>3, <1>4, PutEffect

\* An ordinary put adds an item that is not bounded, and changes no producer.
LEMMA PlainPut ==
    ASSUME TypeOK, QueueSound, Unplaced, BoundedWake, NEW k \in Keys,
           Enqueue(k, FALSE), UNCHANGED producer
    PROVE  Unplaced' /\ BoundedWake'
<1>1. CASE UNCHANGED <<queue, work>>
  BY <1>1 DEF Unplaced, BoundedItem, BoundedWake, MayPut
<1>2. CASE /\ Len(queue) \in Nat /\ Len(queue') = Len(queue) + 1
           /\ \A i \in 1 .. Len(queue) :
                 queue'[i] = queue[i] /\ work'[queue'[i]] = work[queue[i]]
           /\ work'[queue'[Len(queue) + 1]].bounded = FALSE
  <2>1. \A i \in 1 .. Len(queue') : i \in 1 .. Len(queue) \/ i = Len(queue) + 1
    BY <1>2
  <2>2. Unplaced'
    BY <1>2, <2>1 DEF Unplaced, BoundedItem, MayPut
  <2>3. DOMAIN queue = 1 .. Len(queue) /\ DOMAIN queue' = 1 .. Len(queue')
    BY EnqueueType DEF TypeOK
  <2>4. BoundedWake'
    BY <1>2, <2>1, <2>3 DEF BoundedWake
  <2> QED BY <2>2, <2>4
<1> QED BY <1>1, <1>2, PutEffect

\* A get leaves no more bounded items than there were.
LEMMA BoundedGet ==
    ASSUME TypeOK, QueueSound, Unplaced, BoundedWake, NEW c \in Consumers, Take(c)
    PROVE  Unplaced' /\ BoundedWake'
<1>1. /\ Len(queue) \in Nat \ {0} /\ Len(queue') = Len(queue) - 1
      /\ \A i \in 1 .. Len(queue') :
           /\ i + 1 \in 1 .. Len(queue)
           /\ work'[queue'[i]].key = work[queue[i + 1]].key
           /\ work'[queue'[i]].bounded = work[queue[i + 1]].bounded
      /\ UNCHANGED producer
  BY GetEffect
<1>2. Unplaced'
  BY <1>1 DEF Unplaced, BoundedItem, MayPut
<1>3. DOMAIN queue = 1 .. Len(queue) /\ DOMAIN queue' = 1 .. Len(queue')
  <2>1. queue' = Tail(queue) /\ queue # <<>>
    BY DEF Take
  <2> QED BY <2>1 DEF TypeOK
<1>4. BoundedWake'
  <2> SUFFICES ASSUME NEW i \in 1 .. Len(queue'), NEW j \in 1 .. Len(queue'), i # j,
                      work'[queue'[i]].bounded, work'[queue'[j]].bounded
               PROVE  work'[queue'[i]].key # work'[queue'[j]].key
    BY <1>3 DEF BoundedWake
  <2>1. i + 1 \in DOMAIN queue /\ j + 1 \in DOMAIN queue /\ i + 1 # j + 1
    BY <1>1, <1>3
  <2>2. work[queue[i + 1]].bounded /\ work[queue[j + 1]].bounded
    BY <1>1
  <2>3. work[queue[i + 1]].key # work[queue[j + 1]].key
    BY <2>1, <2>2 DEF BoundedWake
  <2>4. /\ work'[queue'[i]].key = work[queue[i + 1]].key
        /\ work'[queue'[j]].key = work[queue[j + 1]].key
    BY <1>1
  <2> QED BY <2>3, <2>4
<1> QED BY <1>2, <1>4

\* A reservation is granted only when no item of the key is in the queue.
LEMMA ReservedUnplaced ==
    ASSUME TypeOK, CountsExact, Unplaced, NEW p \in Producers, NEW k \in Keys,
           ReserveBoundedEnqueue(p, k)
    PROVE  Unplaced'
<1>1. pending[k] = 0 /\ queue' = queue /\ work' = work
  BY DEF ReserveBoundedEnqueue, MayReserve
<1>2. QueuedAt(k) = {}
  BY <1>1, QueuedFinite, FS_EmptySet DEF CountsExact
<1>3. \A i \in 1 .. Len(queue) : work[queue[i]].key # k
  BY <1>2 DEF QueuedAt, TypeOK
<1>4. producer'[p].key = k /\ \A q \in Producers : q # p => producer'[q] = producer[q]
  BY DEF ReserveBoundedEnqueue, TypeOK, IdleProducer
<1> QED BY <1>1, <1>3, <1>4 DEF Unplaced, BoundedItem, MayPut

\* No step lets a bounded producer put a second item of its key.
LEMMA BoundedStep ==
    ASSUME TypeOK, PublishSound, QueueSound, CountsExact, OneHolder, Unplaced,
           BoundedWake, [Next]_vars
    PROVE  Unplaced' /\ BoundedWake'
<1>1. ASSUME queue' = queue, Kept PROVE BoundedWake'
  <2>1. \A i \in DOMAIN queue : queue[i] \in Works
    BY DEF TypeOK
  <2> QED BY <1>1, <2>1 DEF Kept, BoundedWake
<1>2. ASSUME queue' = queue, Kept,
             \A q \in Producers : MayPut(q)' => MayPut(q) /\ producer'[q].key = producer[q].key
      PROVE  Unplaced'
  <2>1. \A i \in 1 .. Len(queue) : queue[i] \in Works
    BY DEF TypeOK
  <2> QED BY <1>2, <2>1 DEF Kept, Unplaced, BoundedItem
<1>3. ASSUME NEW p \in Producers, ProducerStep(p) \/ RunPut(p) PROVE Unplaced' /\ BoundedWake'
  <2>1. producer[p] \in ProducerRecord
    BY DEF TypeOK
  <2>2. CASE PublishDirect(p) \/ RunPut(p)
    BY <2>2, PutOnce, BoundedPut
  <2>3. ASSUME NEW k \in Keys, ReserveBoundedEnqueue(p, k) PROVE Unplaced' /\ BoundedWake'
    <3>1. queue' = queue /\ Kept
      BY <2>3 DEF ReserveBoundedEnqueue, Kept
    <3> QED BY <1>1, <2>3, <3>1, ReservedUnplaced
  <2>4. ASSUME queue' = queue, work' = work,
               MayPut(p)' => MayPut(p) /\ producer'[p].key = producer[p].key,
               \A q \in Producers : q # p => producer'[q] = producer[q]
        PROVE  Unplaced' /\ BoundedWake'
    <3>1. Kept
      BY <2>4 DEF Kept
    <3>2. \A q \in Producers : MayPut(q)' => MayPut(q) /\ producer'[q].key = producer[q].key
      BY <2>4 DEF MayPut
    <3> QED BY <1>1, <1>2, <2>4, <3>1, <3>2
  <2>5. ASSUME NEW k \in Keys, AdapterEnqueue(p, k) PROVE Unplaced' /\ BoundedWake'
    <3>1. producer'[p].bounded = FALSE /\ \A q \in Producers : q # p => producer'[q] = producer[q]
      BY <2>5 DEF AdapterEnqueue, TypeOK, IdleProducer
    <3> QED BY <2>4, <2>5, <3>1 DEF AdapterEnqueue, MayPut
  <2>6. CASE PublisherDeclines(p)
    BY <2>1, <2>4, <2>6 DEF PublisherDeclines, TypeOK, ProducerRecord, MayPut
  <2>7. CASE SubmitPut(p)
    BY <2>1, <2>4, <2>7 DEF SubmitPut, TypeOK, ProducerRecord, MayPut
  <2>8. CASE SubmitPutRaises(p)
    <3>1. /\ producer[p].pc = "publish" /\ queue' = queue /\ work' = work
          /\ producer'[p].bounded = producer[p].bounded /\ producer'[p].key = producer[p].key
          /\ \A q \in Producers : q # p => producer'[q] = producer[q]
      BY <2>1, <2>8 DEF SubmitPutRaises, TypeOK, ProducerRecord
    <3> QED BY <2>4, <3>1 DEF MayPut
  <2>9. CASE PublishReturns(p)
    BY <2>1, <2>4, <2>9 DEF PublishReturns, TypeOK, ProducerRecord, IdleProducer, MayPut
  <2> QED BY <1>3, <2>2, <2>3, <2>5, <2>6, <2>7, <2>8, <2>9 DEF ProducerStep
<1>4. ASSUME NEW k \in Keys, PlainEnqueue(k) PROVE Unplaced' /\ BoundedWake'
  BY <1>4, PlainPut DEF PlainEnqueue, producerVars
<1>5. ASSUME NEW c \in Consumers, Take(c) PROVE Unplaced' /\ BoundedWake'
  BY <1>5, BoundedGet
<1>6. CASE PublicationUnchanged /\ queue' = queue /\ Kept
  BY <1>1, <1>2, <1>6 DEF PublicationUnchanged, MayPut
<1> QED BY <1>3, <1>4, <1>5, <1>6, PublicationSteps

-----------------------------------------------------------------------------
(* Theorems on publication                                                 *)

\* The invariant holds when the queue is constructed, and every step keeps it.
LEMMA PublicationInvariant == Spec => []PublicationInv
<1>1. Init => PublicationInv
  <2> SUFFICES ASSUME Init PROVE PublicationInv
    OBVIOUS
  <2>1. queue = <<>> /\ Len(queue) = 0 /\ DOMAIN queue = {}
    BY DEF Init
  <2>2. QueueSound /\ Unplaced /\ BoundedWake
    BY <2>1 DEF QueueSound, Unplaced, BoundedWake
  <2>3. CountsExact
    <3>1. \A k \in Keys : QueuedAt(k) = {} /\ pending[k] = 0
      BY <2>1 DEF QueuedAt, Init
    <3> QED BY <3>1, FS_EmptySet DEF CountsExact
  <2>4. PublishSound /\ OneHolder
    BY DEF Init, PublishSound, OneHolder, Holds, IdleProducer
  <2> QED BY <2>2, <2>3, <2>4, InitType DEF PublicationInv
<1>2. PublicationInv /\ [Next]_vars => PublicationInv'
  <2> SUFFICES ASSUME PublicationInv, [Next]_vars PROVE PublicationInv'
    OBVIOUS
  <2> USE DEF PublicationInv
  <2>1. TypeOK' /\ PublishSound' /\ QueueSound'
    BY TypeStep, PublishStep, QueueStep
  <2>2. CountsExact' /\ OneHolder'
    BY CountStep, HolderStep
  <2>3. Unplaced' /\ BoundedWake'
    BY BoundedStep
  <2> QED BY <2>1, <2>2, <2>3
<1> QED BY <1>1, <1>2, PTL DEF Spec

\* _pending_counts is the number of queued items of every key, for any
\* number of producers, workers and deliveries.
THEOREM CountsCorrect == Spec => []CountsExact
<1>1. PublicationInv => CountsExact
  BY DEF PublicationInv
<1> QED BY <1>1, PublicationInvariant, PTL

\* enqueue_if_absent neither leaks a reservation nor shares one.
THEOREM ReservationsCorrect == Spec => []OneHolder
<1>1. PublicationInv => OneHolder
  BY DEF PublicationInv
<1> QED BY <1>1, PublicationInvariant, PTL

\* However puts, gets and late loop callbacks interleave, bounded producers
\* never have two items of one key in the queue.
THEOREM WakesBounded == Spec => []BoundedWake
<1>1. PublicationInv => BoundedWake
  BY DEF PublicationInv
<1> QED BY <1>1, PublicationInvariant, PTL

=============================================================================
