-------------------------- MODULE ReplyDeliveryProofs --------------------------
(***************************************************************************)
(* Proofs about ReplyDelivery, for any number of agents, workers and       *)
(* messages: one wake per agent, nothing acknowledged unseen, no debt of a *)
(* closed exchange dropped, no launch past an open breaker, and the        *)
(* contract of WakeContract implemented.                                   *)
(***************************************************************************)
EXTENDS ReplyDelivery, FiniteSetTheorems, WellFoundedInduction, TLAPS

-----------------------------------------------------------------------------
(* The inductive invariant                                                 *)

\* What the columns of one pair say of each other, when the thread has s
\* messages: one wake, which is the one pending receipt; the watermarks in
\* order; a queued wake has something to deliver; a running one has claimed
\* a range it has been shown; a debt is for what no wake covers.
Row(p, s) ==
    /\ p \in PairRecord
    /\ p.queued = None \/ p.running = None
    /\ p.pending = {p.queued, p.running} \ {None}
    /\ p.ack <= p.req /\ p.req <= s /\ p.ack <= p.shown
    /\ p.queued # None => p.ack < p.req
    /\ p.running # None => p.ack < p.through /\ p.through <= p.req /\ p.through <= p.shown
    /\ p.owed => /\ p.catchup /\ p.ack < p.req /\ p.queued = None
                 /\ p.running # None => p.through < p.req

Rows == \A a \in Agents : Row(pair[a], seq)

\* Only a run, or an exchange that holds the agent back, delays a debt.
Debts == \A a \in Agents : pair[a].owed => pair[a].running # None \/ Held(exchange, a)

\* A launched worker's token is not the queued one, and a prepared worker
\* that still has the queued token read a breaker that has not opened since.
WorkerGood(w) ==
    /\ worker[w].pc # "idle" => worker[w].agent \in Agents
    /\ worker[w].agent \in Agents => worker[w].token \in Tokens
    /\ worker[w].pc = "prepared" => worker[w].req <= worker[w].seq
    /\ worker[w].pc = "launched" => worker[w].token # pair[worker[w].agent].queued
    /\ (worker[w].pc = "prepared" /\ worker[w].token = pair[worker[w].agent].queued)
          => pair[worker[w].agent].breaker # "open"

WorkerState == \A w \in Workers : WorkerGood(w)

ExchangeState ==
    /\ exchange.held # {} => exchange.open
    /\ exchange.held \cap exchange.cohort = {}
    /\ exchange.seq <= seq

Inv == TypeOK /\ Rows /\ Debts /\ WorkerState /\ ExchangeState

-----------------------------------------------------------------------------
(* Fresh tokens                                                            *)

\* The least of a non-empty set of naturals is one of its elements.
LEMMA MinElement ==
    ASSUME NEW S \in SUBSET Nat, S # {}
    PROVE  Min(S) \in S
<1> DEFINE R == {xy \in Nat \X Nat : xy[1] < xy[2]}
<1>1. IsWellFoundedOn(R, Nat)
  BY NatLessThanWellFounded, Zenon DEF OpToRel
<1> HIDE DEF R
<1>2. PICK x \in S : \A y \in S : ~(<<y, x>> \in R)
  BY <1>1, WFMin
<1>3. ASSUME NEW y \in S PROVE x <= y
  <2>1. y \in Nat /\ x \in Nat /\ <<y, x>> \in Nat \X Nat
    OBVIOUS
  <2>2. ~(y < x)
    BY <1>2, <2>1 DEF R
  <2>3. QED BY <2>1, <2>2
<1>4. QED BY <1>3 DEF Min

\* The greater of two numbers.
LEMMA MaxOfTwo ==
    ASSUME NEW x \in Nat, NEW y \in Nat
    PROVE  Max({x, y}) \in {x, y} /\ Max({x, y}) >= x /\ Max({x, y}) >= y
<1>1. \E z \in {x, y} : \A u \in {x, y} : z >= u
  OBVIOUS
<1>2. Max({x, y}) \in {x, y} /\ \A u \in {x, y} : Max({x, y}) >= u
  BY <1>1 DEF Max
<1>3. QED BY <1>2

\* The lesser of two numbers.
LEMMA MinOfTwo ==
    ASSUME NEW x \in Nat, NEW y \in Nat
    PROVE  Min({x, y}) \in {x, y} /\ Min({x, y}) <= x /\ Min({x, y}) <= y
<1>1. \E z \in {x, y} : \A u \in {x, y} : z <= u
  OBVIOUS
<1>2. Min({x, y}) \in {x, y} /\ \A u \in {x, y} : Min({x, y}) <= u
  BY <1>1 DEF Min
<1>3. QED BY <1>2

\* There is always a token that no worker holds.
LEMMA FreshFacts ==
    ASSUME NEW a, NEW p, p.pending = {}
    PROVE  Fresh(a, p) \in Tokens \ HeldTokens(a)
<1>1. IsFiniteSet(Workers) /\ Cardinality(Workers) \in Nat
  BY DeliveryAssumption, FS_CardinalityType
<1>2. IsFiniteSet(Tokens) /\ Cardinality(Tokens) = Cardinality(Workers) + 2
  BY <1>1, FS_Interval DEF Tokens
<1>3. Tokens \ HeldTokens(a) # {}
  <2> DEFINE T == Tokens \ {lost[a]}
  <2>1. SUFFICES ASSUME \A t \in T : \E w \in Workers : worker[w].token = t
                 PROVE  FALSE
    BY DEF HeldTokens
  <2> DEFINE f == [t \in T |-> CHOOSE w \in Workers : worker[w].token = t]
  <2>2. \A t \in T : f[t] \in Workers /\ worker[f[t]].token = t
    BY <2>1
  <2>3. f \in [T -> Workers]
    BY <2>2
  <2> HIDE DEF f
  <2>4. IsFiniteSet(T) /\ Cardinality(Workers) < Cardinality(T)
    <3>1. PICK x : x = lost[a]
      OBVIOUS
    <3>2. /\ IsFiniteSet(Tokens \ {x})
          /\ Cardinality(Tokens \ {x}) = IF x \in Tokens THEN Cardinality(Tokens) - 1
                                         ELSE Cardinality(Tokens)
      BY <1>2, FS_RemoveElement
    <3>3. QED BY <1>1, <1>2, <3>1, <3>2
  <2> HIDE DEF T
  <2>5. \E x, y \in T : x # y /\ f[x] = f[y]
    BY <1>1, <2>3, <2>4, FS_PigeonHole
  <2>6. QED BY <2>2, <2>5
<1>4. Tokens \ HeldTokens(a) \subseteq Nat
  BY <1>1 DEF Tokens
<1>5. Min(Tokens \ HeldTokens(a)) \in Tokens \ HeldTokens(a)
  BY <1>3, <1>4, MinElement
<1>6. Tokens \ (p.pending \cup HeldTokens(a)) = Tokens \ HeldTokens(a)
  OBVIOUS
<1>7. QED BY <1>5, <1>6 DEF Fresh

-----------------------------------------------------------------------------
(* What each part of a transaction does to a row                           *)

\* A fresh wake in the empty slots of p; nothing else that Row looks at.
Mints(a, p, q) ==
    /\ q \in PairRecord
    /\ q.queued \in Tokens \ HeldTokens(a) /\ q.running = p.running
    /\ q.pending = {q.queued} /\ q.owed = FALSE
    /\ q.ack = p.ack /\ q.req = p.req /\ q.through = p.through /\ q.shown = p.shown

\* Slots, range and breaker of p, except for a fresh wake if it had none.
Serves(a, p, q) ==
    /\ q.running = p.running /\ q.through = p.through /\ q.breaker = p.breaker
    /\ \/ q.queued = p.queued
       \/ ~HasSlot(p) /\ q.queued \in Tokens \ HeldTokens(a)

\* A wake that ends with the acknowledgement ack.
Settles(a, p, q, ack, held) ==
    /\ q \in PairRecord
    /\ q.running = None /\ q.through = 0 /\ q.ack = ack
    /\ q.req = p.req /\ q.shown = p.shown
    /\ \/ q.queued = None /\ q.pending = {} /\ q.catchup = p.catchup /\ q.owed = p.owed
       \/ q.queued \in Tokens \ HeldTokens(a) /\ q.pending = {q.queued}
          /\ q.owed = FALSE /\ ack < p.req
    /\ q.owed => held

\* Minting a wake.
LEMMA MintFacts ==
    ASSUME NEW a, NEW p \in PairRecord, p.pending = {}
    PROVE  /\ Mints(a, p, mint_reply_invocation(a, p))
           /\ mint_reply_invocation(a, p).breaker = p.breaker
           /\ mint_reply_invocation(a, p).catchup = p.catchup
<1> DEFINE t == Fresh(a, p)
<1>1. t \in Tokens \ HeldTokens(a)
  BY FreshFacts
<1> HIDE DEF t
<1> DEFINE q == [p EXCEPT !.queued = t, !.pending = {t}, !.owed = FALSE]
<1>2. mint_reply_invocation(a, p) = q
  BY DEF mint_reply_invocation, t, PairRecord
<1>3. /\ q.queued = t /\ q.pending = {t} /\ q.owed = FALSE /\ q.running = p.running
      /\ q.ack = p.ack /\ q.req = p.req /\ q.through = p.through /\ q.shown = p.shown
      /\ q.breaker = p.breaker /\ q.catchup = p.catchup
  BY DEF PairRecord
<1>4. q \in PairRecord
  BY <1>1 DEF PairRecord
<1> HIDE DEF q
<1>5. QED BY <1>1, <1>2, <1>3, <1>4 DEF Mints

\* A mint that also sets the marker.
LEMMA MintClearsFacts ==
    ASSUME NEW a, NEW p \in PairRecord, p.pending = {}
    PROVE  LET q == [mint_reply_invocation(a, p) EXCEPT !.catchup = FALSE]
           IN Mints(a, p, q) /\ q.breaker = p.breaker
<1> DEFINE m == mint_reply_invocation(a, p)
           q == [m EXCEPT !.catchup = FALSE]
<1>1. Mints(a, p, m) /\ m.breaker = p.breaker
  BY MintFacts
<1>2. m \in PairRecord
  BY <1>1 DEF Mints
<1> HIDE DEF m
<1>3. /\ q \in PairRecord
      /\ q.queued = m.queued /\ q.pending = m.pending /\ q.owed = m.owed /\ q.running = m.running
      /\ q.ack = m.ack /\ q.req = m.req /\ q.through = m.through /\ q.shown = m.shown
      /\ q.breaker = m.breaker
  BY <1>2 DEF PairRecord
<1> HIDE DEF q
<1>4. Mints(a, p, q) /\ q.breaker = p.breaker
  BY <1>1, <1>3 DEF Mints
<1>5. QED BY <1>4 DEF q, m

\* A mint for something unread makes a good row of one without slots.
LEMMA MintsRow ==
    ASSUME NEW a, NEW s \in Nat, NEW p, NEW q, Row(p, s), ~HasSlot(p), Unread(p), Mints(a, p, q)
    PROVE  Row(q, s)
<1>1. None \notin Tokens
  BY DEF None, Tokens
<1>2. q.running = None /\ q.queued # None
  BY <1>1 DEF Mints, HasSlot
<1>3. q.pending = {q.queued, q.running} \ {None}
  BY <1>2 DEF Mints
<1>4. QED BY <1>2, <1>3 DEF Mints, Row, Unread

\* A message that is only recorded.
LEMMA RaiseFacts ==
    ASSUME NEW s \in Nat, s + 1 \in Seqs, NEW p, Row(p, s)
    PROVE  LET q == raise_required(p, s + 1)
           IN /\ Row(q, s + 1)
              /\ q.req = s + 1 /\ q.req > p.req
              /\ q.ack = (IF p.req = 0 THEN q.req - 1 ELSE p.ack)
              /\ q.queued = p.queued /\ q.running = p.running /\ q.through = p.through
              /\ q.breaker = p.breaker /\ q.owed = p.owed /\ q.pending = p.pending
<1> DEFINE q == raise_required(p, s + 1)
<1>0. p \in PairRecord /\ p.req \in Nat /\ p.ack \in Nat /\ p.through \in Nat /\ p.shown \in Nat /\ p.req <= s
  BY DEF Row, PairRecord, Seqs
<1>1. ~(s + 1 <= p.req) /\ s + 1 > p.req
  BY <1>0
<1>2. CASE p.req = 0
  <2>1. p.queued = None /\ p.running = None /\ p.owed = FALSE /\ p.ack = 0
    BY <1>0, <1>2 DEF Row, PairRecord
  <2> DEFINE r == [p EXCEPT !.ack = s, !.shown = s, !.req = s + 1]
  <2>2. q = r
    <3>1. (s + 1) - 1 = s
      OBVIOUS
    <3>2. q = [[p EXCEPT !.ack = (s + 1) - 1, !.shown = (s + 1) - 1] EXCEPT !.req = s + 1]
      BY <1>1, <1>2 DEF raise_required, Known
    <3> HIDE DEF q
    <3>3. QED BY <3>1, <3>2
  <2>3. s \in Seqs
    BY DeliveryAssumption DEF Seqs
  <2>4. /\ r \in PairRecord /\ r.ack = s /\ r.shown = s /\ r.req = s + 1
        /\ r.queued = p.queued /\ r.running = p.running /\ r.through = p.through
        /\ r.breaker = p.breaker /\ r.owed = p.owed /\ r.pending = p.pending
    BY <1>0, <2>3 DEF PairRecord
  <2> HIDE DEF q, r
  <2>5. Row(r, s + 1)
    BY <1>0, <2>1, <2>4 DEF Row
  <2>6. QED BY <1>1, <1>2, <2>2, <2>4, <2>5 DEF q
<1>3. CASE p.req # 0
  <2> DEFINE r == [p EXCEPT !.req = s + 1]
  <2>1. q = r
    BY <1>1, <1>3 DEF raise_required, Known
  <2>2. /\ r \in PairRecord /\ r.ack = p.ack /\ r.shown = p.shown /\ r.req = s + 1
        /\ r.queued = p.queued /\ r.running = p.running /\ r.through = p.through
        /\ r.breaker = p.breaker /\ r.owed = p.owed /\ r.pending = p.pending /\ r.catchup = p.catchup
    BY <1>0 DEF PairRecord
  <2> HIDE DEF q, r
  <2>3. Row(r, s + 1)
    BY <1>0, <1>1, <2>2 DEF Row
  <2>4. QED BY <1>1, <1>3, <2>1, <2>2, <2>3 DEF q
<1>4. QED BY <1>2, <1>3

\* A message that wakes its recipient unless it has a wake.
LEMMA ArrivalFacts ==
    ASSUME NEW a, NEW s \in Nat, s + 1 \in Seqs, NEW p, Row(p, s)
    PROVE  LET q == apply_arrival(a, p, s + 1)
           IN /\ Row(q, s + 1) /\ Serves(a, p, q)
              /\ q.req > p.req
              /\ q.ack = (IF p.req = 0 THEN q.req - 1 ELSE p.ack)
              /\ q.owed => p.owed
<1> DEFINE r == raise_required(p, s + 1)
           q == apply_arrival(a, p, s + 1)
<1>1. /\ Row(r, s + 1) /\ r.req = s + 1 /\ r.req > p.req
      /\ r.ack = (IF p.req = 0 THEN r.req - 1 ELSE p.ack)
      /\ r.queued = p.queued /\ r.running = p.running /\ r.through = p.through
      /\ r.breaker = p.breaker /\ r.owed = p.owed /\ r.pending = p.pending
  BY RaiseFacts
<1>2. ~(s + 1 <= p.req) /\ p.req \in Nat /\ p.ack \in Nat
  BY DEF Row, PairRecord, Seqs
<1> HIDE DEF r
<1>3. CASE HasSlot(p)
  <2>1. q = r
    BY <1>3 DEF apply_arrival, r
  <2> HIDE DEF q
  <2>2. QED BY <1>1, <2>1 DEF Serves, q
<1>4. CASE ~HasSlot(p)
  <2>1. q = mint_reply_invocation(a, r)
    BY <1>2, <1>4 DEF apply_arrival, r
  <2>2. r \in PairRecord /\ ~HasSlot(r) /\ r.pending = {}
    BY <1>1, <1>4 DEF Row, HasSlot
  <2>3. Unread(r)
    BY <1>1, <1>2 DEF Unread, Row, PairRecord, Seqs
  <2>4. Mints(a, r, q) /\ q.breaker = r.breaker
    BY <2>1, <2>2, MintFacts
  <2> HIDE DEF q
  <2>5. Row(q, s + 1)
    BY <1>1, <2>2, <2>3, <2>4, MintsRow
  <2>6. q.ack = r.ack /\ q.req = r.req /\ q.owed = FALSE /\ Serves(a, p, q)
    BY <1>1, <1>4, <2>4 DEF Mints, Serves
  <2>7. QED BY <1>1, <2>5, <2>6 DEF q
<1>5. QED BY <1>3, <1>4

\* Closing the breaker changes nothing that Row looks at.
LEMMA CloseFacts ==
    ASSUME NEW p \in PairRecord
    PROVE  LET q == CloseBreaker(p)
           IN /\ q \in PairRecord /\ q.breaker \in {p.breaker, "closed"}
              /\ q.queued = p.queued /\ q.running = p.running /\ q.pending = p.pending
              /\ q.ack = p.ack /\ q.req = p.req /\ q.through = p.through /\ q.shown = p.shown
              /\ q.catchup = p.catchup /\ q.owed = p.owed
<1>1. 0 \in 0 .. Threshold
  BY DeliveryAssumption
<1>2. QED BY <1>1 DEF CloseBreaker, PairRecord, BreakerStates

\* The terminal transaction of a wake that is in a slot.
LEMMA SettleFacts ==
    ASSUME NEW a, NEW s \in Nat, NEW p, Row(p, s), NEW t \in Tokens, t \in {p.queued, p.running},
           NEW answered \in BOOLEAN, NEW held \in BOOLEAN
    PROVE  LET q == settle_reply(a, p, t, answered, held)
               ack == IF answered THEN Covered(p, t) ELSE p.ack
           IN /\ Settles(a, p, q, ack, held)
              /\ q.breaker \in {p.breaker, "closed"}
              /\ ack \in Nat /\ p.ack <= ack /\ ack <= p.req
<1> DEFINE q == settle_reply(a, p, t, answered, held)
           ack == IF answered THEN Covered(p, t) ELSE p.ack
           p1 == [p EXCEPT !.ack = ack, !.queued = None, !.running = None, !.through = 0,
                           !.pending = @ \ {t}]
           p2 == IF answered /\ p.breaker \in {"open", "probe"} THEN CloseBreaker(p1) ELSE p1
           follows == p.req > ack /\ ~held /\ (answered \/ p.catchup)
<1>0. /\ p \in PairRecord /\ p.req \in Nat /\ p.ack \in Nat /\ p.through \in Nat /\ p.shown \in Nat
      /\ None \notin Tokens /\ 0 \in Seqs
  BY DeliveryAssumption DEF Row, PairRecord, Seqs, Tokens, None
<1>1. p.pending = {t} /\ (\/ t = p.queued /\ p.running = None
                          \/ t = p.running /\ p.queued = None)
  BY <1>0 DEF Row
<1>2. /\ ack \in Seqs /\ ack \in Nat /\ p.ack <= ack /\ ack <= p.req
      /\ p.owed => ack < p.req
  <2>1. p.req \in Seqs /\ p.through \in Seqs /\ p.ack \in Seqs
    BY <1>0 DEF PairRecord
  <2>2. CASE t = p.running
    BY <1>0, <1>1, <2>1, <2>2 DEF Row, Covered
  <2>3. CASE t # p.running
    BY <1>0, <1>1, <2>1, <2>3 DEF Row, Covered
  <2>4. QED BY <2>2, <2>3
<1>3. q = IF follows THEN [mint_reply_invocation(a, p2) EXCEPT !.catchup = FALSE] ELSE p2
  BY DEF settle_reply, SettleAs
<1> HIDE DEF q, ack
<1>4. /\ p1 \in PairRecord /\ p1.ack = ack /\ p1.queued = None /\ p1.running = None /\ p1.through = 0
      /\ p1.pending = {} /\ p1.req = p.req /\ p1.shown = p.shown /\ p1.catchup = p.catchup
      /\ p1.owed = p.owed /\ p1.breaker = p.breaker
  BY <1>0, <1>1, <1>2 DEF PairRecord
<1> HIDE DEF p1
<1>5. /\ p2 \in PairRecord /\ p2.ack = ack /\ p2.queued = None /\ p2.running = None /\ p2.through = 0
      /\ p2.pending = {} /\ p2.req = p.req /\ p2.shown = p.shown /\ p2.catchup = p.catchup
      /\ p2.owed = p.owed /\ p2.breaker \in {p.breaker, "closed"}
  <2>1. CASE answered /\ p.breaker \in {"open", "probe"}
    BY <1>4, <2>1, CloseFacts
  <2>2. CASE ~(answered /\ p.breaker \in {"open", "probe"})
    BY <1>4, <2>2
  <2>3. QED BY <2>1, <2>2
<1> HIDE DEF p2
<1>6. CASE follows
  <2>1. Mints(a, p2, q) /\ q.breaker = p2.breaker
    BY <1>3, <1>5, <1>6, MintClearsFacts
  <2>2. Settles(a, p, q, ack, held)
    BY <1>0, <1>2, <1>5, <1>6, <2>1 DEF Mints, Settles
  <2>3. QED BY <1>2, <1>5, <2>1, <2>2 DEF q, ack
<1>7. CASE ~follows
  <2>1. q = p2
    BY <1>3, <1>7
  <2>2. p.owed => p.catchup
    BY DEF Row
  <2>3. p.owed => held
    BY <1>0, <1>2, <1>7, <2>2
  <2>4. Settles(a, p, q, ack, held)
    BY <1>5, <2>1, <2>3 DEF Settles
  <2>5. QED BY <1>2, <1>5, <2>1, <2>4 DEF q, ack
<1>8. QED BY <1>6, <1>7

\* A settled row is a good one, if what it acknowledges has been shown.
LEMMA SettlesRow ==
    ASSUME NEW a, NEW s \in Nat, NEW p, NEW q, NEW ack \in Nat, NEW held, Row(p, s),
           Settles(a, p, q, ack, held), p.ack <= ack, ack <= p.req, ack <= p.shown,
           p.owed => ack < p.req
    PROVE  Row(q, s)
<1>1. None \notin Tokens
  BY DEF None, Tokens
<1>2. q.pending = {q.queued, q.running} \ {None} /\ (q.queued = None \/ q.running = None)
  BY <1>1 DEF Settles
<1>3. QED BY <1>2 DEF Settles, Row

\* What the release of an exchange does to a row.
LEMMA ReleaseFacts ==
    ASSUME NEW a, NEW s \in Nat, NEW p, Row(p, s), NEW ex
    PROVE  LET q == Release(a, p, ex)
           IN /\ Row(q, s) /\ Serves(a, p, q) /\ q.ack = p.ack /\ q.req = p.req
              /\ q.shown = p.shown
              /\ HasSlot(p) => q.queued = p.queued
              /\ q.owed => q.running # None
<1> DEFINE q == Release(a, p, ex)
<1>0. /\ p \in PairRecord /\ p.req \in Nat /\ p.ack \in Nat /\ p.through \in Nat
  BY DEF Row, PairRecord, Seqs
<1>1. CASE ~Unread(p)
  <2>1. q = p
    BY <1>1 DEF Release
  <2>2. p.owed = FALSE
    BY <1>0, <1>1 DEF Row, Unread, PairRecord
  <2> HIDE DEF q
  <2>3. QED BY <2>1, <2>2 DEF Serves, q
<1>2. CASE Unread(p) /\ p.running # None /\ p.through < p.req
  <2>1. q = p \/ q = [p EXCEPT !.catchup = TRUE, !.owed = TRUE]
    BY <1>2 DEF Release
  <2>2. CASE q = p
    <3> HIDE DEF q
    <3>1. QED BY <1>2, <2>2 DEF Serves, q
  <2>3. CASE q = [p EXCEPT !.catchup = TRUE, !.owed = TRUE]
    <3> HIDE DEF q
    <3>1. /\ q \in PairRecord /\ q.ack = p.ack /\ q.queued = p.queued /\ q.running = p.running
          /\ q.through = p.through /\ q.pending = p.pending /\ q.req = p.req /\ q.shown = p.shown
          /\ q.catchup = TRUE /\ q.owed = TRUE /\ q.breaker = p.breaker
      BY <1>0, <2>3 DEF PairRecord
    <3>2. Row(q, s)
      BY <1>2, <3>1 DEF Row, Unread
    <3>3. QED BY <1>2, <3>1, <3>2 DEF Serves, q
  <2>4. QED BY <2>1, <2>2, <2>3
<1>3. CASE Unread(p) /\ ~(p.running # None /\ p.through < p.req) /\ HasSlot(p)
  <2>1. q = [p EXCEPT !.catchup = FALSE]
    BY <1>3 DEF Release
  <2>2. p.owed = FALSE
    BY <1>3 DEF Row, HasSlot, PairRecord
  <2> HIDE DEF q
  <2>3. /\ q \in PairRecord /\ q.ack = p.ack /\ q.queued = p.queued /\ q.running = p.running
        /\ q.through = p.through /\ q.pending = p.pending /\ q.req = p.req /\ q.shown = p.shown
        /\ q.owed = p.owed /\ q.breaker = p.breaker
    BY <1>0, <2>1 DEF PairRecord
  <2>4. Row(q, s)
    BY <2>2, <2>3 DEF Row
  <2>5. QED BY <2>2, <2>3, <2>4 DEF Serves, q
<1>4. CASE Unread(p) /\ ~HasSlot(p)
  <2>1. q = [mint_reply_invocation(a, p) EXCEPT !.catchup = FALSE]
    BY <1>4 DEF Release, HasSlot
  <2>2. p.pending = {}
    BY <1>4 DEF Row, HasSlot
  <2>3. Mints(a, p, q) /\ q.breaker = p.breaker
    BY <1>0, <2>1, <2>2, MintClearsFacts
  <2> HIDE DEF q
  <2>4. Row(q, s)
    BY <1>4, <2>3, MintsRow
  <2>5. QED BY <1>4, <2>3, <2>4 DEF Mints, Serves, q
<1>5. QED BY <1>1, <1>2, <1>3, <1>4

\* Counting a failure changes the breaker only.
LEMMA CountFacts ==
    ASSUME NEW p \in PairRecord
    PROVE  LET q == CountFailure(p)
           IN /\ q \in PairRecord
              /\ q.queued = p.queued /\ q.running = p.running /\ q.pending = p.pending
              /\ q.ack = p.ack /\ q.req = p.req /\ q.through = p.through /\ q.shown = p.shown
              /\ q.catchup = p.catchup /\ q.owed = p.owed
<1> DEFINE fresh == p.breaker = "none" \/ (p.breaker = "closed" /\ p.failures = 0)
           n == IF fresh THEN 1 ELSE Min({p.failures + 1, Threshold})
           b == IF n >= Threshold \/ p.breaker = "probe" THEN "open"
                ELSE IF fresh THEN "closed" ELSE p.breaker
           q == [p EXCEPT !.failures = n, !.breaker = b]
<1>1. CountFailure(p) = q
  BY DEF CountFailure
<1>2. n \in 0 .. Threshold
  <2>1. p.failures + 1 \in Nat /\ Threshold \in Nat /\ Threshold >= 1
    BY DeliveryAssumption DEF PairRecord
  <2>2. Min({p.failures + 1, Threshold}) \in 0 .. Threshold
    BY <2>1, MinOfTwo
  <2>3. QED BY <2>1, <2>2
<1>3. b \in BreakerStates
  BY DEF BreakerStates, PairRecord
<1> HIDE DEF n, b
<1>4. /\ q \in PairRecord
      /\ q.queued = p.queued /\ q.running = p.running /\ q.pending = p.pending
      /\ q.ack = p.ack /\ q.req = p.req /\ q.through = p.through /\ q.shown = p.shown
      /\ q.catchup = p.catchup /\ q.owed = p.owed
  BY <1>2, <1>3 DEF PairRecord
<1>5. QED BY <1>1, <1>4

\* A discard leaves nothing to deliver.
LEMMA DiscardFacts ==
    ASSUME NEW s \in Nat, NEW p, Row(p, s)
    PROVE  LET q == discard_reply_delivery(p)
           IN /\ Row(q, s)
              /\ q.queued = None /\ q.running = None /\ q.through = 0 /\ q.owed = FALSE
              /\ q.ack = p.req /\ q.req = p.req
              /\ q.breaker \in {p.breaker, "closed"}
<1> DEFINE c == CloseBreaker(p)
           m == Max({p.shown, p.req})
           q == [c EXCEPT !.ack = p.req, !.queued = None, !.running = None, !.through = 0,
                          !.pending = {}, !.shown = m, !.owed = FALSE]
<1>0. /\ p \in PairRecord /\ p.req \in Nat /\ p.shown \in Nat /\ 0 \in Seqs
      /\ p.req \in Seqs /\ p.shown \in Seqs /\ p.req <= s
  BY DeliveryAssumption DEF Row, PairRecord, Seqs
<1>1. discard_reply_delivery(p) = q
  BY DEF discard_reply_delivery
<1>2. c \in PairRecord /\ c.req = p.req /\ c.breaker \in {p.breaker, "closed"}
  BY <1>0, CloseFacts
<1>3. m \in Seqs /\ m >= p.req
  BY <1>0, MaxOfTwo
<1> HIDE DEF c, m
<1>4. /\ q \in PairRecord /\ q.ack = p.req /\ q.queued = None /\ q.running = None /\ q.through = 0
      /\ q.pending = {} /\ q.shown = m /\ q.owed = FALSE /\ q.req = p.req /\ q.breaker = c.breaker
  BY <1>0, <1>2, <1>3 DEF PairRecord
<1> HIDE DEF q
<1>5. Row(q, s)
  BY <1>0, <1>3, <1>4 DEF Row
<1>6. QED BY <1>1, <1>2, <1>4, <1>5

\* The markers and the receipts of a recovered row.
LEMMA TidyFacts ==
    ASSUME NEW r \in PairRecord, r.pending = {r.queued, r.running} \ {None}
    PROVE  LET q == [r EXCEPT !.catchup = FALSE, !.pending = @ \cap {r.queued, r.running}]
           IN /\ q \in PairRecord /\ q.pending = r.pending /\ q.catchup = FALSE
              /\ q.queued = r.queued /\ q.running = r.running
              /\ q.ack = r.ack /\ q.req = r.req /\ q.through = r.through /\ q.shown = r.shown
              /\ q.owed = r.owed /\ q.breaker = r.breaker
<1>1. r.pending \cap {r.queued, r.running} = r.pending
  OBVIOUS
<1>2. QED BY <1>1 DEF PairRecord

\* Recovery puts a queued wake in the place of a running one, keeps a queued
\* one, and pays a debt that neither covers.
LEMMA RecoverFacts ==
    ASSUME NEW a, NEW s \in Nat, NEW p, Row(p, s)
    PROVE  LET q == RecoverPair(a, p)
           IN /\ Row(q, s) /\ q.owed = FALSE /\ q.ack = p.ack /\ q.req = p.req
              /\ q.running = None
              /\ p.running # None => q.queued # None /\ q.through = 0
              /\ p.queued # None => q.queued # None
              /\ p.running = None => q.through = p.through
              /\ p.running = None /\ ~p.catchup => q.queued = p.queued
<1> DEFINE m == RecoverSlots(a, p)
           r == IF m.catchup /\ ~HasSlot(m) /\ Unread(m) THEN mint_reply_invocation(a, m) ELSE m
           q == [r EXCEPT !.catchup = FALSE, !.pending = @ \cap {r.queued, r.running}]
<1>0. /\ p \in PairRecord /\ p.req \in Nat /\ p.ack \in Nat /\ p.through \in Nat /\ p.shown \in Nat
      /\ None \notin Tokens /\ 0 \in Seqs
  BY DeliveryAssumption DEF Row, PairRecord, Seqs, Tokens, None
<1>1. RecoverPair(a, p) = q
  BY DEF RecoverPair
<1>2. SUFFICES /\ Row(q, s) /\ q.owed = FALSE /\ q.ack = p.ack /\ q.req = p.req
               /\ q.running = None
               /\ p.running # None => q.queued # None /\ q.through = 0
               /\ p.queued # None => q.queued # None
               /\ p.running = None => q.through = p.through
               /\ p.running = None /\ ~p.catchup => q.queued = p.queued
  BY <1>1
<1>3. CASE p.running # None
  <2> DEFINE c == [p EXCEPT !.queued = None, !.running = None, !.through = 0, !.pending = @ \ {p.running}]
  <2>1. p.queued = None /\ p.pending = {p.running} /\ p.ack <= p.through /\ p.through <= p.req /\ p.ack < p.req
    BY <1>0, <1>3 DEF Row
  <2>2. m = mint_reply_invocation(a, c)
    BY <1>0, <1>3, <2>1 DEF RecoverSlots, PairRecord
  <2>3. /\ c \in PairRecord /\ c.pending = {} /\ c.queued = None /\ c.running = None /\ c.through = 0
        /\ c.ack = p.ack /\ c.req = p.req /\ c.shown = p.shown
    BY <1>0, <2>1 DEF PairRecord
  <2> HIDE DEF c
  <2>4. Mints(a, c, m)
    BY <2>2, <2>3, MintFacts
  <2> HIDE DEF m
  <2>5. m.queued # None /\ r = m
    BY <1>0, <2>4 DEF Mints, HasSlot
  <2> HIDE DEF r
  <2>6. r \in PairRecord /\ r.pending = {r.queued, r.running} \ {None}
    BY <2>3, <2>4, <2>5 DEF Mints
  <2>7. /\ q \in PairRecord /\ q.pending = r.pending /\ q.queued = r.queued /\ q.running = r.running
        /\ q.ack = r.ack /\ q.req = r.req /\ q.through = r.through /\ q.shown = r.shown /\ q.owed = r.owed
    BY <2>6, TidyFacts
  <2> HIDE DEF q
  <2>8. /\ q.queued # None /\ q.running = None /\ q.through = 0 /\ q.owed = FALSE
        /\ q.ack = p.ack /\ q.req = p.req /\ q.shown = p.shown
        /\ q.pending = {q.queued, q.running} \ {None}
    BY <2>3, <2>4, <2>5, <2>6, <2>7 DEF Mints
  <2>9. Row(q, s)
    BY <2>1, <2>7, <2>8 DEF Row
  <2>10. QED BY <1>3, <2>1, <2>8, <2>9
<1>4. CASE p.running = None
  <2>1. m = p
    BY <1>0, <1>4 DEF RecoverSlots, Row
  <2>2. CASE p.catchup /\ ~HasSlot(p) /\ Unread(p)
    <3>1. r = mint_reply_invocation(a, p) /\ p.pending = {}
      BY <2>1, <2>2 DEF Row, HasSlot
    <3>2. Mints(a, p, r)
      BY <1>0, <3>1, MintFacts
    <3> HIDE DEF r, m
    <3>3. Row(r, s)
      BY <2>2, <3>2, MintsRow
    <3>4. /\ q \in PairRecord /\ q.pending = r.pending /\ q.queued = r.queued /\ q.running = r.running
          /\ q.ack = r.ack /\ q.req = r.req /\ q.through = r.through /\ q.shown = r.shown
          /\ q.owed = r.owed
      BY <3>3, TidyFacts DEF Row
    <3> HIDE DEF q
    <3>5. Row(q, s) /\ q.owed = FALSE
      BY <3>2, <3>3, <3>4 DEF Row, Mints
    <3>6. QED BY <1>4, <2>2, <3>2, <3>4, <3>5 DEF Mints, HasSlot
  <2>3. CASE ~(p.catchup /\ ~HasSlot(p) /\ Unread(p))
    <3>1. r = p
      BY <2>1, <2>3
    <3>2. p.owed = FALSE
      BY <1>0, <1>4, <2>3 DEF Row, HasSlot, Unread, PairRecord
    <3> HIDE DEF r, m
    <3>3. r \in PairRecord /\ r.pending = {r.queued, r.running} \ {None}
      BY <3>1 DEF Row
    <3>4. /\ q \in PairRecord /\ q.pending = r.pending /\ q.queued = r.queued /\ q.running = r.running
          /\ q.ack = r.ack /\ q.req = r.req /\ q.through = r.through /\ q.shown = r.shown
          /\ q.owed = r.owed
      BY <3>3, TidyFacts
    <3> HIDE DEF q
    <3>5. Row(q, s)
      BY <3>1, <3>2, <3>4 DEF Row
    <3>6. QED BY <1>4, <3>1, <3>2, <3>4, <3>5
  <2>4. QED BY <2>2, <2>3
<1>5. QED BY <1>3, <1>4

-----------------------------------------------------------------------------
(* What one step does to the row of an agent                               *)

\* The wake of the contract.
WakeOf(p) ==
    IF p.queued # None THEN "queued" ELSE IF p.running # None THEN "running" ELSE "none"

\* The steps of the contract that need no intervention, on rows.
Contracted(p, q) ==
    \/ /\ q.ack = p.ack /\ q.req = p.req
       /\ WakeOf(q) = WakeOf(p) \/ (WakeOf(p) = "none" /\ WakeOf(q) = "queued")
       /\ q.through = p.through
    \/ /\ q.req > p.req /\ q.ack = (IF p.req = 0 THEN q.req - 1 ELSE p.ack)
       /\ WakeOf(q) = WakeOf(p) \/ (WakeOf(p) = "none" /\ WakeOf(q) = "queued")
       /\ q.through = p.through
    \/ /\ WakeOf(p) = "queued" /\ WakeOf(q) = "running"
       /\ q.through = p.req /\ q.req = p.req /\ q.ack = p.ack
    \/ /\ WakeOf(p) # "none" /\ WakeOf(q) # "running"
       /\ q.ack \in {p.ack, IF WakeOf(p) = "running" THEN p.through ELSE p.req}
       /\ q.req = p.req /\ q.through = 0

Discards(p, q) ==
    WakeOf(q) = "none" /\ q.ack = p.req /\ q.req = p.req /\ q.through = 0

\* A wake that a worker may hold was there before, and has not met an open
\* breaker since.
Keeps(a, p, q) ==
    q.queued \in HeldTokens(a) =>
        q.queued = p.queued /\ (q.breaker = "open" => p.breaker = "open")

\* A good row, in the thread of s messages and under the exchange ex, that
\* follows p as the contract has it.
Follows(a, p, q, s, ex) ==
    /\ Row(q, s)
    /\ q.owed => q.running # None \/ Held(ex, a)
    /\ Contracted(p, q)

\* Nothing happens to the row.
LEMMA RestFollows ==
    ASSUME NEW a, NEW p, NEW s, NEW ex, Row(p, s), p.owed => p.running # None \/ Held(ex, a)
    PROVE  Follows(a, p, p, s, ex) /\ Keeps(a, p, p)
BY DEF Follows, Keeps, Contracted

\* A row of an earlier moment.
LEMMA RowLater ==
    ASSUME NEW s \in Nat, NEW p, Row(p, s)
    PROVE  Row(p, s + 1)
<1>1. p.req \in Nat
  BY DEF Row, PairRecord, Seqs
<1>2. \A n \in Nat : n <= s => n <= s + 1
  OBVIOUS
<1>3. QED BY <1>1, <1>2 DEF Row

\* Serving a row in two parts.
LEMMA ServesTwice ==
    ASSUME NEW a, NEW p, NEW m, NEW q, Serves(a, p, m), Serves(a, m, q)
    PROVE  Serves(a, p, q)
<1>1. None \notin Tokens
  BY DEF None, Tokens
<1>2. QED BY <1>1 DEF Serves, HasSlot

\* A row that is served has the wake it had, or its first one.
LEMMA ServesWake ==
    ASSUME NEW a, NEW p, NEW q, Serves(a, p, q)
    PROVE  /\ WakeOf(q) = WakeOf(p) \/ (WakeOf(p) = "none" /\ WakeOf(q) = "queued")
           /\ Keeps(a, p, q)
           /\ HasSlot(p) => WakeOf(q) = WakeOf(p)
<1>1. None \notin Tokens
  BY DEF None, Tokens
<1>2. QED BY <1>1 DEF Serves, HasSlot, WakeOf, Keeps

\* A row whose wake has ended.
LEMMA SettlesFollows ==
    ASSUME NEW a, NEW s \in Nat, NEW p, Row(p, s), NEW t \in Tokens, t \in {p.queued, p.running},
           NEW answered \in BOOLEAN, NEW held, NEW q, NEW ex, NEW ack,
           ack = IF answered THEN Covered(p, t) ELSE p.ack,
           Settles(a, p, q, ack, held), held => Held(ex, a), Row(q, s), None \notin HeldTokens(a)
    PROVE  Follows(a, p, q, s, ex) /\ Keeps(a, p, q)
<1>1. None \notin Tokens
  BY DEF None, Tokens
<1>2. WakeOf(p) # "none" /\ WakeOf(q) # "running"
  BY <1>1 DEF Row, Settles, WakeOf
<1>3. ack \in {p.ack, IF WakeOf(p) = "running" THEN p.through ELSE p.req}
  BY <1>1 DEF Row, WakeOf, Covered
<1>4. Contracted(p, q)
  BY <1>2, <1>3 DEF Contracted, Settles
<1>5. q.owed => Held(ex, a)
  BY DEF Settles
<1>6. Keeps(a, p, q)
  BY DEF Keeps, Settles
<1>7. QED BY <1>4, <1>5, <1>6 DEF Follows

\* The terminal transaction of a wake, whether it is still in a slot or not.
LEMMA SettleFollows ==
    ASSUME NEW a, NEW s \in Nat, NEW p, Row(p, s), NEW t \in Tokens, NEW answered \in BOOLEAN, NEW ex,
           (answered /\ t \in {p.queued, p.running}) => Covered(p, t) <= p.shown,
           p.owed => p.running # None \/ Held(ex, a), None \notin HeldTokens(a),
           Held(ex, a) \in BOOLEAN
    PROVE  LET q == settle_reply(a, p, t, answered, Held(ex, a))
           IN Follows(a, p, q, s, ex) /\ Keeps(a, p, q)
<1> DEFINE q == settle_reply(a, p, t, answered, Held(ex, a))
           ack == IF answered THEN Covered(p, t) ELSE p.ack
<1>1. CASE t \in {p.queued, p.running}
  <2>1. Settles(a, p, q, ack, Held(ex, a)) /\ ack \in Nat /\ p.ack <= ack /\ ack <= p.req
    BY <1>1, SettleFacts
  <2>2. None \notin Tokens /\ p.ack \in Nat /\ p.req \in Nat /\ p.through \in Nat
    BY DEF None, Tokens, Row, PairRecord, Seqs
  <2>3. p.owed => ack < p.req
    BY <1>1, <2>2 DEF Row, Covered
  <2>4. ack <= p.shown
    BY <1>1 DEF Row
  <2> HIDE DEF q, ack
  <2>5. Row(q, s)
    BY <2>1, <2>3, <2>4, SettlesRow
  <2>6. ack = IF answered THEN Covered(p, t) ELSE p.ack
    BY DEF ack
  <2>7. QED BY <1>1, <2>1, <2>5, <2>6, SettlesFollows DEF q
<1>2. CASE t \notin {p.queued, p.running}
  <2>1. q = p
    BY <1>2 DEF settle_reply
  <2> HIDE DEF q
  <2>2. QED BY <2>1, RestFollows DEF q
<1>3. QED BY <1>1, <1>2

\* The same, with the breaker counting a failure.
LEMMA CountFollows ==
    ASSUME NEW a, NEW s \in Nat, NEW p, Row(p, s), NEW t \in Tokens, NEW ex,
           p.owed => p.running # None \/ Held(ex, a), None \notin HeldTokens(a),
           Held(ex, a) \in BOOLEAN
    PROVE  LET q == settle_with_breaker_failure(a, p, t, Held(ex, a))
           IN Follows(a, p, q, s, ex) /\ Keeps(a, p, q)
<1> DEFINE m == settle_reply(a, p, t, FALSE, Held(ex, a))
           q == settle_with_breaker_failure(a, p, t, Held(ex, a))
<1>1. CASE t \in {p.queued, p.running}
  <2>1. Settles(a, p, m, p.ack, Held(ex, a)) /\ Follows(a, p, m, s, ex)
    BY <1>1, SettleFacts, SettleFollows
  <2>2. q = CountFailure(m)
    BY <1>1 DEF settle_with_breaker_failure
  <2> HIDE DEF m
  <2>3. m \in PairRecord
    BY <2>1 DEF Settles
  <2>4. /\ q \in PairRecord
        /\ q.queued = m.queued /\ q.running = m.running /\ q.pending = m.pending
        /\ q.ack = m.ack /\ q.req = m.req /\ q.through = m.through /\ q.shown = m.shown
        /\ q.catchup = m.catchup /\ q.owed = m.owed
    BY <2>2, <2>3, CountFacts
  <2> HIDE DEF q
  <2>5. Row(q, s)
    BY <2>1, <2>4 DEF Follows, Row
  <2>6. Contracted(p, q)
    BY <2>1, <2>4 DEF Follows, Contracted, WakeOf
  <2>7. q.owed => q.running # None \/ Held(ex, a)
    BY <2>1, <2>4 DEF Follows
  <2>8. Keeps(a, p, q)
    BY <2>1, <2>4 DEF Settles, Keeps
  <2>9. QED BY <2>5, <2>6, <2>7, <2>8 DEF Follows, q
<1>2. CASE t \notin {p.queued, p.running}
  <2>1. q = p
    BY <1>2 DEF settle_with_breaker_failure
  <2> HIDE DEF q
  <2>2. QED BY <2>1, RestFollows DEF q
<1>3. QED BY <1>1, <1>2

\* A message for an agent, whom it wakes, reaches or passes by, after the
\* exchange may have been closed.
LEMMA RouteFollows ==
    ASSUME NEW a \in Agents, NEW s \in Nat, s + 1 \in Seqs, NEW p, NEW pairs, NEW wake, NEW recipients,
           NEW ex, Row(pairs[a], s), Serves(a, p, pairs[a]), pairs[a].ack = p.ack, pairs[a].req = p.req,
           pairs[a].owed => pairs[a].running # None \/ Held(ex, a)
    PROVE  LET q == Route(pairs, s + 1, wake, recipients)[a]
           IN Follows(a, p, q, s + 1, ex) /\ Keeps(a, p, q)
<1> DEFINE m == pairs[a]
           q == Route(pairs, s + 1, wake, recipients)[a]
<1>1. q = IF a \in wake THEN apply_arrival(a, m, s + 1)
          ELSE IF a \in recipients THEN raise_required(m, s + 1) ELSE m
  BY DEF Route
<1>2. /\ Row(q, s + 1) /\ Serves(a, m, q) /\ (q.owed => m.owed)
      /\ \/ q.ack = m.ack /\ q.req = m.req
         \/ q.req > m.req /\ q.ack = (IF m.req = 0 THEN q.req - 1 ELSE m.ack)
  <2> HIDE DEF q, m
  <2>0. Row(m, s)
    BY DEF m
  <2>1. CASE a \in wake
    BY <1>1, <2>0, <2>1, ArrivalFacts
  <2>2. CASE a \notin wake /\ a \in recipients
    BY <1>1, <2>0, <2>2, RaiseFacts DEF Serves
  <2>3. CASE a \notin wake /\ a \notin recipients
    BY <1>1, <2>0, <2>3, RowLater DEF Serves
  <2>4. QED BY <2>1, <2>2, <2>3
<1>3. Serves(a, p, m) /\ m.ack = p.ack /\ m.req = p.req /\ (m.owed => m.running # None \/ Held(ex, a))
  OBVIOUS
<1> HIDE DEF q, m
<1>4. Serves(a, p, q)
  BY <1>2, <1>3, ServesTwice
<1>5. /\ WakeOf(q) = WakeOf(p) \/ (WakeOf(p) = "none" /\ WakeOf(q) = "queued")
      /\ Keeps(a, p, q) /\ q.through = p.through
  BY <1>4, ServesWake DEF Serves
<1>6. Contracted(p, q)
  BY <1>2, <1>3, <1>5 DEF Contracted
<1>7. q.owed => q.running # None \/ Held(ex, a)
  BY <1>2, <1>3 DEF Serves
<1>8. QED BY <1>2, <1>5, <1>6, <1>7 DEF Follows, q

-----------------------------------------------------------------------------
(* The rows after each action                                              *)

\* Every row follows the one before it, under the new exchange.
PairsFollow ==
    /\ pair' \in [Agents -> PairRecord]
    /\ \A a \in Agents : Follows(a, pair[a], pair'[a], seq', exchange')

PairsKept == \A a \in Agents : Keeps(a, pair[a], pair'[a])

\* The invariant, seen from one agent.
LEMMA AgentFacts ==
    ASSUME Inv, NEW a \in Agents
    PROVE  /\ seq \in Nat /\ Row(pair[a], seq) /\ None \notin HeldTokens(a)
           /\ pair[a].owed => pair[a].running # None \/ Held(exchange, a)
           /\ Held(exchange, a) \in BOOLEAN
<1>1. seq \in Nat /\ Row(pair[a], seq) /\ Held(exchange, a) \in BOOLEAN
  BY DEF Inv, TypeOK, Seqs, Rows, Held, ExchangeRecord
<1>2. pair[a].owed => pair[a].running # None \/ Held(exchange, a)
  BY DEF Inv, Debts
<1>3. None \notin HeldTokens(a)
  BY DEF HeldTokens
<1>4. QED BY <1>1, <1>2, <1>3

\* A step that writes the row q for agent a and leaves the others alone.
LEMMA OneRow ==
    ASSUME Inv, NEW a \in Agents, NEW q, Follows(a, pair[a], q, seq, exchange),
           pair' = [pair EXCEPT ![a] = q], seq' = seq, exchange' = exchange
    PROVE  PairsFollow /\ (Keeps(a, pair[a], q) => PairsKept)
<1>1. pair \in [Agents -> PairRecord]
  BY DEF Inv, TypeOK
<1>2. pair'[a] = q /\ \A b \in Agents : b # a => pair'[b] = pair[b]
  BY <1>1
<1>3. q \in PairRecord
  BY DEF Follows, Row
<1>4. pair' \in [Agents -> PairRecord]
  BY <1>1, <1>3
<1>5. ASSUME NEW b \in Agents, b # a
      PROVE  Follows(b, pair[b], pair'[b], seq, exchange) /\ Keeps(b, pair[b], pair'[b])
  BY <1>2, <1>5, AgentFacts, RestFollows
<1>6. QED BY <1>2, <1>4, <1>5 DEF PairsFollow, PairsKept

\* Closing the exchange, or not.
LEMMA ClosingFacts ==
    ASSUME Inv, NEW a \in Agents, NEW closes \in BOOLEAN, NEW pairs,
           pairs = IF closes THEN close_reply_exchange(pair, exchange) ELSE pair
    PROVE  /\ Row(pairs[a], seq) /\ Serves(a, pair[a], pairs[a])
           /\ pairs[a].ack = pair[a].ack /\ pairs[a].req = pair[a].req
           /\ pairs[a].shown = pair[a].shown
           /\ HasSlot(pair[a]) => pairs[a].queued = pair[a].queued
           /\ pairs[a].owed => pairs[a].running # None \/ (~closes /\ Held(exchange, a))
<1>1. CASE closes
  <2>1. pairs[a] = Release(a, pair[a], exchange)
    BY <1>1 DEF close_reply_exchange
  <2>2. QED BY <1>1, <2>1, AgentFacts, ReleaseFacts
<1>2. CASE ~closes
  BY <1>2, AgentFacts DEF Serves
<1>3. QED BY <1>1, <1>2

\* A message that settles nothing, with whatever it closes or opens.
LEMMA MessageFollows ==
    ASSUME Inv, NEW closes \in BOOLEAN, NEW wake, NEW recipients, NEW pairs,
           pairs = (IF closes THEN close_reply_exchange(pair, exchange) ELSE pair),
           seq < MaxSeq, seq' = seq + 1, pair' = Route(pairs, seq + 1, wake, recipients),
           ~closes /\ exchange.open => exchange' = exchange
    PROVE  PairsFollow /\ PairsKept
<1>1. seq \in Nat /\ seq + 1 \in Seqs
  BY DeliveryAssumption DEF Inv, TypeOK, Seqs
<1>2. ASSUME NEW a \in Agents
      PROVE  Follows(a, pair[a], pair'[a], seq', exchange') /\ Keeps(a, pair[a], pair'[a])
  <2>1. /\ Row(pairs[a], seq) /\ Serves(a, pair[a], pairs[a])
        /\ pairs[a].ack = pair[a].ack /\ pairs[a].req = pair[a].req
        /\ pairs[a].owed => pairs[a].running # None \/ (~closes /\ Held(exchange, a))
    BY ClosingFacts
  <2>2. pairs[a].owed => pairs[a].running # None \/ Held(exchange', a)
    BY <2>1 DEF Held
  <2>3. QED BY <1>1, <2>1, <2>2, RouteFollows
<1>3. pair' \in [Agents -> PairRecord]
  <2>1. \A a \in Agents : pair'[a] \in PairRecord
    BY <1>2 DEF Follows, Row
  <2>2. pair' = [a \in Agents |-> pair'[a]]
    BY DEF Route
  <2>3. QED BY <2>1, <2>2
<1>4. QED BY <1>2, <1>3 DEF PairsFollow, PairsKept

\* A message from outside an invocation.
LEMMA PostFollows ==
    ASSUME Inv, NEW speaker, NEW mentions, NEW founderOnly, NEW elapsed,
           record_conversational_arrival(speaker, mentions, founderOnly, elapsed)
    PROVE  PairsFollow /\ PairsKept
<1> DEFINE recipients == members \ {speaker}
           closes == evaluate_exchange_closure(exchange, pair, elapsed)
           ex == IF closes THEN NoExchange ELSE exchange
           pairs == IF closes THEN close_reply_exchange(pair, exchange) ELSE pair
           wake == WakeSet(ex, mentions, recipients, founderOnly)
           opens == ~ex.open /\ speaker = Founder /\ mentions # {} /\ recipients \ mentions # {}
<1>1. /\ seq < MaxSeq /\ seq' = seq + 1
      /\ pair' = Route(pairs, seq + 1, wake, recipients)
      /\ exchange' = IF opens THEN [open |-> TRUE, seq |-> seq + 1, cohort |-> mentions,
                                    held |-> recipients \ mentions]
                     ELSE ex
  BY DEF record_conversational_arrival
<1>2. closes \in BOOLEAN
  BY DEF Inv, TypeOK, evaluate_exchange_closure, ExchangeRecord
<1>3. ~closes /\ exchange.open => exchange' = exchange
  BY <1>1
<1> HIDE DEF closes, wake, recipients, opens, ex
<1>4. QED BY <1>1, <1>2, <1>3, MessageFollows

\* The answer of a bootstrap or of a task follow-up.
LEMMA IsolatedFollows ==
    ASSUME Inv, NEW speaker, NEW elapsed, ReplyIsolated(speaker, elapsed)
    PROVE  PairsFollow /\ PairsKept
<1> DEFINE recipients == members \ {speaker}
           closes == evaluate_exchange_closure(exchange, pair, elapsed)
           pairs == IF closes THEN close_reply_exchange(pair, exchange) ELSE pair
<1>1. /\ seq < MaxSeq /\ seq' = seq + 1
      /\ pair' = Route(pairs, seq + 1, recipients, recipients)
      /\ exchange' = IF closes THEN NoExchange ELSE exchange
  BY DEF ReplyIsolated
<1>2. closes \in BOOLEAN
  BY DEF Inv, TypeOK, evaluate_exchange_closure, ExchangeRecord
<1>3. ~closes /\ exchange.open => exchange' = exchange
  BY <1>1
<1> HIDE DEF closes, recipients
<1>4. QED BY <1>1, <1>2, <1>3, MessageFollows

\* A row that follows one with the same watermarks, slots and breaker.
LEMMA SameBefore ==
    ASSUME NEW a, NEW p, NEW m, NEW q, NEW s, NEW ex, Follows(a, m, q, s, ex), Keeps(a, m, q),
           m.ack = p.ack, m.req = p.req, m.queued = p.queued, m.running = p.running,
           m.through = p.through, m.breaker = p.breaker
    PROVE  Follows(a, p, q, s, ex) /\ Keeps(a, p, q)
<1>1. WakeOf(m) = WakeOf(p)
  BY DEF WakeOf
<1>2. QED BY <1>1 DEF Follows, Contracted, Keeps

\* An answered row that is then served by the closing of the exchange.
LEMMA ServedAfter ==
    ASSUME NEW a, NEW p, NEW m, NEW q, NEW s, NEW held,
           WakeOf(p) = "running", Settles(a, p, m, p.through, held),
           Row(q, s), Serves(a, m, q), q.ack = m.ack, q.req = m.req, q.owed => q.running # None,
           None \notin HeldTokens(a)
    PROVE  Follows(a, p, q, s, NoExchange) /\ Keeps(a, p, q)
<1>1. None \notin Tokens
  BY DEF None, Tokens
<1>2. q.running = None /\ q.through = 0 /\ q.req = p.req
  BY DEF Settles, Serves
<1>3. WakeOf(q) # "running"
  BY <1>2 DEF WakeOf
<1>4. q.ack = p.through
  BY DEF Settles
<1>5. Contracted(p, q)
  BY <1>2, <1>3, <1>4 DEF Contracted
<1>6. Keeps(a, p, q)
  BY <1>1 DEF Keeps, Serves, Settles
<1>7. QED BY <1>5, <1>6 DEF Follows

\* A wake that may be called back for is the running one.
LEMMA RunningFacts ==
    ASSUME Inv, NEW a \in Agents, MayCallBack(a)
    PROVE  /\ pair[a].running \in Tokens /\ pair[a].queued = None
           /\ pair[a].running # None
<1>1. Row(pair[a], seq)
  BY AgentFacts
<1>2. QED BY <1>1 DEF MayCallBack, Row, PairRecord

\* The process of a reply answers with a message.
LEMMA ReplyFollows ==
    ASSUME Inv, NEW a \in Agents, NEW mentions, NEW founderOnly, NEW elapsed,
           reply_conversational(a, mentions, founderOnly, elapsed)
    PROVE  PairsFollow /\ PairsKept
<1> DEFINE t == pair[a].running
           recipients == members \ {a}
           closes == evaluate_exchange_closure(exchange, pair, elapsed)
           ex == IF closes THEN NoExchange ELSE exchange
           pairs == IF closes THEN close_reply_exchange(pair, exchange) ELSE pair
           settled == [pairs EXCEPT ![a] = settle_reply(a, @, t, TRUE, Held(ex, a))]
           wake == WakeSet(ex, mentions, recipients, founderOnly)
<1>1. /\ seq < MaxSeq /\ seq' = seq + 1
      /\ pair' = Route(settled, seq + 1, wake, recipients)
      /\ exchange' = ex
      /\ MayCallBack(a)
      /\ Addressing(mentions, founderOnly, recipients)
  BY DEF reply_conversational
<1>2. seq \in Nat /\ seq + 1 \in Seqs /\ closes \in BOOLEAN
  BY <1>1, DeliveryAssumption DEF Inv, TypeOK, Seqs, evaluate_exchange_closure, ExchangeRecord
<1>3. a \in Agents /\ t \in Tokens /\ pair[a].running = t /\ pair[a].queued = None /\ t # None
  BY <1>1, RunningFacts
<1>4. a \notin recipients /\ a \notin wake
  BY <1>1 DEF WakeSet, Addressing
<1>5. pairs = [b \in Agents |-> pairs[b]]
  BY DEF close_reply_exchange, Inv, TypeOK
<1> HIDE DEF closes
<1>6. ASSUME NEW b \in Agents
      PROVE  /\ Row(pairs[b], seq) /\ Serves(b, pair[b], pairs[b])
             /\ pairs[b].ack = pair[b].ack /\ pairs[b].req = pair[b].req
             /\ pairs[b].shown = pair[b].shown
             /\ HasSlot(pair[b]) => pairs[b].queued = pair[b].queued
             /\ pairs[b].owed => pairs[b].running # None \/ Held(ex, b)
  BY <1>2, ClosingFacts
<1>7. Held(ex, a) \in BOOLEAN
  BY DEF Held, NoExchange, Inv, TypeOK, ExchangeRecord
<1> HIDE DEF pairs, wake, ex
<1>8. settled[a] = settle_reply(a, pairs[a], t, TRUE, Held(ex, a))
      /\ \A b \in Agents : b # a => settled[b] = pairs[b]
  BY <1>3, <1>5
<1> HIDE DEF settled, recipients
<1>9. Follows(a, pair[a], pair'[a], seq', ex) /\ Keeps(a, pair[a], pair'[a])
  <2> DEFINE m == pairs[a]
  <2>1. /\ m.ack = pair[a].ack /\ m.req = pair[a].req /\ m.queued = pair[a].queued
        /\ m.running = pair[a].running /\ m.through = pair[a].through /\ m.breaker = pair[a].breaker
        /\ Row(m, seq)
    BY <1>3, <1>6 DEF Serves, HasSlot
  <2>2. Covered(m, t) <= m.shown /\ m.running # None
    BY <1>3, <2>1 DEF Covered, Row
  <2>3. Follows(a, m, settled[a], seq, ex) /\ Keeps(a, m, settled[a])
    <3>1. None \notin HeldTokens(a)
      BY <1>3, AgentFacts
    <3>2. settled[a] = settle_reply(a, m, t, TRUE, Held(ex, a))
      BY <1>8
    <3> HIDE DEF m, t
    <3>3. QED BY <1>2, <1>3, <1>7, <2>1, <2>2, <3>1, <3>2, SettleFollows
  <2>4. Follows(a, pair[a], settled[a], seq, ex) /\ Keeps(a, pair[a], settled[a])
    BY <2>1, <2>3, SameBefore
  <2>5. pair'[a] = settled[a]
    BY <1>1, <1>3, <1>4 DEF Route
  <2>6. QED BY <1>1, <1>2, <2>4, <2>5, RowLater DEF Follows
<1>10. ASSUME NEW b \in Agents, b # a
       PROVE  Follows(b, pair[b], pair'[b], seq', ex) /\ Keeps(b, pair[b], pair'[b])
  <2>1. /\ Row(settled[b], seq) /\ Serves(b, pair[b], settled[b])
        /\ settled[b].ack = pair[b].ack /\ settled[b].req = pair[b].req
        /\ settled[b].owed => settled[b].running # None \/ Held(ex, b)
    BY <1>6, <1>8, <1>10
  <2>2. QED BY <1>1, <1>2, <2>1, RouteFollows
<1>11. pair' \in [Agents -> PairRecord]
  <2>1. \A b \in Agents : pair'[b] \in PairRecord
    BY <1>9, <1>10 DEF Follows, Row
  <2>2. pair' = [b \in Agents |-> pair'[b]]
    BY <1>1 DEF Route
  <2>3. QED BY <2>1, <2>2
<1>12. QED BY <1>1, <1>9, <1>10, <1>11 DEF PairsFollow, PairsKept

\* A row that is served by the closing of the exchange.
LEMMA ServedFollows ==
    ASSUME NEW a, NEW p, NEW q, NEW s, NEW ex, Row(q, s), Serves(a, p, q),
           q.ack = p.ack, q.req = p.req, q.owed => q.running # None
    PROVE  Follows(a, p, q, s, ex) /\ Keeps(a, p, q)
<1>1. /\ WakeOf(q) = WakeOf(p) \/ (WakeOf(p) = "none" /\ WakeOf(q) = "queued")
      /\ Keeps(a, p, q) /\ q.through = p.through
  BY ServesWake DEF Serves
<1>2. QED BY <1>1 DEF Follows, Contracted

\* The process of a reply declines.
LEMMA DeclineFollows ==
    ASSUME Inv, NEW a \in Agents, NEW elapsed, decline_thread(a, elapsed)
    PROVE  PairsFollow /\ PairsKept
<1> DEFINE t == pair[a].running
           m == settle_reply(a, pair[a], t, TRUE, Held(exchange, a))
           settled == [pair EXCEPT ![a] = m]
           closes == evaluate_exchange_closure(exchange, settled, elapsed)
<1>1. /\ pair' = IF closes THEN close_reply_exchange(settled, exchange) ELSE settled
      /\ exchange' = IF closes THEN NoExchange ELSE exchange
      /\ seq' = seq
      /\ MayCallBack(a)
  BY DEF decline_thread
<1>2. a \in Agents /\ t \in Tokens /\ pair[a].running = t /\ pair[a].queued = None /\ t # None
  BY <1>1, RunningFacts
<1>3. /\ seq \in Nat /\ Row(pair[a], seq) /\ None \notin HeldTokens(a)
      /\ pair[a].owed => pair[a].running # None \/ Held(exchange, a)
      /\ Held(exchange, a) \in BOOLEAN
  BY <1>2, AgentFacts
<1>4. Covered(pair[a], t) = pair[a].through /\ pair[a].through <= pair[a].shown /\ WakeOf(pair[a]) = "running"
  BY <1>2, <1>3 DEF Covered, Row, WakeOf
<1>5. Settles(a, pair[a], m, pair[a].through, Held(exchange, a))
  <2> HIDE DEF t
  <2>1. Settles(a, pair[a], m, IF TRUE THEN Covered(pair[a], t) ELSE pair[a].ack, Held(exchange, a))
    BY <1>2, <1>3, SettleFacts
  <2>2. QED BY <1>4, <2>1
<1>6. Follows(a, pair[a], m, seq, exchange) /\ Keeps(a, pair[a], m)
  <2> HIDE DEF t
  <2>1. QED BY <1>2, <1>3, <1>4, SettleFollows
<1> HIDE DEF m, closes
<1>7. settled[a] = m /\ settled \in [Agents -> PairRecord]
      /\ \A b \in Agents : b # a => settled[b] = pair[b]
  BY <1>2, <1>5 DEF Inv, TypeOK, Settles
<1> HIDE DEF settled
<1>8. CASE ~closes
  <2>1. pair' = [pair EXCEPT ![a] = m] /\ exchange' = exchange
    BY <1>1, <1>8 DEF settled
  <2>2. QED BY <1>1, <1>2, <1>6, <2>1, OneRow
<1>9. CASE closes
  <2>1. \A b \in Agents : pair'[b] = Release(b, settled[b], exchange)
    BY <1>1, <1>9 DEF close_reply_exchange
  <2>2. exchange' = NoExchange
    BY <1>1, <1>9
  <2>3. Follows(a, pair[a], pair'[a], seq, NoExchange) /\ Keeps(a, pair[a], pair'[a])
    <3>1. pair'[a] = Release(a, m, exchange) /\ Row(m, seq)
      BY <1>2, <1>6, <1>7, <2>1 DEF Follows
    <3>2. /\ Row(pair'[a], seq) /\ Serves(a, m, pair'[a]) /\ pair'[a].ack = m.ack /\ pair'[a].req = m.req
          /\ pair'[a].owed => pair'[a].running # None
      BY <1>3, <3>1, ReleaseFacts
    <3>3. QED BY <1>3, <1>4, <1>5, <3>2, ServedAfter
  <2>4. ASSUME NEW b \in Agents, b # a
        PROVE  Follows(b, pair[b], pair'[b], seq, NoExchange) /\ Keeps(b, pair[b], pair'[b])
    <3>1. pair'[b] = Release(b, pair[b], exchange) /\ Row(pair[b], seq)
      BY <1>7, <2>1, <2>4, AgentFacts
    <3>2. /\ Row(pair'[b], seq) /\ Serves(b, pair[b], pair'[b])
          /\ pair'[b].ack = pair[b].ack /\ pair'[b].req = pair[b].req
          /\ pair'[b].owed => pair'[b].running # None
      BY <1>3, <3>1, ReleaseFacts
    <3>3. QED BY <3>2, ServedFollows
  <2>5. pair' \in [Agents -> PairRecord]
    <3>1. \A b \in Agents : pair'[b] \in PairRecord
      BY <2>3, <2>4 DEF Follows, Row
    <3>2. pair' = [b \in Agents |-> pair'[b]]
      BY <1>1, <1>9 DEF close_reply_exchange
    <3>3. QED BY <3>1, <3>2
  <2>6. QED BY <1>1, <2>2, <2>3, <2>4, <2>5 DEF PairsFollow, PairsKept
<1>10. QED BY <1>8, <1>9

\* The exchange is closed by the reaper.
LEMMA SweepFollows ==
    ASSUME Inv, NEW elapsed, reaper_sweep_reply_exchanges(elapsed)
    PROVE  PairsFollow /\ PairsKept
<1>1. pair' = close_reply_exchange(pair, exchange) /\ exchange' = NoExchange /\ seq' = seq
  BY DEF reaper_sweep_reply_exchanges
<1>2. ASSUME NEW b \in Agents
      PROVE  Follows(b, pair[b], pair'[b], seq, NoExchange) /\ Keeps(b, pair[b], pair'[b])
  <2>1. pair'[b] = Release(b, pair[b], exchange) /\ Row(pair[b], seq) /\ seq \in Nat
    BY <1>1, AgentFacts DEF close_reply_exchange
  <2>2. /\ Row(pair'[b], seq) /\ Serves(b, pair[b], pair'[b])
        /\ pair'[b].ack = pair[b].ack /\ pair'[b].req = pair[b].req
        /\ pair'[b].owed => pair'[b].running # None
    BY <2>1, ReleaseFacts
  <2>3. QED BY <2>2, ServedFollows
<1>3. pair' \in [Agents -> PairRecord]
  <2>1. \A b \in Agents : pair'[b] \in PairRecord
    BY <1>2 DEF Follows, Row
  <2>2. pair' = [b \in Agents |-> pair'[b]]
    BY <1>1 DEF close_reply_exchange
  <2>3. QED BY <2>1, <2>2
<1>4. QED BY <1>1, <1>2, <1>3 DEF PairsFollow, PairsKept

\* A wake is settled without a launch; when its agent is gone, all that is
\* required counts as answered for.
LEMMA RefuseFollows ==
    ASSUME Inv, NEW w \in Workers, NEW a \in Agents, NEW answered \in BOOLEAN,
           RefuseLaunch(w, a, answered)
    PROVE  PairsFollow /\ PairsKept
<1> DEFINE p == pair[a]
           t == p.queued
           m == settle_reply(a, p, t, answered, Held(exchange, a))
           q == IF answered THEN [m EXCEPT !.shown = Max({@, m.ack})] ELSE m
<1>1. pair' = [pair EXCEPT ![a] = q] /\ seq' = seq /\ exchange' = exchange
  BY DEF RefuseLaunch
<1>2. t # None /\ p.running = None
  BY DEF RefuseLaunch, Ready
<1>3. /\ seq \in Nat /\ Row(p, seq) /\ None \notin HeldTokens(a)
      /\ p.owed => p.running # None \/ Held(exchange, a)
      /\ Held(exchange, a) \in BOOLEAN
  BY AgentFacts
<1>4. t \in Tokens
  BY <1>2, <1>3 DEF Row, PairRecord
<1> HIDE DEF p, m
<1>5. Follows(a, p, q, seq, exchange) /\ Keeps(a, p, q)
  <2>1. CASE ~answered
    <3>1. Follows(a, p, m, seq, exchange) /\ Keeps(a, p, m)
      BY <1>3, <1>4, <2>1, SettleFollows DEF m
    <3>2. QED BY <2>1, <3>1
  <2>2. CASE answered
    <3> DEFINE h == Max({p.shown, p.req})
               p2 == [p EXCEPT !.shown = h]
    <3>1. Settles(a, p, m, p.req, Held(exchange, a))
      <4>1. Settles(a, p, m, IF answered THEN Covered(p, t) ELSE p.ack, Held(exchange, a))
        BY <1>3, <1>4, SettleFacts DEF m
      <4>2. Covered(p, t) = p.req
        BY <1>2 DEF Covered
      <4>3. QED BY <2>2, <4>1, <4>2
    <3>2. p \in PairRecord /\ p.req \in Seqs /\ p.shown \in Seqs /\ p.req \in Nat /\ p.shown \in Nat
      BY <1>3 DEF Row, PairRecord, Seqs
    <3>3. h \in Seqs /\ h >= p.shown /\ h >= p.req
      BY <3>2, MaxOfTwo
    <3>4. q = [m EXCEPT !.shown = h] /\ m \in PairRecord
      BY <2>2, <3>1 DEF Settles, PairRecord
    <3> HIDE DEF q, h
    <3>5. /\ p2 \in PairRecord /\ p2.ack = p.ack /\ p2.req = p.req /\ p2.through = p.through
          /\ p2.queued = p.queued /\ p2.running = p.running /\ p2.pending = p.pending
          /\ p2.catchup = p.catchup /\ p2.breaker = p.breaker /\ p2.owed = p.owed /\ p2.shown = h
      BY <3>2, <3>3 DEF PairRecord
    <3>6. /\ q \in PairRecord /\ q.ack = m.ack /\ q.req = m.req /\ q.through = m.through
          /\ q.queued = m.queued /\ q.running = m.running /\ q.pending = m.pending
          /\ q.catchup = m.catchup /\ q.owed = m.owed /\ q.shown = h
      BY <3>3, <3>4 DEF PairRecord
    <3> HIDE DEF p2
    <3>7. Settles(a, p2, q, p.req, Held(exchange, a))
      BY <3>1, <3>5, <3>6 DEF Settles
    <3>8. Row(p2, seq)
      <4>1. p2.ack <= p2.shown
        BY <1>3, <3>2, <3>3, <3>5 DEF Row, PairRecord, Seqs
      <4>2. p2.running = None
        BY <1>2, <3>5
      <4>3. QED BY <1>3, <3>5, <4>1, <4>2 DEF Row
    <3>9. p2.ack <= p.req /\ p.req <= p2.req /\ p.req <= p2.shown /\ (p2.owed => p.req < p2.req)
      BY <1>2, <1>3, <3>2, <3>3, <3>5 DEF Row
    <3>10. Row(q, seq)
      BY <1>3, <3>2, <3>7, <3>8, <3>9, SettlesRow
    <3>11. p.req = IF answered THEN Covered(p2, t) ELSE p2.ack
      BY <1>2, <2>2, <3>5 DEF Covered
    <3>12. Follows(a, p2, q, seq, exchange) /\ Keeps(a, p2, q)
      <4>1. t \in {p2.queued, p2.running}
        BY <3>5
      <4>2. QED BY <1>3, <1>4, <3>7, <3>8, <3>10, <3>11, <4>1, SettlesFollows
    <3>13. QED BY <3>5, <3>12, SameBefore
  <2>3. QED BY <2>1, <2>2
<1> HIDE DEF q
<1>6. QED BY <1>1, <1>5, OneRow DEF p

\* What a prepared or launched worker holds.
LEMMA HolderFacts ==
    ASSUME Inv, NEW w \in Workers, worker[w].pc # "idle"
    PROVE  /\ worker[w].agent \in Agents /\ worker[w].token \in Tokens
           /\ worker[w].token \in HeldTokens(worker[w].agent)
<1>1. worker[w].agent \in Agents /\ worker[w].token \in Tokens
  BY DEF Inv, WorkerState, WorkerGood
<1>2. None \notin Tokens
  BY DEF None, Tokens
<1>3. QED BY <1>1, <1>2 DEF HeldTokens

\* The launch cannot be prepared.
LEMMA PreparationFollows ==
    ASSUME Inv, NEW w \in Workers, PreparationFails(w)
    PROVE  PairsFollow /\ PairsKept
<1>1. PICK a, t : a = worker[w].agent /\ t = worker[w].token
  OBVIOUS
<1> DEFINE q == settle_reply(a, pair[a], t, FALSE, Held(exchange, a))
<1>2. pair' = [pair EXCEPT ![a] = q] /\ seq' = seq /\ exchange' = exchange /\ worker[w].pc # "idle"
  BY <1>1 DEF PreparationFails
<1>3. a \in Agents /\ t \in Tokens
  BY <1>1, <1>2, HolderFacts
<1>4. Follows(a, pair[a], q, seq, exchange) /\ Keeps(a, pair[a], q)
  BY <1>3, AgentFacts, SettleFollows
<1> HIDE DEF q
<1>5. QED BY <1>2, <1>3, <1>4, OneRow

\* The range is claimed: the worker had read all of it.
LEMMA ClaimFollows ==
    ASSUME Inv, NEW w \in Workers, claim_conversational_reply(w)
    PROVE  PairsFollow /\ PairsKept
<1>1. PICK a, t : a = worker[w].agent /\ t = worker[w].token
  OBVIOUS
<1> DEFINE p == pair[a]
           h == Max({p.shown, worker[w].seq})
           q == [p EXCEPT !.queued = None, !.running = t, !.through = p.req, !.shown = h]
<1>2. /\ worker[w].pc = "prepared" /\ seq' = seq /\ exchange' = exchange
      /\ p.queued = t /\ p.running = None /\ p.req = worker[w].req
  BY <1>1 DEF claim_conversational_reply, Claimable
<1>3. a \in Agents /\ t \in Tokens
  BY <1>1, <1>2, HolderFacts
<1>4. pair' = [pair EXCEPT ![a] = q]
  <2>1. pair \in [Agents -> PairRecord]
    BY DEF Inv, TypeOK
  <2>2. pair' = [pair EXCEPT ![a].queued = None, ![a].running = t, ![a].through = pair[a].req,
                             ![a].shown = Max({@, worker[w].seq})]
    BY <1>1 DEF claim_conversational_reply
  <2>3. QED BY <1>3, <2>1, <2>2 DEF PairRecord
<1>5. seq \in Nat /\ Row(p, seq) /\ None \notin HeldTokens(a)
  BY <1>3, AgentFacts
<1>6. /\ p \in PairRecord /\ p.req \in Seqs /\ p.shown \in Seqs /\ p.req \in Nat /\ p.shown \in Nat
      /\ p.ack \in Nat /\ None \notin Tokens /\ p.pending = {t} /\ p.owed = FALSE
  BY <1>2, <1>3, <1>5 DEF Row, PairRecord, Seqs, None, Tokens
<1>7. worker[w].seq \in Seqs /\ worker[w].seq \in Nat /\ p.req <= worker[w].seq
  BY <1>2 DEF Inv, TypeOK, WorkerRecord, WorkerState, WorkerGood, Seqs
<1>8. h \in Seqs /\ h >= p.shown /\ h >= worker[w].seq /\ h \in Nat
  BY <1>6, <1>7, MaxOfTwo DEF Seqs
<1> HIDE DEF h, p
<1>9. /\ q \in PairRecord /\ q.queued = None /\ q.running = t /\ q.through = p.req /\ q.shown = h
      /\ q.ack = p.ack /\ q.req = p.req /\ q.pending = p.pending /\ q.owed = p.owed
  BY <1>3, <1>6, <1>8 DEF PairRecord
<1> HIDE DEF q
<1>10. Row(q, seq)
  <2>1. q.pending = {q.queued, q.running} \ {None}
    BY <1>3, <1>6, <1>9
  <2>2. p.ack < p.req /\ p.req <= seq /\ p.ack <= h /\ p.req <= h
    BY <1>2, <1>3, <1>5, <1>6, <1>7, <1>8 DEF Row
  <2>3. QED BY <1>6, <1>9, <2>1, <2>2 DEF Row
<1>11. Contracted(p, q)
  BY <1>2, <1>3, <1>6, <1>9 DEF Contracted, WakeOf
<1>12. Keeps(a, p, q)
  BY <1>5, <1>9 DEF Keeps
<1>13. Follows(a, p, q, seq, exchange)
  BY <1>6, <1>9, <1>10, <1>11 DEF Follows
<1>14. QED BY <1>2, <1>3, <1>4, <1>12, <1>13, OneRow DEF p

\* The process ends without a callback.
LEMMA FailureFollows ==
    ASSUME Inv, NEW w \in Workers, NEW qualifies \in BOOLEAN, InvocationFails(w, qualifies)
    PROVE  PairsFollow /\ PairsKept
<1>1. PICK a, t : a = worker[w].agent /\ t = worker[w].token
  OBVIOUS
<1> DEFINE q == IF qualifies THEN settle_with_breaker_failure(a, pair[a], t, Held(exchange, a))
                ELSE settle_reply(a, pair[a], t, FALSE, Held(exchange, a))
<1>2. pair' = [pair EXCEPT ![a] = q] /\ seq' = seq /\ exchange' = exchange /\ worker[w].pc # "idle"
  BY <1>1 DEF InvocationFails
<1>3. a \in Agents /\ t \in Tokens
  BY <1>1, <1>2, HolderFacts
<1>4. Follows(a, pair[a], q, seq, exchange) /\ Keeps(a, pair[a], q)
  <2>1. CASE qualifies
    BY <1>3, <2>1, AgentFacts, CountFollows
  <2>2. CASE ~qualifies
    BY <1>3, <2>2, AgentFacts, SettleFollows
  <2>3. QED BY <2>1, <2>2
<1> HIDE DEF q
<1>5. QED BY <1>2, <1>3, <1>4, OneRow

\* The process ends after its receipt was settled.
LEMMA EndFollows ==
    ASSUME Inv, NEW w \in Workers, InvocationEnds(w)
    PROVE  PairsFollow /\ PairsKept
<1>1. PICK a : a = worker[w].agent
  OBVIOUS
<1>2. seq' = seq /\ exchange' = exchange /\ worker[w].pc # "idle" /\ a \in Agents
  BY <1>1, HolderFacts DEF InvocationEnds
<1>3. PICK q : /\ pair' = [pair EXCEPT ![a] = q]
               /\ q = pair[a] \/ q = CloseBreaker(pair[a])
  <2>1. pair = [pair EXCEPT ![a] = pair[a]]
    BY DEF Inv, TypeOK
  <2>2. pair' = [pair EXCEPT ![a] = CloseBreaker(pair[a])] \/ pair' = pair
    BY <1>1 DEF InvocationEnds
  <2>3. QED BY <2>1, <2>2
<1>4. Follows(a, pair[a], q, seq, exchange) /\ Keeps(a, pair[a], q)
  <2>1. CASE q = pair[a]
    BY <1>2, <2>1, AgentFacts, RestFollows
  <2>2. CASE q = CloseBreaker(pair[a])
    <3>1. pair[a] \in PairRecord
      BY <1>2 DEF Inv, TypeOK
    <3>2. /\ q \in PairRecord /\ q.breaker \in {pair[a].breaker, "closed"}
          /\ q.queued = pair[a].queued /\ q.running = pair[a].running /\ q.pending = pair[a].pending
          /\ q.ack = pair[a].ack /\ q.req = pair[a].req /\ q.through = pair[a].through
          /\ q.shown = pair[a].shown /\ q.catchup = pair[a].catchup /\ q.owed = pair[a].owed
      BY <2>2, <3>1, CloseFacts
    <3>3. Row(pair[a], seq) /\ (pair[a].owed => pair[a].running # None \/ Held(exchange, a))
      BY <1>2, AgentFacts
    <3>4. Row(q, seq) /\ (q.owed => q.running # None \/ Held(exchange, a))
      BY <3>2, <3>3 DEF Row
    <3>5. Contracted(pair[a], q)
      BY <3>2 DEF Contracted, WakeOf
    <3>6. QED BY <3>2, <3>4, <3>5 DEF Follows, Keeps
  <2>3. QED BY <1>3, <2>1, <2>2
<1>5. QED BY <1>2, <1>3, <1>4, OneRow

\* The timer mints a probe.
LEMMA ProbeFollows ==
    ASSUME Inv, NEW a \in Agents, mint_due_thread_reply_breaker_probes(a)
    PROVE  PairsFollow /\ PairsKept
<1> DEFINE p == pair[a]
           m == mint_reply_invocation(a, p)
           q == [m EXCEPT !.breaker = "probe"]
<1>1. /\ pair' = [pair EXCEPT ![a] = q] /\ seq' = seq /\ exchange' = exchange
      /\ Unread(p) /\ ~HasSlot(p)
  BY DEF mint_due_thread_reply_breaker_probes
<1>2. seq \in Nat /\ Row(p, seq) /\ p \in PairRecord
  BY AgentFacts DEF Row
<1>3. p.pending = {}
  BY <1>1, <1>2 DEF Row, HasSlot
<1>4. Mints(a, p, m)
  BY <1>2, <1>3, MintFacts
<1> HIDE DEF p, m
<1>5. /\ q \in PairRecord /\ q.queued = m.queued /\ q.running = m.running /\ q.pending = m.pending
      /\ q.ack = m.ack /\ q.req = m.req /\ q.through = m.through /\ q.shown = m.shown /\ q.owed = m.owed
  BY <1>4 DEF Mints, PairRecord, BreakerStates
<1> HIDE DEF q
<1>6. Mints(a, p, q)
  BY <1>4, <1>5 DEF Mints
<1>7. Row(q, seq)
  BY <1>1, <1>2, <1>6, MintsRow
<1>8. None \notin Tokens
  BY DEF None, Tokens
<1>9. Contracted(p, q)
  BY <1>1, <1>6, <1>8 DEF Mints, Contracted, WakeOf, HasSlot
<1>10. Keeps(a, p, q) /\ q.owed = FALSE
  BY <1>6 DEF Mints, Keeps
<1>11. Follows(a, p, q, seq, exchange)
  BY <1>7, <1>9, <1>10 DEF Follows
<1>12. QED BY <1>1, <1>10, <1>11, OneRow DEF p

\* The rows are left alone.
LEMMA SameFollows ==
    ASSUME Inv, UNCHANGED <<seq, pair, exchange>>
    PROVE  PairsFollow /\ PairsKept
<1>1. ASSUME NEW a \in Agents
      PROVE  Follows(a, pair[a], pair'[a], seq', exchange') /\ Keeps(a, pair[a], pair'[a])
  BY AgentFacts, RestFollows
<1>2. QED BY <1>1 DEF PairsFollow, PairsKept, Inv, TypeOK

-----------------------------------------------------------------------------
(* The rows after any step                                                 *)

\* Every step of an agent's row is one of the contract's.
PairsStep ==
    /\ pair' \in [Agents -> PairRecord]
    /\ \A a \in Agents :
        /\ Row(pair'[a], seq')
        /\ pair'[a].owed => pair'[a].running # None \/ Held(exchange, a)'
        /\ \/ Contracted(pair[a], pair'[a])
           \/ events' = events + 1 /\ Discards(pair[a], pair'[a])

\* The steps of the normal course.
LEMMA FollowStep ==
    ASSUME PairsFollow
    PROVE  PairsStep
BY DEF PairsFollow, PairsStep, Follows, Held

\* A discarded row.
LEMMA DiscardStep ==
    ASSUME NEW a, NEW s \in Nat, NEW p, Row(p, s), None \notin HeldTokens(a)
    PROVE  LET q == discard_reply_delivery(p)
           IN Row(q, s) /\ q.owed = FALSE /\ Discards(p, q) /\ Keeps(a, p, q)
<1> DEFINE q == discard_reply_delivery(p)
<1>1. /\ Row(q, s)
      /\ q.queued = None /\ q.running = None /\ q.through = 0 /\ q.owed = FALSE
      /\ q.ack = p.req /\ q.req = p.req
  BY DiscardFacts
<1> HIDE DEF q
<1>2. Discards(p, q) /\ Keeps(a, p, q)
  BY <1>1 DEF Discards, Keeps, WakeOf
<1>3. QED BY <1>1, <1>2 DEF q

\* Abort or archive.
LEMMA AbortStep ==
    ASSUME Inv, abort_thread_replies
    PROVE  PairsStep /\ PairsKept
<1>1. /\ pair' = [a \in Agents |-> discard_reply_delivery(pair[a])]
      /\ seq' = seq /\ events' = events + 1
  BY DEF abort_thread_replies
<1>2. ASSUME NEW a \in Agents
      PROVE  /\ Row(pair'[a], seq) /\ pair'[a].owed = FALSE /\ pair'[a] \in PairRecord
             /\ Discards(pair[a], pair'[a]) /\ Keeps(a, pair[a], pair'[a])
  <2>1. pair'[a] = discard_reply_delivery(pair[a])
    BY <1>1
  <2>2. Row(pair'[a], seq) /\ pair'[a].owed = FALSE
        /\ Discards(pair[a], pair'[a]) /\ Keeps(a, pair[a], pair'[a])
    BY <2>1, AgentFacts, DiscardStep
  <2>3. QED BY <2>2 DEF Row
<1>3. pair' \in [Agents -> PairRecord]
  <2>1. pair' = [a \in Agents |-> pair'[a]]
    BY <1>1
  <2>2. QED BY <1>2, <2>1
<1>4. QED BY <1>1, <1>2, <1>3 DEF PairsStep, PairsKept

\* A participant is removed.
LEMMA RemoveStep ==
    ASSUME Inv, NEW a \in Agents, remove_participant(a)
    PROVE  PairsStep /\ PairsKept
<1> DEFINE q == discard_reply_delivery(pair[a])
<1>1. /\ pair' = [pair EXCEPT ![a] = q]
      /\ exchange' = [exchange EXCEPT !.held = @ \ {a}]
      /\ seq' = seq /\ events' = events + 1
  BY DEF remove_participant
<1>2. Row(q, seq) /\ q.owed = FALSE /\ Discards(pair[a], q) /\ Keeps(a, pair[a], q)
  BY AgentFacts, DiscardStep
<1> HIDE DEF q
<1>3. pair \in [Agents -> PairRecord] /\ q \in PairRecord
  BY <1>2 DEF Inv, TypeOK, Row
<1>4. pair' \in [Agents -> PairRecord] /\ pair'[a] = q /\ \A b \in Agents : b # a => pair'[b] = pair[b]
  BY <1>1, <1>3
<1>5. \A b \in Agents : Held(exchange, b)' = Held(exchange, b)
  BY <1>1 DEF Held, Inv, TypeOK, ExchangeRecord
<1>6. ASSUME NEW b \in Agents, b # a
      PROVE  /\ Follows(b, pair[b], pair'[b], seq, exchange)
             /\ Keeps(b, pair[b], pair'[b])
  BY <1>4, <1>6, AgentFacts, RestFollows
<1>7. QED BY <1>1, <1>2, <1>4, <1>5, <1>6 DEF PairsStep, PairsKept, Follows

\* The daemon dies and recovers.
LEMMA RecoverStep ==
    ASSUME Inv, NEW preserved, recover_reply_delivery_state(preserved)
    PROVE  PairsStep
<1>1. /\ pair' = [a \in Agents |-> IF a \in preserved THEN pair[a] ELSE RecoverPair(a, pair[a])]
      /\ seq' = seq /\ exchange' = exchange
  BY DEF recover_reply_delivery_state
<1>2. ASSUME NEW a \in Agents, a \notin preserved
      PROVE  /\ Row(pair'[a], seq) /\ pair'[a].owed = FALSE /\ pair'[a] \in PairRecord
             /\ Contracted(pair[a], pair'[a])
  <2>1. pair'[a] = RecoverPair(a, pair[a]) /\ Row(pair[a], seq) /\ seq \in Nat
    BY <1>1, <1>2, AgentFacts
  <2>2. PICK p, q : p = pair[a] /\ q = RecoverPair(a, p)
    OBVIOUS
  <2>3. /\ Row(q, seq) /\ q.owed = FALSE /\ q.ack = p.ack /\ q.req = p.req
        /\ q.running = None
        /\ p.running # None => q.queued # None /\ q.through = 0
        /\ p.queued # None => q.queued # None
        /\ p.running = None => q.through = p.through
    <3>1. Row(p, seq) /\ seq \in Nat
      BY <2>1, <2>2
    <3>2. LET r == RecoverPair(a, p)
          IN /\ Row(r, seq) /\ r.owed = FALSE /\ r.ack = p.ack /\ r.req = p.req
             /\ r.running = None
             /\ p.running # None => r.queued # None /\ r.through = 0
             /\ p.queued # None => r.queued # None
             /\ p.running = None => r.through = p.through
             /\ p.running = None /\ ~p.catchup => r.queued = p.queued
      BY <3>1, RecoverFacts, Zenon
    <3>3. QED BY <2>2, <3>2, Zenon
  <2>4. p.queued = None \/ p.running = None
    BY <2>1, <2>2 DEF Row
  <2>5. Contracted(p, q)
    BY <2>3, <2>4 DEF Contracted, WakeOf
  <2>6. q = pair'[a] /\ q \in PairRecord
    BY <2>1, <2>2, <2>3 DEF Row
  <2>7. QED BY <2>2, <2>3, <2>5, <2>6
<1>3. ASSUME NEW a \in Agents, a \in preserved
      PROVE  Follows(a, pair[a], pair'[a], seq, exchange) /\ pair'[a] \in PairRecord
  <2>1. pair'[a] = pair[a]
    BY <1>1, <1>3
  <2>2. QED BY <2>1, AgentFacts, RestFollows DEF Row
<1>4. pair' \in [Agents -> PairRecord]
  <2>1. pair' = [a \in Agents |-> pair'[a]]
    BY <1>1
  <2>2. QED BY <1>2, <1>3, <2>1
<1>5. QED BY <1>1, <1>2, <1>3, <1>4 DEF PairsStep, Follows, Held

\* What any step does to the rows.
LEMMA PairsNext ==
    ASSUME Inv, Next
    PROVE  PairsStep /\ (PairsKept \/ Restart)
<1>1. CASE Post
  BY <1>1, PostFollows, FollowStep DEF Post
<1>2. ASSUME NEW a \in Agents, Take(a)
      PROVE  PairsFollow /\ PairsKept
  <2>1. CASE \E w \in Workers : peek_conversational_reply(w, a)
    BY <2>1, SameFollows DEF peek_conversational_reply
  <2>2. CASE \E w \in Workers, answered \in BOOLEAN : RefuseLaunch(w, a, answered)
    BY <2>2, RefuseFollows
  <2>3. QED BY <1>2, <2>1, <2>2 DEF Take
<1>3. ASSUME NEW w \in Workers, Advance(w)
      PROVE  PairsFollow /\ PairsKept
  <2>1. CASE DeferLaunch(w)
    BY <2>1, SameFollows DEF DeferLaunch
  <2>2. QED BY <1>3, <2>1, PreparationFollows, ClaimFollows DEF Advance
<1>4. ASSUME NEW a \in Agents, Answer(a)
      PROVE  PairsFollow /\ PairsKept
  BY <1>4, ReplyFollows, DeclineFollows DEF Answer
<1>5. ASSUME NEW w \in Workers, Finish(w)
      PROVE  PairsFollow /\ PairsKept
  BY <1>5, FailureFollows, EndFollows DEF Finish
<1>6. ASSUME NEW elapsed \in Elapsed, reaper_sweep_reply_exchanges(elapsed)
      PROVE  PairsFollow /\ PairsKept
  BY <1>6, SweepFollows
<1>7. ASSUME NEW a \in Agents, mint_due_thread_reply_breaker_probes(a)
      PROVE  PairsFollow /\ PairsKept
  BY <1>7, ProbeFollows
<1>8. ASSUME NEW a \in Agents, invite_participant(a)
      PROVE  PairsFollow /\ PairsKept
  BY <1>8, SameFollows DEF invite_participant
<1>9. ASSUME NEW speaker \in members, NEW elapsed \in Elapsed, ReplyIsolated(speaker, elapsed)
      PROVE  PairsFollow /\ PairsKept
  BY <1>9, IsolatedFollows
<1>10. QED
  BY <1>1, <1>2, <1>3, <1>4, <1>5, <1>6, <1>7, <1>8, <1>9, FollowStep, AbortStep, RemoveStep,
     RecoverStep DEF Next, Restart

-----------------------------------------------------------------------------
(* The workers and the exchange                                            *)

\* The worker holds what it held, whatever became of its receipt.
SameWork(w) ==
    /\ worker'[w].pc = worker[w].pc /\ worker'[w].agent = worker[w].agent
    /\ worker'[w].token = worker[w].token
    /\ worker'[w].req = worker[w].req /\ worker'[w].seq = worker[w].seq

\* A step that lets the workers hold what they held, or lets go.
LEMMA SameWorkGood ==
    ASSUME Inv, NEW w \in Workers, (PairsKept /\ SameWork(w)) \/ worker'[w] = Idle
    PROVE  WorkerGood(w)'
<1>1. CASE worker'[w] = Idle
  BY <1>1, DeliveryAssumption DEF WorkerGood, Idle
<1>2. CASE PairsKept /\ SameWork(w)
  <2>1. WorkerGood(w)
    BY DEF Inv, WorkerState
  <2>2. ASSUME worker[w].pc # "idle"
        PROVE  Keeps(worker[w].agent, pair[worker[w].agent], pair'[worker[w].agent])
               /\ worker[w].token \in HeldTokens(worker[w].agent)
    BY <1>2, <2>2, HolderFacts DEF PairsKept
  <2>3. QED BY <1>2, <2>1, <2>2 DEF WorkerGood, SameWork, Keeps
<1>3. QED BY <1>1, <1>2

\* Idle is a worker's record.
LEMMA IdleType ==
    Idle \in WorkerRecord
BY DeliveryAssumption DEF Idle, WorkerRecord, Seqs, BreakerStates

\* A worker that lets go, while the others hold on.
LEMMA LetGo ==
    ASSUME Inv, NEW w \in Workers, PairsKept, worker' = [worker EXCEPT ![w] = Idle]
    PROVE  worker' \in [Workers -> WorkerRecord] /\ WorkerState'
<1>1. worker \in [Workers -> WorkerRecord]
  BY DEF Inv, TypeOK
<1>2. worker' \in [Workers -> WorkerRecord]
  BY <1>1, IdleType
<1>3. ASSUME NEW v \in Workers PROVE SameWork(v) \/ worker'[v] = Idle
  BY <1>1 DEF SameWork
<1>4. QED BY <1>2, <1>3, SameWorkGood DEF WorkerState

\* A worker whose receipt is settled.
LEMMA ReceiptKept ==
    ASSUME Inv, PairsKept, NEW S, NEW receipt \in {"answered", "failed"},
           worker' = [w \in Workers |-> IF w \in S THEN [worker[w] EXCEPT !.receipt = receipt]
                                        ELSE worker[w]]
    PROVE  worker' \in [Workers -> WorkerRecord] /\ WorkerState'
<1>1. worker \in [Workers -> WorkerRecord]
  BY DEF Inv, TypeOK
<1>2. ASSUME NEW w \in Workers PROVE worker'[w] \in WorkerRecord /\ SameWork(w)
  <2>1. worker[w] \in WorkerRecord
    BY <1>1
  <2>2. worker'[w] = worker[w] \/ worker'[w] = [worker[w] EXCEPT !.receipt = receipt]
    OBVIOUS
  <2>3. QED BY <2>1, <2>2 DEF WorkerRecord, SameWork
<1>3. worker' = [w \in Workers |-> worker'[w]]
  OBVIOUS
<1>4. worker' \in [Workers -> WorkerRecord]
  BY <1>2, <1>3
<1>5. QED BY <1>2, <1>4, SameWorkGood DEF WorkerState

\* The worker reads its wake: the breaker is not open, and the thread holds
\* all that is required.
LEMMA PeekWorkers ==
    ASSUME Inv, PairsKept, NEW w \in Workers, NEW a \in Agents, peek_conversational_reply(w, a)
    PROVE  worker' \in [Workers -> WorkerRecord] /\ WorkerState'
<1> DEFINE r == [pc |-> "prepared", agent |-> a, token |-> pair[a].queued, ack |-> pair[a].ack,
                 req |-> pair[a].req, seq |-> seq, breaker |-> pair[a].breaker, receipt |-> "pending"]
<1>1. /\ worker' = [worker EXCEPT ![w] = r] /\ pair' = pair
      /\ pair[a].breaker # "open" /\ pair[a].queued # None
  BY DEF peek_conversational_reply, Ready
<1>2. worker \in [Workers -> WorkerRecord] /\ pair[a] \in PairRecord /\ seq \in Seqs
  BY DEF Inv, TypeOK
<1>3. r \in WorkerRecord
  BY <1>2 DEF WorkerRecord, PairRecord
<1>4. worker' \in [Workers -> WorkerRecord] /\ worker'[w] = r
  BY <1>1, <1>2, <1>3
<1>5. WorkerGood(w)'
  <2>1. Row(pair[a], seq)
    BY AgentFacts
  <2>2. /\ worker'[w].pc = "prepared" /\ worker'[w].agent = a /\ worker'[w].token = pair[a].queued
        /\ worker'[w].req = pair[a].req /\ worker'[w].seq = seq
    BY <1>4
  <2>3. pair[a].queued \in Tokens /\ pair[a].req <= seq
    BY <1>1, <1>2, <2>1 DEF PairRecord, Row
  <2>4. QED BY <1>1, <2>2, <2>3 DEF WorkerGood
<1>6. ASSUME NEW v \in Workers, v # w PROVE WorkerGood(v)'
  <2>1. SameWork(v)
    BY <1>1, <1>2, <1>6 DEF SameWork
  <2>2. QED BY <2>1, SameWorkGood
<1>7. QED BY <1>4, <1>5, <1>6 DEF WorkerState

\* The worker claims its wake, which is no longer queued.
LEMMA ClaimWorkers ==
    ASSUME Inv, PairsKept, NEW w \in Workers, claim_conversational_reply(w)
    PROVE  worker' \in [Workers -> WorkerRecord] /\ WorkerState'
<1> DEFINE r == [worker[w] EXCEPT !.pc = "launched", !.ack = 0, !.req = 0, !.seq = 0]
<1>1. worker' = [worker EXCEPT ![w] = r] /\ worker[w].pc = "prepared"
  BY DEF claim_conversational_reply
<1>2. worker \in [Workers -> WorkerRecord] /\ pair \in [Agents -> PairRecord] /\ worker[w] \in WorkerRecord
  BY DEF Inv, TypeOK
<1>3. /\ r \in WorkerRecord /\ r.pc = "launched" /\ r.agent = worker[w].agent
      /\ r.token = worker[w].token
  <2>1. 0 \in Seqs
    BY DeliveryAssumption DEF Seqs
  <2>2. QED BY <1>2, <2>1 DEF WorkerRecord
<1> HIDE DEF r
<1>4. worker' \in [Workers -> WorkerRecord] /\ worker'[w] = r
  BY <1>1, <1>2, <1>3
<1>5. WorkerGood(w)'
  <2>1. worker[w].agent \in Agents /\ worker[w].token \in Tokens
    BY <1>1, HolderFacts
  <2>2. PICK a : a = worker[w].agent
    OBVIOUS
  <2>3. pair'[a].queued = None
    <3>1. pair' = [pair EXCEPT ![a].queued = None, ![a].running = worker[w].token,
                               ![a].through = pair[a].req, ![a].shown = Max({@, worker[w].seq})]
      BY <2>2 DEF claim_conversational_reply
    <3>2. QED BY <1>2, <2>1, <2>2, <3>1 DEF PairRecord
  <2>4. None \notin Tokens
    BY DEF None, Tokens
  <2>5. QED BY <1>3, <1>4, <2>1, <2>2, <2>3, <2>4 DEF WorkerGood
<1>6. ASSUME NEW v \in Workers, v # w PROVE WorkerGood(v)'
  <2>1. SameWork(v)
    BY <1>1, <1>2, <1>6 DEF SameWork
  <2>2. QED BY <2>1, SameWorkGood
<1>7. QED BY <1>4, <1>5, <1>6 DEF WorkerState

\* The workers after any step.
LEMMA WorkersNext ==
    ASSUME Inv, Next
    PROVE  worker' \in [Workers -> WorkerRecord] /\ WorkerState'
<1>0. PairsKept \/ Restart
  BY PairsNext
<1>1. CASE Restart
  <2>1. \A w \in Workers : worker'[w] = Idle
    BY <1>1 DEF Restart, recover_reply_delivery_state
  <2>2. worker' = [w \in Workers |-> Idle]
    BY <1>1 DEF Restart, recover_reply_delivery_state
  <2>3. QED BY <2>1, <2>2, IdleType, SameWorkGood DEF WorkerState
<1> SUFFICES ASSUME PairsKept
             PROVE  worker' \in [Workers -> WorkerRecord] /\ WorkerState'
  BY <1>0, <1>1
<1>2. CASE UNCHANGED worker
  <2>1. \A w \in Workers : SameWork(w)
    BY <1>2 DEF SameWork
  <2>2. QED BY <1>2, <2>1, SameWorkGood DEF WorkerState, Inv, TypeOK
<1>3. ASSUME NEW a \in Agents, Take(a)
      PROVE  worker' \in [Workers -> WorkerRecord] /\ WorkerState'
  BY <1>2, <1>3, PeekWorkers DEF Take, RefuseLaunch
<1>4. ASSUME NEW w \in Workers, Advance(w)
      PROVE  worker' \in [Workers -> WorkerRecord] /\ WorkerState'
  BY <1>4, ClaimWorkers, LetGo DEF Advance, PreparationFails, DeferLaunch
<1>5. CASE \E speaker \in members, elapsed \in Elapsed : ReplyIsolated(speaker, elapsed)
  BY <1>2, <1>5 DEF ReplyIsolated
<1>6. ASSUME NEW w \in Workers, Finish(w)
      PROVE  worker' \in [Workers -> WorkerRecord] /\ WorkerState'
  BY <1>6, LetGo DEF Finish, InvocationFails, InvocationEnds
<1>7. ASSUME NEW T, NEW receipt \in {"answered", "failed"}, worker' = Settled(T, receipt)
      PROVE  worker' \in [Workers -> WorkerRecord] /\ WorkerState'
  <2> DEFINE S == {v \in Workers : worker[v].agent \in T /\ worker[v].pc = "launched"
                                                      /\ worker[v].receipt = "pending"}
  <2>1. worker' = [v \in Workers |-> IF v \in S THEN [worker[v] EXCEPT !.receipt = receipt]
                                     ELSE worker[v]]
    BY <1>7 DEF Settled
  <2> HIDE DEF S
  <2>2. QED BY <2>1, ReceiptKept
<1>8. CASE Post
  BY <1>2, <1>8 DEF Post, record_conversational_arrival
<1>9. CASE \E elapsed \in Elapsed : reaper_sweep_reply_exchanges(elapsed)
  BY <1>2, <1>9 DEF reaper_sweep_reply_exchanges
<1>10. CASE \E a \in Agents : mint_due_thread_reply_breaker_probes(a) \/ invite_participant(a)
  BY <1>2, <1>10 DEF mint_due_thread_reply_breaker_probes, invite_participant
<1>11. CASE abort_thread_replies \/ \E a \in Agents : remove_participant(a) \/ Answer(a)
  BY <1>7, <1>11 DEF abort_thread_replies, remove_participant, Answer, reply_conversational, decline_thread
<1>12. QED
  BY <1>1, <1>3, <1>4, <1>5, <1>6, <1>8, <1>9, <1>10, <1>11 DEF Next

\* Only a restart loses an owner, and only of a wake.
LEMMA LostNext ==
    ASSUME Inv, Next
    PROVE  lost' \in [Agents -> Tokens \cup {None}]
<1>0. lost \in [Agents -> Tokens \cup {None}] /\ pair \in [Agents -> PairRecord]
  BY DEF Inv, TypeOK
<1>1. CASE Restart
  <2>1. \A a \in Agents : Slot(pair[a]) \in Tokens \cup {None}
    BY <1>0 DEF Slot, PairRecord
  <2>2. QED BY <1>1, <2>1 DEF Restart, recover_reply_delivery_state
<1>2. CASE ~Restart
  <2>1. lost' = lost
    BY <1>2 DEF Next, Post, Take, Advance, Answer, Finish, record_conversational_arrival,
           peek_conversational_reply, RefuseLaunch, PreparationFails, claim_conversational_reply, DeferLaunch,
           reply_conversational, ReplyIsolated, decline_thread, InvocationFails, InvocationEnds,
           reaper_sweep_reply_exchanges, mint_due_thread_reply_breaker_probes, abort_thread_replies,
           remove_participant, invite_participant
  <2>2. QED BY <1>0, <2>1
<1>3. QED BY <1>1, <1>2

\* The other variables, after any step.
LEMMA ExchangeNext ==
    ASSUME Inv, Next
    PROVE  /\ seq' \in Seqs /\ exchange' \in ExchangeRecord /\ members' \in SUBSET Agents
           /\ events' \in 0 .. MaxEvents /\ ExchangeState'
<1>0. /\ seq \in Seqs /\ exchange \in ExchangeRecord /\ members \in SUBSET Agents
      /\ events \in 0 .. MaxEvents /\ ExchangeState /\ seq \in Nat /\ exchange.seq \in Nat
  BY DEF Inv, TypeOK, Seqs, ExchangeRecord
<1>1. NoExchange \in ExchangeRecord /\ NoExchange.seq = 0 /\ NoExchange.held = {}
  BY DeliveryAssumption DEF NoExchange, ExchangeRecord, Seqs
<1>2. ASSUME exchange' = exchange \/ exchange' = NoExchange, seq' = seq \/ (seq < MaxSeq /\ seq' = seq + 1)
      PROVE  seq' \in Seqs /\ exchange' \in ExchangeRecord /\ ExchangeState'
  <2>1. seq' \in Seqs /\ seq' \in Nat /\ seq <= seq'
    BY <1>0, <1>2, DeliveryAssumption DEF Seqs
  <2>2. QED BY <1>0, <1>1, <1>2, <2>1 DEF ExchangeState
<1>3. CASE Post
  <2>1. PICK speaker \in members \cup {Founder}, m \in SUBSET members, f \in BOOLEAN, elapsed \in Elapsed :
            record_conversational_arrival(speaker, m, f, elapsed)
    BY <1>3 DEF Post
  <2>2. /\ seq < MaxSeq /\ seq' = seq + 1 /\ UNCHANGED <<members, events>>
        /\ \/ exchange' = exchange \/ exchange' = NoExchange
           \/ exchange' = [open |-> TRUE, seq |-> seq + 1, cohort |-> m,
                           held |-> (members \ {speaker}) \ m]
    BY <2>1 DEF record_conversational_arrival
  <2>3. CASE exchange' = [open |-> TRUE, seq |-> seq + 1, cohort |-> m, held |-> (members \ {speaker}) \ m]
    <3>1. seq' \in Seqs /\ seq' \in Nat
      BY <1>0, <2>2, DeliveryAssumption DEF Seqs
    <3>2. exchange' \in ExchangeRecord
      BY <1>0, <2>2, <2>3, <3>1 DEF ExchangeRecord
    <3>3. ExchangeState'
      BY <2>2, <2>3, <3>1 DEF ExchangeState
    <3>4. QED BY <1>0, <2>2, <3>1, <3>2, <3>3
  <2>4. QED BY <1>0, <1>2, <2>2, <2>3
<1>4. ASSUME \/ \E a \in Agents : Answer(a)
             \/ \E speaker \in members, elapsed \in Elapsed : ReplyIsolated(speaker, elapsed)
      PROVE  /\ UNCHANGED <<members, events>> /\ (exchange' = exchange \/ exchange' = NoExchange)
             /\ seq' = seq \/ (seq < MaxSeq /\ seq' = seq + 1)
  BY <1>4 DEF Answer, reply_conversational, decline_thread, ReplyIsolated
<1>5. ASSUME \E elapsed \in Elapsed : reaper_sweep_reply_exchanges(elapsed)
      PROVE  UNCHANGED <<members, events, seq>> /\ exchange' = NoExchange
  BY <1>5 DEF reaper_sweep_reply_exchanges
<1>6. ASSUME abort_thread_replies \/ Restart
      PROVE  /\ UNCHANGED <<members, seq>> /\ (exchange' = exchange \/ exchange' = NoExchange)
             /\ events < MaxEvents /\ events' = events + 1
  BY <1>6 DEF abort_thread_replies, Restart, recover_reply_delivery_state
<1>7. ASSUME NEW a \in Agents, remove_participant(a)
      PROVE  /\ seq' = seq /\ members' = members \ {a} /\ events < MaxEvents /\ events' = events + 1
             /\ exchange' \in ExchangeRecord /\ ExchangeState'
  <2>1. /\ seq' = seq /\ members' = members \ {a} /\ events < MaxEvents /\ events' = events + 1
        /\ exchange' = [exchange EXCEPT !.held = @ \ {a}]
    BY <1>7 DEF remove_participant
  <2>2. /\ exchange' \in ExchangeRecord /\ exchange'.open = exchange.open /\ exchange'.seq = exchange.seq
        /\ exchange'.cohort = exchange.cohort /\ exchange'.held = exchange.held \ {a}
    BY <1>0, <2>1 DEF ExchangeRecord
  <2>3. QED BY <1>0, <2>1, <2>2 DEF ExchangeState
<1>8. ASSUME NEW a \in Agents, Take(a) \/ mint_due_thread_reply_breaker_probes(a)
      PROVE  UNCHANGED <<members, events, seq, exchange>>
  BY <1>8 DEF Take, peek_conversational_reply, RefuseLaunch, mint_due_thread_reply_breaker_probes
<1>9. ASSUME NEW w \in Workers, Advance(w) \/ Finish(w)
      PROVE  UNCHANGED <<members, events, seq, exchange>>
  BY <1>9 DEF Advance, Finish, PreparationFails, claim_conversational_reply, DeferLaunch,
              InvocationFails, InvocationEnds
<1>10. ASSUME NEW a \in Agents, invite_participant(a)
       PROVE  UNCHANGED <<events, seq, exchange>> /\ members' = members \cup {a}
  BY <1>10 DEF invite_participant
<1>11. events < MaxEvents => events + 1 \in 0 .. MaxEvents
  BY <1>0, DeliveryAssumption
<1>12. CASE \/ Post
            \/ \E a \in Agents : Answer(a)
            \/ \E speaker \in members, elapsed \in Elapsed : ReplyIsolated(speaker, elapsed)
  BY <1>0, <1>2, <1>3, <1>4, <1>12
<1>13. CASE \E elapsed \in Elapsed : reaper_sweep_reply_exchanges(elapsed)
  BY <1>0, <1>2, <1>5, <1>13
<1>14. CASE abort_thread_replies \/ Restart
  BY <1>0, <1>2, <1>6, <1>11, <1>14
<1>15. CASE \E a \in Agents : remove_participant(a)
  BY <1>0, <1>7, <1>11, <1>15
<1>16. CASE \/ \E a \in Agents : Take(a) \/ mint_due_thread_reply_breaker_probes(a) \/ invite_participant(a)
            \/ \E w \in Workers : Advance(w) \/ Finish(w)
  BY <1>0, <1>2, <1>8, <1>9, <1>10, <1>16
<1>17. QED BY <1>12, <1>13, <1>14, <1>15, <1>16 DEF Next

-----------------------------------------------------------------------------
(* The invariant                                                           *)

\* Before the first message every row is new and every worker idle.
LEMMA InitInv ==
    Init => Inv
<1> SUFFICES ASSUME Init PROVE Inv
  OBVIOUS
<1>1. 0 \in Seqs /\ 0 \in 0 .. MaxEvents /\ 0 \in 0 .. Threshold
  BY DeliveryAssumption DEF Seqs
<1>2. NewPair \in PairRecord /\ Row(NewPair, 0) /\ NewPair.owed = FALSE
  BY <1>1 DEF NewPair, PairRecord, BreakerStates, Row, None
<1>3. NoExchange \in ExchangeRecord
  BY <1>1 DEF NoExchange, ExchangeRecord
<1>4. TypeOK
  BY <1>1, <1>2, <1>3, IdleType DEF Init, TypeOK
<1>5. Rows /\ Debts
  BY <1>2 DEF Init, Rows, Debts
<1>6. WorkerState
  BY DeliveryAssumption DEF Init, WorkerState, WorkerGood, Idle
<1>7. ExchangeState
  BY DEF Init, ExchangeState, NoExchange
<1>8. QED BY <1>4, <1>5, <1>6, <1>7 DEF Inv

\* Every step preserves the invariant.
LEMMA NextInv ==
    Inv /\ [Next]_vars => Inv'
<1> SUFFICES ASSUME Inv, [Next]_vars PROVE Inv'
  OBVIOUS
<1>1. CASE Next
  <2>1. PairsStep
    BY <1>1, PairsNext
  <2>2. worker' \in [Workers -> WorkerRecord] /\ WorkerState'
    BY <1>1, WorkersNext
  <2>3. /\ seq' \in Seqs /\ exchange' \in ExchangeRecord /\ members' \in SUBSET Agents
        /\ events' \in 0 .. MaxEvents /\ ExchangeState'
        /\ lost' \in [Agents -> Tokens \cup {None}]
    BY <1>1, ExchangeNext, LostNext
  <2>4. TypeOK'
    BY <2>1, <2>2, <2>3 DEF TypeOK, PairsStep
  <2>5. Rows' /\ Debts'
    BY <2>1 DEF Rows, Debts, PairsStep
  <2>6. QED BY <2>2, <2>3, <2>4, <2>5 DEF Inv
<1>2. CASE UNCHANGED vars
  BY <1>2 DEF vars, Inv, TypeOK, Rows, Debts, WorkerState, WorkerGood, ExchangeState
<1>3. QED BY <1>1, <1>2

\* The invariant holds in every reachable state.
THEOREM Invariance == Spec => []Inv
BY InitInv, NextInv, PTL DEF Spec

\* Every variable keeps its type.
THEOREM TypeCorrect == Spec => []TypeOK
<1>1. Inv => TypeOK
  BY DEF Inv
<1>2. QED BY <1>1, Invariance, PTL

\* At most one wake per agent, which is the only pending receipt, however
\* messages, claims, answers, exchanges, probes and restarts interleave.
THEOREM OneWakeEach == Spec => []OneWake
<1>1. Inv => OneWake
  BY DEF Inv, Rows, Row, OneWake
<1>2. QED BY <1>1, Invariance, PTL

\* No message is acknowledged that no launched prompt was built from and
\* nobody discarded.
THEOREM NoneSwallowed == Spec => []NothingSwallowed
<1>1. Inv => NothingSwallowed
  BY DEF Inv, Rows, Row, NothingSwallowed
<1>2. QED BY <1>1, Invariance, PTL

\* The wake that a closed exchange owes is marked until it is minted, and
\* only a run or another exchange delays it.
THEOREM DebtKept == Spec => []ReleaseKept
<1>1. Inv => ReleaseKept
  BY DEF Inv, Rows, Row, Debts, ReleaseKept
<1>2. QED BY <1>1, Invariance, PTL

\* A worker launches only by claiming.
LEMMA LaunchClaims ==
    ASSUME Inv, Next, NEW w \in Workers, worker[w].pc = "prepared", worker'[w].pc = "launched"
    PROVE  claim_conversational_reply(w)
<1>1. worker \in [Workers -> WorkerRecord]
  BY DEF Inv, TypeOK
<1>2. ASSUME NEW v \in Workers, NEW r, worker' = [worker EXCEPT ![v] = r]
      PROVE  v = w /\ r.pc = "launched"
  BY <1>1, <1>2
<1>3. Idle.pc # "launched"
  BY DEF Idle
<1>4. worker' # worker
  OBVIOUS
<1>5. ~Post /\ \A a \in Agents : ~mint_due_thread_reply_breaker_probes(a) /\ ~invite_participant(a)
  BY <1>4 DEF Post, record_conversational_arrival, mint_due_thread_reply_breaker_probes, invite_participant
<1>6. \A elapsed \in Elapsed : ~reaper_sweep_reply_exchanges(elapsed)
  BY <1>4 DEF reaper_sweep_reply_exchanges
<1>7. ASSUME NEW a \in Agents, Take(a) PROVE FALSE
  <2>1. PICK v \in Workers : peek_conversational_reply(v, a)
    BY <1>4, <1>7 DEF Take, RefuseLaunch
  <2>2. PICK r : worker' = [worker EXCEPT ![v] = r] /\ r.pc = "prepared"
    BY <2>1 DEF peek_conversational_reply
  <2>3. QED BY <1>2, <2>2
<1>8. ASSUME NEW v \in Workers, Advance(v) PROVE claim_conversational_reply(w)
  <2>1. CASE PreparationFails(v) \/ DeferLaunch(v)
    BY <1>2, <1>3, <2>1 DEF PreparationFails, DeferLaunch
  <2>2. CASE claim_conversational_reply(v)
    <3>1. PICK r : worker' = [worker EXCEPT ![v] = r]
      BY <2>2 DEF claim_conversational_reply
    <3>2. QED BY <1>2, <2>2, <3>1
  <2>3. QED BY <1>8, <2>1, <2>2 DEF Advance
<1>9. ASSUME NEW v \in Workers, Finish(v) PROVE FALSE
  BY <1>2, <1>3, <1>9 DEF Finish, InvocationFails, InvocationEnds
<1>10. \A speaker \in members, elapsed \in Elapsed : ~ReplyIsolated(speaker, elapsed)
  BY <1>4 DEF ReplyIsolated
<1>11. ASSUME NEW T, NEW receipt, worker' = Settled(T, receipt) PROVE FALSE
  BY <1>1, <1>11 DEF Settled, WorkerRecord
<1>12. ~abort_thread_replies /\ \A a \in Agents : ~remove_participant(a) /\ ~Answer(a)
  BY <1>11 DEF abort_thread_replies, remove_participant, Answer, reply_conversational, decline_thread
<1>13. ~Restart
  BY <1>3 DEF Restart, recover_reply_delivery_state
<1>14. QED
  BY <1>5, <1>6, <1>7, <1>8, <1>9, <1>10, <1>12, <1>13 DEF Next

\* A launch finds the breaker not open, although it was read earlier: a
\* breaker opens only when a wake is settled, which takes the queued token
\* from every worker that prepares it.
THEOREM OpenNeverLaunches == Spec => OpenLaunchesNothing
<1> DEFINE Past == \A w \in Workers :
                      (worker[w].pc = "prepared" /\ worker'[w].pc = "launched")
                      => pair[worker[w].agent].breaker # "open"
<1>1. ASSUME Inv, [Next]_vars PROVE [Past]_vars
  <2> SUFFICES ASSUME Next, NEW w \in Workers, worker[w].pc = "prepared", worker'[w].pc = "launched"
               PROVE  pair[worker[w].agent].breaker # "open"
    BY <1>1
  <2>1. claim_conversational_reply(w)
    BY <1>1, LaunchClaims
  <2>2. worker[w].token = pair[worker[w].agent].queued
    BY <2>1 DEF claim_conversational_reply, Claimable
  <2>3. QED BY <1>1, <2>2 DEF Inv, WorkerState, WorkerGood
<1>2. QED BY <1>1, Invariance, PTL DEF Spec, OpenLaunchesNothing, Past

-----------------------------------------------------------------------------
(* Members an exchange holds back                                          *)

\* A message that reaches a held member without closing the exchange.
LEMMA HeldArrival ==
    ASSUME Inv, NEW a \in Agents, NEW m, NEW f, NEW recipients, NEW pairs,
           a \in exchange.held, pairs[a] = pair[a], seq < MaxSeq, ~HasSlot(pair[a]),
           Addressing(m, f, recipients), f \in BOOLEAN,
           HasSlot(Route(pairs, seq + 1, WakeSet(exchange, m, recipients, f), recipients)[a])
    PROVE  a \in m /\ f = FALSE
<1> DEFINE wake == WakeSet(exchange, m, recipients, f)
           q == Route(pairs, seq + 1, wake, recipients)[a]
<1>1. exchange.open /\ a \notin exchange.cohort
  BY DEF Inv, ExchangeState
<1>2. a \in wake
  <2>1. SUFFICES ASSUME a \notin wake PROVE FALSE
    OBVIOUS
  <2>2. q = raise_required(pair[a], seq + 1) \/ q = pair[a]
    BY <2>1 DEF Route
  <2>3. seq \in Nat /\ seq + 1 \in Seqs /\ Row(pair[a], seq)
    BY AgentFacts, DeliveryAssumption DEF Seqs
  <2> HIDE DEF wake
  <2>4. LET r == raise_required(pair[a], seq + 1)
        IN r.queued = pair[a].queued /\ r.running = pair[a].running
    BY <2>3, RaiseFacts
  <2>5. HasSlot(q)
    BY DEF wake
  <2> HIDE DEF q
  <2>6. QED BY <2>2, <2>4, <2>5 DEF HasSlot
<1>3. QED BY <1>1, <1>2 DEF WakeSet, Addressing

\* A failed wake that is in no slot leaves a row without slots alone.
LEMMA SettleNothing ==
    ASSUME NEW a \in Agents, NEW p, ~HasSlot(p), NEW t \in Tokens, NEW held \in BOOLEAN
    PROVE  /\ settle_reply(a, p, t, FALSE, held) = p
           /\ settle_with_breaker_failure(a, p, t, held) = p
<1>1. None \notin Tokens
  BY DEF None, Tokens
<1>2. t \notin {p.queued, p.running}
  BY <1>1 DEF HasSlot
<1>3. QED BY <1>2 DEF settle_reply, settle_with_breaker_failure

\* Who may wake a held member.
HeldWoken(a) ==
    \/ Restart /\ pair[a].catchup
    \/ \E s \in members \ {a}, elapsed \in Elapsed : ReplyIsolated(s, elapsed)
    \/ \E m \in SUBSET members, elapsed \in Elapsed :
          /\ a \in m
          /\ \/ \E s \in members \cup {Founder} :
                   record_conversational_arrival(s, m, FALSE, elapsed)
             \/ \E b \in Agents : reply_conversational(b, m, FALSE, elapsed)

\* A member that stays held is woken by a mention, by the answer of a
\* bootstrap or a follow-up, or by a restart that finds an older debt.
LEMMA HeldStep ==
    ASSUME Inv, Next, NEW a \in Agents, a \in exchange.held, a \in exchange'.held,
           exchange'.seq = exchange.seq, ~HasSlot(pair[a]), HasSlot(pair'[a])
    PROVE  HeldWoken(a)
<1>0. /\ pair \in [Agents -> PairRecord] /\ exchange.open /\ a \notin exchange.cohort
      /\ exchange.seq <= seq /\ exchange.seq \in Nat /\ seq \in Nat
  BY DEF Inv, TypeOK, ExchangeState, ExchangeRecord, Seqs
<1>1. exchange' # NoExchange
  BY DEF NoExchange
<1>2. pair'[a] # pair[a]
  OBVIOUS
<1>3. CASE Post
  <2>1. PICK s \in members \cup {Founder}, m \in SUBSET members, f \in BOOLEAN, elapsed \in Elapsed :
            record_conversational_arrival(s, m, f, elapsed)
    BY <1>3 DEF Post
  <2>2. exchange'.seq # seq + 1
    BY <1>0
  <2>3. ~evaluate_exchange_closure(exchange, pair, elapsed)
    BY <1>1, <2>1, <2>2 DEF record_conversational_arrival
  <2> DEFINE recipients == members \ {s}
  <2>4. /\ seq < MaxSeq /\ Addressing(m, f, recipients)
        /\ pair' = Route(pair, seq + 1, WakeSet(exchange, m, recipients, f), recipients)
    BY <2>1, <2>3 DEF record_conversational_arrival
  <2> HIDE DEF recipients
  <2>5. a \in m /\ f = FALSE
    BY <2>4, HeldArrival
  <2>6. QED BY <2>1, <2>5 DEF HeldWoken
<1>4. ASSUME NEW b \in Agents, Answer(b) PROVE HeldWoken(a)
  <2>1. PICK t : t = pair[b].running
    OBVIOUS
  <2>2. b # a
    <3>1. MayCallBack(b)
      BY <1>4 DEF Answer, reply_conversational, decline_thread
    <3>2. QED BY <3>1, RunningFacts DEF HasSlot
  <2>3. CASE \E elapsed \in Elapsed : decline_thread(b, elapsed)
    <3>1. PICK q : pair' = [pair EXCEPT ![b] = q]
      BY <1>1, <2>3 DEF decline_thread
    <3>2. QED BY <1>0, <1>2, <2>2, <3>1
  <2>4. CASE \E m \in SUBSET members, f \in BOOLEAN, elapsed \in Elapsed : reply_conversational(b, m, f, elapsed)
    <3>1. PICK m \in SUBSET members, f \in BOOLEAN, elapsed \in Elapsed : reply_conversational(b, m, f, elapsed)
      BY <2>4
    <3>2. ~evaluate_exchange_closure(exchange, pair, elapsed)
      BY <1>1, <3>1 DEF reply_conversational
    <3> DEFINE recipients == members \ {b}
               settled == [pair EXCEPT ![b] = settle_reply(b, @, t, TRUE, Held(exchange, b))]
    <3>3. /\ seq < MaxSeq /\ Addressing(m, f, recipients)
          /\ pair' = Route(settled, seq + 1, WakeSet(exchange, m, recipients, f), recipients)
      BY <2>1, <3>1, <3>2 DEF reply_conversational
    <3>4. settled[a] = pair[a]
      BY <1>0, <2>2
    <3> HIDE DEF recipients, settled
    <3>5. a \in m /\ f = FALSE
      BY <3>3, <3>4, HeldArrival
    <3>6. QED BY <3>1, <3>5 DEF HeldWoken
  <2>5. QED BY <1>4, <2>3, <2>4 DEF Answer
<1>5. ASSUME NEW b, NEW q, pair' = [pair EXCEPT ![b] = q] PROVE b = a /\ q = pair'[a]
  BY <1>0, <1>2, <1>5
<1>6. ASSUME NEW b \in Agents, Take(b) PROVE FALSE
  <2>1. PICK w \in Workers, answered \in BOOLEAN : RefuseLaunch(w, b, answered)
    BY <1>2, <1>6 DEF Take, peek_conversational_reply
  <2>2. PICK q : pair' = [pair EXCEPT ![b] = q]
    BY <2>1 DEF RefuseLaunch
  <2>3. QED BY <1>5, <2>1, <2>2 DEF RefuseLaunch, Ready, HasSlot
<1>7. ASSUME NEW w \in Workers, worker[w].pc # "idle", NEW q, pair' = [pair EXCEPT ![worker[w].agent] = q],
             q \in {settle_reply(worker[w].agent, pair[worker[w].agent], worker[w].token, FALSE,
                                 Held(exchange, worker[w].agent)),
                    settle_with_breaker_failure(worker[w].agent, pair[worker[w].agent], worker[w].token,
                                                Held(exchange, worker[w].agent))}
      PROVE  FALSE
  <2>1. worker[w].agent = a /\ q = pair'[a] /\ worker[w].token \in Tokens
    BY <1>5, <1>7, HolderFacts
  <2>2. q = pair[a]
    <3>1. PICK t \in Tokens, h \in BOOLEAN : t = worker[w].token /\ h = Held(exchange, a)
      BY <2>1, AgentFacts
    <3>2. q = settle_reply(a, pair[a], t, FALSE, h) \/ q = settle_with_breaker_failure(a, pair[a], t, h)
      BY <1>7, <2>1, <3>1
    <3>3. /\ settle_reply(a, pair[a], t, FALSE, h) = pair[a]
          /\ settle_with_breaker_failure(a, pair[a], t, h) = pair[a]
      BY SettleNothing
    <3>4. QED BY <3>2, <3>3
  <2>3. QED BY <1>2, <2>1, <2>2
<1>8. ASSUME NEW w \in Workers, Advance(w) PROVE FALSE
  <2>1. CASE PreparationFails(w)
    BY <1>7, <2>1 DEF PreparationFails
  <2>2. CASE claim_conversational_reply(w)
    <3>1. pair[worker[w].agent].queued = worker[w].token /\ worker[w].token \in Tokens /\ worker[w].agent \in Agents
      BY <2>2, HolderFacts DEF claim_conversational_reply, Claimable
    <3>2. None \notin Tokens
      BY DEF None, Tokens
    <3>3. worker[w].agent # a
      BY <3>1, <3>2 DEF HasSlot
    <3>4. PICK b : b = worker[w].agent
      OBVIOUS
    <3>5. pair' = [pair EXCEPT ![b].queued = None, ![b].running = worker[w].token,
                               ![b].through = pair[b].req, ![b].shown = Max({@, worker[w].seq})]
      BY <2>2, <3>4 DEF claim_conversational_reply
    <3>6. QED BY <1>0, <1>2, <3>3, <3>4, <3>5
  <2>3. QED BY <1>2, <1>8, <2>1, <2>2 DEF Advance, DeferLaunch
<1>9. ASSUME NEW w \in Workers, Finish(w) PROVE FALSE
  <2>1. CASE \E qualifies \in BOOLEAN : InvocationFails(w, qualifies)
    BY <1>7, <2>1 DEF InvocationFails
  <2>2. CASE InvocationEnds(w)
    <3>1. PICK b : b = worker[w].agent
      OBVIOUS
    <3>2. pair' = [pair EXCEPT ![b] = CloseBreaker(pair[b])]
      BY <1>2, <2>2, <3>1 DEF InvocationEnds
    <3>3. b = a /\ pair'[a] = CloseBreaker(pair[a])
      BY <1>5, <3>2
    <3>4. pair'[a].queued = pair[a].queued /\ pair'[a].running = pair[a].running
      BY <1>0, <3>3, CloseFacts
    <3>5. QED BY <3>4 DEF HasSlot
  <2>3. QED BY <1>9, <2>1, <2>2 DEF Finish
<1>10. ASSUME NEW b \in Agents, mint_due_thread_reply_breaker_probes(b) PROVE FALSE
  <2>1. PICK q : pair' = [pair EXCEPT ![b] = q] /\ b \notin exchange.held
    BY <1>10 DEF mint_due_thread_reply_breaker_probes
  <2>2. QED BY <1>5, <2>1
<1>11. ASSUME NEW b \in Agents, remove_participant(b) PROVE FALSE
  <2>1. pair' = [pair EXCEPT ![b] = discard_reply_delivery(pair[b])]
    BY <1>11 DEF remove_participant
  <2>2. pair'[a] = discard_reply_delivery(pair[a]) /\ Row(pair[a], seq)
    BY <1>5, <2>1, AgentFacts
  <2>3. pair'[a].queued = None /\ pair'[a].running = None
    <3>1. discard_reply_delivery(pair[a]).queued = None /\ discard_reply_delivery(pair[a]).running = None
      BY <1>0, <2>2, DiscardFacts, Zenon
    <3>2. QED BY <2>2, <3>1
  <2>4. QED BY <2>3 DEF HasSlot
<1>12. ASSUME NEW b \in Agents, invite_participant(b) PROVE FALSE
  BY <1>2, <1>12 DEF invite_participant
<1>13. ~abort_thread_replies /\ \A elapsed \in Elapsed : ~reaper_sweep_reply_exchanges(elapsed)
  BY <1>1 DEF abort_thread_replies, reaper_sweep_reply_exchanges
<1>14. CASE Restart
  <2>1. PICK preserved : recover_reply_delivery_state(preserved)
    BY <1>14 DEF Restart
  <2>2. pair'[a] = RecoverPair(a, pair[a])
    BY <1>2, <2>1 DEF recover_reply_delivery_state
  <2>3. PICK p, q : p = pair[a] /\ q = RecoverPair(a, p)
    OBVIOUS
  <2>4. Row(p, seq) /\ seq \in Nat
    BY <2>3, AgentFacts
  <2>5. LET u == RecoverPair(a, p)
        IN /\ Row(u, seq) /\ u.owed = FALSE /\ u.ack = p.ack /\ u.req = p.req
           /\ u.running = None
           /\ p.running # None => u.queued # None /\ u.through = 0
           /\ p.queued # None => u.queued # None
           /\ p.running = None => u.through = p.through
           /\ p.running = None /\ ~p.catchup => u.queued = p.queued
    BY <2>4, RecoverFacts, Zenon
  <2>6. /\ q.queued # None \/ q.running # None
        /\ p.running = None /\ p.queued = None
    BY <2>2, <2>3 DEF HasSlot
  <2>7. p.catchup
    BY <2>3, <2>5, <2>6
  <2>8. QED BY <1>14, <2>3, <2>7 DEF HeldWoken
<1>15. ASSUME NEW s \in members, NEW elapsed \in Elapsed, ReplyIsolated(s, elapsed)
       PROVE  HeldWoken(a)
  <2>1. s # a
    <3>1. SUFFICES ASSUME s = a PROVE FALSE
      OBVIOUS
    <3>2. pair' = Route(pair, seq + 1, members \ {a}, members \ {a})
      BY <1>1, <1>15, <3>1 DEF ReplyIsolated
    <3>3. pair'[a] = pair[a]
      BY <3>2 DEF Route
    <3>4. QED BY <1>2, <3>3
  <2>2. QED BY <1>15, <2>1 DEF HeldWoken
<1>16. QED
  BY <1>3, <1>4, <1>6, <1>8, <1>9, <1>10, <1>11, <1>12, <1>13, <1>14, <1>15 DEF Next

\* A member that an open exchange holds back is woken by a message that
\* mentions it, by the answer of a bootstrap or a task follow-up, or by a
\* restart that finds an older debt, and by nothing else.
THEOREM HeldStaysUndisturbed == Spec => HeldUndisturbed
<1> DEFINE Calm == \A a \in Agents :
                      (/\ a \in exchange.held /\ a \in exchange'.held /\ exchange'.seq = exchange.seq
                       /\ ~HasSlot(pair[a]) /\ HasSlot(pair'[a]))
                      => HeldWoken(a)
<1>1. ASSUME Inv, [Next]_vars PROVE [Calm]_vars
  BY <1>1, HeldStep
<1>2. QED BY <1>1, Invariance, PTL DEF Spec, HeldUndisturbed, HeldWoken

-----------------------------------------------------------------------------
(* The contract                                                            *)

\* The rows of the initial state are those of the contract.
LEMMA ContractInit ==
    Init => Contract!Init
BY DEF Init, NewPair, None, Contract!Init

\* Interventions are counted one at a time.
LEMMA EventsStep ==
    ASSUME Next
    PROVE  events' \in {events, events + 1}
BY DEF Next, Post, Take, Advance, Answer, Finish, record_conversational_arrival,
       peek_conversational_reply, RefuseLaunch, PreparationFails, claim_conversational_reply, DeferLaunch,
       reply_conversational, ReplyIsolated, decline_thread, InvocationFails, InvocationEnds,
       reaper_sweep_reply_exchanges, mint_due_thread_reply_breaker_probes, abort_thread_replies,
       remove_participant, invite_participant, Restart, recover_reply_delivery_state

\* A step of the rows is a step of the contract for every agent.
LEMMA ContractStep ==
    ASSUME Inv, Next
    PROVE  Contract!Next
<1>1. PairsStep /\ events' \in {events, events + 1}
  BY PairsNext, EventsStep
<1>2. ASSUME NEW a \in Agents PROVE Contract!Step(a)
  <2>1. PICK p, q : p = pair[a] /\ q = pair'[a]
    OBVIOUS
  <2>2. Row(q, seq') /\ (Contracted(p, q) \/ (events' = events + 1 /\ Discards(p, q)))
    BY <1>1, <2>1 DEF PairsStep
  <2>3. WakeOf(q) = "queued" => q.ack < q.req
    BY <2>2 DEF Row, WakeOf
  <2>4. /\ [b \in Agents |-> pair[b].ack][a] = p.ack
        /\ [b \in Agents |-> pair[b].req][a] = p.req
        /\ [b \in Agents |-> pair[b].through][a] = p.through
        /\ [b \in Agents |-> IF pair[b].queued # None THEN "queued"
                             ELSE IF pair[b].running # None THEN "running" ELSE "none"][a] = WakeOf(p)
    BY <2>1 DEF WakeOf
  <2>5. /\ [b \in Agents |-> pair'[b].ack][a] = q.ack
        /\ [b \in Agents |-> pair'[b].req][a] = q.req
        /\ [b \in Agents |-> pair'[b].through][a] = q.through
        /\ [b \in Agents |-> IF pair'[b].queued # None THEN "queued"
                             ELSE IF pair'[b].running # None THEN "running" ELSE "none"][a] = WakeOf(q)
    BY <2>1 DEF WakeOf
  <2>6. Contract!MayWake(a)
    BY <2>3, <2>5 DEF Contract!MayWake
  <2>7. CASE events' = events + 1 /\ Discards(p, q)
    BY <2>4, <2>5, <2>6, <2>7 DEF Discards, Contract!Step, Contract!Discard
  <2>8. CASE Contracted(p, q)
    <3>1. Contract!Rest(a) \/ Contract!Message(a) \/ Contract!Remind(a) \/ Contract!Claim(a)
          \/ Contract!Answer(a) \/ Contract!Fail(a)
      BY <2>4, <2>5, <2>8 DEF Contracted, Contract!Rest, Contract!Message, Contract!Remind,
                              Contract!Claim, Contract!Answer, Contract!Fail
    <3>2. QED BY <2>6, <3>1 DEF Contract!Step
  <2>9. QED BY <2>2, <2>7, <2>8
<1>3. QED BY <1>1, <1>2 DEF Contract!Next

\* The store, with its exchanges, breakers, recovery and late claims,
\* implements the contract of WakeContract.
THEOREM Refinement == Spec => ImplementsContract
<1>1. Inv /\ [Next]_vars => [Contract!Next]_(Contract!vars)
  <2>1. ASSUME Inv, Next PROVE Contract!Next
    BY <2>1, ContractStep
  <2>2. ASSUME UNCHANGED vars PROVE UNCHANGED Contract!vars
    BY <2>2 DEF vars, Contract!vars
  <2>3. QED BY <2>1, <2>2
<1>2. QED BY <1>1, ContractInit, Invariance, PTL DEF Spec, ImplementsContract, Contract!Spec

=============================================================================
