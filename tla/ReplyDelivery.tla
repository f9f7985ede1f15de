---------------------------- MODULE ReplyDelivery ----------------------------
(***************************************************************************)
(* Delivery of one thread's messages to the agents that take part in it.   *)
(* Every message raises, for each recipient, the sequence number its       *)
(* replies must reach; messages coalesce into one wake per agent, which a  *)
(* worker claims, runs and settles. A founder message that mentions some   *)
(* of the agents opens an exchange that holds the others back until it is  *)
(* closed; repeated provider failures open a circuit breaker that a timer  *)
(* probes.                                                                 *)
(*                                                                         *)
(* Every method of the store is one transaction, and one action or a part  *)
(* of one. Time is not modelled: a grace period, a cooldown or the bound   *)
(* on an exchange may have run out whenever they are looked at. Nor is the *)
(* in-memory queue of tokens: a token a producer did not publish is        *)
(* published by the periodic sweep, and one published twice is dropped.    *)
(* An invocation keeps a record of its owner. A restart may find that the  *)
(* owner has not settled it: then the pair is left as it is, the process   *)
(* may still call back, and no worker takes the wake again.                *)
(***************************************************************************)
EXTENDS Integers, FiniteSets, FiniteSetsExt

CONSTANTS
    Agents,
    Workers,     \* thread worker loops
    Founder,
    MaxSeq,      \* bound on the messages of the thread
    Threshold,   \* provider failures that open the breaker
    MaxEvents    \* bound on aborts, removals and restarts

ASSUME DeliveryAssumption ==
    /\ Founder \notin Agents
    /\ MaxSeq \in Nat /\ MaxEvents \in Nat
    /\ Threshold \in Nat \ {0}
    /\ IsFiniteSet(Workers) /\ IsFiniteSet(Agents)

Seqs == 0 .. MaxSeq
None == 0

\* A terminal receipt that nobody holds is as good as absent, so its token
\* is used again: each worker may hold one, a lost owner one and a slot
\* another.
Tokens == 1 .. Cardinality(Workers) + 2

VARIABLES
    seq,       \* messages in the thread
    pair,      \* per agent: watermarks, slots, receipts, marker, breaker
    exchange,  \* the open exchange, if any
    members,   \* participants of the thread
    worker,    \* the invocation each worker is executing
    lost,      \* per agent: the invocation whose owner a restart took away
    events     \* aborts, removals and restarts so far

vars == <<seq, pair, exchange, members, worker, lost, events>>

-----------------------------------------------------------------------------
(* State                                                                   *)

BreakerStates == {"none", "closed", "open", "probe"}

\* ack, req: acknowledged and required watermarks; through: end of the range
\* the running invocation claimed; pending: the pending REPLY receipts;
\* catchup: a released deferral still owed a wake after the running one.
\* History only: shown, the last message a launched prompt was built from;
\* owed, the wake a release still owes.
PairRecord ==
    [ack : Seqs, req : Seqs, through : Seqs,
     queued : Tokens \cup {None}, running : Tokens \cup {None},
     pending : SUBSET Tokens, catchup : BOOLEAN,
     breaker : BreakerStates, failures : 0 .. Threshold,
     shown : Seqs, owed : BOOLEAN]

NewPair ==
    [ack |-> 0, req |-> 0, through |-> 0, queued |-> None, running |-> None,
     pending |-> {}, catchup |-> FALSE, breaker |-> "none", failures |-> 0,
     shown |-> 0, owed |-> FALSE]

\* cohort: the agents the opening message mentions; held: deferrals not yet
\* released or suppressed.
ExchangeRecord ==
    [open : BOOLEAN, seq : Seqs, cohort : SUBSET Agents, held : SUBSET Agents]

NoExchange == [open |-> FALSE, seq |-> 0, cohort |-> {}, held |-> {}]

\* ack, req, seq, breaker: what the worker read before it prepared the
\* launch, the first three until it claims; receipt: what became of the
\* token while the process ran.
WorkerRecord ==
    [pc : {"idle", "prepared", "launched"}, agent : Agents \cup {Founder},
     token : Tokens \cup {None}, ack : Seqs, req : Seqs, seq : Seqs,
     breaker : BreakerStates, receipt : {"pending", "answered", "failed"}]

Idle ==
    [pc |-> "idle", agent |-> Founder, token |-> None, ack |-> 0, req |-> 0,
     seq |-> 0, breaker |-> "none", receipt |-> "pending"]

TypeOK ==
    /\ seq \in Seqs
    /\ pair \in [Agents -> PairRecord]
    /\ exchange \in ExchangeRecord
    /\ members \subseteq Agents
    /\ worker \in [Workers -> WorkerRecord]
    /\ lost \in [Agents -> Tokens \cup {None}]
    /\ events \in 0 .. MaxEvents

Init ==
    /\ seq = 0
    /\ pair = [a \in Agents |-> NewPair]
    /\ exchange = NoExchange
    /\ members = Agents
    /\ worker = [w \in Workers |-> Idle]
    /\ lost = [a \in Agents |-> None]
    /\ events = 0

HasSlot(p) == p.queued # None \/ p.running # None
Unread(p) == p.ack < p.req

-----------------------------------------------------------------------------
(* Parts of a transaction, on the row p of agent a                         *)

HeldTokens(a) ==
    ({worker[w].token : w \in {v \in Workers : worker[v].agent = a}} \cup {lost[a]})
        \ {None}

Fresh(a, p) == Min(Tokens \ (p.pending \cup HeldTokens(a)))

mint_reply_invocation(a, p) ==
    LET t == Fresh(a, p)
    IN [p EXCEPT !.queued = t, !.pending = @ \cup {t}, !.owed = FALSE]

\* Mutant: a new pair starts a message too early.
KnownTooEarly(p, s) ==
    IF p.req = 0 THEN [p EXCEPT !.ack = s - 2, !.shown = s - 1] ELSE p

\* A pair that has no row yet starts at the message before this one.
Known(p, s) ==
    IF p.req = 0 THEN [p EXCEPT !.ack = s - 1, !.shown = s - 1] ELSE p

raise_required(p, s) ==
    IF s <= p.req THEN p ELSE [Known(p, s) EXCEPT !.req = s]

\* Mutant: a running invocation does not count as an owner.
MintBesideRunning(a, p, s) ==
    LET q == raise_required(p, s)
    IN IF s <= p.req \/ p.queued # None THEN q ELSE mint_reply_invocation(a, q)

apply_arrival(a, p, s) ==
    LET q == raise_required(p, s)
    IN IF s <= p.req \/ HasSlot(p) THEN q ELSE mint_reply_invocation(a, q)

CloseBreaker(p) ==
    IF p.breaker = "none" THEN p
    ELSE [p EXCEPT !.breaker = "closed", !.failures = 0]

\* held: the agent is outside the cohort of an open exchange.
Held(ex, a) == ex.open /\ a \notin ex.cohort

\* The terminal transaction of a wake: slots cleared, ack acknowledged, an
\* answer closing the breaker, and one wake for the rest if it follows on.
SettleAs(a, p, t, ack, answered, followOn) ==
    LET p1 == [p EXCEPT !.ack = ack, !.queued = None, !.running = None,
                        !.through = 0, !.pending = @ \ {t}]
        p2 == IF answered /\ p.breaker \in {"open", "probe"}
              THEN CloseBreaker(p1) ELSE p1
    IN IF p.req > ack /\ followOn
       THEN [mint_reply_invocation(a, p2) EXCEPT !.catchup = FALSE] ELSE p2

\* What the settled token covers: the claimed range, or all of an unclaimed
\* wake.
Covered(p, t) == IF p.running = t THEN p.through ELSE p.req

\* Mutant: a released deferral is forgotten when the run in its way fails.
SettleForgetsCatchup(a, p, t, answered, held) ==
    IF t \notin {p.queued, p.running} THEN p
    ELSE SettleAs(a, p, t, IF answered THEN Covered(p, t) ELSE p.ack, answered,
                  ~held /\ answered)

\* Mutant: an answer acknowledges all that is required.
SettleSwallows(a, p, t, answered, held) ==
    IF t \notin {p.queued, p.running} THEN p
    ELSE SettleAs(a, p, t, IF answered THEN p.req ELSE p.ack, answered,
                  ~held /\ (answered \/ p.catchup))

\* A token that is in no slot was settled by somebody else.
settle_reply(a, p, t, answered, held) ==
    IF t \notin {p.queued, p.running} THEN p
    ELSE SettleAs(a, p, t, IF answered THEN Covered(p, t) ELSE p.ack, answered,
                  ~held /\ (answered \/ p.catchup))

\* The breaker counts a failure of a launched provider, in the transaction
\* that settles it.
CountFailure(q) ==
    LET fresh == q.breaker = "none" \/ (q.breaker = "closed" /\ q.failures = 0)
        failures == IF fresh THEN 1 ELSE Min({q.failures + 1, Threshold})
    IN [q EXCEPT !.failures = failures,
                 !.breaker = IF failures >= Threshold \/ q.breaker = "probe"
                             THEN "open"
                             ELSE IF fresh THEN "closed" ELSE q.breaker]

settle_with_breaker_failure(a, p, t, held) ==
    IF t \notin {p.queued, p.running} THEN p
    ELSE CountFailure(settle_reply(a, p, t, FALSE, held))

discard_reply_delivery(p) ==
    [CloseBreaker(p) EXCEPT
        !.ack = p.req, !.queued = None, !.running = None, !.through = 0,
        !.pending = {}, !.shown = Max({p.shown, p.req}), !.owed = FALSE]

-----------------------------------------------------------------------------
(* Exchanges                                                               *)

exchange_has_live_cohort_wake(ex, pairs) ==
    \E a \in ex.cohort :
        \/ pairs[a].through >= ex.seq
        \/ pairs[a].queued # None /\ pairs[a].req >= ex.seq

\* How long ago the exchange was opened and was last active.
Elapsed == IF exchange.open THEN {"none", "grace", "absolute"} ELSE {"none"}

evaluate_exchange_closure(ex, pairs, elapsed) ==
    /\ ex.open
    /\ \/ elapsed = "absolute"
       \/ elapsed = "grace" /\ ~exchange_has_live_cohort_wake(ex, pairs)

\* What closing the exchange does to one pair: mint, coalesce, or leave the
\* wake for when the running invocation, which does not cover it, has ended.
Release(a, p, ex) ==
    IF ~Unread(p) THEN p
    ELSE IF p.running # None /\ p.through < p.req
    THEN IF a \in ex.held THEN [p EXCEPT !.catchup = TRUE, !.owed = TRUE] ELSE p
    ELSE IF HasSlot(p) THEN [p EXCEPT !.catchup = FALSE]
    ELSE [mint_reply_invocation(a, p) EXCEPT !.catchup = FALSE]

close_reply_exchange(pairs, ex) ==
    [a \in Agents |-> Release(a, pairs[a], ex)]

-----------------------------------------------------------------------------
(* Messages                                                                *)

WakeSet(ex, mentions, recipients, founderOnly) ==
    IF founderOnly THEN {}
    ELSE IF mentions # {} THEN mentions
    ELSE IF ex.open THEN ex.cohort \cap recipients
    ELSE recipients

\* The message numbered s reaches all its recipients and wakes some of them.
Route(pairs, s, wake, recipients) ==
    [a \in Agents |->
        IF a \in wake THEN apply_arrival(a, pairs[a], s)
        ELSE IF a \in recipients THEN raise_required(pairs[a], s)
        ELSE pairs[a]]

Addressing(mentions, founderOnly, recipients) ==
    mentions \subseteq recipients /\ (founderOnly => mentions = {})

\* A message by the founder, or by an agent from outside an invocation.
record_conversational_arrival(speaker, mentions, founderOnly, elapsed) ==
    LET recipients == members \ {speaker}
        closes == evaluate_exchange_closure(exchange, pair, elapsed)
        ex == IF closes THEN NoExchange ELSE exchange
        pairs == IF closes THEN close_reply_exchange(pair, exchange) ELSE pair
        opens == ~ex.open /\ speaker = Founder /\ mentions # {}
                 /\ recipients \ mentions # {}
    IN /\ seq < MaxSeq
       /\ Addressing(mentions, founderOnly, recipients)
       /\ seq' = seq + 1
       /\ pair' = Route(pairs, seq + 1,
                        WakeSet(ex, mentions, recipients, founderOnly), recipients)
       /\ exchange' = IF opens
                      THEN [open |-> TRUE, seq |-> seq + 1, cohort |-> mentions,
                            held |-> recipients \ mentions]
                      ELSE ex
       /\ UNCHANGED <<members, worker, lost, events>>

\* What the workers find when the receipts of the agents in S are gone.
Settled(S, receipt) ==
    [w \in Workers |->
        IF worker[w].agent \in S /\ worker[w].pc = "launched" /\ worker[w].receipt = "pending"
        THEN [worker[w] EXCEPT !.receipt = receipt] ELSE worker[w]]

\* The running invocation has a token that it may call back with: its
\* process was launched by this daemon or by the one before a restart.
MayCallBack(a) ==
    /\ a \in members
    /\ pair[a].running \in pair[a].pending

\* The process of a reply answers with a message.
reply_conversational(a, mentions, founderOnly, elapsed) ==
    LET recipients == members \ {a}
        closes == evaluate_exchange_closure(exchange, pair, elapsed)
        ex == IF closes THEN NoExchange ELSE exchange
        pairs == IF closes THEN close_reply_exchange(pair, exchange) ELSE pair
        settled == [pairs EXCEPT ![a] =
                       settle_reply(a, @, pair[a].running, TRUE, Held(ex, a))]
    IN /\ MayCallBack(a)
       /\ seq < MaxSeq
       /\ Addressing(mentions, founderOnly, recipients)
       /\ seq' = seq + 1
       /\ exchange' = ex
       /\ pair' = Route(settled, seq + 1,
                        WakeSet(ex, mentions, recipients, founderOnly), recipients)
       /\ worker' = Settled({a}, "answered")
       /\ UNCHANGED <<members, lost, events>>

\* The process of a bootstrap or of a task follow-up answers. It settles no
\* reply, and wakes every other participant whatever the exchange.
ReplyIsolated(speaker, elapsed) ==
    LET recipients == members \ {speaker}
        closes == evaluate_exchange_closure(exchange, pair, elapsed)
        pairs == IF closes THEN close_reply_exchange(pair, exchange) ELSE pair
    IN /\ seq < MaxSeq
       /\ seq' = seq + 1
       /\ exchange' = IF closes THEN NoExchange ELSE exchange
       /\ pair' = Route(pairs, seq + 1, recipients, recipients)
       /\ UNCHANGED <<members, worker, lost, events>>

\* The process of a reply declines; the closure is evaluated afterwards.
decline_thread(a, elapsed) ==
    LET settled == [pair EXCEPT ![a] =
                       settle_reply(a, @, pair[a].running, TRUE, Held(exchange, a))]
        closes == evaluate_exchange_closure(exchange, settled, elapsed)
    IN /\ MayCallBack(a)
       /\ pair' = IF closes THEN close_reply_exchange(settled, exchange) ELSE settled
       /\ exchange' = IF closes THEN NoExchange ELSE exchange
       /\ worker' = Settled({a}, "answered")
       /\ UNCHANGED <<seq, members, lost, events>>

\* The reaper, and the reconciliation at startup.
reaper_sweep_reply_exchanges(elapsed) ==
    /\ evaluate_exchange_closure(exchange, pair, elapsed)
    /\ pair' = close_reply_exchange(pair, exchange)
    /\ exchange' = NoExchange
    /\ UNCHANGED <<seq, members, worker, lost, events>>

-----------------------------------------------------------------------------
(* Workers                                                                 *)

\* The invocation is admitted at most once at a time.
Reserved(a) == \E w \in Workers : worker[w].agent = a /\ worker[w].token = pair[a].queued

Ready(w, a) ==
    /\ worker[w].pc = "idle"
    /\ a \in members
    /\ pair[a].queued # None /\ pair[a].running = None
    /\ pair[a].queued \in pair[a].pending
    /\ pair[a].queued # lost[a]
    /\ ~Reserved(a)

\* Mutant: the worker does not ask the breaker.
PeekPastBreaker(w, a) ==
    /\ Ready(w, a)
    /\ worker' = [worker EXCEPT ![w] =
          [pc |-> "prepared", agent |-> a, token |-> pair[a].queued,
           ack |-> pair[a].ack, req |-> pair[a].req, seq |-> seq,
           breaker |-> pair[a].breaker, receipt |-> "pending"]]
    /\ UNCHANGED <<seq, pair, exchange, members, lost, events>>

\* The worker reads the range, the messages and the breaker, and goes on to
\* prepare the workspace.
peek_conversational_reply(w, a) ==
    /\ Ready(w, a)
    /\ pair[a].breaker # "open"
    /\ worker' = [worker EXCEPT ![w] =
          [pc |-> "prepared", agent |-> a, token |-> pair[a].queued,
           ack |-> pair[a].ack, req |-> pair[a].req, seq |-> seq,
           breaker |-> pair[a].breaker, receipt |-> "pending"]]
    /\ UNCHANGED <<seq, pair, exchange, members, lost, events>>

\* A wake that finds the breaker open launches nothing; one whose agent has
\* been terminated or cannot be loaded is declined.
RefuseLaunch(w, a, answered) ==
    /\ Ready(w, a)
    /\ answered \/ pair[a].breaker = "open"
    /\ pair' = [pair EXCEPT ![a] =
          LET q == settle_reply(a, @, @.queued, answered, Held(exchange, a))
          IN IF answered THEN [q EXCEPT !.shown = Max({@, q.ack})] ELSE q]
    /\ UNCHANGED <<seq, exchange, members, worker, lost, events>>

\* Materialising the skills fails, or the supervisor refuses the launch.
PreparationFails(w) ==
    LET a == worker[w].agent
    IN /\ worker[w].pc = "prepared"
       /\ pair' = [pair EXCEPT ![a] =
             settle_reply(a, @, worker[w].token, FALSE, Held(exchange, a))]
       /\ worker' = [worker EXCEPT ![w] = Idle]
       /\ UNCHANGED <<seq, exchange, members, lost, events>>

\* One process per pair, for as long as the worker holds the lock.
LockFree(a) == \A v \in Workers : ~(worker[v].pc = "launched" /\ worker[v].agent = a)

\* Mutant: the range is claimed although it grew since the prompt was built.
ClaimAnyRange(w) ==
    LET p == pair[worker[w].agent]
    IN p.queued = worker[w].token /\ p.running = None /\ worker[w].token \in p.pending

\* The claim of the final admission still finds what the worker read.
Claimable(w) ==
    LET p == pair[worker[w].agent]
    IN /\ p.queued = worker[w].token /\ p.running = None
       /\ worker[w].token \in p.pending
       /\ p.ack = worker[w].ack /\ p.req = worker[w].req

claim_conversational_reply(w) ==
    LET a == worker[w].agent
    IN /\ worker[w].pc = "prepared"
       /\ LockFree(a)
       /\ Claimable(w)
       /\ pair' = [pair EXCEPT
             ![a].queued = None, ![a].running = worker[w].token,
             ![a].through = pair[a].req, ![a].shown = Max({@, worker[w].seq})]
       /\ worker' = [worker EXCEPT ![w] =
             [@ EXCEPT !.pc = "launched", !.ack = 0, !.req = 0, !.seq = 0]]
       /\ UNCHANGED <<seq, exchange, members, lost, events>>

\* Otherwise the admission is deferred, and the token stays where it is. It
\* is deferred for reasons from outside this module too: a team move, or an
\* aborted predecessor that is not known to have ended.
DeferLaunch(w) ==
    /\ worker[w].pc = "prepared"
    /\ LockFree(worker[w].agent)
    /\ worker' = [worker EXCEPT ![w] = Idle]
    /\ UNCHANGED <<seq, pair, exchange, members, lost, events>>

\* The process, with its nudge, has ended without a callback. Only a failure
\* of the launched provider counts for the breaker.
InvocationFails(w, qualifies) ==
    LET a == worker[w].agent
        t == worker[w].token
    IN /\ worker[w].pc = "launched" /\ worker[w].receipt = "pending"
       /\ pair' = [pair EXCEPT ![a] =
             IF qualifies
             THEN settle_with_breaker_failure(a, @, t, Held(exchange, a))
             ELSE settle_reply(a, @, t, FALSE, Held(exchange, a))]
       /\ worker' = [worker EXCEPT ![w] = Idle]
       /\ UNCHANGED <<seq, exchange, members, lost, events>>

\* The process has ended and its receipt was settled meanwhile. An answer
\* resets the breaker the worker had read, unless that was a probe, which
\* the answer itself has closed.
InvocationEnds(w) ==
    LET a == worker[w].agent
    IN /\ worker[w].pc = "launched" /\ worker[w].receipt # "pending"
       /\ pair' = IF worker[w].receipt = "answered" /\ worker[w].breaker = "closed"
                  THEN [pair EXCEPT ![a] = CloseBreaker(@)] ELSE pair
       /\ worker' = [worker EXCEPT ![w] = Idle]
       /\ UNCHANGED <<seq, exchange, members, lost, events>>

-----------------------------------------------------------------------------
(* Timer, founder and restart                                              *)

\* Mutant: the timer probes the members an exchange holds back.
ProbeHeldToo(a) ==
    /\ pair[a].breaker \in {"none", "open"}
    /\ a \in members
    /\ Unread(pair[a]) /\ ~HasSlot(pair[a])
    /\ pair' = [pair EXCEPT ![a] =
          [mint_reply_invocation(a, @) EXCEPT !.breaker = "probe"]]
    /\ UNCHANGED <<seq, exchange, members, worker, lost, events>>

\* A pair with an unread range and no wake is probed once its breaker has
\* cooled down, or if it never had one.
mint_due_thread_reply_breaker_probes(a) ==
    /\ pair[a].breaker \in {"none", "open"}
    /\ a \in members
    /\ Unread(pair[a]) /\ ~HasSlot(pair[a])
    /\ a \notin exchange.held
    /\ pair' = [pair EXCEPT ![a] =
          [mint_reply_invocation(a, @) EXCEPT !.breaker = "probe"]]
    /\ UNCHANGED <<seq, exchange, members, worker, lost, events>>

\* Abort or archive: everything required counts as delivered.
abort_thread_replies ==
    /\ events < MaxEvents
    /\ pair' = [a \in Agents |-> discard_reply_delivery(pair[a])]
    /\ exchange' = NoExchange
    /\ worker' = Settled(Agents, "failed")
    /\ events' = events + 1
    /\ UNCHANGED <<seq, members, lost>>

remove_participant(a) ==
    /\ events < MaxEvents
    /\ a \in members
    /\ members' = members \ {a}
    /\ pair' = [pair EXCEPT ![a] = discard_reply_delivery(@)]
    /\ exchange' = [exchange EXCEPT !.held = @ \ {a}]
    /\ worker' = Settled({a}, "answered")
    /\ events' = events + 1
    /\ UNCHANGED <<seq, lost>>

invite_participant(a) ==
    /\ a \notin members
    /\ members' = members \cup {a}
    /\ UNCHANGED <<seq, pair, exchange, worker, lost, events>>

\* Recovery of one pair: a running invocation is replaced by a queued one,
\* a queued one is kept, anything else is cleared.
RecoverSlots(a, p) ==
    LET cleared == [p EXCEPT !.queued = None, !.running = None, !.through = 0]
    IN IF p.queued # None /\ p.running # None
       THEN [cleared EXCEPT !.pending = {}, !.catchup = FALSE]
       ELSE IF p.running # None
       THEN IF p.running \in p.pending /\ p.ack <= p.through /\ p.through <= p.req
            THEN mint_reply_invocation(a, [cleared EXCEPT !.pending = @ \ {p.running}])
            ELSE [cleared EXCEPT !.catchup = FALSE]
       ELSE IF p.queued # None /\ p.queued \notin p.pending
       THEN [cleared EXCEPT !.catchup = FALSE]
       ELSE p

\* Then the markers that are left, and the receipts that no slot owns.
RecoverPair(a, p) ==
    LET q == RecoverSlots(a, p)
        r == IF q.catchup /\ ~HasSlot(q) /\ Unread(q)
             THEN mint_reply_invocation(a, q) ELSE q
    IN [r EXCEPT !.catchup = FALSE, !.pending = @ \cap {r.queued, r.running}]

Slot(p) == IF p.queued # None THEN p.queued ELSE p.running

\* The owner of the wake is gone already, or goes with the daemon.
OwnerLost(a) == Slot(pair[a]) \in HeldTokens(a)

\* The daemon goes down, with its workers, and recovers before it serves
\* again. A pair of which some invocation is not known to have ended is
\* preserved: after a crash every one with a worker, after an orderly
\* shutdown those whose processes could not be accounted for.
recover_reply_delivery_state(preserved) ==
    /\ events < MaxEvents
    /\ \A a \in Agents : pair[a].running # None /\ pair[a].running = lost[a] => a \in preserved
    /\ pair' = [a \in Agents |-> IF a \in preserved THEN pair[a] ELSE RecoverPair(a, pair[a])]
    /\ lost' = [a \in Agents |->
                  IF OwnerLost(a) /\ (a \in preserved \/ pair[a].running = None)
                  THEN Slot(pair[a]) ELSE None]
    /\ worker' = [w \in Workers |-> Idle]
    /\ events' = events + 1
    /\ UNCHANGED <<seq, exchange, members>>

-----------------------------------------------------------------------------
Post ==
    \E speaker \in members \cup {Founder}, m \in SUBSET members, f \in BOOLEAN,
       elapsed \in Elapsed :
        record_conversational_arrival(speaker, m, f, elapsed)

Take(a) ==
    \E w \in Workers :
        \/ peek_conversational_reply(w, a)
        \/ \E answered \in BOOLEAN : RefuseLaunch(w, a, answered)

Advance(w) ==
    \/ PreparationFails(w)
    \/ claim_conversational_reply(w)
    \/ DeferLaunch(w)

Answer(a) ==
    \/ \E m \in SUBSET members, f \in BOOLEAN, elapsed \in Elapsed :
          reply_conversational(a, m, f, elapsed)
    \/ \E elapsed \in Elapsed : decline_thread(a, elapsed)

Finish(w) ==
    \/ \E qualifies \in BOOLEAN : InvocationFails(w, qualifies)
    \/ InvocationEnds(w)

Restart == \E preserved \in SUBSET Agents : recover_reply_delivery_state(preserved)

Next ==
    \/ Post
    \/ \E a \in Agents : Take(a) \/ Answer(a)
    \/ \E speaker \in members, elapsed \in Elapsed : ReplyIsolated(speaker, elapsed)
    \/ \E w \in Workers : Advance(w) \/ Finish(w)
    \/ \E elapsed \in Elapsed : reaper_sweep_reply_exchanges(elapsed)
    \/ \E a \in Agents : mint_due_thread_reply_breaker_probes(a)
    \/ abort_thread_replies
    \/ \E a \in Agents : remove_participant(a) \/ invite_participant(a)
    \/ Restart

Spec == Init /\ [][Next]_vars

-----------------------------------------------------------------------------
(* Properties                                                              *)

\* At most one wake per agent, queued or running, and it is the only pending
\* receipt: no message mints a second one while the first is claimed, runs,
\* settles or is replaced after a restart (reply_delivery.py).
OneWake ==
    \A a \in Agents :
        /\ pair[a].queued = None \/ pair[a].running = None
        /\ pair[a].pending = {pair[a].queued, pair[a].running} \ {None}

\* A message counts as acknowledged only if a launched prompt was built
\* after it arrived, or the founder or a missing agent discarded it: an
\* arrival between reading the thread and claiming the range, or during the
\* run, is never swallowed by the answer.
NothingSwallowed ==
    \A a \in Agents :
        /\ pair[a].ack <= pair[a].shown
        /\ pair[a].running # None => pair[a].through <= pair[a].shown

\* Closing an exchange owes its deferred members a wake for what they have
\* not read. Where a run that does not cover it is in the way, the debt
\* lives as long as the run, a second exchange or a restart may come in
\* between, and is never dropped.
ReleaseKept ==
    \A a \in Agents :
        pair[a].owed =>
            /\ pair[a].catchup
            /\ pair[a].running # None \/ Held(exchange, a)

\* A member held back by an open exchange is woken only by a message that
\* mentions it, by the answer of a bootstrap or a task follow-up, or at a
\* restart by what an older release still owed it: no broadcast, follow-on,
\* catch-up or probe reaches it, with any of them running at the same time.
HeldUndisturbed ==
    [][\A a \in Agents :
          (/\ a \in exchange.held /\ a \in exchange'.held /\ exchange'.seq = exchange.seq
           /\ ~HasSlot(pair[a]) /\ HasSlot(pair'[a]))
          => \/ Restart /\ pair[a].catchup
             \/ \E s \in members \ {a}, elapsed \in Elapsed : ReplyIsolated(s, elapsed)
             \/ \E m \in SUBSET members, elapsed \in Elapsed :
                   /\ a \in m
                   /\ \/ \E s \in members \cup {Founder} :
                            record_conversational_arrival(s, m, FALSE, elapsed)
                      \/ \E b \in Agents : reply_conversational(b, m, FALSE, elapsed)]_vars

\* No provider is launched while the breaker is open, although the breaker
\* is read before the workspace is prepared and the launch comes later.
OpenLaunchesNothing ==
    [][\A w \in Workers :
          (worker[w].pc = "prepared" /\ worker'[w].pc = "launched")
          => pair[worker[w].agent].breaker # "open"]_vars

\* Every agent is served as WakeContract promises: the watermarks and slots
\* of its pair are the acknowledged, due and running ranges of the contract.
Contract == INSTANCE WakeContract WITH
    acked <- [a \in Agents |-> pair[a].ack],
    due <- [a \in Agents |-> pair[a].req],
    wake <- [a \in Agents |-> IF pair[a].queued # None THEN "queued"
                              ELSE IF pair[a].running # None THEN "running"
                              ELSE "none"],
    upto <- [a \in Agents |-> pair[a].through],
    interventions <- events

\* The transactions of the store, with exchanges, breaker, recovery and the
\* worker's late claim, implement the contract of a single wake per agent.
ImplementsContract == Contract!Spec

=============================================================================
