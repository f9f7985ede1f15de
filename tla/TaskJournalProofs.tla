-------------------------- MODULE TaskJournalProofs --------------------------
(***************************************************************************)
(* The invocation journal of TaskLifecycle, for any number of tasks,       *)
(* workers, sessions and crashes: a task has at most one invocation, and   *)
(* none while the process of an earlier daemon works on it; and no entry   *)
(* bars a task that may run, but that of an invocation in a worker's hands *)
(* or one that a crash found prepared.                                     *)
(***************************************************************************)
EXTENDS TaskLifecycleProofs

-----------------------------------------------------------------------------
(* The inductive invariant                                                 *)

Open == {"prepared", "launched"}

\* Workers hold the invocations that are open, each its own; a session that
\* a worker runs or consumes has been launched.
HeldOpen == \A t \in Tasks : \A w \in Workers : Holds(w, t) => entry[t] \in Open
HeldOnce == \A t \in Tasks : \A v, w \in Workers : Holds(v, t) /\ Holds(w, t) => v = w
OpenHeld == \A t \in Tasks : entry[t] \in Open => \E w \in Workers : Holds(w, t)
DrivenLaunched ==
    \A w \in Workers : actor[w].pc \in Driving => entry[actor[w].task] = "launched"

\* A process that outlived its daemon has an entry of unknown fate, and a
\* worker that read the row of its task read it in progress.
OrphanUnknown == \A t \in orphans : entry[t] = "unknown"
OrphanRead ==
    \A w \in Workers :
        actor[w].pc = "prepare" /\ actor[w].task \in orphans => actor[w].from = <<"in_progress", "none">>

Hands == HeldOpen /\ HeldOnce /\ OpenHeld /\ DrivenLaunched /\ OrphanUnknown /\ OrphanRead

\* An entry belongs to a row; one that was launched and has no report belongs
\* to a task that is in progress, or has ended.
EntryExists == \A t \in Tasks : entry[t] # "none" => Exists(t)
Unreported ==
    \A t \in Tasks : entry[t] \in {"launched", "unknown"} /\ task[t].report = "none"
                         => Running(t) \/ AlreadyTerminal(t)

JournalInv == Inv /\ Hands /\ EntryExists /\ Unreported

-----------------------------------------------------------------------------
(* Steps that leave the journal alone                                      *)

\* Workers keep what they hold.
LEMMA HandsRest ==
    ASSUME JournalInv, entry' = entry, orphans' \subseteq orphans,
           \A w \in Workers : actor'[w] = actor[w]
    PROVE  Hands'
<1>1. \A w \in Workers : \A t \in Tasks : Holds(w, t)' <=> Holds(w, t)
  BY DEF Holds
<1>2. HeldOpen' /\ HeldOnce' /\ OpenHeld'
  BY <1>1 DEF JournalInv, Hands, HeldOpen, HeldOnce, OpenHeld
<1>3. DrivenLaunched' /\ OrphanUnknown' /\ OrphanRead'
  BY DEF JournalInv, Hands, DrivenLaunched, OrphanUnknown, OrphanRead
<1>4. QED BY <1>2, <1>3 DEF Hands

\* So they do when one of them moves on its task without closing it.
LEMMA HandsMove ==
    ASSUME JournalInv, entry' = entry, orphans' = orphans,
           NEW a \in Actors, ActorMoves(a), actor[a].pc # "close"
    PROVE  Hands'
<1>1. \A w \in Workers : w \in Actors
  BY DEF Actors
<1>2. \A w \in Workers : w # a => actor'[w] = actor[w]
  BY <1>1 DEF ActorMoves
<1>3. \A w \in Workers : \A t \in Tasks : Holds(w, t)' <=> Holds(w, t)
  <2>1. SUFFICES ASSUME NEW t \in Tasks, a \in Workers
                 PROVE  Holds(a, t)' <=> Holds(a, t)
    BY <1>2 DEF Holds
  <2>2. CASE actor[a].pc \notin Free
    BY <2>1, <2>2 DEF ActorMoves, Holds, Free
  <2>3. CASE actor[a].pc \in Free
    BY <2>1, <2>3 DEF ActorMoves, Holds, Free
  <2>4. QED BY <2>2, <2>3
<1>4. HeldOpen' /\ HeldOnce' /\ OpenHeld'
  BY <1>3 DEF JournalInv, Hands, HeldOpen, HeldOnce, OpenHeld
<1>5. DrivenLaunched'
  BY <1>2 DEF JournalInv, Hands, DrivenLaunched, ActorMoves, Driving
<1>6. OrphanUnknown' /\ OrphanRead'
  BY <1>2 DEF JournalInv, Hands, OrphanUnknown, OrphanRead, ActorMoves
<1>7. QED BY <1>4, <1>5, <1>6 DEF Hands

\* A row that rests.
LEMMA RowsStay ==
    ASSUME JournalInv, entry' = entry, task' = task
    PROVE  EntryExists' /\ Unreported'
BY DEF JournalInv, EntryExists, Unreported, Exists, Running, Parked, AlreadyTerminal, IsTerminal

\* One row is written, of a task that ends, is cancelled or reported on, or
\* that has no launched invocation without a report.
LEMMA RowWritten ==
    ASSUME JournalInv, entry' = entry, NEW t \in Tasks, Rewrites(t),
           \/ task'[t].status \in Terminal \/ task'[t].cancelled
           \/ task'[t].report # "none"
           \/ entry[t] \notin {"launched", "unknown"}
    PROVE  EntryExists' /\ Unreported'
<1>1. \A u \in Tasks : u # t => task'[u] = task[u]
  BY DEF Rewrites
<1>2. \A u \in Tasks : Exists(u) => Exists(u)'
  BY DEF Rewrites, TableStep
<1>3. EntryExists'
  BY <1>2 DEF JournalInv, EntryExists, Exists
<1>4. Unreported'
  <2>1. SUFFICES ASSUME NEW u \in Tasks, entry[u] \in {"launched", "unknown"}, task'[u].report = "none"
                 PROVE  Running(u)' \/ AlreadyTerminal(u)'
    BY DEF Unreported
  <2>2. CASE u = t
    BY <2>1, <2>2 DEF AlreadyTerminal, IsTerminal
  <2>3. CASE u # t
    BY <1>1, <2>1, <2>3 DEF JournalInv, Unreported, Running, Parked, AlreadyTerminal, IsTerminal
  <2>4. QED BY <2>2, <2>3
<1>5. QED BY <1>3, <1>4

\* A thread on its task: without a report it can only end it.
LEMMA MovesJournal ==
    ASSUME JournalInv, NEW a \in Actors, Moves(a)
    PROVE  Hands' /\ EntryExists' /\ Unreported'
<1>1. entry' = entry /\ orphans' = orphans
  BY DEF Moves, journal, bootVars
<1>2. Hands'
  BY <1>1, HandsMove DEF Moves
<1>3. \A u \in Tasks : Exists(u) => Exists(u)'
  BY DEF Moves, TableMoves, TableStep
<1>4. EntryExists'
  BY <1>1, <1>3 DEF JournalInv, EntryExists, Exists
<1>5. Unreported'
  <2>1. SUFFICES ASSUME NEW u \in Tasks, entry[u] \in {"launched", "unknown"}, task'[u].report = "none"
                 PROVE  Running(u)' \/ AlreadyTerminal(u)'
    BY <1>1 DEF Unreported
  <2>2. Exists(u) /\ SameSession(u)
    BY <2>1 DEF JournalInv, EntryExists, Moves, TableMoves
  <2>3. Running(u) \/ AlreadyTerminal(u)
    BY <2>1, <2>2 DEF JournalInv, Unreported, SameSession
  <2>4. CASE SameState(u)
    BY <2>2, <2>3, <2>4 DEF SameState, SameSession, Running, Parked, AlreadyTerminal, IsTerminal
  <2>5. CASE ~SameState(u)
    <3>1. u = actor[a].task
      BY <2>2, <2>5 DEF Moves, TableMoves
    <3>2. task'[u].status \in Terminal \/ task[u].report # "none"
      BY <2>5, <3>1 DEF Moves, TableMoves
    <3>3. QED BY <2>1, <2>2, <3>2 DEF SameSession, AlreadyTerminal, IsTerminal
  <2>6. QED BY <2>4, <2>5
<1>6. QED BY <1>2, <1>4, <1>5

-----------------------------------------------------------------------------
(* Steps of the worker that writes the journal                             *)

\* A worker reads a row: that of a task with a process of an earlier daemon
\* is in progress.
LEMMA EnterJournal ==
    ASSUME JournalInv, NEW w \in Workers, NEW t \in Tasks, Enter(w, t)
    PROVE  Hands' /\ EntryExists' /\ Unreported'
<1>1. /\ task' = task /\ entry' = entry /\ orphans' = orphans /\ actor[w].pc = "idle"
      /\ \/ actor' = actor
         \/ /\ Exists(t) /\ ~AlreadyTerminal(t) /\ Taken(w, t, "prepare")
            /\ actor'[w].from = <<task[t].status, task[t].block>>
  BY EnterFacts DEF JournalInv, Inv, journal, bootVars
<1>2. EntryExists' /\ Unreported'
  BY <1>1, RowsStay
<1>3. CASE actor' = actor
  BY <1>1, <1>2, <1>3, HandsRest
<1>4. CASE /\ Exists(t) /\ ~AlreadyTerminal(t) /\ Taken(w, t, "prepare")
           /\ actor'[w].from = <<task[t].status, task[t].block>>
  <2>1. \A v \in Workers : v # w => actor'[v] = actor[v]
    BY <1>4 DEF Taken, Actors
  <2>2. actor'[w].pc = "prepare" /\ actor'[w].task = t
    BY <1>4 DEF Taken
  <2>3. \A v \in Workers : \A u \in Tasks : Holds(v, u)' <=> Holds(v, u)
    BY <1>1, <2>1, <2>2 DEF Holds
  <2>4. HeldOpen' /\ HeldOnce' /\ OpenHeld'
    BY <1>1, <2>3 DEF JournalInv, Hands, HeldOpen, HeldOnce, OpenHeld
  <2>5. DrivenLaunched' /\ OrphanUnknown'
    BY <1>1, <2>1, <2>2 DEF JournalInv, Hands, DrivenLaunched, OrphanUnknown, Driving
  <2>6. t \in orphans => task[t].status = "in_progress" /\ task[t].block = "none"
    BY <1>4 DEF JournalInv, Inv, Owned, Running, Parked, AlreadyTerminal
  <2>7. OrphanRead'
    BY <1>1, <1>4, <2>1, <2>2, <2>6 DEF JournalInv, Hands, OrphanRead
  <2>8. QED BY <1>2, <2>4, <2>5, <2>7 DEF Hands
<1>5. QED BY <1>1, <1>3, <1>4

\* A worker becomes the owner: nobody was, and no process is left of the last.
LEMMA PrepareJournal ==
    ASSUME JournalInv, NEW w \in Workers, NEW t \in Tasks, Prepares(w, t)
    PROVE  Hands' /\ EntryExists' /\ Unreported'
<1>1. /\ actor[w].pc = "prepare" /\ actor[w].task = t /\ Exists(t) /\ ~Barred(t) /\ EligibleAsRead(w)
      /\ actor'[w].pc = "claim" /\ actor'[w].task = t
      /\ entry' = [entry EXCEPT ![t] = "prepared"] /\ task' = task /\ orphans' = orphans
      /\ \A v \in Workers : v # w => actor'[v] = actor[v]
  BY DEF Prepares, Taken, bootVars, Actors
<1>2. entry \in [Tasks -> Phases]
  BY DEF JournalInv, Inv, Base, TypeOK
<1>3. entry'[t] = "prepared" /\ \A u \in Tasks : u # t => entry'[u] = entry[u]
  BY <1>1, <1>2
<1>4. entry[t] \notin Open
  BY <1>1 DEF Barred, SettledProducer, Open
<1>5. \A v \in Workers : ~Holds(v, t)
  BY <1>4 DEF JournalInv, Hands, HeldOpen
<1>6. \A v \in Workers : \A u \in Tasks : Holds(v, u)' <=> Holds(v, u) \/ (v = w /\ u = t)
  BY <1>1 DEF Holds
<1>7. HeldOpen' /\ HeldOnce' /\ OpenHeld'
  BY <1>3, <1>5, <1>6 DEF JournalInv, Hands, HeldOpen, HeldOnce, OpenHeld, Open
<1>8. DrivenLaunched'
  <2>1. SUFFICES ASSUME NEW v \in Workers, actor'[v].pc \in Driving
                 PROVE  entry'[actor'[v].task] = "launched"
    BY DEF DrivenLaunched
  <2>2. v # w /\ actor'[v] = actor[v]
    BY <1>1, <2>1 DEF Driving
  <2>3. entry[actor[v].task] = "launched" /\ actor[v].task \in Tasks
    BY <2>1, <2>2 DEF JournalInv, Hands, DrivenLaunched, Inv, Base, RowsInHand, Actors, Driving
  <2>4. QED BY <1>3, <1>4, <2>2, <2>3 DEF Open
<1>9. t \notin orphans
  BY <1>1 DEF JournalInv, Hands, OrphanRead, EligibleAsRead
<1>10. OrphanUnknown'
  <2>1. \A u \in orphans : u \in Tasks /\ u # t
    BY <1>9 DEF JournalInv, Inv, Base, TypeOK
  <2>2. QED BY <1>1, <1>3, <2>1 DEF JournalInv, Hands, OrphanUnknown
<1>11. OrphanRead'
  BY <1>1 DEF JournalInv, Hands, OrphanRead
<1>12. EntryExists'
  BY <1>1, <1>3 DEF JournalInv, EntryExists, Exists
<1>13. Unreported'
  BY <1>1, <1>3 DEF JournalInv, Unreported, Running, Parked, AlreadyTerminal, IsTerminal
<1>14. QED BY <1>7, <1>8, <1>10, <1>11, <1>12, <1>13 DEF Hands

\* A worker that has claimed launches what it prepared.
LEMMA ClaimJournal ==
    ASSUME JournalInv, NEW w \in Workers, NEW t \in Tasks, Admits(w, t), orphans' = orphans
    PROVE  Hands' /\ EntryExists' /\ Unreported'
<1>1. /\ actor[w].pc = "claim" /\ actor[w].task = t
      /\ actor'[w].pc = "agent" /\ actor'[w].task = t
      /\ entry' = [entry EXCEPT ![t] = "launched"]
      /\ \A v \in Workers : v # w => actor'[v] = actor[v]
      /\ Rewrites(t) /\ task'[t].status = "in_progress" /\ task'[t].block = "none"
  BY DEF Admits, Actors
<1>2. entry \in [Tasks -> Phases]
  BY DEF JournalInv, Inv, Base, TypeOK
<1>3. entry'[t] = "launched" /\ \A u \in Tasks : u # t => entry'[u] = entry[u]
  BY <1>1, <1>2
<1>4. Holds(w, t) /\ entry[t] \in Open
  BY <1>1 DEF JournalInv, Hands, HeldOpen, Holds
<1>5. \A v \in Workers : \A u \in Tasks : Holds(v, u)' <=> Holds(v, u)
  BY <1>1 DEF Holds
<1>6. HeldOpen' /\ HeldOnce' /\ OpenHeld'
  BY <1>3, <1>4, <1>5 DEF JournalInv, Hands, HeldOpen, HeldOnce, OpenHeld, Open
<1>7. DrivenLaunched'
  <2>1. SUFFICES ASSUME NEW v \in Workers, actor'[v].pc \in Driving
                 PROVE  entry'[actor'[v].task] = "launched"
    BY DEF DrivenLaunched
  <2>2. CASE v = w
    BY <1>1, <1>3, <2>2
  <2>3. CASE v # w
    <3>1. entry[actor[v].task] = "launched" /\ actor[v].task \in Tasks
      BY <1>1, <2>1, <2>3 DEF JournalInv, Hands, DrivenLaunched, Inv, Base, RowsInHand, Actors, Driving
    <3>2. QED BY <1>1, <1>3, <2>3, <3>1
  <2>4. QED BY <2>2, <2>3
<1>8. OrphanUnknown' /\ OrphanRead'
  <2>1. \A u \in orphans : u \in Tasks /\ u # t
    BY <1>4 DEF JournalInv, Hands, OrphanUnknown, Open, Inv, Base, TypeOK
  <2>2. QED BY <1>1, <1>3, <2>1 DEF JournalInv, Hands, OrphanUnknown, OrphanRead
<1>9. EntryExists'
  BY <1>1, <1>3 DEF JournalInv, EntryExists, Exists, Rewrites, TableStep
<1>10. Unreported'
  <2>1. Running(t)' /\ \A u \in Tasks : u # t => task'[u] = task[u]
    BY <1>1 DEF Running, Parked, Rewrites
  <2>2. QED BY <1>3, <2>1 DEF JournalInv, Unreported, Running, Parked, AlreadyTerminal, IsTerminal
<1>11. QED BY <1>6, <1>7, <1>8, <1>9, <1>10 DEF Hands

\* A worker closes: it was the only one, so nobody holds an entry that is
\* gone.
LEMMA CloseJournal ==
    ASSUME JournalInv, NEW w \in Workers, Close(w)
    PROVE  Hands' /\ EntryExists' /\ Unreported'
<1>1. PICK t \in Tasks : t = actor[w].task /\ Exists(t)
  BY CloseFacts DEF JournalInv, Inv
<1>2. /\ actor[w].pc = "close" /\ actor'[w].pc = "idle" /\ task' = task /\ orphans' = orphans
      /\ ActorMoves(w)
      /\ \/ entry' = [entry EXCEPT ![t] = "none"]
         \/ entry' = [entry EXCEPT ![t] = "unknown"] /\ entry[t] = "launched"
  BY <1>1, CloseFacts DEF JournalInv, Inv, bootVars
<1>3. entry \in [Tasks -> Phases] /\ \A v \in Workers : v # w => actor'[v] = actor[v]
  BY <1>2 DEF JournalInv, Inv, Base, TypeOK, ActorMoves, Actors
<1>4. /\ entry'[t] = "none" \/ (entry'[t] = "unknown" /\ entry[t] = "launched")
      /\ \A u \in Tasks : u # t => entry'[u] = entry[u]
  BY <1>2, <1>3
<1>5. Holds(w, t) /\ entry[t] \in Open /\ \A v \in Workers : Holds(v, t) => v = w
  BY <1>1, <1>2 DEF JournalInv, Hands, HeldOpen, HeldOnce, Holds
<1>6. \A v \in Workers : \A u \in Tasks : Holds(v, u)' <=> Holds(v, u) /\ v # w
  BY <1>2, <1>3 DEF Holds
<1>7. HeldOpen' /\ HeldOnce'
  BY <1>4, <1>5, <1>6 DEF JournalInv, Hands, HeldOpen, HeldOnce, Open
<1>8. OpenHeld'
  <2>1. SUFFICES ASSUME NEW u \in Tasks, entry'[u] \in Open
                 PROVE  \E v \in Workers : Holds(v, u)'
    BY DEF OpenHeld
  <2>2. u # t /\ entry[u] \in Open
    BY <1>4, <2>1 DEF Open
  <2>3. PICK v \in Workers : Holds(v, u)
    BY <2>2 DEF JournalInv, Hands, OpenHeld
  <2>4. v # w
    BY <1>1, <2>2, <2>3 DEF Holds
  <2>5. QED BY <1>6, <2>3, <2>4
<1>9. DrivenLaunched'
  <2>1. SUFFICES ASSUME NEW v \in Workers, actor'[v].pc \in Driving
                 PROVE  entry'[actor'[v].task] = "launched"
    BY DEF DrivenLaunched
  <2>2. v # w /\ actor'[v] = actor[v]
    BY <1>2, <1>3, <2>1 DEF Driving
  <2>3. entry[actor[v].task] = "launched" /\ actor[v].task \in Tasks
    BY <2>1, <2>2 DEF JournalInv, Hands, DrivenLaunched, Inv, Base, RowsInHand, Actors, Driving
  <2>4. actor[v].task # t
    BY <1>5, <2>1, <2>2 DEF Holds, Driving
  <2>5. QED BY <1>4, <2>2, <2>3, <2>4
<1>10. OrphanUnknown' /\ OrphanRead'
  <2>1. \A u \in orphans : u \in Tasks /\ u # t
    BY <1>5 DEF JournalInv, Hands, OrphanUnknown, Open, Inv, Base, TypeOK
  <2>2. QED BY <1>2, <1>3, <1>4, <2>1 DEF JournalInv, Hands, OrphanUnknown, OrphanRead
<1>11. EntryExists'
  BY <1>1, <1>2, <1>4 DEF JournalInv, EntryExists, Exists
<1>12. Unreported'
  BY <1>2, <1>4 DEF JournalInv, Unreported, Running, Parked, AlreadyTerminal, IsTerminal
<1>13. QED BY <1>7, <1>8, <1>9, <1>10, <1>11, <1>12 DEF Hands

\* Every step of a worker up to the end of its session.
LEMMA WorkerJournal ==
    ASSUME JournalInv, NEW w \in Workers,
           \/ \E t \in Tasks : Enter(w, t)
           \/ \E d \in Decisions : SubmitCompletion(w, d)
           \/ RunStep(w)
    PROVE  Hands' /\ EntryExists' /\ Unreported'
<1>1. w \in Actors /\ Base
  BY DEF Actors, JournalInv, Inv
<1>2. CASE \E t \in Tasks : Enter(w, t)
  BY <1>2, EnterJournal
<1>3. CASE Prepare(w)
  BY <1>1, <1>3, PrepareFacts, PrepareJournal, MovesJournal
<1>4. CASE Claim(w)
  BY <1>1, <1>4, ClaimFacts, ClaimJournal DEF bootVars
<1>5. CASE RefuseLaunch(w)
  <2>1. PICK t \in Tasks : t = actor[w].task
    BY <1>1, <1>5, RefuseFacts
  <2>2. /\ actor[w].pc = "claim" /\ ActorMoves(w) /\ Rewrites(t) /\ task'[t].status = "failed"
        /\ entry' = entry /\ orphans' = orphans
    BY <1>1, <1>5, <2>1, RefuseFacts DEF journal, bootVars
  <2>3. Hands'
    BY <1>1, <2>2, HandsMove
  <2>4. QED BY <2>2, <2>3, RowWritten DEF Terminal
<1>6. CASE GiveUp(w) \/ AgentEnds(w)
  BY <1>1, <1>6, GiveUpMoves, AgentMoves, MovesJournal DEF AgentEnds
<1>7. CASE Close(w)
  BY <1>7, CloseJournal
<1>8. CASE \E d \in Decisions : SubmitCompletion(w, d)
  <2>1. PICK d \in Decisions : SubmitCompletion(w, d)
    BY <1>8
  <2>2. PICK t \in Tasks : t = actor[w].task
    BY <1>1, <2>1, SubmitFacts
  <2>3. Rewrites(t) /\ task'[t].report = d /\ actor' = actor /\ entry' = entry /\ orphans' = orphans
    BY <1>1, <2>1, <2>2, SubmitFacts DEF journal, bootVars
  <2>4. d # "none"
    BY InputsAssumption DEF AllDecisions
  <2>5. QED BY <2>3, <2>4, HandsRest, RowWritten
<1>9. QED BY <1>2, <1>3, <1>4, <1>5, <1>6, <1>7, <1>8 DEF RunStep, ClaimStep

-----------------------------------------------------------------------------
(* The founder, the sweeps, a crash                                        *)

\* The founder's stamp is an end, and what is continued was escalated.
LEMMA FounderJournal ==
    ASSUME JournalInv, FounderStep
    PROVE  Hands' /\ EntryExists' /\ Unreported'
<1>1. Base
  BY DEF JournalInv, Inv
<1>2. CASE \/ \E t \in Tasks : CancelCollect(t)
           \/ \E r \in Resolvers : \E t \in Tasks : ResolveRead(r, t)
  BY <1>2, HandsRest, RowsStay DEF CancelCollect, ResolveRead, journal, bootVars
<1>3. CASE \E t \in Tasks : CancelStamp(t)
  BY <1>1, <1>3, StampFacts, HandsRest, RowWritten DEF journal, bootVars
<1>4. CASE \E r \in Resolvers : ResolveContinue(r)
  <2>1. PICK r \in Resolvers : ResolveContinue(r)
    BY <1>4
  <2>2. PICK t \in Tasks : t = resolver[r] /\ t # NoTask
    BY <1>1, <2>1, ContinueFacts DEF ResolveContinue
  <2>3. /\ Rewrites(t) /\ task'[t].cancelled = task[t].cancelled /\ task'[t].report = task[t].report
        /\ actor' = actor /\ entry' = entry /\ orphans' = orphans
    BY <1>1, <2>1, <2>2, ContinueFacts DEF journal, bootVars
  <2>4. task[t].status = "escalated" \/ task[t].cancelled
    BY <2>2 DEF JournalInv, Inv, Validated
  <2>5. \/ task'[t].cancelled \/ task'[t].report # "none" \/ entry[t] \notin {"launched", "unknown"}
    BY <2>3, <2>4 DEF JournalInv, Unreported, Running, Parked, AlreadyTerminal, IsTerminal, Terminal
  <2>6. QED BY <2>3, <2>5, HandsRest, RowWritten
<1>5. QED BY <1>2, <1>3, <1>4 DEF FounderStep

\* Neither a job's end nor the sweep, the reaper or the tick touches an entry.
LEMMA SweepJournal ==
    ASSUME JournalInv, NEW t \in Tasks,
           \/ ResumeCheck(t) \/ OrphanEnds(t) \/ SweepVisit(t) \/ Reap(t) \/ Rediscover(t)
           \/ \E j \in Jobs : JobEnds(t, j)
    PROVE  Hands' /\ EntryExists' /\ Unreported'
<1>1. Base /\ Sweeper \notin Workers /\ Reaper \notin Workers
  BY ActorsAssumption DEF JournalInv, Inv
<1>2. entry' = entry /\ orphans' \subseteq orphans /\ task' = task
  BY DEF ResumeCheck, OrphanEnds, SweepVisit, Reap, Rediscover, JobEnds, journal, bootVars
<1>3. \A w \in Workers : actor'[w] = actor[w]
  <2>1. CASE ResumeCheck(t) \/ OrphanEnds(t) \/ Rediscover(t) \/ \E j \in Jobs : JobEnds(t, j)
    BY <2>1 DEF ResumeCheck, OrphanEnds, Rediscover, JobEnds
  <2>2. CASE SweepVisit(t)
    BY <1>1, <2>2, VisitFacts DEF Recovers, Taken, Actors
  <2>3. CASE Reap(t)
    BY <1>1, <2>3, ReapFacts DEF Recovers, Taken, Actors
  <2>4. QED BY <2>1, <2>2, <2>3
<1>4. QED BY <1>2, <1>3, HandsRest, RowsStay

\* A crash leaves no invocation open, and only what had been launched can
\* have a process.
LEMMA CrashJournal ==
    ASSUME JournalInv, Crash \/ Boot \/ BootDone
    PROVE  Hands' /\ EntryExists' /\ Unreported'
<1>1. CASE Boot \/ BootDone
  BY <1>1, HandsRest, RowsStay DEF Boot, BootDone, journal
<1>2. CASE Crash
  <2>1. task' = task /\ \A w \in Workers : actor'[w].pc = "idle"
    BY <1>2 DEF Crash, Idle, Actors
  <2>2. /\ entry \in [Tasks -> Phases] /\ orphans \in SUBSET Tasks
        /\ \A t \in Tasks : entry'[t] = Restored(entry[t])
    BY <1>2 DEF Crash, JournalInv, Inv, Base, TypeOK
  <2>3. \A t \in Tasks : /\ entry'[t] \notin Open
                         /\ entry[t] \in {"launched", "unknown"} <=> entry'[t] = "unknown"
                         /\ entry'[t] # "none" => entry[t] # "none"
    BY <2>2 DEF Restored, Open, Phases
  <2>4. \A t \in Tasks : \A w \in Workers : ~Holds(w, t)'
    BY <2>1 DEF Holds
  <2>5. HeldOpen' /\ HeldOnce' /\ OpenHeld' /\ DrivenLaunched' /\ OrphanRead'
    BY <2>1, <2>3, <2>4 DEF HeldOpen, HeldOnce, OpenHeld, DrivenLaunched, OrphanRead, Driving
  <2>6. OrphanUnknown'
    <3>1. SUFFICES ASSUME NEW t \in orphans' PROVE entry'[t] = "unknown"
      BY DEF OrphanUnknown
    <3>2. t \in orphans \/ \E w \in Workers : actor[w].pc = "agent" /\ actor[w].task = t
      BY <1>2, <3>1 DEF Crash
    <3>3. CASE t \in orphans
      BY <2>2, <2>3, <3>3 DEF JournalInv, Hands, OrphanUnknown
    <3>4. CASE \E w \in Workers : actor[w].pc = "agent" /\ actor[w].task = t
      <4>1. PICK w \in Workers : actor[w].pc = "agent" /\ actor[w].task = t
        BY <3>4
      <4>2. entry[t] = "launched" /\ t \in Tasks
        BY <4>1 DEF JournalInv, Hands, DrivenLaunched, Driving, Inv, Base, RowsInHand, Actors
      <4>3. QED BY <2>3, <4>2
    <3>5. QED BY <3>2, <3>3, <3>4
  <2>7. EntryExists'
    BY <2>1, <2>3 DEF JournalInv, EntryExists, Exists
  <2>8. Unreported'
    BY <2>1, <2>3 DEF JournalInv, Unreported, Open, Running, Parked, AlreadyTerminal, IsTerminal
  <2>9. QED BY <2>5, <2>6, <2>7, <2>8 DEF Hands
<1>3. QED BY <1>1, <1>2

-----------------------------------------------------------------------------
(* The theorems                                                            *)

\* Every step keeps the journal in order.
LEMMA JournalStep ==
    ASSUME JournalInv, OneResolver, [Next]_vars
    PROVE  JournalInv'
<1>1. Inv'
  BY InvStep DEF JournalInv
<1>2. Hands' /\ EntryExists' /\ Unreported'
  <2>1. CASE UNCHANGED vars
    BY <2>1, HandsRest, RowsStay DEF vars
  <2>2. CASE Next
    <3>1. CASE \E a \in Actors : ConsumeStep(a)
      BY <3>1, ConsumeMoves, MovesJournal DEF JournalInv, Inv
    <3>2. QED BY <2>2, <3>1, WorkerJournal, SweepJournal, FounderJournal, CrashJournal DEF Next
  <2>3. QED BY <2>1, <2>2
<1>3. QED BY <1>1, <1>2 DEF JournalInv

\* The journal is empty at first.
LEMMA JournalInit ==
    ASSUME Init
    PROVE  JournalInv
<1>1. /\ \A w \in Workers : actor[w].pc = "idle"
      /\ \A t \in Tasks : entry[t] = "none"
      /\ orphans = {}
  BY DEF Init, Idle, Actors
<1>2. Hands
  BY <1>1 DEF Hands, HeldOpen, HeldOnce, OpenHeld, DrivenLaunched, OrphanUnknown, OrphanRead,
              Open, Holds, Driving
<1>3. EntryExists /\ Unreported
  BY <1>1 DEF EntryExists, Unreported
<1>4. QED BY <1>2, <1>3, InvInit DEF JournalInv

\* The inductive invariant, for one resolve request at a time.
THEOREM JournalInvariance == OneResolver => (Spec => []JournalInv)
<1>1. SUFFICES ASSUME OneResolver PROVE Spec => []JournalInv
  OBVIOUS
<1>2. Init => JournalInv
  BY JournalInit
<1>3. JournalInv /\ [Next]_vars => JournalInv'
  BY <1>1, JournalStep
<1>4. QED BY <1>2, <1>3, PTL DEF Spec

\* A task without two invocations.
LEMMA SessionCount ==
    ASSUME JournalInv, NEW t \in Tasks
    PROVE  Sessions(t) <= 1
<1>1. PICK S : S = {w \in Workers : Holds(w, t)}
  OBVIOUS
<1>2. CASE S = {}
  <2>1. Cardinality(S) = 0
    BY <1>2, FS_EmptySet
  <2>2. QED BY <1>1, <2>1 DEF Sessions
<1>3. CASE S # {}
  <2>1. PICK w \in S : TRUE
    BY <1>3
  <2>2. S = {w}
    BY <1>1, <2>1 DEF JournalInv, Hands, HeldOnce
  <2>3. t \notin orphans
    BY <1>1, <2>1 DEF JournalInv, Hands, HeldOpen, OrphanUnknown, Open
  <2>4. Cardinality(S) = 1
    BY <2>2, FS_Singleton
  <2>5. QED BY <1>1, <2>3, <2>4 DEF Sessions
<1>4. QED BY <1>2, <1>3

\* However many workers, tasks, queue items and crashes there are: no task
\* has two invocations, and none while a process of an earlier daemon works
\* on it, as long as one resolve-escalation request is under way at a time.
\* Two that validated the same escalation would write "pending" twice, the
\* second time over a task already claimed, and a crash that leaves the
\* session behind would then find its report and a task that may run.
THEOREM OneSessionEach == OneResolver => (Spec => []OneSession)
<1>1. SUFFICES ASSUME OneResolver PROVE Spec => []OneSession
  OBVIOUS
<1>2. Spec => []JournalInv
  BY <1>1, JournalInvariance
<1>3. JournalInv => OneSession
  BY SessionCount DEF OneSession
<1>4. QED BY <1>2, <1>3, PTL

\* However often sessions end unseen and daemons crash, on any table: a task
\* that may run is barred only by an invocation that a worker has in hand, or
\* by one that a crash found prepared, which is left to the founder.
THEOREM NothingElseBars == OneResolver => (Spec => []OnlyLiveInvocationsBar)
<1>1. SUFFICES ASSUME OneResolver PROVE Spec => []OnlyLiveInvocationsBar
  OBVIOUS
<1>2. Spec => []JournalInv
  BY <1>1, JournalInvariance
<1>3. ASSUME JournalInv, NEW t \in Tasks, Eligible(t), Barred(t)
      PROVE  entry[t] = "unclosed" \/ \E w \in Workers : Holds(w, t)
  <2>1. entry[t] \in Phases /\ entry[t] # "none"
    BY <1>3 DEF JournalInv, Inv, Base, TypeOK, Barred
  <2>2. CASE entry[t] \in Open
    BY <1>3, <2>2 DEF JournalInv, Hands, OpenHeld
  <2>3. CASE entry[t] = "unknown"
    <3>1. ~Running(t) /\ ~AlreadyTerminal(t)
      BY <1>3 DEF Eligible, Running, Parked, AlreadyTerminal, IsTerminal, Terminal
    <3>2. task[t].report = "none"
      BY <1>3, <2>3, <3>1 DEF Barred, SettledProducer
    <3>3. QED BY <1>3, <2>3, <3>1, <3>2 DEF JournalInv, Unreported
  <2>4. QED BY <2>1, <2>2, <2>3 DEF Phases, Open
<1>4. JournalInv => OnlyLiveInvocationsBar
  BY <1>3 DEF OnlyLiveInvocationsBar
<1>5. QED BY <1>2, <1>4, PTL

=============================================================================
