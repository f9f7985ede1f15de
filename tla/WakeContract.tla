----------------------------- MODULE WakeContract -----------------------------
(***************************************************************************)
(* What the delivery of a thread promises each agent, without exchanges,   *)
(* breakers, tokens or workers: one wake at a time; the range of a running *)
(* wake does not change; an answer acknowledges that range and no more, a  *)
(* failure acknowledges nothing; only an explicit discard skips messages.  *)
(* Agents are served independently of each other, and one transaction may  *)
(* take a step of several.                                                 *)
(***************************************************************************)
EXTENDS Naturals

CONSTANT Agents

VARIABLES
    acked,  \* per agent, the last message answered for
    due,    \* the last message addressed to the agent
    wake,   \* "none", "queued" or "running"
    upto,   \* the last message the running wake covers
    interventions  \* aborts, removals and restarts so far

vars == <<acked, due, wake, upto, interventions>>

Init ==
    /\ acked = [a \in Agents |-> 0]
    /\ due = [a \in Agents |-> 0]
    /\ wake = [a \in Agents |-> "none"]
    /\ upto = [a \in Agents |-> 0]
    /\ interventions = 0

\* Waking an agent that has nothing to read is never needed.
MayWake(a) == wake'[a] = "queued" => acked'[a] < due'[a]

\* A message arrives. The first one an agent is sent is where it starts.
Message(a) ==
    /\ due'[a] > due[a]
    /\ acked'[a] = IF due[a] = 0 THEN due'[a] - 1 ELSE acked[a]
    /\ wake'[a] = wake[a] \/ (wake[a] = "none" /\ wake'[a] = "queued")
    /\ upto'[a] = upto[a]

\* The agent is woken for what it has left unread.
Remind(a) ==
    /\ wake[a] = "none" /\ wake'[a] = "queued"
    /\ due'[a] = due[a] /\ acked'[a] = acked[a] /\ upto'[a] = upto[a]

Claim(a) ==
    /\ wake[a] = "queued" /\ wake'[a] = "running"
    /\ upto'[a] = due[a]
    /\ due'[a] = due[a] /\ acked'[a] = acked[a]

\* A wake may be answered for the agent before it is claimed.
Answer(a) ==
    /\ wake[a] # "none" /\ wake'[a] # "running"
    /\ acked'[a] = IF wake[a] = "running" THEN upto[a] ELSE due[a]
    /\ due'[a] = due[a] /\ upto'[a] = 0

Fail(a) ==
    /\ wake[a] # "none" /\ wake'[a] # "running"
    /\ acked'[a] = acked[a]
    /\ due'[a] = due[a] /\ upto'[a] = 0

\* Nothing in the normal course of the thread discards.
Discard(a) ==
    /\ interventions' = interventions + 1
    /\ wake'[a] = "none"
    /\ acked'[a] = due[a]
    /\ due'[a] = due[a] /\ upto'[a] = 0

Rest(a) ==
    /\ acked'[a] = acked[a] /\ due'[a] = due[a]
    /\ wake'[a] = wake[a] /\ upto'[a] = upto[a]

Step(a) ==
    /\ \/ Rest(a) \/ Message(a) \/ Remind(a) \/ Claim(a)
       \/ Answer(a) \/ Fail(a) \/ Discard(a)
    /\ MayWake(a)

Next ==
    /\ interventions' \in {interventions, interventions + 1}
    /\ \A a \in Agents : Step(a)

Spec == Init /\ [][Next]_vars
=============================================================================
