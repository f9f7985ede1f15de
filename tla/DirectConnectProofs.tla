-------------------------- MODULE DirectConnectProofs --------------------------
(***************************************************************************)
(* Proofs about DirectConnect, for any number of tokens, identities,       *)
(* requests and threads: a token pays for one registration, an identity is *)
(* accepted once, one worker per token, no accepted candidate is stranded, *)
(* and the profile is what its committed projection bound.                 *)
(***************************************************************************)
EXTENDS DirectConnect, TLAPS

-----------------------------------------------------------------------------
(* The inductive invariant                                                 *)

RequestRecord == [token : DirectTokens, seen : BOOLEAN, late : SUBSET Tokens] \cup {NoRequest}

LoopRecord == [pc : {"idle", "admitted", "receiving", "received", "probing", "bound",
                     "retrying", "retried"},
               op : (DirectTokens \X {1, 2}) \cup {NoOp},
               seen : BOOLEAN, late : SUBSET Tokens, holds : BOOLEAN]

SweepRecord == [pc : {"idle", "probing", "bound"}, op : (DirectTokens \X {1, 2}) \cup {NoOp}]

\* The records TypeOK leaves open.
Types ==
    /\ candidate \in [DirectTokens -> Seq(CandidateRecord)]
    /\ request \in [Requests -> RequestRecord]
    /\ loop \in LoopRecord
    /\ sweep \in SweepRecord
    /\ \A h \in Threads : thread[h].pc # "idle" => thread[h].token \in Tokens

\* What the columns of one candidate say of each other.
Coherent(c) ==
    /\ c.artifacts => c.accepted
    /\ c.projection # "none" => c.artifacts
    /\ c.state = "received" => c.projection \in {"none", "planned"}
    /\ c.accepted /\ c.state = "received" => c.artifacts
    /\ c.attempt = "running" => ProjectionFailed(c)

Candidates == \A t \in DirectTokens : \A n \in 1 .. Len(candidate[t]) : Coherent(candidate[t][n])

\* A candidate that has been corrected is settled, and differs from its
\* correction.
Superseded ==
    \A t \in DirectTokens : Len(candidate[t]) = 2 =>
        /\ candidate[t][1].accepted
        /\ candidate[t][1].state # "received"
        /\ candidate[t][1].projection # "planned"
        /\ candidate[t][1].attempt # "running"
        /\ candidate[t][1].identity # candidate[t][2].identity

\* What a worker works on is recorded as being worked on.
Working ==
    /\ sweep.pc # "idle" => Cand(sweep.op).projection = "planned"
    /\ loop.pc \in {"probing", "bound"} => Cand(loop.op).projection = "planned"
    /\ loop.pc \in {"retrying", "retried"} => Cand(loop.op).attempt = "running"

\* The lease: one holder, and the profile is the holder's.
Lease ==
    /\ ~(sweep.pc = "bound" /\ loop.pc = "bound")
    /\ sweep.pc = "bound" => profile = sweep.op
    /\ loop.pc = "bound" => profile = loop.op

\* A pool thread in the middle of a registration holds its token alone.
Held(h) == thread[h].pc \in {"writing", "written"}

Holders ==
    /\ \A t \in DirectTokens : token[t].state = "minted" => t \in authority
    /\ \A t \in Tokens : token[t].reserved => token[t].state = "minted"
    /\ \A h \in Threads : thread[h].pc # "idle" => thread[h].token \notin DirectTokens
    /\ \A h \in Threads : Held(h) => token[thread[h].token].reserved
    /\ \A g, h \in Threads : (g # h /\ Held(g) /\ Held(h)) => thread[g].token # thread[h].token

\* Gone, used, or in use: such a token cannot be reserved.
Spent(t) ==
    \/ token[t].state = "lost"
    \/ token[t].state = "minted" /\ (token[t].consumed \/ token[t].reserved)

\* A token that has paid cannot be reserved again.
Paid ==
    /\ \A h \in Threads : thread[h].pc = "writing" => written[thread[h].token] = 0
    /\ \A t \in Tokens :
          /\ written[t] <= 1
          /\ t \in DirectTokens => written[t] = 0
          /\ written[t] # 0 => Spent(t)

Inv ==
    /\ TypeOK /\ Types
    /\ Candidates /\ Superseded
    /\ Working /\ OneProbePerToken /\ Lease
    /\ Holders /\ Paid

-----------------------------------------------------------------------------
(* How a step changes the candidates                                       *)

\* The candidate of o becomes d, nothing else changes.
Sets(o, d) ==
    /\ candidate' \in [DirectTokens -> Seq(CandidateRecord)]
    /\ \A t \in DirectTokens : Len(candidate'[t]) = Len(candidate[t])
    /\ \A t \in DirectTokens : \A n \in 1 .. Len(candidate[t]) :
          candidate'[t][n] = IF t = o[1] /\ n = o[2] THEN d ELSE candidate[t][n]

\* A candidate is added after those of t.
Adds(t, id) ==
    /\ candidate' \in [DirectTokens -> Seq(CandidateRecord)]
    /\ Len(candidate[t]) \in {0, 1}
    /\ Len(candidate'[t]) = Len(candidate[t]) + 1
    /\ candidate'[t][Len(candidate[t]) + 1] = NewCandidate(id)
    /\ \A n \in 1 .. Len(candidate[t]) : candidate'[t][n] = candidate[t][n]
    /\ \A u \in DirectTokens \ {t} : candidate'[u] = candidate[u]
    /\ Len(candidate[t]) = 1 =>
          /\ candidate[t][1].projection = "probe_failed"
          /\ candidate[t][1].attempt # "running"
          /\ ~(candidate[t][1].accepted /\ candidate[t][1].identity = id)

\* What may become of a candidate, and who may change it.
Moves(o, d) ==
    /\ d \in CandidateRecord /\ Coherent(d)
    /\ d.identity = Cand(o).identity
    /\ Cand(o).accepted => d.accepted
    /\ d.state = "received" => Cand(o).state = "received"
    /\ d.projection = "planned" => Cand(o).projection = "planned" \/ Latest(o)
    /\ d.attempt = "running" => Cand(o).attempt = "running" \/ Latest(o)
    /\ Cand(o).projection = "planned" /\ d.projection # "planned" =>
          \/ sweep.pc # "idle" /\ sweep.op = o /\ sweep'.pc = "idle"
          \/ loop.pc \in {"probing", "bound"} /\ loop.op = o /\ loop'.pc = "idle"
    /\ Cand(o).attempt = "running" /\ d.attempt # "running" =>
          loop.pc \in {"retrying", "retried"} /\ loop.op = o /\ loop'.pc = "idle"
    /\ Cand(o).projection # "committed" /\ d.projection = "committed" => profile = o

\* An operation names a token and one of its candidates.
LEMMA OperationFacts ==
    ASSUME Types, NEW o \in Operations
    PROVE  /\ o[1] \in DirectTokens /\ o[2] \in {1, 2} /\ o[2] \in 1 .. Len(candidate[o[1]])
           /\ Cand(o) \in CandidateRecord /\ o = <<o[1], o[2]>>
           /\ candidate[o[1]] \in Seq(CandidateRecord)
<1>1. o \in DirectTokens \X {1, 2} /\ o[2] <= Len(candidate[o[1]])
  BY DEF Operations
<1>2. o[1] \in DirectTokens /\ o[2] \in {1, 2} /\ o = <<o[1], o[2]>>
  BY <1>1
<1>3. candidate[o[1]] \in Seq(CandidateRecord)
  BY <1>2 DEF Types
<1>4. o[2] \in 1 .. Len(candidate[o[1]])
  BY <1>1, <1>2, <1>3
<1>5. QED BY <1>2, <1>3, <1>4 DEF Cand

\* The token and the index of a pair name an operation.
LEMMA OperationOf ==
    ASSUME Types, NEW t \in DirectTokens, NEW n \in {1, 2}, n <= Len(candidate[t])
    PROVE  <<t, n>> \in Operations
BY DEF Operations

\* Writing one candidate of the table.
LEMMA SetsFacts ==
    ASSUME Types, NEW o \in Operations, NEW d \in CandidateRecord,
           candidate' = [candidate EXCEPT ![o[1]][o[2]] = d]
    PROVE  Sets(o, d)
<1> DEFINE s == candidate[o[1]]
           s1 == [s EXCEPT ![o[2]] = d]
<1>1. /\ o[1] \in DirectTokens /\ o[2] \in 1 .. Len(s)
      /\ s \in Seq(CandidateRecord)
  BY OperationFacts
<1>2. s1 \in Seq(CandidateRecord) /\ Len(s1) = Len(s)
      /\ \A n \in 1 .. Len(s) : s1[n] = IF n = o[2] THEN d ELSE s[n]
  BY <1>1
<1>3. candidate \in [DirectTokens -> Seq(CandidateRecord)]
  BY DEF Types
<1>4. candidate' = [candidate EXCEPT ![o[1]] = s1]
  OBVIOUS
<1> HIDE DEF s1
<1>5. candidate'[o[1]] = s1 /\ \A u \in DirectTokens : u # o[1] => candidate'[u] = candidate[u]
  BY <1>1, <1>3, <1>4
<1>6. candidate' \in [DirectTokens -> Seq(CandidateRecord)]
  BY <1>1, <1>2, <1>3, <1>4
<1>7. QED BY <1>1, <1>2, <1>5, <1>6 DEF Sets

\* The shape in which most steps give the new table.
LEMMA MovesFacts ==
    ASSUME Inv, NEW o \in Operations, NEW d, Moves(o, d),
           candidate' = [candidate EXCEPT ![o[1]][o[2]] = d]
    PROVE  \E p \in Operations, e \in CandidateRecord : Sets(p, e) /\ Moves(p, e)
<1>1. d \in CandidateRecord
  BY DEF Moves
<1>2. Sets(o, d)
  BY <1>1, SetsFacts DEF Inv
<1>3. QED BY <1>1, <1>2

\* A step leaves the candidates alone, adds one, or moves one: a probe is
\* ended by its owner only, and only the latest candidate is worked on.
LEMMA CandidateSteps ==
    ASSUME Inv, [Next]_vars
    PROVE  \/ UNCHANGED candidate
           \/ \E t \in DirectTokens, id \in Identities : Adds(t, id)
           \/ \E o \in Operations, d \in CandidateRecord : Sets(o, d) /\ Moves(o, d)
<1> USE DEF Inv
<1>0. ASSUME NEW o \in Operations
      PROVE  Cand(o) \in CandidateRecord /\ Coherent(Cand(o)) /\ Cand(o) = candidate[o[1]][o[2]]
  BY OperationFacts DEF Candidates, Cand
<1>1. CASE \E r \in Requests, id \in Identities : ConnectAdmitted(r, id)
  <2>1. PICK r \in Requests, id \in Identities : ConnectAdmitted(r, id)
    BY <1>1
  <2> DEFINE t == request[r].token
             s == candidate[t]
             s1 == Append(s, NewCandidate(id))
  <2>2. t \in DirectTokens
    BY <2>1 DEF ConnectAdmitted, Types, RequestRecord
  <2>3. Admissible(t, id, request[r].late) /\ candidate' = [candidate EXCEPT ![t] = s1]
    BY <2>1 DEF ConnectAdmitted
  <2>4. candidate \in [DirectTokens -> Seq(CandidateRecord)] /\ s \in Seq(CandidateRecord)
    BY <2>2 DEF Types
  <2>5. NewCandidate(id) \in CandidateRecord
    BY DEF NewCandidate, CandidateRecord
  <2>6. /\ s1 \in Seq(CandidateRecord) /\ Len(s1) = Len(s) + 1
        /\ s1[Len(s) + 1] = NewCandidate(id)
        /\ \A n \in 1 .. Len(s) : s1[n] = s[n]
    BY <2>4, <2>5
  <2>7. Len(s) \in {0, 1}
    BY <2>3 DEF Admissible, is_retryable
  <2>8. ASSUME Len(s) = 1
        PROVE  /\ s[1].projection = "probe_failed" /\ s[1].attempt # "running"
               /\ ~(s[1].accepted /\ s[1].identity = id)
    <3>1. 1 \in DOMAIN s
      BY <2>4, <2>8
    <3>2. is_retryable(t, request[r].late) /\ ~Duplicate(t, id)
      BY <2>3, <2>8 DEF Admissible
    <3>3. QED BY <3>1, <3>2 DEF is_retryable, Duplicate, NoRunningAttempt
  <2> HIDE DEF s1
  <2>9. /\ candidate' \in [DirectTokens -> Seq(CandidateRecord)]
        /\ candidate'[t] = s1
        /\ \A u \in DirectTokens \ {t} : candidate'[u] = candidate[u]
    BY <2>2, <2>3, <2>4, <2>6
  <2>10. Adds(t, id)
    BY <2>6, <2>7, <2>8, <2>9 DEF Adds
  <2>11. QED BY <2>2, <2>10
<1>2. CASE receive
  <2> DEFINE o == loop.op
             d == [Cand(o) EXCEPT !.accepted = TRUE, !.artifacts = TRUE]
  <2>1. o \in Operations
    BY <1>2 DEF receive, TypeOK
  <2>2. candidate' = [candidate EXCEPT ![o[1]][o[2]] = d]
    BY <1>2, <2>1, OperationFacts DEF receive, Cand, Types
  <2>3. Moves(o, d)
    BY <1>0, <2>1 DEF Moves, Coherent, CandidateRecord, ProjectionFailed
  <2>4. QED BY <2>1, <2>2, <2>3, MovesFacts
<1>3. CASE ConnectFaults \/ ConnectReturns
  <2> DEFINE o == loop.op
             d == [Cand(o) EXCEPT !.state = "failed"]
  <2>1. o \in Operations
    BY <1>3 DEF ConnectFaults, ConnectReturns, TypeOK
  <2>2. UNCHANGED candidate \/ candidate' = [candidate EXCEPT ![o[1]][o[2]] = d]
    BY <1>3, <2>1, OperationFacts DEF ConnectFaults, ConnectReturns, Cand, Types
  <2>3. Moves(o, d)
    BY <1>0, <2>1 DEF Moves, Coherent, CandidateRecord, ProjectionFailed
  <2>4. QED BY <2>1, <2>2, <2>3, MovesFacts
<1>4. CASE \E o \in Operations : SweepStarts(o) \/ RouteStarts(o)
  <2>1. PICK o \in Operations : SweepStarts(o) \/ RouteStarts(o)
    BY <1>4
  <2> DEFINE d == [Cand(o) EXCEPT !.projection = "planned"]
  <2>2. Projectable(o) /\ candidate' = [candidate EXCEPT ![o[1]][o[2]] = d]
    BY <2>1, OperationFacts DEF SweepStarts, RouteStarts, plan_projection, Cand, Types
  <2>3. Moves(o, d)
    BY <1>0, <2>2 DEF Moves, Coherent, CandidateRecord, ProjectionFailed, Projectable
  <2>4. QED BY <2>2, <2>3, MovesFacts
<1>5. CASE SweepFails \/ SweepCommits
  <2> DEFINE o == sweep.op
  <2>1. o \in Operations /\ Cand(o).projection = "planned" /\ sweep.pc # "idle" /\ sweep'.pc = "idle"
    BY <1>5 DEF SweepFails, SweepCommits, TypeOK, Working, IdleSweep
  <2>2. CASE SweepFails
    <3>1. PICK reason \in {"probe_failed", "binding_failed"} : mark_failed(o, reason)
      BY <2>2 DEF SweepFails, ProbeFails, BindFails
    <3> DEFINE d == [Cand(o) EXCEPT !.projection = reason,
                                    !.state = IF @ = "received" THEN "failed" ELSE @]
    <3>2. candidate' = [candidate EXCEPT ![o[1]][o[2]] = d]
      BY <3>1 DEF mark_failed
    <3>3. Moves(o, d)
      BY <1>0, <2>1 DEF Moves, Coherent, CandidateRecord, ProjectionFailed
    <3>4. QED BY <2>1, <3>2, <3>3, MovesFacts
  <2>3. CASE SweepCommits
    <3> DEFINE d == [Cand(o) EXCEPT !.projection = "committed",
                                    !.state = IF @ = "received" THEN "committed" ELSE @]
    <3>1. candidate' = [candidate EXCEPT ![o[1]][o[2]] = d]
      BY <2>3 DEF SweepCommits, mark_committed
    <3>2. profile = o
      BY <2>3 DEF SweepCommits, Lease
    <3>3. Moves(o, d)
      BY <1>0, <2>1, <3>2 DEF Moves, Coherent, CandidateRecord, ProjectionFailed
    <3>4. QED BY <2>1, <3>1, <3>3, MovesFacts
  <2>4. QED BY <1>5, <2>2, <2>3
<1>6. CASE RouteFails \/ RouteCommits
  <2> DEFINE o == loop.op
  <2>1. /\ o \in Operations /\ Cand(o).projection = "planned"
        /\ loop.pc \in {"probing", "bound"} /\ loop'.pc = "idle"
    BY <1>6 DEF RouteFails, RouteCommits, TypeOK, Working, IdleLoop
  <2>2. CASE RouteFails
    <3>1. PICK reason \in {"probe_failed", "binding_failed"} : mark_failed(o, reason)
      BY <2>2 DEF RouteFails, ProbeFails, BindFails
    <3> DEFINE d == [Cand(o) EXCEPT !.projection = reason,
                                    !.state = IF @ = "received" THEN "failed" ELSE @]
    <3>2. candidate' = [candidate EXCEPT ![o[1]][o[2]] = d]
      BY <3>1 DEF mark_failed
    <3>3. Moves(o, d)
      BY <1>0, <2>1 DEF Moves, Coherent, CandidateRecord, ProjectionFailed
    <3>4. QED BY <2>1, <3>2, <3>3, MovesFacts
  <2>3. CASE RouteCommits
    <3> DEFINE d == [Cand(o) EXCEPT !.projection = "committed",
                                    !.state = IF @ = "received" THEN "committed" ELSE @]
    <3>1. candidate' = [candidate EXCEPT ![o[1]][o[2]] = d]
      BY <2>3 DEF RouteCommits, mark_committed
    <3>2. profile = o
      BY <2>3 DEF RouteCommits, Lease
    <3>3. Moves(o, d)
      BY <1>0, <2>1, <3>2 DEF Moves, Coherent, CandidateRecord, ProjectionFailed
    <3>4. QED BY <2>1, <3>1, <3>3, MovesFacts
  <2>4. QED BY <1>6, <2>2, <2>3
<1>7. CASE \E o \in Operations : claim_retry_attempt(o)
  <2>1. PICK o \in Operations : claim_retry_attempt(o)
    BY <1>7
  <2> DEFINE d == [Cand(o) EXCEPT !.attempt = "running"]
  <2>2. Retryable(o) /\ candidate' = [candidate EXCEPT ![o[1]][o[2]] = d]
    BY <2>1, OperationFacts DEF claim_retry_attempt, Cand, Types
  <2>3. Moves(o, d)
    BY <1>0, <2>2 DEF Moves, Coherent, CandidateRecord, ProjectionFailed, Retryable
  <2>4. QED BY <2>2, <2>3, MovesFacts
<1>8. CASE RetryFails \/ RetrySucceeds
  <2>1. PICK a \in {"none", "succeeded"} :
           candidate' = [candidate EXCEPT ![loop.op[1]][loop.op[2]].attempt = a]
    BY <1>8 DEF RetryFails, RetrySucceeds
  <2> DEFINE o == loop.op
             d == [Cand(o) EXCEPT !.attempt = a]
  <2>2. o \in Operations /\ loop.pc \in {"retrying", "retried"} /\ loop'.pc = "idle"
    BY <1>8 DEF RetryFails, RetrySucceeds, TypeOK, IdleLoop
  <2>3. candidate' = [candidate EXCEPT ![o[1]][o[2]] = d]
    BY <2>1, <2>2, OperationFacts DEF Cand, Types
  <2>4. Moves(o, d)
    BY <1>0, <2>2 DEF Moves, Coherent, CandidateRecord, ProjectionFailed
  <2>5. QED BY <2>2, <2>3, <2>4, MovesFacts
<1>9. CASE \E o \in Operations : forget_operation(o)
  <2>1. PICK o \in Operations : forget_operation(o)
    BY <1>9
  <2> DEFINE d == [Cand(o) EXCEPT !.projection = "none", !.artifacts = FALSE, !.attempt = "none"]
  <2>2. candidate' = [candidate EXCEPT ![o[1]][o[2]] = d]
    BY <2>1, OperationFacts DEF forget_operation, Cand, Types
  <2>3. ProjectionFailed(Cand(o)) /\ Cand(o).attempt = "none" /\ Cand(o).state # "received"
    BY <2>1 DEF forget_operation
  <2>4. Moves(o, d)
    BY <1>0, <2>3 DEF Moves, Coherent, CandidateRecord, ProjectionFailed
  <2>5. QED BY <2>2, <2>4, MovesFacts
<1>10. QED
  BY <1>1, <1>2, <1>3, <1>4, <1>5, <1>6, <1>7, <1>8, <1>9
  DEF Next, vars, durable, Pool, Connect, LoopStep, MintToken, runtime_conformance_checkin, Expire,
      CheckToken, ReserveToken, WriteRegistration, WriteFails, CommitToken, ConnectArrives,
      ConnectInvalid, ConnectRefused, ConnectReserves, SweepBinds, SweepContended, RouteBinds,
      RouteContended, RetryBinds, Bind, Restart

-----------------------------------------------------------------------------
(* Every step keeps the invariant                                          *)

\* No operation ever goes away.
LEMMA OperationsGrow ==
    ASSUME Inv, [Next]_vars
    PROVE  /\ candidate' \in [DirectTokens -> Seq(CandidateRecord)]
           /\ \A t \in DirectTokens : Len(candidate'[t]) <= 2
           /\ Operations \subseteq Operations'
<1> USE DEF Inv
<1>0. candidate \in [DirectTokens -> Seq(CandidateRecord)] /\ \A t \in DirectTokens : Len(candidate[t]) <= 2
  BY DEF TypeOK, Types
<1>1. CASE UNCHANGED candidate
  BY <1>0, <1>1 DEF Operations
<1>2. CASE \E t \in DirectTokens, id \in Identities : Adds(t, id)
  <2>1. PICK t \in DirectTokens, id \in Identities : Adds(t, id)
    BY <1>2
  <2>2. /\ candidate' \in [DirectTokens -> Seq(CandidateRecord)]
        /\ \A u \in DirectTokens : Len(candidate'[u]) <= 2 /\ Len(candidate[u]) <= Len(candidate'[u])
    BY <1>0, <2>1 DEF Adds
  <2>3. QED BY <1>0, <2>2 DEF Operations
<1>3. CASE \E o \in Operations, d \in CandidateRecord : Sets(o, d) /\ Moves(o, d)
  BY <1>0, <1>3 DEF Operations, Sets
<1>4. QED BY <1>1, <1>2, <1>3, CandidateSteps

\* The columns of every candidate stay coherent.
LEMMA CandidatesInv == ASSUME Inv, [Next]_vars PROVE Candidates'
<1> USE DEF Inv
<1>1. CASE UNCHANGED candidate
  BY <1>1 DEF Candidates, Coherent
<1>2. CASE \E t \in DirectTokens, id \in Identities : Adds(t, id)
  <2>1. PICK t \in DirectTokens, id \in Identities : Adds(t, id)
    BY <1>2
  <2>2. Coherent(NewCandidate(id))
    BY DEF Coherent, NewCandidate
  <2>3. candidate[t] \in Seq(CandidateRecord)
    BY DEF Types
  <2>4. SUFFICES ASSUME NEW u \in DirectTokens, NEW n \in 1 .. Len(candidate'[u])
                 PROVE  Coherent(candidate'[u][n])
    BY DEF Candidates
  <2>5. CASE u = t /\ n = Len(candidate[t]) + 1
    BY <2>1, <2>2, <2>5 DEF Adds
  <2>6. CASE ~(u = t /\ n = Len(candidate[t]) + 1)
    BY <2>1, <2>3, <2>6 DEF Adds, Candidates
  <2>7. QED BY <2>5, <2>6
<1>3. CASE \E o \in Operations, d \in CandidateRecord : Sets(o, d) /\ Moves(o, d)
  BY <1>3 DEF Candidates, Sets, Moves
<1>4. QED BY <1>1, <1>2, <1>3, CandidateSteps

\* A corrected candidate stays settled.
LEMMA SupersededInv == ASSUME Inv, [Next]_vars PROVE Superseded'
<1> USE DEF Inv
<1>0. \A t \in DirectTokens : candidate[t] \in Seq(CandidateRecord)
  BY DEF Types
<1>1. CASE UNCHANGED candidate
  BY <1>1 DEF Superseded
<1>2. CASE \E t \in DirectTokens, id \in Identities : Adds(t, id)
  <2>1. PICK t \in DirectTokens, id \in Identities : Adds(t, id)
    BY <1>2
  <2>2. SUFFICES ASSUME NEW u \in DirectTokens, Len(candidate'[u]) = 2
                 PROVE  /\ candidate'[u][1].accepted
                        /\ candidate'[u][1].state # "received"
                        /\ candidate'[u][1].projection # "planned"
                        /\ candidate'[u][1].attempt # "running"
                        /\ candidate'[u][1].identity # candidate'[u][2].identity
    BY DEF Superseded
  <2>3. CASE u # t
    BY <2>1, <2>2, <2>3 DEF Adds, Superseded
  <2>4. CASE u = t
    <3>0. Len(candidate[t]) = 1
      <4>1. Len(candidate'[t]) = Len(candidate[t]) + 1 /\ Len(candidate[t]) \in {0, 1}
        BY <2>1 DEF Adds
      <4>2. Len(candidate'[t]) = 2
        BY <2>2, <2>4
      <4>3. QED BY <4>1, <4>2
    <3>1. candidate'[t][2] = NewCandidate(id) /\ candidate'[t][1] = candidate[t][1]
      <4>1. 1 + 1 = 2 /\ 1 \in 1 .. 1
        OBVIOUS
      <4>2. QED BY <2>1, <3>0, <4>1 DEF Adds
    <3>2. /\ candidate[t][1].projection = "probe_failed"
          /\ candidate[t][1].attempt # "running"
          /\ ~(candidate[t][1].accepted /\ candidate[t][1].identity = id)
      BY <2>1, <3>0 DEF Adds
    <3>3. Coherent(candidate[t][1])
      BY <3>0 DEF Candidates
    <3>4. NewCandidate(id).identity = id
      BY DEF NewCandidate
    <3>5. QED BY <2>4, <3>1, <3>2, <3>3, <3>4 DEF Coherent
  <2>5. QED BY <2>3, <2>4
<1>3. CASE \E o \in Operations, d \in CandidateRecord : Sets(o, d) /\ Moves(o, d)
  <2>1. PICK o \in Operations, d \in CandidateRecord : Sets(o, d) /\ Moves(o, d)
    BY <1>3
  <2>2. SUFFICES ASSUME NEW u \in DirectTokens, Len(candidate'[u]) = 2
                 PROVE  /\ candidate'[u][1].accepted
                        /\ candidate'[u][1].state # "received"
                        /\ candidate'[u][1].projection # "planned"
                        /\ candidate'[u][1].attempt # "running"
                        /\ candidate'[u][1].identity # candidate'[u][2].identity
    BY DEF Superseded
  <2>0. Len(candidate[u]) = 2 /\ 1 \in 1 .. Len(candidate[u]) /\ 2 \in 1 .. Len(candidate[u])
    <3>1. Len(candidate'[u]) = Len(candidate[u]) /\ Len(candidate'[u]) = 2
      BY <2>1, <2>2 DEF Sets
    <3>2. QED BY <3>1
  <2>3. /\ candidate'[u][1] = IF u = o[1] /\ 1 = o[2] THEN d ELSE candidate[u][1]
        /\ candidate'[u][2] = IF u = o[1] /\ 2 = o[2] THEN d ELSE candidate[u][2]
    BY <2>0, <2>1 DEF Sets
  <2>4. /\ candidate[u][1].accepted
        /\ candidate[u][1].state # "received"
        /\ candidate[u][1].projection # "planned"
        /\ candidate[u][1].attempt # "running"
        /\ candidate[u][1].identity # candidate[u][2].identity
    BY <2>0 DEF Superseded
  <2>5. QED BY <2>0, <2>1, <2>3, <2>4 DEF Moves, Cand, Latest
<1>4. QED BY <1>1, <1>2, <1>3, CandidateSteps

\* Who moves the sweep.
LEMMA SweepSteps ==
    ASSUME [Next]_vars
    PROVE  \/ UNCHANGED sweep \/ sweep' = IdleSweep \/ SweepBinds
           \/ \E o \in Operations : SweepStarts(o)
BY DEF Next, vars, durable, Pool, Connect, LoopStep, MintToken, runtime_conformance_checkin, Expire,
       CheckToken, ReserveToken, WriteRegistration, WriteFails, CommitToken, ConnectArrives,
       ConnectInvalid, ConnectAdmitted, ConnectRefused, ConnectReserves, receive, ConnectFaults,
       ConnectReturns, SweepFails, SweepContended, SweepCommits, RouteStarts, RouteFails, RouteBinds,
       RouteContended, RouteCommits, claim_retry_attempt, RetryFails, RetryBinds, RetrySucceeds,
       forget_operation, Restart

\* Who moves the event loop.
LEMMA LoopSteps ==
    ASSUME [Next]_vars
    PROVE  \/ UNCHANGED loop \/ loop' = IdleLoop \/ RouteBinds \/ RetryBinds
           \/ \E o \in Operations : RouteStarts(o) \/ claim_retry_attempt(o)
           \/ \E r \in Requests, id \in Identities : ConnectAdmitted(r, id)
           \/ ConnectReserves \/ receive
BY DEF Next, vars, durable, Pool, Connect, LoopStep, MintToken, runtime_conformance_checkin, Expire,
       CheckToken, ReserveToken, WriteRegistration, WriteFails, CommitToken, ConnectArrives,
       ConnectInvalid, ConnectRefused, ConnectFaults, ConnectReturns,
       SweepStarts, SweepBinds, SweepFails, SweepContended, SweepCommits, RouteFails,
       RouteContended, RouteCommits, RetryFails, RetrySucceeds, forget_operation, Restart

\* The steps of connect up to the receipt are no work on a candidate.
LEMMA LoopIdles ==
    ASSUME Types,
           \/ loop' = IdleLoop \/ ConnectReserves \/ receive
           \/ \E r \in Requests, id \in Identities : ConnectAdmitted(r, id)
    PROVE  loop'.pc \in {"idle", "admitted", "receiving", "received"}
<1>1. loop \in LoopRecord
  BY DEF Types
<1>2. CASE ConnectReserves
  <2>1. \/ loop' = [loop EXCEPT !.pc = "receiving", !.holds = TRUE]
        \/ loop' = [loop EXCEPT !.pc = "receiving"]
        \/ loop' = IdleLoop
    BY <1>2 DEF ConnectReserves
  <2>2. loop' = IdleLoop \/ loop'.pc = "receiving"
    BY <1>1, <2>1 DEF LoopRecord
  <2>3. QED BY <2>2 DEF IdleLoop
<1>3. CASE receive
  BY <1>1, <1>3 DEF receive, LoopRecord
<1>4. CASE \E r \in Requests, id \in Identities : ConnectAdmitted(r, id)
  BY <1>4 DEF ConnectAdmitted
<1>5. QED BY <1>2, <1>3, <1>4 DEF IdleLoop

\* Who works on a candidate changes only by taking one up that is planned,
\* or a failed one that becomes running, or by letting go.
LEMMA WorkingInv == ASSUME Inv, [Next]_vars PROVE Working'
<1> USE DEF Inv
<1>1. ASSUME NEW o \in Operations
      PROVE  /\ Cand(o).projection = "planned" =>
                   \/ Cand(o)'.projection = "planned"
                   \/ sweep.pc # "idle" /\ sweep.op = o /\ sweep'.pc = "idle"
                   \/ loop.pc \in {"probing", "bound"} /\ loop.op = o /\ loop'.pc = "idle"
             /\ Cand(o).attempt = "running" =>
                   \/ Cand(o)'.attempt = "running"
                   \/ loop.pc \in {"retrying", "retried"} /\ loop.op = o /\ loop'.pc = "idle"
  <2>0. /\ o[1] \in DirectTokens /\ o[2] \in 1 .. Len(candidate[o[1]]) /\ o = <<o[1], o[2]>>
        /\ candidate[o[1]] \in Seq(CandidateRecord)
    BY OperationFacts
  <2>1. CASE UNCHANGED candidate
    BY <2>1 DEF Cand
  <2>2. CASE \E t \in DirectTokens, id \in Identities : Adds(t, id)
    BY <2>0, <2>2 DEF Adds, Cand
  <2>3. CASE \E p \in Operations, d \in CandidateRecord : Sets(p, d) /\ Moves(p, d)
    <3>1. PICK p \in Operations, d \in CandidateRecord : Sets(p, d) /\ Moves(p, d)
      BY <2>3
    <3>2. p = <<p[1], p[2]>>
      BY OperationFacts
    <3>3. CASE p = o
      BY <2>0, <3>1, <3>3 DEF Sets, Moves, Cand
    <3>4. CASE p # o
      BY <2>0, <3>1, <3>2, <3>4 DEF Sets, Cand
    <3>5. QED BY <3>3, <3>4
  <2>4. QED BY <2>1, <2>2, <2>3, CandidateSteps
<1>2. sweep.pc # "idle" => sweep.op \in Operations /\ Cand(sweep.op).projection = "planned"
  BY DEF TypeOK, Working
<1>3. loop.pc # "idle" => loop.op \in Operations
  BY DEF TypeOK
<1>4. /\ loop.pc \in {"probing", "bound"} => Cand(loop.op).projection = "planned"
      /\ loop.pc \in {"retrying", "retried"} => Cand(loop.op).attempt = "running"
  BY DEF Working
<1>5. /\ sweep.pc # "idle" /\ loop.pc \in {"probing", "bound", "retrying", "retried"}
         => sweep.op # loop.op
  BY DEF OneProbePerToken
<1>6. sweep'.pc # "idle" => Cand(sweep.op)'.projection = "planned"
  <2>1. CASE sweep.pc # "idle" /\ UNCHANGED sweep
    BY <1>1, <1>2, <1>5, <2>1 DEF Cand
  <2>2. CASE SweepBinds
    BY <1>2, <2>2 DEF SweepBinds, Bind, Cand
  <2>3. CASE \E o \in Operations : SweepStarts(o)
    <3>1. PICK o \in Operations : SweepStarts(o)
      BY <2>3
    <3>2. /\ o[1] \in DirectTokens /\ o[2] \in 1 .. Len(candidate[o[1]])
          /\ candidate[o[1]] \in Seq(CandidateRecord) /\ Cand(o) \in CandidateRecord
      BY OperationFacts
    <3>3. sweep'.op = o /\ candidate' = [candidate EXCEPT ![o[1]][o[2]].projection = "planned"]
      BY <3>1 DEF SweepStarts, plan_projection
    <3>4. QED BY <3>2, <3>3 DEF Cand, Types, CandidateRecord
  <2>4. CASE sweep'.pc = "idle"
    BY <2>4
  <2>5. QED BY <2>1, <2>2, <2>3, <2>4, SweepSteps DEF IdleSweep
<1>7. /\ loop'.pc \in {"probing", "bound"} => Cand(loop.op)'.projection = "planned"
      /\ loop'.pc \in {"retrying", "retried"} => Cand(loop.op)'.attempt = "running"
  <2>1. CASE loop.pc \in {"probing", "bound", "retrying", "retried"} /\ UNCHANGED loop
    BY <1>1, <1>3, <1>4, <1>5, <2>1 DEF Cand
  <2>2. CASE RouteBinds \/ RetryBinds
    <3>1. /\ UNCHANGED candidate /\ loop'.op = loop.op
          /\ \/ loop.pc = "probing" /\ loop'.pc = "bound"
             \/ loop.pc = "retrying" /\ loop'.pc = "retried"
      BY <2>2 DEF RouteBinds, RetryBinds, Bind, Types, LoopRecord
    <3>2. QED BY <1>4, <3>1 DEF Cand
  <2>3. CASE \E o \in Operations : RouteStarts(o) \/ claim_retry_attempt(o)
    <3>1. PICK o \in Operations : RouteStarts(o) \/ claim_retry_attempt(o)
      BY <2>3
    <3>2. /\ o[1] \in DirectTokens /\ o[2] \in 1 .. Len(candidate[o[1]])
          /\ candidate[o[1]] \in Seq(CandidateRecord) /\ Cand(o) \in CandidateRecord
      BY OperationFacts
    <3>3. /\ loop'.op = o
          /\ \/ /\ loop'.pc = "probing"
                /\ candidate' = [candidate EXCEPT ![o[1]][o[2]].projection = "planned"]
             \/ /\ loop'.pc = "retrying"
                /\ candidate' = [candidate EXCEPT ![o[1]][o[2]].attempt = "running"]
      BY <3>1 DEF RouteStarts, claim_retry_attempt, plan_projection, IdleLoop
    <3>4. QED BY <3>2, <3>3 DEF Cand, Types, CandidateRecord
  <2>4. CASE \/ loop' = IdleLoop \/ ConnectReserves \/ receive
             \/ \E r \in Requests, id \in Identities : ConnectAdmitted(r, id)
    <3>1. loop'.pc \in {"idle", "admitted", "receiving", "received"}
      BY <2>4, LoopIdles
    <3>2. QED BY <3>1
  <2>5. loop \in LoopRecord
    BY DEF Types
  <2>6. QED BY <2>1, <2>2, <2>3, <2>4, <2>5, LoopSteps DEF IdleLoop, LoopRecord
<1>8. QED BY <1>6, <1>7 DEF Working

\* What is being worked on is the latest candidate of its token.
LEMMA WorkedIsLatest ==
    ASSUME Inv, NEW o \in Operations, Cand(o).projection = "planned" \/ Cand(o).attempt = "running"
    PROVE  Latest(o)
<1> USE DEF Inv
<1>1. /\ o[1] \in DirectTokens /\ o[2] \in {1, 2} /\ o[2] \in 1 .. Len(candidate[o[1]])
      /\ candidate[o[1]] \in Seq(CandidateRecord) /\ Len(candidate[o[1]]) <= 2
  BY OperationFacts DEF TypeOK
<1>2. CASE Len(candidate[o[1]]) = 2
  BY <1>1, <1>2 DEF Superseded, Cand, Latest
<1>3. CASE Len(candidate[o[1]]) # 2
  <2>1. Len(candidate[o[1]]) \in Nat
    BY <1>1
  <2>2. \A k \in Nat, n \in {1, 2} : k <= 2 /\ k # 2 /\ n \in 1 .. k => n = k
    OBVIOUS
  <2>3. o[2] = Len(candidate[o[1]])
    BY <1>1, <1>3, <2>1, <2>2
  <2>4. QED BY <2>3 DEF Latest
<1>4. QED BY <1>2, <1>3

\* Two latest candidates of one token are the same.
LEMMA LatestUnique ==
    ASSUME Inv, NEW o \in Operations, NEW p \in Operations, Latest(o), Latest(p), o[1] = p[1]
    PROVE  o = p
BY OperationFacts DEF Inv, Latest

\* One worker per token.
LEMMA OneProbeInv == ASSUME Inv, [Next]_vars PROVE OneProbePerToken'
<1> USE DEF Inv
<1> DEFINE W == {"probing", "bound", "retrying", "retried"}
<1>1. sweep.pc # "idle" => /\ sweep.op \in Operations /\ Latest(sweep.op)
                           /\ Cand(sweep.op).projection = "planned"
  BY WorkedIsLatest DEF TypeOK, Working
<1>2. loop.pc \in W => /\ loop.op \in Operations /\ Latest(loop.op)
                       /\ \/ loop.pc \in {"probing", "bound"}
                          \/ ProjectionFailed(Cand(loop.op))
  <2>1. SUFFICES ASSUME loop.pc \in W
                 PROVE  /\ loop.op \in Operations /\ Latest(loop.op)
                        /\ \/ loop.pc \in {"probing", "bound"}
                           \/ ProjectionFailed(Cand(loop.op))
    OBVIOUS
  <2>2. loop.op \in Operations /\ (\/ Cand(loop.op).projection = "planned" /\ loop.pc \in {"probing", "bound"}
                                   \/ Cand(loop.op).attempt = "running")
    BY <2>1 DEF TypeOK, Working
  <2>3. Coherent(Cand(loop.op))
    BY <2>2, OperationFacts DEF Candidates, Cand
  <2>4. QED BY <2>2, <2>3, WorkedIsLatest DEF Coherent
<1>3. CASE UNCHANGED sweep
  <2>1. CASE UNCHANGED loop
    BY <1>3, <2>1 DEF OneProbePerToken
  <2>2. CASE RouteBinds \/ RetryBinds
    <3>1. loop'.op = loop.op /\ loop.pc \in W
      BY <2>2 DEF RouteBinds, RetryBinds, Types, LoopRecord
    <3>2. QED BY <1>3, <3>1 DEF OneProbePerToken
  <2>3. CASE \E o \in Operations : RouteStarts(o) \/ claim_retry_attempt(o)
    <3>1. PICK o \in Operations : RouteStarts(o) \/ claim_retry_attempt(o)
      BY <2>3
    <3>2. loop'.op = o /\ Latest(o) /\ (~Owned(o) \/ ProjectionFailed(Cand(o)))
      BY <3>1 DEF RouteStarts, claim_retry_attempt, plan_projection, Projectable, Retryable, IdleLoop
    <3>3. sweep.pc # "idle" => sweep.op[1] # o[1]
      BY <1>1, <3>2, LatestUnique DEF Owned, ProjectionFailed
    <3>4. QED BY <1>3, <3>2, <3>3 DEF OneProbePerToken
  <2>4. CASE \/ loop' = IdleLoop \/ ConnectReserves \/ receive
             \/ \E r \in Requests, id \in Identities : ConnectAdmitted(r, id)
    <3>1. loop'.pc \notin W
      BY <2>4, LoopIdles
    <3>2. QED BY <3>1 DEF OneProbePerToken
  <2>5. QED BY <2>1, <2>2, <2>3, <2>4, LoopSteps
<1>4. CASE sweep' = IdleSweep
  BY <1>4 DEF OneProbePerToken, IdleSweep
<1>5. CASE SweepBinds
  <2>1. sweep'.op = sweep.op /\ sweep.pc # "idle" /\ UNCHANGED loop
    BY <1>5 DEF SweepBinds, Types, SweepRecord
  <2>2. QED BY <2>1 DEF OneProbePerToken
<1>6. CASE \E o \in Operations : SweepStarts(o)
  <2>1. PICK o \in Operations : SweepStarts(o)
    BY <1>6
  <2>2. /\ sweep'.op = o /\ UNCHANGED loop /\ Latest(o) /\ ~Owned(o)
        /\ Cand(o).projection \in {"none", "planned"}
    BY <2>1 DEF SweepStarts, plan_projection, Projectable
  <2>3. loop.pc \in W => loop.op[1] # o[1]
    BY <1>2, <2>2, LatestUnique DEF Owned, ProjectionFailed
  <2>4. QED BY <2>2, <2>3 DEF OneProbePerToken
<1>7. QED BY <1>3, <1>4, <1>5, <1>6, SweepSteps

\* Who moves the profile.
LEMMA ProfileSteps ==
    ASSUME [Next]_vars
    PROVE  UNCHANGED profile \/ SweepBinds \/ RouteBinds \/ RetryBinds
BY DEF Next, vars, durable, Pool, Connect, LoopStep, MintToken, runtime_conformance_checkin, Expire,
       CheckToken, ReserveToken, WriteRegistration, WriteFails, CommitToken, ConnectArrives,
       ConnectInvalid, ConnectAdmitted, ConnectRefused, ConnectReserves, receive, ConnectFaults,
       ConnectReturns, SweepStarts, SweepFails, SweepContended, SweepCommits, RouteStarts,
       RouteFails, ProbeFails, BindFails, RouteContended, RouteCommits, claim_retry_attempt,
       RetryFails, RetrySucceeds, forget_operation, Restart

\* One holder of the lease, and the profile is the holder's.
LEMMA LeaseInv == ASSUME Inv, [Next]_vars PROVE Lease'
<1> USE DEF Inv
<1>0. loop \in LoopRecord /\ sweep \in SweepRecord
  BY DEF Types
<1>1. CASE SweepBinds
  <2>1. /\ sweep' = [sweep EXCEPT !.pc = "bound"] /\ profile' = sweep.op /\ UNCHANGED loop
        /\ loop.pc # "bound"
    BY <1>1 DEF SweepBinds, Bind, Leased
  <2>2. QED BY <1>0, <2>1 DEF Lease, SweepRecord
<1>2. CASE RouteBinds
  <2>1. /\ loop' = [loop EXCEPT !.pc = "bound"] /\ profile' = loop.op /\ UNCHANGED sweep
        /\ sweep.pc # "bound"
    BY <1>2 DEF RouteBinds, Bind, Leased
  <2>2. loop'.pc = "bound" /\ loop'.op = loop.op
    BY <1>0, <2>1 DEF LoopRecord
  <2>3. QED BY <2>1, <2>2 DEF Lease
<1>3. CASE RetryBinds
  <2>1. loop' = [loop EXCEPT !.pc = "retried"] /\ UNCHANGED sweep /\ sweep.pc # "bound"
    BY <1>3 DEF RetryBinds, Leased
  <2>2. loop'.pc = "retried"
    BY <1>0, <2>1 DEF LoopRecord
  <2>3. QED BY <2>1, <2>2 DEF Lease
<1>4. CASE UNCHANGED profile /\ ~SweepBinds /\ ~RouteBinds /\ ~RetryBinds
  <2>1. sweep'.pc = "bound" => UNCHANGED sweep
    BY <1>4, SweepSteps DEF IdleSweep, SweepStarts
  <2>2. loop'.pc = "bound" => UNCHANGED loop
    <3>1. CASE \E o \in Operations : RouteStarts(o) \/ claim_retry_attempt(o)
      BY <3>1 DEF RouteStarts, claim_retry_attempt, IdleLoop
    <3>2. CASE \/ loop' = IdleLoop \/ ConnectReserves \/ receive
               \/ \E r \in Requests, id \in Identities : ConnectAdmitted(r, id)
      BY <3>2, LoopIdles
    <3>3. QED BY <1>4, <3>1, <3>2, LoopSteps
  <2>3. QED BY <1>4, <2>1, <2>2 DEF Lease
<1>5. QED BY <1>1, <1>2, <1>3, <1>4, ProfileSteps

\* What the direct routes do to the table: one direct token, which stays in
\* its state.
Touches(t) ==
    /\ token' \in [Tokens -> TokenRecord]
    /\ token'[t].state = token[t].state
    /\ token'[t].reserved => token[t].reserved \/ token[t].state = "minted"
    /\ \A u \in Tokens : u # t => token'[u] = token[u]

\* Who changes the table of tokens.
LEMMA TokenSteps ==
    ASSUME Inv, [Next]_vars
    PROVE  \/ UNCHANGED token
           \/ \E t \in Tokens, stored \in BOOLEAN : MintToken(t, stored)
           \/ \E t \in Tokens, s \in Steps : runtime_conformance_checkin(t, s)
           \/ \E h \in Threads : ReserveToken(h) \/ WriteFails(h) \/ CommitToken(h)
           \/ \E t \in DirectTokens : Touches(t) /\ UNCHANGED <<authority, thread, written>>
           \/ Restart
<1> USE DEF Inv
<1>0. token \in [Tokens -> TokenRecord] /\ DirectTokens \subseteq Tokens
  BY DEF TypeOK, Tokens
<1>1. ASSUME NEW t \in DirectTokens,
             \/ UNCHANGED token
             \/ token' = [token EXCEPT ![t].consumed = TRUE]
             \/ token' = [token EXCEPT ![t].consumed = TRUE, ![t].reserved = FALSE]
             \/ token' = [token EXCEPT ![t].reserved = TRUE] /\ token[t].state = "minted"
      PROVE  Touches(t)
  <2>1. t \in Tokens /\ token[t] \in TokenRecord
    BY <1>0
  <2>2. CASE UNCHANGED token
    BY <1>0, <2>2 DEF Touches
  <2>3. CASE token' = [token EXCEPT ![t].consumed = TRUE]
    BY <1>0, <2>1, <2>3 DEF Touches, TokenRecord
  <2>4. CASE token' = [token EXCEPT ![t].consumed = TRUE, ![t].reserved = FALSE]
    BY <1>0, <2>1, <2>4 DEF Touches, TokenRecord
  <2>5. CASE token' = [token EXCEPT ![t].reserved = TRUE] /\ token[t].state = "minted"
    BY <1>0, <2>1, <2>5 DEF Touches, TokenRecord
  <2>6. QED BY <1>1, <2>2, <2>3, <2>4, <2>5
<1>2. CASE \E r \in Requests : ConnectInvalid(r)
  <2>1. PICK r \in Requests : ConnectInvalid(r)
    BY <1>2
  <2>2. request[r].token \in DirectTokens
    BY <2>1 DEF ConnectInvalid, Types, RequestRecord
  <2>3. UNCHANGED token \/ token' = [token EXCEPT ![request[r].token].consumed = TRUE]
    BY <2>1 DEF ConnectInvalid, consume_runtime
  <2>4. Touches(request[r].token)
    BY <1>1, <2>2, <2>3
  <2>5. QED BY <2>1, <2>2, <2>4 DEF ConnectInvalid
<1>3. CASE ConnectReserves \/ ConnectFaults \/ ConnectReturns
  <2>1. loop.op \in Operations
    BY <1>3 DEF ConnectReserves, ConnectFaults, ConnectReturns, TypeOK
  <2>2. loop.op[1] \in DirectTokens
    BY <2>1, OperationFacts
  <2>3. \/ UNCHANGED token
        \/ token' = [token EXCEPT ![loop.op[1]].consumed = TRUE, ![loop.op[1]].reserved = FALSE]
        \/ token' = [token EXCEPT ![loop.op[1]].reserved = TRUE] /\ token[loop.op[1]].state = "minted"
    <3>1. CASE ConnectReserves
      BY <3>1 DEF ConnectReserves, reserve_runtime, validate_runtime
    <3>2. CASE ConnectFaults
      BY <3>2 DEF ConnectFaults, commit_runtime
    <3>3. CASE ConnectReturns
      BY <3>3 DEF ConnectReturns, commit_runtime
    <3>4. QED BY <1>3, <3>1, <3>2, <3>3
  <2>4. Touches(loop.op[1])
    BY <1>1, <2>2, <2>3
  <2>5. UNCHANGED <<authority, thread, written>>
    BY <1>3 DEF ConnectReserves, ConnectFaults, ConnectReturns
  <2>6. QED BY <2>2, <2>4, <2>5
<1>4. QED
  BY <1>2, <1>3
  DEF Next, vars, durable, Pool, Connect, LoopStep, Expire, CheckToken, WriteRegistration,
      ConnectArrives, ConnectAdmitted, ConnectRefused, receive,
      SweepStarts, SweepFails, SweepBinds, SweepContended, SweepCommits, RouteStarts, RouteFails,
      RouteBinds, RouteContended, RouteCommits, claim_retry_attempt, RetryFails, RetryBinds,
      RetrySucceeds, forget_operation

\* Who moves the pool threads and what is written.
LEMMA ThreadSteps ==
    ASSUME [Next]_vars
    PROVE  \/ UNCHANGED <<thread, written>>
           \/ \E h \in Threads : \/ \E t \in Tokens : CheckToken(h, t)
                                 \/ ReserveToken(h) \/ WriteRegistration(h)
                                 \/ WriteFails(h) \/ CommitToken(h)
           \/ Restart
BY DEF Next, vars, durable, Pool, Connect, LoopStep, MintToken, runtime_conformance_checkin, Expire,
       ConnectArrives, ConnectInvalid, ConnectAdmitted, ConnectRefused, ConnectReserves, receive,
       ConnectFaults, ConnectReturns, SweepStarts, SweepFails, SweepBinds, SweepContended,
       SweepCommits, RouteStarts, RouteFails, RouteBinds, RouteContended, RouteCommits,
       claim_retry_attempt, RetryFails, RetryBinds, RetrySucceeds, forget_operation

\* The table keeps its type, and a token does not come back to life.
LEMMA TokenTypeInv ==
    ASSUME Inv, [Next]_vars
    PROVE  /\ token' \in [Tokens -> TokenRecord]
           /\ \A t \in Tokens : token[t].state = "lost" => token'[t].state = "lost"
           /\ \A t \in Tokens : token'[t].reserved => token'[t].state = "minted"
<1> USE DEF Inv
<1>0. /\ token \in [Tokens -> TokenRecord] /\ DirectTokens \subseteq Tokens
      /\ \A t \in Tokens : token[t].reserved => token[t].state = "minted"
  BY DEF TypeOK, Tokens, Holders
<1>1. CASE UNCHANGED token
  BY <1>0, <1>1
<1>2. CASE \E t \in Tokens, stored \in BOOLEAN : MintToken(t, stored)
  <2>1. PICK t \in Tokens, stored \in BOOLEAN : MintToken(t, stored)
    BY <1>2
  <2>2. token' = mint_runtime(t, stored) /\ token[t].state = "unminted"
    BY <2>1 DEF MintToken
  <2>3. \A u \in Tokens : token[u] \in TokenRecord
    BY <1>0
  <2>4. [Unminted EXCEPT !.state = IF stored THEN "minted" ELSE "lost"] \in TokenRecord
    BY DEF Unminted, TokenRecord
  <2>5. \A u \in Tokens : [token[u] EXCEPT !.consumed = TRUE] \in TokenRecord
    BY <2>3 DEF TokenRecord
  <2>6. token' \in [Tokens -> TokenRecord]
    BY <2>2, <2>3, <2>4, <2>5 DEF mint_runtime
  <2>7. \A u \in Tokens \ {t} : /\ token'[u].state = token[u].state
                                /\ token'[u].reserved = token[u].reserved
    BY <2>2, <2>3 DEF mint_runtime, TokenRecord
  <2>8. token'[t].reserved = FALSE
    BY <2>2 DEF mint_runtime, Unminted
  <2>9. QED BY <1>0, <2>2, <2>6, <2>7, <2>8
<1>3. CASE \E t \in Tokens, s \in Steps : runtime_conformance_checkin(t, s)
  <2>1. PICK t \in Tokens, s \in Steps : runtime_conformance_checkin(t, s)
    BY <1>3
  <2>2. token' = [token EXCEPT ![t].arrived = @ \cup {s}] /\ token[t] \in TokenRecord
    BY <1>0, <2>1 DEF runtime_conformance_checkin, record_step_arrival_runtime
  <2>3. QED BY <1>0, <2>2 DEF TokenRecord
<1>4. CASE \E h \in Threads : ReserveToken(h) \/ WriteFails(h) \/ CommitToken(h)
  <2>1. PICK h \in Threads : ReserveToken(h) \/ WriteFails(h) \/ CommitToken(h)
    BY <1>4
  <2> DEFINE t == thread[h].token
  <2>2. t \in Tokens /\ token[t] \in TokenRecord
    BY <1>0, <2>1 DEF ReserveToken, WriteFails, CommitToken, Types
  <2>3. \/ UNCHANGED token
        \/ token' = [token EXCEPT ![t].reserved = TRUE] /\ token[t].state = "minted"
        \/ token' = [token EXCEPT ![t].reserved = FALSE]
        \/ token' = [token EXCEPT ![t].consumed = TRUE, ![t].reserved = FALSE]
    <3>1. CASE ReserveToken(h)
      BY <3>1 DEF ReserveToken, validate_runtime, reserve_runtime
    <3>2. CASE WriteFails(h)
      BY <3>2 DEF WriteFails, release_runtime
    <3>3. CASE CommitToken(h)
      BY <3>3 DEF CommitToken, commit_runtime
    <3>4. QED BY <2>1, <3>1, <3>2, <3>3
  <2> HIDE DEF t
  <2>4. CASE token' = [token EXCEPT ![t].reserved = TRUE] /\ token[t].state = "minted"
    BY <1>0, <2>2, <2>4 DEF TokenRecord
  <2>5. CASE token' = [token EXCEPT ![t].reserved = FALSE]
    BY <1>0, <2>2, <2>5 DEF TokenRecord
  <2>6. CASE token' = [token EXCEPT ![t].consumed = TRUE, ![t].reserved = FALSE]
    BY <1>0, <2>2, <2>6 DEF TokenRecord
  <2>7. QED BY <1>1, <2>3, <2>4, <2>5, <2>6
<1>5. CASE \E t \in DirectTokens : Touches(t)
  BY <1>0, <1>5 DEF Touches
<1>6. CASE Restart
  <2>1. token' = [t \in Tokens |-> IF token[t].state = "unminted" THEN token[t] ELSE Lost]
    BY <1>6 DEF Restart
  <2>2. Lost \in TokenRecord /\ Lost.state = "lost" /\ Lost.reserved = FALSE
    BY DEF Lost, Unminted, TokenRecord
  <2>3. QED BY <1>0, <2>1, <2>2
<1>7. QED BY <1>1, <1>2, <1>3, <1>4, <1>5, <1>6, TokenSteps

\* A token that becomes minted has its authority stored, if it is a direct one.
LEMMA MintedInv ==
    ASSUME Inv, [Next]_vars
    PROVE  \A t \in DirectTokens : token'[t].state = "minted" => t \in authority'
<1> USE DEF Inv
<1>0. /\ token \in [Tokens -> TokenRecord] /\ DirectTokens \subseteq Tokens
      /\ \A t \in DirectTokens : token[t].state = "minted" => t \in authority
  BY DEF TypeOK, Tokens, Holders
<1>1. authority \subseteq authority'
  BY DEF Next, vars, durable, Pool, Connect, LoopStep, MintToken, runtime_conformance_checkin, Expire,
         CheckToken, ReserveToken, WriteRegistration, WriteFails, CommitToken, ConnectArrives,
         ConnectInvalid, ConnectAdmitted, ConnectRefused, ConnectReserves, receive, ConnectFaults,
         ConnectReturns, SweepStarts, SweepFails, SweepBinds, SweepContended, SweepCommits,
         RouteStarts, RouteFails, RouteBinds, RouteContended, RouteCommits, claim_retry_attempt,
         RetryFails, RetryBinds, RetrySucceeds, forget_operation, Restart
<1>2. CASE \E t \in Tokens, stored \in BOOLEAN : MintToken(t, stored)
  <2>1. PICK t \in Tokens, stored \in BOOLEAN : MintToken(t, stored)
    BY <1>2
  <2>2. token' = mint_runtime(t, stored)
    BY <2>1 DEF MintToken
  <2>3. \A u \in Tokens \ {t} : token'[u].state = token[u].state
    <3>1. \A u \in Tokens : token[u] \in TokenRecord
      BY <1>0
    <3>2. QED BY <2>2, <3>1 DEF mint_runtime, TokenRecord
  <2>4. token'[t].state = IF stored THEN "minted" ELSE "lost"
    BY <2>2 DEF mint_runtime, Unminted
  <2>5. t \in DirectTokens /\ stored => t \in authority'
    BY <2>1 DEF MintToken
  <2>6. QED BY <1>0, <1>1, <2>3, <2>4, <2>5
<1>3. CASE \A t \in DirectTokens : token'[t].state = "minted" => token[t].state = "minted"
  BY <1>0, <1>1, <1>3
<1>4. CASE \E t \in Tokens, s \in Steps : runtime_conformance_checkin(t, s)
  <2>1. PICK t \in Tokens, s \in Steps : runtime_conformance_checkin(t, s)
    BY <1>4
  <2>2. token' = [token EXCEPT ![t].arrived = @ \cup {s}] /\ t \notin DirectTokens
    BY <2>1 DEF runtime_conformance_checkin, record_step_arrival_runtime
  <2>3. QED BY <1>0, <1>3, <2>2
<1>5. CASE \E h \in Threads : ReserveToken(h) \/ WriteFails(h) \/ CommitToken(h)
  <2>1. PICK h \in Threads : ReserveToken(h) \/ WriteFails(h) \/ CommitToken(h)
    BY <1>5
  <2> DEFINE t == thread[h].token
  <2>2. t \notin DirectTokens
    BY <2>1 DEF ReserveToken, WriteFails, CommitToken, Holders
  <2>3. \A u \in Tokens : u # t => token'[u] = token[u]
    <3>1. CASE ReserveToken(h)
      BY <1>0, <3>1 DEF ReserveToken, reserve_runtime
    <3>2. CASE WriteFails(h)
      BY <1>0, <3>2 DEF WriteFails, release_runtime
    <3>3. CASE CommitToken(h)
      BY <1>0, <3>3 DEF CommitToken, commit_runtime
    <3>4. QED BY <2>1, <3>1, <3>2, <3>3
  <2>4. QED BY <1>0, <1>3, <2>2, <2>3
<1>6. CASE \E t \in DirectTokens : Touches(t)
  <2>1. PICK t \in DirectTokens : Touches(t)
    BY <1>6
  <2>2. QED BY <1>0, <1>3, <2>1 DEF Touches
<1>7. CASE Restart
  <2>1. \A t \in Tokens : token'[t].state # "minted"
    BY <1>7 DEF Restart, Lost, Unminted
  <2>2. QED BY <1>0, <2>1
<1>8. QED BY <1>2, <1>3, <1>4, <1>5, <1>6, <1>7, TokenSteps

\* Pool threads hold their tokens alone, and no direct token.
LEMMA HoldersInv == ASSUME Inv, [Next]_vars PROVE Holders'
<1> USE DEF Inv
<1>0. /\ token \in [Tokens -> TokenRecord] /\ DirectTokens \subseteq Tokens
      /\ thread \in [Threads -> [pc : {"idle", "checked", "writing", "written"},
                                 token : Tokens \cup {"none"}]]
      /\ \A h \in Threads : thread[h].pc # "idle" => thread[h].token \in Tokens
  BY DEF TypeOK, Types, Tokens
<1>1. /\ \A h \in Threads : thread[h].pc # "idle" => thread[h].token \notin DirectTokens
      /\ \A h \in Threads : Held(h) => token[thread[h].token].reserved
      /\ \A g, h \in Threads : (g # h /\ Held(g) /\ Held(h)) => thread[g].token # thread[h].token
      /\ \A t \in Tokens : token[t].reserved => token[t].state = "minted"
  BY DEF Holders
<1>2. SUFFICES /\ \A h \in Threads : thread'[h].pc # "idle" => thread'[h].token \notin DirectTokens
               /\ \A h \in Threads : Held(h)' => token'[thread'[h].token].reserved
               /\ \A g, h \in Threads : (g # h /\ Held(g)' /\ Held(h)') => thread'[g].token # thread'[h].token
  BY TokenTypeInv, MintedInv DEF Holders
<1>3. CASE \E h \in Threads, t \in Tokens : CheckToken(h, t)
  <2>1. PICK h \in Threads, t \in Tokens : CheckToken(h, t)
    BY <1>3
  <2>2. /\ thread' = [thread EXCEPT ![h] = [pc |-> "checked", token |-> t]] /\ UNCHANGED token
        /\ t \notin authority /\ token[t].state = "minted"
    BY <2>1 DEF CheckToken, validate_runtime
  <2>3. t \notin DirectTokens
    BY <2>2 DEF Holders
  <2>4. QED BY <1>0, <1>1, <2>2, <2>3 DEF Held
<1>4. CASE \E h \in Threads : ReserveToken(h)
  <2>1. PICK h \in Threads : ReserveToken(h)
    BY <1>4
  <2> DEFINE t == thread[h].token
  <2>2. CASE validate_runtime(t, expired)
    <3>1. /\ token' = [token EXCEPT ![t].reserved = TRUE] /\ ~token[t].reserved
          /\ thread' = [thread EXCEPT ![h] = [@ EXCEPT !.pc = "writing"]] /\ thread[h].pc = "checked"
      BY <2>1, <2>2 DEF ReserveToken, reserve_runtime, validate_runtime
    <3>2. t \in Tokens /\ token[t] \in TokenRecord
      BY <1>0, <3>1
    <3>3. /\ thread'[h].token = t /\ thread'[h].pc = "writing"
          /\ \A g \in Threads : g # h => thread'[g] = thread[g]
      BY <1>0, <3>1
    <3>4. token'[t].reserved /\ \A u \in Tokens : u # t => token'[u] = token[u]
      BY <1>0, <3>1, <3>2 DEF TokenRecord
    <3>5. QED BY <1>0, <1>1, <3>1, <3>3, <3>4 DEF Held
  <2>3. CASE ~validate_runtime(t, expired)
    <3>1. UNCHANGED token /\ thread' = [thread EXCEPT ![h] = IdleThread]
      BY <2>1, <2>3 DEF ReserveToken
    <3>2. QED BY <1>0, <1>1, <3>1 DEF Held, IdleThread
  <2>4. QED BY <2>2, <2>3
<1>5. CASE \E h \in Threads : WriteRegistration(h)
  <2>1. PICK h \in Threads : WriteRegistration(h)
    BY <1>5
  <2>2. /\ thread' = [thread EXCEPT ![h].pc = "written"] /\ UNCHANGED token
        /\ thread[h].pc = "writing"
    BY <2>1 DEF WriteRegistration
  <2>3. /\ thread'[h].token = thread[h].token /\ thread'[h].pc = "written"
        /\ \A g \in Threads : g # h => thread'[g] = thread[g]
    BY <1>0, <2>2
  <2>4. QED BY <1>0, <1>1, <2>2, <2>3 DEF Held
<1>6. CASE \E h \in Threads : WriteFails(h) \/ CommitToken(h)
  <2>1. PICK h \in Threads : WriteFails(h) \/ CommitToken(h)
    BY <1>6
  <2> DEFINE t == thread[h].token
  <2>2. Held(h) /\ thread' = [thread EXCEPT ![h] = IdleThread]
    BY <2>1 DEF WriteFails, CommitToken, Held
  <2>3. t \in Tokens
    BY <1>0, <2>2 DEF Held
  <2>4. \A u \in Tokens : u # t => token'[u] = token[u]
    BY <1>0, <2>1 DEF WriteFails, CommitToken, release_runtime, commit_runtime
  <2>5. thread'[h] = IdleThread /\ \A g \in Threads : g # h => thread'[g] = thread[g]
    BY <1>0, <2>2
  <2>6. QED BY <1>0, <1>1, <2>2, <2>4, <2>5 DEF Held, IdleThread
<1>7. CASE Restart
  BY <1>7 DEF Restart, IdleThread, Held
<1>8. CASE UNCHANGED thread /\ ~(\E h \in Threads : ReserveToken(h) \/ WriteFails(h) \/ CommitToken(h)) /\ ~Restart
  <2>1. \A t \in Tokens \ DirectTokens : token[t].reserved => token'[t].reserved
    <3>1. CASE \E t \in Tokens, stored \in BOOLEAN : MintToken(t, stored)
      <4>1. PICK t \in Tokens, stored \in BOOLEAN : MintToken(t, stored)
        BY <3>1
      <4>2. token' = mint_runtime(t, stored) /\ ~token[t].reserved
        BY <1>1, <4>1 DEF MintToken
      <4>3. \A u \in Tokens : token[u] \in TokenRecord
        BY <1>0
      <4>4. QED BY <4>2, <4>3 DEF mint_runtime, TokenRecord
    <3>2. CASE \E t \in Tokens, s \in Steps : runtime_conformance_checkin(t, s)
      <4>1. PICK t \in Tokens, s \in Steps : runtime_conformance_checkin(t, s)
        BY <3>2
      <4>2. token' = [token EXCEPT ![t].arrived = @ \cup {s}] /\ token[t] \in TokenRecord
        BY <1>0, <4>1 DEF runtime_conformance_checkin, record_step_arrival_runtime
      <4>3. QED BY <1>0, <4>2 DEF TokenRecord
    <3>3. CASE \E t \in DirectTokens : Touches(t)
      BY <3>3 DEF Touches
    <3>4. CASE UNCHANGED token
      BY <3>4
    <3>5. QED BY <1>8, <3>1, <3>2, <3>3, <3>4, TokenSteps
  <2>2. QED BY <1>0, <1>1, <1>8, <2>1 DEF Held
<1>9. QED BY <1>3, <1>4, <1>5, <1>6, <1>7, <1>8, ThreadSteps

\* A token that has paid cannot be reserved again.
LEMMA PaidInv == ASSUME Inv, [Next]_vars PROVE Paid'
<1> USE DEF Inv
<1>0. /\ token \in [Tokens -> TokenRecord] /\ DirectTokens \subseteq Tokens
      /\ thread \in [Threads -> [pc : {"idle", "checked", "writing", "written"},
                                 token : Tokens \cup {"none"}]]
      /\ written \in [Tokens -> Nat]
      /\ \A h \in Threads : thread[h].pc # "idle" => thread[h].token \in Tokens
  BY DEF TypeOK, Types, Tokens
<1>1. /\ \A h \in Threads : thread[h].pc # "idle" => thread[h].token \notin DirectTokens
      /\ \A h \in Threads : Held(h) => token[thread[h].token].reserved
      /\ \A g, h \in Threads : (g # h /\ Held(g) /\ Held(h)) => thread[g].token # thread[h].token
      /\ \A t \in Tokens : token[t].reserved => token[t].state = "minted"
  BY DEF Holders
<1>2. /\ \A h \in Threads : thread[h].pc = "writing" => written[thread[h].token] = 0
      /\ \A t \in Tokens : written[t] <= 1 /\ (t \in DirectTokens => written[t] = 0)
      /\ \A t \in Tokens : written[t] # 0 => Spent(t)
  BY DEF Paid, Spent
<1>3. SUFFICES /\ \A h \in Threads : thread'[h].pc = "writing" => written'[thread'[h].token] = 0
               /\ \A t \in Tokens : written'[t] <= 1 /\ (t \in DirectTokens => written'[t] = 0)
               /\ \A t \in Tokens : written'[t] # 0 => Spent(t)'
  BY DEF Paid, Spent
<1>4. \A t \in Tokens : written[t] # 0 => Spent(t)'
  <2>1. CASE UNCHANGED token
    BY <1>2, <2>1 DEF Spent
  <2>2. CASE \E t \in Tokens, stored \in BOOLEAN : MintToken(t, stored)
    <3>1. PICK t \in Tokens, stored \in BOOLEAN : MintToken(t, stored)
      BY <2>2
    <3>2. token' = mint_runtime(t, stored) /\ token[t].state = "unminted"
      BY <3>1 DEF MintToken
    <3>3. \A u \in Tokens : token[u] \in TokenRecord
      BY <1>0
    <3>4. written[t] = 0
      BY <1>2, <3>2 DEF Spent
    <3>5. \A u \in Tokens \ {t} : /\ token'[u].state = token[u].state
                                  /\ token'[u].reserved = token[u].reserved
                                  /\ token[u].consumed => token'[u].consumed
      BY <3>2, <3>3 DEF mint_runtime, TokenRecord
    <3>6. QED BY <1>2, <3>4, <3>5 DEF Spent
  <2>3. CASE \E t \in Tokens, s \in Steps : runtime_conformance_checkin(t, s)
    <3>1. PICK t \in Tokens, s \in Steps : runtime_conformance_checkin(t, s)
      BY <2>3
    <3>2. token' = [token EXCEPT ![t].arrived = @ \cup {s}] /\ token[t] \in TokenRecord
      BY <1>0, <3>1 DEF runtime_conformance_checkin, record_step_arrival_runtime
    <3>3. \A u \in Tokens : /\ token'[u].state = token[u].state
                            /\ token'[u].reserved = token[u].reserved
                            /\ token'[u].consumed = token[u].consumed
      BY <1>0, <3>2 DEF TokenRecord
    <3>4. QED BY <1>2, <3>3 DEF Spent
  <2>4. CASE \E h \in Threads : ReserveToken(h) \/ WriteFails(h) \/ CommitToken(h)
    <3>1. PICK h \in Threads : ReserveToken(h) \/ WriteFails(h) \/ CommitToken(h)
      BY <2>4
    <3> DEFINE t == thread[h].token
    <3>2. t \in Tokens /\ token[t] \in TokenRecord
      BY <1>0, <3>1 DEF ReserveToken, WriteFails, CommitToken
    <3>3. CASE ReserveToken(h)
      <4>1. token' = [token EXCEPT ![t].reserved = TRUE] \/ UNCHANGED token
        BY <3>3 DEF ReserveToken, reserve_runtime
      <4> HIDE DEF t
      <4>2. \A u \in Tokens : /\ token'[u].state = token[u].state
                              /\ token[u].reserved => token'[u].reserved
                              /\ token'[u].consumed = token[u].consumed
        BY <1>0, <3>2, <4>1 DEF TokenRecord
      <4>3. QED BY <1>2, <4>2 DEF Spent
    <3>4. CASE WriteFails(h)
      <4>1. token' = [token EXCEPT ![t].reserved = FALSE] /\ written[t] = 0
        BY <1>2, <3>4 DEF WriteFails, release_runtime
      <4> HIDE DEF t
      <4>2. \A u \in Tokens : u # t => token'[u] = token[u]
        BY <1>0, <4>1
      <4>3. QED BY <1>2, <4>1, <4>2 DEF Spent
    <3>5. CASE CommitToken(h)
      <4>1. token' = [token EXCEPT ![t].consumed = TRUE, ![t].reserved = FALSE] \/ UNCHANGED token
        BY <3>5 DEF CommitToken, commit_runtime
      <4> HIDE DEF t
      <4>2. CASE token' = [token EXCEPT ![t].consumed = TRUE, ![t].reserved = FALSE]
        <5>1. /\ \A u \in Tokens : u # t => token'[u] = token[u]
              /\ token'[t].state = token[t].state /\ token'[t].consumed
          BY <1>0, <3>2, <4>2 DEF TokenRecord
        <5>2. QED BY <1>2, <5>1 DEF Spent
      <4>3. QED BY <2>1, <4>1, <4>2
    <3>6. QED BY <3>1, <3>3, <3>4, <3>5
  <2>5. CASE \E t \in DirectTokens : Touches(t)
    <3>1. PICK t \in DirectTokens : Touches(t)
      BY <2>5
    <3>2. \A u \in Tokens : u # t => token'[u] = token[u]
      BY <3>1 DEF Touches
    <3>3. QED BY <1>0, <1>2, <3>2 DEF Spent
  <2>6. CASE Restart
    <3>1. \A t \in Tokens : token[t].state # "unminted" => token'[t].state = "lost"
      BY <2>6 DEF Restart, Lost, Unminted
    <3>2. QED BY <1>2, <3>1 DEF Spent
  <2>7. QED BY <2>1, <2>2, <2>3, <2>4, <2>5, <2>6, TokenSteps
<1>5. CASE \E h \in Threads : WriteRegistration(h)
  <2>1. PICK h \in Threads : WriteRegistration(h)
    BY <1>5
  <2>2. PICK t \in Tokens : t = thread[h].token
    BY <1>0, <2>1 DEF WriteRegistration
  <2>3. /\ thread' = [thread EXCEPT ![h].pc = "written"] /\ UNCHANGED token
        /\ thread[h].pc = "writing" /\ written' = [written EXCEPT ![t] = @ + 1]
    BY <2>1, <2>2 DEF WriteRegistration
  <2>4. /\ thread'[h].pc = "written"
        /\ \A g \in Threads : g # h => thread'[g] = thread[g]
    BY <1>0, <2>3
  <2>5. /\ t \notin DirectTokens /\ written[t] = 0 /\ Spent(t)
        /\ \A g \in Threads : g # h /\ thread[g].pc = "writing" => thread[g].token # t
    BY <1>0, <1>1, <1>2, <2>2, <2>3 DEF Held, Spent
  <2>6. written'[t] = 1 /\ \A u \in Tokens : u # t => written'[u] = written[u]
    BY <1>0, <2>3, <2>5
  <2>7. Spent(t)'
    BY <2>3, <2>5 DEF Spent
  <2>8. QED BY <1>0, <1>2, <1>4, <2>4, <2>5, <2>6, <2>7
<1>6. CASE \E h \in Threads : ReserveToken(h)
  <2>1. PICK h \in Threads : ReserveToken(h)
    BY <1>6
  <2>2. /\ thread' = [thread EXCEPT ![h] = IF validate_runtime(thread[h].token, expired)
                                           THEN [@ EXCEPT !.pc = "writing"] ELSE IdleThread]
        /\ UNCHANGED written /\ thread[h].pc = "checked"
    BY <2>1 DEF ReserveToken
  <2>3. validate_runtime(thread[h].token, expired) => written[thread[h].token] = 0
    BY <1>0, <1>2, <2>2 DEF validate_runtime, Spent
  <2>4. CASE validate_runtime(thread[h].token, expired)
    <3>1. thread' = [thread EXCEPT ![h] = [thread[h] EXCEPT !.pc = "writing"]]
      BY <2>2, <2>4
    <3>2. thread'[h].token = thread[h].token /\ \A g \in Threads : g # h => thread'[g] = thread[g]
      BY <1>0, <3>1
    <3>3. QED BY <1>2, <1>4, <2>2, <2>3, <2>4, <3>2
  <2>5. CASE ~validate_runtime(thread[h].token, expired)
    <3>1. thread' = [thread EXCEPT ![h] = IdleThread]
      BY <2>2, <2>5
    <3>2. thread'[h].pc = "idle" /\ \A g \in Threads : g # h => thread'[g] = thread[g]
      BY <1>0, <3>1 DEF IdleThread
    <3>3. QED BY <1>2, <1>4, <2>2, <3>2
  <2>6. QED BY <2>4, <2>5
<1>7. CASE \E h \in Threads : (\E t \in Tokens : CheckToken(h, t)) \/ WriteFails(h) \/ CommitToken(h)
  <2>1. PICK h \in Threads : (\E t \in Tokens : CheckToken(h, t)) \/ WriteFails(h) \/ CommitToken(h)
    BY <1>7
  <2>2. /\ UNCHANGED written
        /\ \/ thread' = [thread EXCEPT ![h] = IdleThread]
           \/ \E t \in Tokens : thread' = [thread EXCEPT ![h] = [pc |-> "checked", token |-> t]]
    BY <2>1 DEF CheckToken, WriteFails, CommitToken
  <2>3. PICK x : thread' = [thread EXCEPT ![h] = x] /\ x.pc # "writing"
    <3>1. CASE thread' = [thread EXCEPT ![h] = IdleThread]
      <4>1. IdleThread.pc # "writing"
        BY DEF IdleThread
      <4>2. QED BY <3>1, <4>1
    <3>2. CASE \E t \in Tokens : thread' = [thread EXCEPT ![h] = [pc |-> "checked", token |-> t]]
      <4>1. PICK t \in Tokens : thread' = [thread EXCEPT ![h] = [pc |-> "checked", token |-> t]]
        BY <3>2
      <4>2. [pc |-> "checked", token |-> t].pc # "writing"
        OBVIOUS
      <4>3. QED BY <4>1, <4>2
    <3>3. QED BY <2>2, <3>1, <3>2
  <2>4. thread'[h].pc # "writing" /\ \A g \in Threads : g # h => thread'[g] = thread[g]
    BY <1>0, <2>3
  <2>5. UNCHANGED written
    BY <2>2
  <2>6. QED BY <1>2, <1>4, <2>4, <2>5
<1>8. CASE Restart
  BY <1>2, <1>4, <1>8 DEF Restart, IdleThread
<1>9. CASE UNCHANGED <<thread, written>>
  BY <1>2, <1>4, <1>9
<1>10. QED BY <1>5, <1>6, <1>7, <1>8, <1>9, ThreadSteps

\* The event loop keeps its type and works on an operation.
LEMMA LoopTypeInv ==
    ASSUME Inv, [Next]_vars
    PROVE  loop' \in LoopRecord /\ (loop'.pc # "idle" => loop'.op \in Operations')
<1> USE DEF Inv
<1>0. /\ loop \in LoopRecord /\ (loop.pc # "idle" => loop.op \in Operations)
      /\ Operations \subseteq Operations' /\ Operations \subseteq DirectTokens \X {1, 2}
      /\ DirectTokens \subseteq Tokens
  BY OperationsGrow DEF Types, TypeOK, Operations, Tokens
<1>1. CASE UNCHANGED loop
  BY <1>0, <1>1
<1>2. CASE loop' = IdleLoop
  BY <1>2 DEF IdleLoop, LoopRecord
<1>3. CASE RouteBinds \/ RetryBinds \/ receive
  <2>1. loop.pc # "idle" /\ \E p \in {"bound", "retried", "received"} : loop' = [loop EXCEPT !.pc = p]
    BY <1>3 DEF RouteBinds, RetryBinds, receive
  <2>2. PICK p \in {"bound", "retried", "received"} : loop' = [loop EXCEPT !.pc = p]
    BY <2>1
  <2>3. loop' \in LoopRecord /\ loop'.op = loop.op
    BY <1>0, <2>2 DEF LoopRecord
  <2>4. QED BY <1>0, <2>1, <2>3
<1>4. CASE \E o \in Operations : RouteStarts(o) \/ claim_retry_attempt(o)
  <2>1. PICK o \in Operations : RouteStarts(o) \/ claim_retry_attempt(o)
    BY <1>4
  <2>2. PICK p \in {"probing", "retrying"} : loop' = [IdleLoop EXCEPT !.pc = p, !.op = o]
    BY <2>1 DEF RouteStarts, claim_retry_attempt
  <2>3. loop' = [pc |-> p, op |-> o, seen |-> FALSE, late |-> {}, holds |-> FALSE]
    BY <2>2 DEF IdleLoop
  <2>4. QED BY <1>0, <2>3 DEF LoopRecord
<1>5. CASE \E r \in Requests, id \in Identities : ConnectAdmitted(r, id)
  <2>1. PICK r \in Requests, id \in Identities : ConnectAdmitted(r, id)
    BY <1>5
  <2> DEFINE t == request[r].token
             n == Len(candidate[t]) + 1
  <2>2. /\ t \in DirectTokens /\ request[r].seen \in BOOLEAN /\ request[r].late \in SUBSET Tokens
    BY <2>1 DEF ConnectAdmitted, Types, RequestRecord
  <2>3. /\ loop' = [pc |-> "admitted", op |-> <<t, n>>, seen |-> request[r].seen,
                    late |-> request[r].late, holds |-> FALSE]
        /\ candidate' = [candidate EXCEPT ![t] = Append(@, NewCandidate(id))]
        /\ Admissible(t, id, request[r].late)
    BY <2>1 DEF ConnectAdmitted
  <2>4. n \in {1, 2}
    <3>1. Len(candidate[t]) \in {0, 1}
      BY <2>3 DEF Admissible, is_retryable
    <3>2. \A k \in {0, 1} : k + 1 \in {1, 2}
      OBVIOUS
    <3>3. QED BY <3>1, <3>2
  <2>5. candidate[t] \in Seq(CandidateRecord) /\ candidate'[t] = Append(candidate[t], NewCandidate(id))
    BY <2>2, <2>3 DEF Types
  <2>6. Len(candidate'[t]) = n
    BY <2>5
  <2>7. <<t, n>> \in DirectTokens \X {1, 2}
    BY <2>2, <2>4
  <2>8. n <= Len(candidate'[t])
    BY <2>4, <2>6
  <2> HIDE DEF t, n
  <2>9. <<t, n>> \in Operations'
    BY <2>7, <2>8 DEF Operations
  <2>10. loop' \in LoopRecord
    BY <2>2, <2>3, <2>7 DEF LoopRecord
  <2>11. loop'.op = <<t, n>>
    BY <2>3
  <2>12. QED BY <2>9, <2>10, <2>11
<1>6. CASE ConnectReserves
  <2>1. loop.pc = "admitted"
        /\ (\/ loop' = [loop EXCEPT !.pc = "receiving", !.holds = TRUE]
            \/ loop' = [loop EXCEPT !.pc = "receiving"]
            \/ loop' = IdleLoop)
    BY <1>6 DEF ConnectReserves
  <2>2. CASE loop' = [loop EXCEPT !.pc = "receiving", !.holds = TRUE]
    <3>1. loop' \in LoopRecord /\ loop'.op = loop.op
      BY <1>0, <2>2 DEF LoopRecord
    <3>2. QED BY <1>0, <2>1, <3>1
  <2>3. CASE loop' = [loop EXCEPT !.pc = "receiving"]
    <3>1. loop' \in LoopRecord /\ loop'.op = loop.op
      BY <1>0, <2>3 DEF LoopRecord
    <3>2. QED BY <1>0, <2>1, <3>1
  <2>4. QED BY <1>2, <2>1, <2>2, <2>3
<1>7. QED BY <1>1, <1>2, <1>3, <1>4, <1>5, <1>6, LoopSteps

\* The sweep and the profile name operations.
LEMMA SweepTypeInv ==
    ASSUME Inv, [Next]_vars
    PROVE  /\ sweep' \in SweepRecord /\ (sweep'.pc # "idle" => sweep'.op \in Operations')
           /\ profile' \in Operations' \cup {NoOp}
<1> USE DEF Inv
<1>0. /\ sweep \in SweepRecord /\ (sweep.pc # "idle" => sweep.op \in Operations)
      /\ (loop.pc # "idle" => loop.op \in Operations) /\ profile \in Operations \cup {NoOp}
      /\ Operations \subseteq Operations' /\ Operations \subseteq DirectTokens \X {1, 2}
  BY OperationsGrow DEF Types, TypeOK, Operations
<1>1. sweep' \in SweepRecord /\ (sweep'.pc # "idle" => sweep'.op \in Operations')
  <2>1. CASE UNCHANGED sweep
    BY <1>0, <2>1
  <2>2. CASE sweep' = IdleSweep
    BY <2>2 DEF IdleSweep, SweepRecord
  <2>3. CASE SweepBinds
    <3>1. sweep.pc = "probing" /\ sweep' = [sweep EXCEPT !.pc = "bound"]
      BY <2>3 DEF SweepBinds
    <3>2. sweep' \in SweepRecord /\ sweep'.op = sweep.op
      BY <1>0, <3>1 DEF SweepRecord
    <3>3. QED BY <1>0, <3>1, <3>2
  <2>4. CASE \E o \in Operations : SweepStarts(o)
    <3>1. PICK o \in Operations : sweep' = [pc |-> "probing", op |-> o]
      BY <2>4 DEF SweepStarts
    <3>2. QED BY <1>0, <3>1 DEF SweepRecord
  <2>5. QED BY <2>1, <2>2, <2>3, <2>4, SweepSteps
<1>2. profile' \in Operations' \cup {NoOp}
  BY <1>0, ProfileSteps DEF SweepBinds, RouteBinds, RetryBinds, Bind
<1>3. QED BY <1>1, <1>2

\* The rows of the authority store keep their types.
LEMMA RowsTypeInv ==
    ASSUME Inv, [Next]_vars
    PROVE  /\ reservation' \in [DirectTokens ->
                 [op : 0 .. 2, state : {"none", "reserved", "terminalized", "received"}]]
           /\ parent' \in [DirectTokens ->
                 [state : {"none", "open", "committed", "failed"}, latest : 0 .. 2]]
<1> USE DEF Inv
<1> DEFINE R == [op : 0 .. 2, state : {"none", "reserved", "terminalized", "received"}]
           P == [state : {"none", "open", "committed", "failed"}, latest : 0 .. 2]
<1>0. reservation \in [DirectTokens -> R] /\ parent \in [DirectTokens -> P]
  BY DEF TypeOK
<1>1. ASSUME NEW x \in P PROVE Closed(x) \in P
  BY DEF Closed
<1>2. ASSUME NEW t \in DirectTokens, terminalize_known(t)
      PROVE  reservation' \in [DirectTokens -> R] /\ parent' \in [DirectTokens -> P]
  <2>1. reservation[t] \in R /\ parent[t] \in P
    BY <1>0
  <2>2. [reservation[t] EXCEPT !.state = "terminalized"] \in R /\ [parent[t] EXCEPT !.state = "failed"] \in P
    BY <2>1
  <2>3. Closed(parent[t]) \in P
    BY <1>1, <2>1
  <2> HIDE DEF R, P
  <2>4. QED BY <1>0, <1>2, <2>2, <2>3 DEF terminalize_known
<1>3. CASE \E r \in Requests : ConnectInvalid(r)
  BY <1>2, <1>3 DEF ConnectInvalid, Types, RequestRecord
<1>4. CASE \E r \in Requests, id \in Identities : ConnectAdmitted(r, id)
  <2>1. PICK r \in Requests, id \in Identities : ConnectAdmitted(r, id)
    BY <1>4
  <2> DEFINE t == request[r].token
             n == Len(candidate[t]) + 1
  <2>2. /\ reservation' = [reservation EXCEPT ![t] = [op |-> n, state |-> "reserved"]]
        /\ parent' = [parent EXCEPT ![t].state = "open"]
        /\ Admissible(t, id, request[r].late)
    BY <2>1 DEF ConnectAdmitted
  <2>3. t \in DirectTokens
    BY <2>1 DEF ConnectAdmitted, Types, RequestRecord
  <2>4. n \in {1, 2}
    <3>1. Len(candidate[t]) \in {0, 1}
      BY <2>2 DEF Admissible, is_retryable
    <3>2. \A k \in {0, 1} : k + 1 \in {1, 2}
      OBVIOUS
    <3>3. QED BY <3>1, <3>2
  <2> HIDE DEF t, n
  <2>5. [op |-> n, state |-> "reserved"] \in R /\ [parent[t] EXCEPT !.state = "open"] \in P
    BY <1>0, <2>3, <2>4
  <2> HIDE DEF R, P
  <2>6. reservation' \in [DirectTokens -> R] /\ parent' \in [DirectTokens -> P]
    BY <1>0, <2>2, <2>3, <2>5
  <2>7. QED BY <2>6 DEF R, P
<1>5. CASE ConnectReserves \/ receive \/ ConnectFaults \/ ConnectReturns
  <2>1. loop.op \in Operations
    BY <1>5 DEF ConnectReserves, receive, ConnectFaults, ConnectReturns, TypeOK
  <2> DEFINE t == loop.op[1]
             n == loop.op[2]
  <2>2. t \in DirectTokens /\ n \in {1, 2} /\ reservation[t] \in R /\ parent[t] \in P
    BY <1>0, <2>1, OperationFacts
  <2>3. /\ [reservation[t] EXCEPT !.state = "terminalized"] \in R
        /\ [reservation[t] EXCEPT !.state = "received"] \in R
        /\ [parent[t] EXCEPT !.latest = n] \in P
        /\ Closed(parent[t]) \in P
    BY <1>1, <2>2
  <2>4. CASE ConnectReserves
    <3>1. UNCHANGED <<reservation, parent>> \/ terminalize_known(t)
      BY <2>4 DEF ConnectReserves
    <3>2. QED BY <1>0, <1>2, <2>2, <3>1
  <2>5. CASE receive
    <3>1. /\ reservation' = [reservation EXCEPT ![t].state = "received"]
          /\ parent' = [parent EXCEPT ![t].latest = n]
      BY <2>5 DEF receive
    <3> HIDE DEF R, P, t, n
    <3>2. reservation' \in [DirectTokens -> R] /\ parent' \in [DirectTokens -> P]
      BY <1>0, <2>2, <2>3, <3>1
    <3>3. QED BY <3>2 DEF R, P
  <2>6. CASE ConnectFaults \/ ConnectReturns
    <3>1. /\ UNCHANGED reservation \/ reservation' = [reservation EXCEPT ![t].state = "terminalized"]
          /\ UNCHANGED parent \/ parent' = [parent EXCEPT ![t] = Closed(@)]
      BY <2>6 DEF ConnectFaults, ConnectReturns
    <3> HIDE DEF R, P, t, n
    <3>2. reservation' \in [DirectTokens -> R]
      BY <1>0, <2>2, <2>3, <3>1
    <3>3. parent' \in [DirectTokens -> P]
      BY <1>0, <2>2, <2>3, <3>1
    <3>4. QED BY <3>2, <3>3 DEF R, P
  <2>7. QED BY <1>5, <2>4, <2>5, <2>6
<1>6. ASSUME NEW o \in Operations, UNCHANGED reservation,
             mark_committed(o) \/ \E reason \in {"probe_failed", "binding_failed"} : mark_failed(o, reason)
      PROVE  reservation' \in [DirectTokens -> R] /\ parent' \in [DirectTokens -> P]
  <2>1. PICK t \in DirectTokens : t = o[1]
    BY OperationFacts
  <2>2. /\ parent[t] \in P /\ Closed(parent[t]) \in P
        /\ [parent[t] EXCEPT !.state = "committed"] \in P
    BY <1>0, <1>1
  <2>3. CASE mark_committed(o)
    <3>1. \/ parent' = [parent EXCEPT ![t] = [parent[t] EXCEPT !.state = "committed"]]
          \/ parent' = [parent EXCEPT ![t] = [parent[t] EXCEPT !.state = parent[t].state]]
      BY <2>1, <2>3 DEF mark_committed
    <3>2. [parent[t] EXCEPT !.state = parent[t].state] \in P
      BY <2>2
    <3> HIDE DEF R, P
    <3>3. parent' \in [DirectTokens -> P]
      BY <1>0, <2>2, <3>1, <3>2
    <3>4. QED BY <1>0, <1>6, <3>3
  <2>4. CASE \E reason \in {"probe_failed", "binding_failed"} : mark_failed(o, reason)
    <3>1. UNCHANGED parent \/ parent' = [parent EXCEPT ![t] = Closed(parent[t])]
      BY <2>1, <2>4 DEF mark_failed
    <3> HIDE DEF R, P
    <3>2. parent' \in [DirectTokens -> P]
      BY <1>0, <2>2, <3>1
    <3>3. QED BY <1>0, <1>6, <3>2
  <2>5. QED BY <1>6, <2>3, <2>4
<1>7. CASE SweepFails \/ SweepCommits
  <2>1. sweep.op \in Operations /\ UNCHANGED reservation
    BY <1>7 DEF SweepFails, SweepCommits, TypeOK
  <2>2. mark_committed(sweep.op) \/ \E reason \in {"probe_failed", "binding_failed"} : mark_failed(sweep.op, reason)
    BY <1>7 DEF SweepFails, SweepCommits, ProbeFails, BindFails
  <2>3. QED BY <1>6, <2>1, <2>2
<1>8. CASE RouteFails \/ RouteCommits
  <2>1. loop.op \in Operations /\ UNCHANGED reservation
    BY <1>8 DEF RouteFails, RouteCommits, TypeOK
  <2>2. mark_committed(loop.op) \/ \E reason \in {"probe_failed", "binding_failed"} : mark_failed(loop.op, reason)
    BY <1>8 DEF RouteFails, RouteCommits, ProbeFails, BindFails
  <2>3. QED BY <1>6, <2>1, <2>2
<1>9. CASE UNCHANGED <<reservation, parent>>
  BY <1>0, <1>9
<1>10. \/ UNCHANGED <<reservation, parent>>
       \/ \E r \in Requests : ConnectInvalid(r)
       \/ \E r \in Requests, id \in Identities : ConnectAdmitted(r, id)
       \/ ConnectReserves \/ receive \/ ConnectFaults \/ ConnectReturns
       \/ SweepFails \/ SweepCommits \/ RouteFails \/ RouteCommits
  BY DEF Next, vars, durable, Pool, Connect, LoopStep, MintToken, runtime_conformance_checkin, Expire,
         CheckToken, ReserveToken, WriteRegistration, WriteFails, CommitToken, ConnectArrives,
         ConnectRefused, SweepStarts, SweepBinds, SweepContended, RouteStarts, RouteBinds, Bind,
         RouteContended, claim_retry_attempt, RetryFails, RetryBinds, RetrySucceeds,
         forget_operation, Restart
<1>11. QED BY <1>3, <1>4, <1>5, <1>7, <1>8, <1>9, <1>10

\* The requests, the threads and the counters keep their types.
LEMMA PoolTypeInv ==
    ASSUME Inv, [Next]_vars
    PROVE  /\ expired' \subseteq Tokens /\ authority' \subseteq DirectTokens
           /\ request' \in [Requests -> RequestRecord]
           /\ thread' \in [Threads -> [pc : {"idle", "checked", "writing", "written"},
                                       token : Tokens \cup {"none"}]]
           /\ \A h \in Threads : thread'[h].pc # "idle" => thread'[h].token \in Tokens
           /\ written' \in [Tokens -> Nat]
           /\ restarts' \in 0 .. MaxRestarts
<1> USE DEF Inv
<1> DEFINE T == [pc : {"idle", "checked", "writing", "written"}, token : Tokens \cup {"none"}]
<1>0. /\ expired \subseteq Tokens /\ authority \subseteq DirectTokens /\ DirectTokens \subseteq Tokens
      /\ request \in [Requests -> RequestRecord]
      /\ thread \in [Threads -> T]
      /\ \A h \in Threads : thread[h].pc # "idle" => thread[h].token \in Tokens
      /\ written \in [Tokens -> Nat]
      /\ restarts \in 0 .. MaxRestarts
  BY DEF TypeOK, Types, Tokens
<1>1. /\ expired' = expired \/ \E t \in Tokens : expired' = expired \cup {t}
      /\ authority' = authority \/ \E t \in DirectTokens : authority' = authority \cup {t}
      /\ restarts' = restarts \/ (restarts < MaxRestarts /\ restarts' = restarts + 1)
      /\ \/ UNCHANGED request
         \/ request' = [r \in Requests |-> NoRequest]
         \/ \E r \in Requests : request' = [request EXCEPT ![r] = NoRequest]
         \/ \E r \in Requests, t \in DirectTokens : ConnectArrives(r, t)
  BY DEF Next, vars, durable, Pool, Connect, LoopStep, MintToken, runtime_conformance_checkin, Expire,
         CheckToken, ReserveToken, WriteRegistration, WriteFails, CommitToken, ConnectArrives,
         ConnectInvalid, ConnectAdmitted, ConnectRefused, ConnectReserves, receive, ConnectFaults,
         ConnectReturns, SweepStarts, SweepFails, SweepBinds, SweepContended, SweepCommits,
         RouteStarts, RouteFails, RouteBinds, RouteContended, RouteCommits, claim_retry_attempt,
         RetryFails, RetryBinds, RetrySucceeds, forget_operation, Restart
<1>2. expired' \subseteq Tokens /\ authority' \subseteq DirectTokens
  BY <1>0, <1>1
<1>3. restarts' \in 0 .. MaxRestarts
  BY <1>0, <1>1, BoundsAssumption
<1>4. request' \in [Requests -> RequestRecord]
  <2>1. NoRequest \in RequestRecord
    BY DEF RequestRecord
  <2>2. ASSUME NEW r \in Requests, NEW t \in DirectTokens, ConnectArrives(r, t)
        PROVE  request' \in [Requests -> RequestRecord]
    <3> DEFINE q == [token |-> t, seen |-> validate_runtime(t, expired), late |-> expired \cap {t}]
    <3>1. request' = [request EXCEPT ![r] = q]
      BY <2>2 DEF ConnectArrives
    <3>2. validate_runtime(t, expired) \in BOOLEAN
      BY DEF validate_runtime
    <3>3. q \in RequestRecord
      BY <1>0, <3>2 DEF RequestRecord
    <3> HIDE DEF q
    <3>4. QED BY <1>0, <3>1, <3>3
  <2>3. QED BY <1>0, <1>1, <2>1, <2>2
<1>5. /\ thread' \in [Threads -> T] /\ written' \in [Tokens -> Nat]
      /\ \A h \in Threads : thread'[h].pc # "idle" => thread'[h].token \in Tokens
  <2>1. CASE UNCHANGED <<thread, written>>
    BY <1>0, <2>1
  <2>2. CASE Restart
    <3>1. thread' = [h \in Threads |-> IdleThread] /\ UNCHANGED written
      BY <2>2 DEF Restart
    <3>2. QED BY <1>0, <3>1 DEF IdleThread
  <2>3. ASSUME NEW h \in Threads, NEW x \in T, x.pc # "idle" => x.token \in Tokens,
               thread' = [thread EXCEPT ![h] = x]
        PROVE  /\ thread' \in [Threads -> T]
               /\ \A g \in Threads : thread'[g].pc # "idle" => thread'[g].token \in Tokens
    <3> HIDE DEF T
    <3>1. thread' \in [Threads -> T]
      BY <1>0, <2>3
    <3>2. thread'[h] = x /\ \A g \in Threads : g # h => thread'[g] = thread[g]
      BY <1>0, <2>3
    <3>3. QED BY <1>0, <2>3, <3>1, <3>2
  <2>4. ASSUME NEW h \in Threads,
               \/ \E t \in Tokens : CheckToken(h, t)
               \/ ReserveToken(h) \/ WriteRegistration(h) \/ WriteFails(h) \/ CommitToken(h)
        PROVE  \E x \in T : /\ x.pc # "idle" => x.token \in Tokens
                            /\ thread' = [thread EXCEPT ![h] = x]
    <3>0. thread[h] \in T /\ (thread[h].pc # "idle" => thread[h].token \in Tokens)
      BY <1>0
    <3>1. IdleThread \in T /\ IdleThread.pc = "idle"
      BY DEF IdleThread
    <3>2. CASE \E t \in Tokens : CheckToken(h, t)
      <4>1. PICK t \in Tokens : thread' = [thread EXCEPT ![h] = [pc |-> "checked", token |-> t]]
        BY <3>2 DEF CheckToken
      <4>2. [pc |-> "checked", token |-> t] \in T
        OBVIOUS
      <4>3. QED BY <4>1, <4>2
    <3>3. CASE ReserveToken(h)
      <4>1. /\ thread[h].pc = "checked"
            /\ \/ thread' = [thread EXCEPT ![h] = [thread[h] EXCEPT !.pc = "writing"]]
               \/ thread' = [thread EXCEPT ![h] = IdleThread]
        BY <3>3 DEF ReserveToken
      <4>2. [thread[h] EXCEPT !.pc = "writing"] \in T /\ [thread[h] EXCEPT !.pc = "writing"].token \in Tokens
        BY <3>0, <4>1
      <4>3. QED BY <3>1, <4>1, <4>2
    <3>4. CASE WriteRegistration(h)
      <4>1. thread[h].pc = "writing" /\ thread' = [thread EXCEPT ![h] = [thread[h] EXCEPT !.pc = "written"]]
        BY <3>4 DEF WriteRegistration
      <4>2. [thread[h] EXCEPT !.pc = "written"] \in T /\ [thread[h] EXCEPT !.pc = "written"].token \in Tokens
        BY <3>0, <4>1
      <4>3. QED BY <4>1, <4>2
    <3>5. CASE WriteFails(h) \/ CommitToken(h)
      <4>1. thread' = [thread EXCEPT ![h] = IdleThread]
        BY <3>5 DEF WriteFails, CommitToken
      <4>2. QED BY <3>1, <4>1
    <3>6. QED BY <2>4, <3>2, <3>3, <3>4, <3>5
  <2>5. ASSUME NEW h \in Threads,
               \/ \E t \in Tokens : CheckToken(h, t)
               \/ ReserveToken(h) \/ WriteRegistration(h) \/ WriteFails(h) \/ CommitToken(h)
        PROVE  written' \in [Tokens -> Nat]
    <3>1. UNCHANGED written \/ written' = [written EXCEPT ![thread[h].token] = @ + 1]
      BY <2>5 DEF CheckToken, ReserveToken, WriteRegistration, WriteFails, CommitToken
    <3>2. QED BY <1>0, <3>1
  <2>6. QED BY <2>1, <2>2, <2>3, <2>4, <2>5, ThreadSteps
<1>6. QED BY <1>2, <1>3, <1>4, <1>5

\* Types are kept.
LEMMA TypeInv == ASSUME Inv, [Next]_vars PROVE TypeOK' /\ Types'
<1>1. candidate' \in [DirectTokens -> Seq(CandidateRecord)] /\ \A t \in DirectTokens : Len(candidate'[t]) <= 2
  BY OperationsGrow
<1>2. \A r \in Requests : request'[r].token \in DirectTokens \cup {"none"}
  <2>1. \A q \in RequestRecord : q.token \in DirectTokens \cup {"none"}
    BY DEF RequestRecord, NoRequest
  <2>2. QED BY <2>1, PoolTypeInv
<1>3. TypeOK'
  <2>1. loop'.pc \in {"idle", "admitted", "receiving", "received", "probing", "bound", "retrying", "retried"}
    BY LoopTypeInv DEF LoopRecord
  <2>2. sweep'.pc \in {"idle", "probing", "bound"}
    BY SweepTypeInv DEF SweepRecord
  <2>3. QED BY <1>1, <1>2, <2>1, <2>2, LoopTypeInv, SweepTypeInv, RowsTypeInv, TokenTypeInv, PoolTypeInv
            DEF TypeOK
<1>4. Types'
  BY <1>1, LoopTypeInv, SweepTypeInv, PoolTypeInv DEF Types
<1>5. QED BY <1>3, <1>4

-----------------------------------------------------------------------------
(* The invariant, and what follows from it                                 *)

\* The initial states satisfy the invariant.
LEMMA InitInv == Init => Inv
<1> SUFFICES ASSUME Init PROVE Inv
  OBVIOUS
<1> USE DEF Init
<1>1. \A t \in DirectTokens : candidate[t] = <<>> /\ Len(candidate[t]) = 0
  OBVIOUS
<1>2. candidate \in [DirectTokens -> Seq(CandidateRecord)]
  OBVIOUS
<1>3. token \in [Tokens -> TokenRecord] /\ \A t \in Tokens : token[t].state = "unminted" /\ token[t].reserved = FALSE
  BY DEF Unminted, TokenRecord
<1>4. DirectTokens \subseteq Tokens
  BY DEF Tokens
<1>5. Types
  <2>1. IdleLoop \in LoopRecord
    BY DEF IdleLoop, LoopRecord
  <2>2. IdleSweep \in SweepRecord
    BY DEF IdleSweep, SweepRecord
  <2>3. request \in [Requests -> RequestRecord]
    BY DEF RequestRecord
  <2>4. \A h \in Threads : thread[h].pc = "idle"
    BY DEF IdleThread
  <2>5. QED BY <1>2, <2>1, <2>2, <2>3, <2>4 DEF Types
<1>6. TypeOK
  <2>1. thread \in [Threads -> [pc : {"idle", "checked", "writing", "written"}, token : Tokens \cup {"none"}]]
    BY DEF IdleThread
  <2>2. loop.pc = "idle" /\ sweep.pc = "idle"
    BY DEF IdleLoop, IdleSweep
  <2>3. \A r \in Requests : request[r].token \in DirectTokens \cup {"none"}
    BY DEF NoRequest
  <2>4. reservation \in [DirectTokens -> [op : 0 .. 2, state : {"none", "reserved", "terminalized", "received"}]]
    OBVIOUS
  <2>5. parent \in [DirectTokens -> [state : {"none", "open", "committed", "failed"}, latest : 0 .. 2]]
    OBVIOUS
  <2>6. written \in [Tokens -> Nat] /\ restarts \in 0 .. MaxRestarts
    BY BoundsAssumption
  <2>7. \A t \in DirectTokens : Len(candidate[t]) <= 2 /\ candidate[t] \in Seq(CandidateRecord)
    BY <1>1, <1>2
  <2>8. QED BY <1>3, <2>1, <2>2, <2>3, <2>4, <2>5, <2>6, <2>7 DEF TypeOK
<1>7. Candidates /\ Superseded
  BY <1>1 DEF Candidates, Superseded
<1>8. Working /\ OneProbePerToken /\ Lease
  BY DEF Working, OneProbePerToken, Lease, IdleLoop, IdleSweep
<1>9. Holders
  BY <1>3, <1>4 DEF Holders, IdleThread, Held
<1>10. Paid
  BY DEF Paid, IdleThread
<1>11. QED BY <1>5, <1>6, <1>7, <1>8, <1>9, <1>10 DEF Inv

\* Every step keeps the invariant.
LEMMA NextInv == ASSUME Inv, [Next]_vars PROVE Inv'
BY TypeInv, CandidatesInv, SupersededInv, WorkingInv, OneProbeInv, LeaseInv, HoldersInv, PaidInv DEF Inv

\* The invariant holds in every reachable state.
THEOREM Invariance == Spec => []Inv
BY InitInv, NextInv, PTL DEF Spec

\* The variables have their types.
THEOREM TypeCorrect == Spec => []TypeOK
<1>1. Inv => TypeOK
  BY DEF Inv
<1>2. QED BY <1>1, Invariance, PTL

\* A registration token pays for one registration at most, however many pool
\* threads and connect requests race for it.
THEOREM SpentOnce == Spec => []TokenSpentOnce
<1>1. Inv => TokenSpentOnce
  <2>1. SUFFICES ASSUME Inv, NEW t \in Tokens
                 PROVE  written[t] + (IF t \in DirectTokens /\ candidate[t] # <<>> /\ candidate[t][1].accepted
                                      THEN 1 ELSE 0) <= 1
    BY DEF TokenSpentOnce
  <2>2. written[t] \in Nat /\ written[t] <= 1 /\ (t \in DirectTokens => written[t] = 0)
    BY <2>1 DEF Inv, TypeOK, Paid
  <2>3. QED BY <2>2
<1>2. QED BY <1>1, Invariance, PTL

\* No identity is accepted twice under a token.
THEOREM Distinct == Spec => []IdentitiesDistinct
<1>1. Inv => IdentitiesDistinct
  <2>1. SUFFICES ASSUME Inv, NEW t \in DirectTokens, NEW m \in DOMAIN candidate[t], NEW n \in DOMAIN candidate[t],
                        m # n
                 PROVE  candidate[t][m].identity # candidate[t][n].identity
    BY DEF IdentitiesDistinct
  <2>2. candidate[t] \in Seq(CandidateRecord) /\ Len(candidate[t]) <= 2
    BY <2>1 DEF Inv, TypeOK
  <2>3. Len(candidate[t]) = 2 /\ (\/ m = 1 /\ n = 2
                                  \/ m = 2 /\ n = 1)
    <3>1. \A k \in Nat : k <= 2 => \A i \in 1 .. k : i = 1 \/ (i = 2 /\ k = 2)
      OBVIOUS
    <3>2. DOMAIN candidate[t] = 1 .. Len(candidate[t]) /\ Len(candidate[t]) \in Nat
      BY <2>2
    <3>3. QED BY <2>1, <2>2, <3>1, <3>2
  <2>4. QED BY <2>1, <2>3 DEF Inv, Superseded
<1>2. QED BY <1>1, Invariance, PTL

\* The sweep, the commit route and a retry validation never work on
\* candidates of one token at the same time.
THEOREM OneProbe == Spec => []OneProbePerToken
<1>1. Inv => OneProbePerToken
  BY DEF Inv
<1>2. QED BY <1>1, Invariance, PTL

\* An accepted candidate that is neither bound nor failed has an owner, or
\* can be taken up.
THEOREM NoneStranded == Spec => []NeverStranded
<1>1. Inv => NeverStranded
  <2>1. SUFFICES ASSUME Inv, NEW o \in Operations, Cand(o).accepted, Cand(o).state = "received", ~Owned(o)
                 PROVE  Projectable(o)
    BY DEF NeverStranded
  <2>2. /\ o[1] \in DirectTokens /\ o[2] \in {1, 2} /\ o[2] \in 1 .. Len(candidate[o[1]])
        /\ candidate[o[1]] \in Seq(CandidateRecord) /\ Len(candidate[o[1]]) <= 2
        /\ Coherent(Cand(o)) /\ Cand(o) = candidate[o[1]][o[2]]
    BY <2>1, OperationFacts DEF Inv, TypeOK, Candidates, Cand
  <2>3. CASE Len(candidate[o[1]]) = 2
    <3>1. /\ o[2] = 2
          /\ candidate[o[1]][1].projection # "planned"
          /\ candidate[o[1]][1].attempt # "running"
      BY <2>1, <2>2, <2>3 DEF Inv, Superseded
    <3>2. DOMAIN candidate[o[1]] \ {o[2]} = {1}
      BY <2>2, <2>3, <3>1
    <3>3. QED BY <2>1, <2>2, <2>3, <3>1, <3>2 DEF Projectable, Latest, ActiveForParent, Coherent
  <2>4. CASE Len(candidate[o[1]]) # 2
    <3>1. \A k \in Nat, n \in {1, 2} : k <= 2 /\ k # 2 /\ n \in 1 .. k => n = k /\ k = 1
      OBVIOUS
    <3>2. Len(candidate[o[1]]) \in Nat
      BY <2>2
    <3>3. o[2] = Len(candidate[o[1]]) /\ Len(candidate[o[1]]) = 1
      BY <2>2, <2>4, <3>1, <3>2
    <3>4. DOMAIN candidate[o[1]] \ {o[2]} = {}
      BY <2>2, <3>3
    <3>5. QED BY <2>1, <2>2, <3>3, <3>4 DEF Projectable, Latest, ActiveForParent, Coherent
  <2>5. QED BY <2>3, <2>4
<1>2. QED BY <1>1, Invariance, PTL

\* When a projection is recorded as committed the profile is still what it
\* bound.
THEOREM BoundWhenCommitted == Spec => CommittedAsBound
<1>1. ASSUME Inv, [Next]_vars
      PROVE  [\A o \in Operations :
                 (Cand(o).projection # "committed" /\ Cand(o)'.projection = "committed") => profile = o]_vars
  <2>1. SUFFICES ASSUME NEW o \in Operations, Cand(o).projection # "committed",
                        Cand(o)'.projection = "committed"
                 PROVE  profile = o
    OBVIOUS
  <2>2. /\ o[1] \in DirectTokens /\ o[2] \in 1 .. Len(candidate[o[1]]) /\ o = <<o[1], o[2]>>
        /\ candidate[o[1]] \in Seq(CandidateRecord)
    BY <1>1, OperationFacts DEF Inv
  <2>3. CASE UNCHANGED candidate
    BY <2>1, <2>3 DEF Cand
  <2>4. CASE \E t \in DirectTokens, id \in Identities : Adds(t, id)
    <3>1. Cand(o)' = Cand(o)
      BY <2>2, <2>4 DEF Adds, Cand
    <3>2. QED BY <2>1, <3>1
  <2>5. CASE \E p \in Operations, d \in CandidateRecord : Sets(p, d) /\ Moves(p, d)
    <3>1. PICK p \in Operations, d \in CandidateRecord : Sets(p, d) /\ Moves(p, d)
      BY <2>5
    <3>2. p = <<p[1], p[2]>>
      BY <1>1, OperationFacts DEF Inv
    <3>3. CASE p = o
      <4>1. Cand(o)' = d
        BY <2>2, <3>1, <3>3 DEF Sets, Cand
      <4>2. QED BY <2>1, <3>1, <3>3, <4>1 DEF Moves
    <3>4. CASE p # o
      <4>1. Cand(o)' = Cand(o)
        BY <2>2, <3>1, <3>2, <3>4 DEF Sets, Cand
      <4>2. QED BY <2>1, <4>1
    <3>5. QED BY <3>3, <3>4
  <2>6. QED BY <1>1, <2>3, <2>4, <2>5, CandidateSteps
<1>2. QED BY <1>1, Invariance, PTL DEF Spec, CommittedAsBound

\* Once the corrected candidate is bound, the one it corrects never is again.
THEOREM NewerStays == Spec => NewerStaysBound
<1>1. ASSUME Inv, [Next]_vars
      PROVE  [\A t \in DirectTokens : profile = <<t, 2>> => profile' # <<t, 1>>]_vars
  <2>1. SUFFICES ASSUME NEW t \in DirectTokens, profile = <<t, 2>>
                 PROVE  profile' # <<t, 1>>
    OBVIOUS
  <2>2. Len(candidate[t]) = 2
    <3>1. profile \in Operations
      BY <1>1, <2>1 DEF Inv, TypeOK, NoOp
    <3>2. 2 \in 1 .. Len(candidate[t]) /\ candidate[t] \in Seq(CandidateRecord) /\ Len(candidate[t]) <= 2
      BY <1>1, <2>1, <3>1, OperationFacts DEF Inv, TypeOK
    <3>3. \A k \in Nat : 2 \in 1 .. k /\ k <= 2 => k = 2
      OBVIOUS
    <3>4. Len(candidate[t]) \in Nat
      BY <3>2
    <3>5. QED BY <3>2, <3>3, <3>4
  <2>3. CASE UNCHANGED profile
    BY <2>1, <2>3
  <2>4. ASSUME NEW o \in Operations, Cand(o).projection = "planned" \/ Cand(o).attempt = "running"
        PROVE  o # <<t, 1>>
    <3>1. Latest(o)
      BY <1>1, <2>4, WorkedIsLatest
    <3>2. QED BY <2>2, <3>1 DEF Latest
  <2>5. CASE SweepBinds
    BY <1>1, <2>4, <2>5 DEF SweepBinds, Bind, Inv, TypeOK, Working
  <2>6. CASE RouteBinds \/ RetryBinds
    BY <1>1, <2>4, <2>6 DEF RouteBinds, RetryBinds, Bind, Inv, TypeOK, Working
  <2>7. QED BY <1>1, <2>3, <2>5, <2>6, ProfileSteps
<1>2. QED BY <1>1, Invariance, PTL DEF Spec, NewerStaysBound

=============================================================================
