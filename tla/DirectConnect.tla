----------------------------- MODULE DirectConnect -----------------------------
(***************************************************************************)
(* Registration of a command-line tool under one profile name. A candidate *)
(* presents a registration token and is recorded as a receipt that cannot  *)
(* be launched; a projection then probes the candidate and binds it to the *)
(* profile. A candidate whose probe failed may be corrected once under the *)
(* same token, and a failed one may be validated again as it is.           *)
(*                                                                         *)
(* Three kinds of thread interleave. The event loop runs the direct routes *)
(* and yields only where connect awaits its body; the projection sweep has *)
(* a thread of its own; minting, check-in, the binary and the submission   *)
(* routes run in a pool. A method of either store is one step. The tokens  *)
(* are lost at a restart, the authority database is not.                   *)
(***************************************************************************)
EXTENDS RegistrationToken, Sequences, Integers, TLC

CONSTANTS
    Identities,   \* wrapper with its children, as hashed
    Requests,     \* connect requests that may be waiting for their body
    Threads,      \* pool threads in the binary and submission routes
    MaxMints,     \* bound on the tokens minted
    MaxRestarts   \* bound on restarts of the daemon

ASSUME BoundsAssumption == MaxMints \in Nat /\ MaxRestarts \in Nat

VARIABLES
    authority,    \* direct tokens whose authority row was stored
    reservation,  \* per direct token
    parent,       \* lifecycle of the direct token
    candidate,    \* per direct token, its candidates in order of arrival
    profile,      \* the operation the profile is bound to
    request,      \* connect requests awaiting their body
    loop,         \* what the event loop is in the middle of
    sweep,        \* what the sweep thread is in the middle of
    thread,       \* pool threads
    written,      \* history: registrations each pool token has paid for
    restarts

durable == <<authority, reservation, parent, candidate, profile>>
vars == <<token, expired, authority, reservation, parent, candidate, profile,
          request, loop, sweep, thread, written, restarts>>

-----------------------------------------------------------------------------
(* State                                                                   *)

\* An operation is the n-th candidate of the token t.
NoOp == <<"none", 0>>

\* accepted: receipt, operation and identity history exist; artifacts: the
\* receipt still has its artifacts; projection and attempt: the projection
\* row and the retry validation, where a failed one counts as none.
CandidateRecord ==
    [identity : Identities, state : {"received", "committed", "failed"},
     accepted : BOOLEAN, artifacts : BOOLEAN,
     projection : {"none", "planned", "committed", "probe_failed", "binding_failed"},
     attempt : {"none", "running", "succeeded"}]

NewCandidate(id) ==
    [identity |-> id, state |-> "received", accepted |-> FALSE, artifacts |-> FALSE,
     projection |-> "none", attempt |-> "none"]

ProjectionFailed(c) == c.projection \in {"probe_failed", "binding_failed"}

Operations == {o \in DirectTokens \X {1, 2} : o[2] <= Len(candidate[o[1]])}
Cand(o) == candidate[o[1]][o[2]]

NoRequest == [token |-> "none", seen |-> FALSE, late |-> {}]
IdleLoop == [pc |-> "idle", op |-> NoOp, seen |-> FALSE, late |-> {}, holds |-> FALSE]
IdleSweep == [pc |-> "idle", op |-> NoOp]
IdleThread == [pc |-> "idle", token |-> "none"]

TypeOK ==
    /\ token \in [Tokens -> TokenRecord]
    /\ expired \subseteq Tokens
    /\ authority \subseteq DirectTokens
    /\ reservation \in [DirectTokens ->
          [op : 0 .. 2, state : {"none", "reserved", "terminalized", "received"}]]
    /\ parent \in [DirectTokens ->
          [state : {"none", "open", "committed", "failed"}, latest : 0 .. 2]]
    /\ \A t \in DirectTokens :
          Len(candidate[t]) <= 2 /\ candidate[t] \in Seq(CandidateRecord)
    /\ profile \in Operations \cup {NoOp}
    /\ \A r \in Requests : request[r].token \in DirectTokens \cup {"none"}
    /\ loop.pc \in {"idle", "admitted", "receiving", "received",
                    "probing", "bound", "retrying", "retried"}
    /\ loop.pc # "idle" => loop.op \in Operations
    /\ sweep.pc \in {"idle", "probing", "bound"}
    /\ sweep.pc # "idle" => sweep.op \in Operations
    /\ thread \in [Threads -> [pc : {"idle", "checked", "writing", "written"},
                               token : Tokens \cup {"none"}]]
    /\ written \in [Tokens -> Nat]
    /\ restarts \in 0 .. MaxRestarts

Init ==
    /\ token = [t \in Tokens |-> Unminted]
    /\ expired = {}
    /\ authority = {}
    /\ reservation = [t \in DirectTokens |-> [op |-> 0, state |-> "none"]]
    /\ parent = [t \in DirectTokens |-> [state |-> "none", latest |-> 0]]
    /\ candidate = [t \in DirectTokens |-> <<>>]
    /\ profile = NoOp
    /\ request = [r \in Requests |-> NoRequest]
    /\ loop = IdleLoop
    /\ sweep = IdleSweep
    /\ thread = [h \in Threads |-> IdleThread]
    /\ written = [t \in Tokens |-> 0]
    /\ restarts = 0

-----------------------------------------------------------------------------
(* Parts of the authority store                                            *)

Closed(p) == IF p.state = "open" THEN [p EXCEPT !.state = "failed"] ELSE p

terminalize_known(t) ==
    /\ reservation' = IF reservation[t].state = "none"
                      THEN [reservation EXCEPT ![t].state = "terminalized"]
                      ELSE reservation
    /\ parent' = [parent EXCEPT ![t] =
                     IF @.state = "none" THEN [@ EXCEPT !.state = "failed"] ELSE Closed(@)]

NoRunningAttempt(t) == \A n \in DOMAIN candidate[t] : candidate[t][n].attempt # "running"

\* The one corrected retry: the only candidate was accepted, and its probe
\* failed.
is_retryable(t, late) ==
    /\ parent[t].state = "open" /\ t \notin late
    /\ Len(candidate[t]) = 1 /\ parent[t].latest = 1
    /\ candidate[t][1].state \in {"received", "failed"}
    /\ candidate[t][1].projection = "probe_failed"
    /\ NoRunningAttempt(t)

\* Mutant: a duplicate is only looked for among the committed candidates.
DuplicateOfCommitted(t, id) ==
    \E n \in DOMAIN candidate[t] :
        candidate[t][n].state = "committed" /\ candidate[t][n].identity = id

Duplicate(t, id) ==
    \E n \in DOMAIN candidate[t] :
        candidate[t][n].accepted /\ candidate[t][n].identity = id

\* Mutant: an open parent admits another candidate.
AdmitWhileOpen(t, id, late) ==
    /\ t \in authority /\ t \notin late
    /\ parent[t].state \in {"none", "open"}
    /\ ~Duplicate(t, id)

\* What reserve admits; everything else is refused and changes nothing.
Admissible(t, id, late) ==
    /\ t \in authority /\ t \notin late
    /\ parent[t].state \in {"none", "open"}
    /\ ~Duplicate(t, id)
    /\ \A n \in DOMAIN candidate[t] :
          candidate[t][n].state = "received" => ProjectionFailed(candidate[t][n])
    /\ NoRunningAttempt(t)
    /\ Len(candidate[t]) = 0 \/ is_retryable(t, late)

-----------------------------------------------------------------------------
(* Minting and check-in                                                    *)

MintToken(t, stored) ==
    /\ token[t].state = "unminted"
    /\ Cardinality({u \in Tokens : token[u].state # "unminted"}) < MaxMints
    /\ stored \/ t \in DirectTokens
    /\ token' = mint_runtime(t, stored)
    /\ authority' = IF stored /\ t \in DirectTokens THEN authority \cup {t} ELSE authority
    /\ UNCHANGED <<expired, reservation, parent, candidate, profile, request, loop,
                   sweep, thread, written, restarts>>

\* Nothing ever asks for the challenge of a direct token.
runtime_conformance_checkin(t, s) ==
    /\ t \notin DirectTokens
    /\ validate_runtime(t, expired)
    /\ s \notin token[t].arrived
    /\ token' = record_step_arrival_runtime(t, s)
    /\ UNCHANGED <<expired, durable, request, loop, sweep, thread, written, restarts>>

\* Only while somebody may still look at the time.
Expire(t) ==
    /\ \/ token[t].state = "minted" /\ ~token[t].consumed
       \/ t \in authority /\ parent[t].state \in {"none", "open"}
    /\ t \notin expired
    /\ expired' = expired \cup {t}
    /\ UNCHANGED <<token, durable, request, loop, sweep, thread, written, restarts>>

-----------------------------------------------------------------------------
(* The binary and submission routes                                        *)

\* The token is valid and its challenge complete; the submission route does
\* not take a direct token.
CheckToken(h, t) ==
    /\ thread[h].pc = "idle"
    /\ t \notin authority
    /\ validate_runtime(t, expired)
    /\ all_steps_complete(t)
    /\ thread' = [thread EXCEPT ![h] = [pc |-> "checked", token |-> t]]
    /\ UNCHANGED <<token, expired, durable, request, loop, sweep, written, restarts>>

\* The reservation, or the refusal if the token is not valid any more.
ReserveToken(h) ==
    LET t == thread[h].token
        won == validate_runtime(t, expired)
    IN /\ thread[h].pc = "checked"
       /\ token' = IF won THEN reserve_runtime(t) ELSE token
       /\ thread' = [thread EXCEPT ![h] =
                        IF won THEN [@ EXCEPT !.pc = "writing"] ELSE IdleThread]
       /\ UNCHANGED <<expired, durable, request, loop, sweep, written, restarts>>

WriteRegistration(h) ==
    /\ thread[h].pc = "writing"
    /\ written' = [written EXCEPT ![thread[h].token] = @ + 1]
    /\ thread' = [thread EXCEPT ![h].pc = "written"]
    /\ UNCHANGED <<token, expired, durable, request, loop, sweep, restarts>>

WriteFails(h) ==
    /\ thread[h].pc = "writing"
    /\ token' = release_runtime(thread[h].token)
    /\ thread' = [thread EXCEPT ![h] = IdleThread]
    /\ UNCHANGED <<expired, durable, request, loop, sweep, written, restarts>>

CommitToken(h) ==
    /\ thread[h].pc = "written"
    /\ token' = commit_runtime(thread[h].token)
    /\ thread' = [thread EXCEPT ![h] = IdleThread]
    /\ UNCHANGED <<expired, durable, request, loop, sweep, written, restarts>>

-----------------------------------------------------------------------------
(* POST /runtime/custom-cli/connect                                        *)

\* Up to the await: the time, and whether the token was valid then.
ConnectArrives(r, t) ==
    /\ loop.pc = "idle"
    /\ request[r] = NoRequest
    /\ t \in authority
    /\ request' = [request EXCEPT ![r] =
          [token |-> t, seen |-> validate_runtime(t, expired), late |-> expired \cap {t}]]
    /\ UNCHANGED <<token, expired, durable, loop, sweep, thread, written, restarts>>

\* The body does not parse, or its artifacts are not what it says.
ConnectInvalid(r) ==
    LET t == request[r].token
    IN /\ loop.pc = "idle"
       /\ request[r] # NoRequest
       /\ token' = consume_runtime(t, request[r].late)
       /\ terminalize_known(t)
       /\ request' = [request EXCEPT ![r] = NoRequest]
       /\ UNCHANGED <<expired, authority, candidate, profile, loop, sweep, thread,
                      written, restarts>>

\* reserve and evaluate_admission.
ConnectAdmitted(r, id) ==
    LET t == request[r].token
        n == Len(candidate[t]) + 1
    IN /\ loop.pc = "idle"
       /\ request[r] # NoRequest
       /\ Admissible(t, id, request[r].late)
       /\ candidate' = [candidate EXCEPT ![t] = Append(@, NewCandidate(id))]
       /\ reservation' = [reservation EXCEPT ![t] = [op |-> n, state |-> "reserved"]]
       /\ parent' = [parent EXCEPT ![t].state = "open"]
       /\ loop' = [pc |-> "admitted", op |-> <<t, n>>, seen |-> request[r].seen,
                   late |-> request[r].late, holds |-> FALSE]
       /\ request' = [request EXCEPT ![r] = NoRequest]
       /\ UNCHANGED <<token, expired, authority, profile, sweep, thread, written, restarts>>

ConnectRefused(r, id) ==
    /\ loop.pc = "idle"
    /\ request[r] # NoRequest
    /\ ~Admissible(request[r].token, id, request[r].late)
    /\ request' = [request EXCEPT ![r] = NoRequest]
    /\ UNCHANGED <<token, expired, durable, loop, sweep, thread, written, restarts>>

\* A first candidate needs the token as it is now; a retry takes it along if
\* it is still there.
ConnectReserves ==
    LET t == loop.op[1]
        valid == loop.seen /\ validate_runtime(t, loop.late)
    IN /\ loop.pc = "admitted"
       /\ \/ /\ valid
             /\ token' = reserve_runtime(t)
             /\ loop' = [loop EXCEPT !.pc = "receiving", !.holds = TRUE]
             /\ UNCHANGED <<reservation, parent>>
          \/ /\ ~valid /\ loop.op[2] > 1
             /\ loop' = [loop EXCEPT !.pc = "receiving"]
             /\ UNCHANGED <<token, reservation, parent>>
          \/ /\ ~valid /\ loop.op[2] = 1
             /\ terminalize_known(t)
             /\ loop' = IdleLoop
             /\ UNCHANGED token
       /\ UNCHANGED <<expired, authority, candidate, profile, request, sweep, thread,
                      written, restarts>>

receive ==
    LET t == loop.op[1]
        n == loop.op[2]
    IN /\ loop.pc = "receiving"
       /\ reservation[t] = [op |-> n, state |-> "reserved"]
       /\ reservation' = [reservation EXCEPT ![t].state = "received"]
       /\ candidate' = [candidate EXCEPT ![t][n].accepted = TRUE, ![t][n].artifacts = TRUE]
       /\ parent' = [parent EXCEPT ![t].latest = n]
       /\ loop' = [loop EXCEPT !.pc = "received"]
       /\ UNCHANGED <<token, expired, authority, profile, request, sweep, thread,
                      written, restarts>>

\* receive raises: the token is spent and the candidate terminalized.
ConnectFaults ==
    LET t == loop.op[1]
        n == loop.op[2]
        mine == reservation[t] = [op |-> n, state |-> "reserved"]
    IN /\ loop.pc = "receiving"
       /\ token' = IF loop.holds THEN commit_runtime(t) ELSE token
       /\ reservation' = IF mine THEN [reservation EXCEPT ![t].state = "terminalized"]
                         ELSE reservation
       /\ candidate' = IF mine /\ candidate[t][n].state = "received"
                       THEN [candidate EXCEPT ![t][n].state = "failed"] ELSE candidate
       /\ parent' = IF mine THEN [parent EXCEPT ![t] = Closed(@)] ELSE parent
       /\ loop' = IdleLoop
       /\ UNCHANGED <<expired, authority, profile, request, sweep, thread, written, restarts>>

\* The receipt stands only if the token it holds can be spent.
ConnectReturns ==
    LET t == loop.op[1]
        n == loop.op[2]
        faulty == loop.holds /\ ~token[t].reserved
    IN /\ loop.pc = "received"
       /\ token' = IF loop.holds THEN commit_runtime(t) ELSE token
       /\ reservation' = IF faulty THEN [reservation EXCEPT ![t].state = "terminalized"]
                         ELSE reservation
       /\ candidate' = IF faulty /\ candidate[t][n].state = "received"
                       THEN [candidate EXCEPT ![t][n].state = "failed"] ELSE candidate
       /\ parent' = IF faulty THEN [parent EXCEPT ![t] = Closed(@)] ELSE parent
       /\ loop' = IdleLoop
       /\ UNCHANGED <<expired, authority, profile, request, sweep, thread, written, restarts>>

-----------------------------------------------------------------------------
(* Projection, by the commit route or by the sweep                         *)

Latest(o) == o[2] = Len(candidate[o[1]])

\* One owner per operation in a process.
Owned(o) ==
    \/ loop.pc \in {"probing", "bound"} /\ loop.op = o
    \/ sweep.pc # "idle" /\ sweep.op = o

ActiveForParent(o) ==
    \E n \in DOMAIN candidate[o[1]] \ {o[2]} :
        \/ candidate[o[1]][n].projection = "planned"
        \/ candidate[o[1]][n].accepted /\ candidate[o[1]][n].attempt = "running"

\* Mutant: a planned projection is not taken up again.
ProjectUnplanned(o) ==
    /\ ~Owned(o)
    /\ Cand(o).projection = "none"
    /\ Cand(o).artifacts /\ Latest(o) /\ ~ActiveForParent(o)

\* A planned projection without an owner is taken up again.
Projectable(o) ==
    /\ ~Owned(o)
    /\ Cand(o).projection \in {"none", "planned"}
    /\ Cand(o).artifacts /\ Latest(o) /\ ~ActiveForParent(o)

plan_projection(o) ==
    /\ Projectable(o)
    /\ candidate' = [candidate EXCEPT ![o[1]][o[2]].projection = "planned"]

\* reason: "probe_failed" or "binding_failed".
mark_failed(o, reason) ==
    LET t == o[1]
        c == Cand(o)
    IN /\ candidate' = [candidate EXCEPT ![t][o[2]] =
             [c EXCEPT !.projection = reason,
                       !.state = IF @ = "received" THEN "failed" ELSE @]]
       /\ parent' = IF parent[t].latest = o[2]
                       /\ (reason # "probe_failed" \/ ~Latest(o))
                    THEN [parent EXCEPT ![t] = Closed(@)] ELSE parent

mark_committed(o) ==
    LET t == o[1]
        c == Cand(o)
    IN /\ candidate' = [candidate EXCEPT ![t][o[2]] =
             [c EXCEPT !.projection = "committed",
                       !.state = IF @ = "received" THEN "committed" ELSE @]]
       /\ parent' = [parent EXCEPT ![t].state = IF @ = "open" THEN "committed" ELSE @]

\* Mutant: the profile is bound without the lease.
NeverLeased == FALSE

\* The lease on the profile name.
Leased == loop.pc = "bound" \/ sweep.pc = "bound"

\* Steps of _project_once for its owner.
ProbeFails(o) == mark_failed(o, "probe_failed") /\ UNCHANGED profile
BindFails(o) == ~Leased /\ mark_failed(o, "binding_failed") /\ UNCHANGED profile
Bind(o) == ~Leased /\ profile' = o /\ UNCHANGED <<candidate, parent>>

SweepStarts(o) ==
    /\ sweep.pc = "idle"
    /\ plan_projection(o)
    /\ sweep' = [pc |-> "probing", op |-> o]
    /\ UNCHANGED <<token, expired, authority, reservation, parent, profile, request,
                   loop, thread, written, restarts>>

SweepFails ==
    /\ sweep.pc = "probing"
    /\ ProbeFails(sweep.op) \/ BindFails(sweep.op)
    /\ sweep' = IdleSweep
    /\ UNCHANGED <<token, expired, authority, reservation, request, loop, thread,
                   written, restarts>>

SweepBinds ==
    /\ sweep.pc = "probing"
    /\ Bind(sweep.op)
    /\ sweep' = [sweep EXCEPT !.pc = "bound"]
    /\ UNCHANGED <<token, expired, authority, reservation, request, loop, thread,
                   written, restarts>>

\* Another writer has the profile: the row stays planned.
SweepContended ==
    /\ sweep.pc = "probing"
    /\ sweep' = IdleSweep
    /\ UNCHANGED <<token, expired, durable, request, loop, thread, written, restarts>>

SweepCommits ==
    /\ sweep.pc = "bound"
    /\ mark_committed(sweep.op)
    /\ sweep' = IdleSweep
    /\ UNCHANGED <<token, expired, authority, reservation, profile, request, loop,
                   thread, written, restarts>>

RouteStarts(o) ==
    /\ loop.pc = "idle"
    /\ plan_projection(o)
    /\ loop' = [IdleLoop EXCEPT !.pc = "probing", !.op = o]
    /\ UNCHANGED <<token, expired, authority, reservation, parent, profile, request,
                   sweep, thread, written, restarts>>

RouteFails ==
    /\ loop.pc = "probing"
    /\ ProbeFails(loop.op) \/ BindFails(loop.op)
    /\ loop' = IdleLoop
    /\ UNCHANGED <<token, expired, authority, reservation, request, sweep, thread,
                   written, restarts>>

RouteBinds ==
    /\ loop.pc = "probing"
    /\ Bind(loop.op)
    /\ loop' = [loop EXCEPT !.pc = "bound"]
    /\ UNCHANGED <<token, expired, authority, reservation, request, sweep, thread,
                   written, restarts>>

RouteContended ==
    /\ loop.pc = "probing"
    /\ loop' = IdleLoop
    /\ UNCHANGED <<token, expired, durable, request, sweep, thread, written, restarts>>

RouteCommits ==
    /\ loop.pc = "bound"
    /\ mark_committed(loop.op)
    /\ loop' = IdleLoop
    /\ UNCHANGED <<token, expired, authority, reservation, profile, request, sweep,
                   thread, written, restarts>>

-----------------------------------------------------------------------------
(* Retry validation, forgetting, restart                                   *)

\* Mutant: an older candidate may be validated again.
RetryAnyCandidate(o) ==
    ProjectionFailed(Cand(o)) /\ Cand(o).attempt = "none"

Retryable(o) ==
    /\ ProjectionFailed(Cand(o))
    /\ Latest(o)
    /\ Cand(o).attempt = "none"

claim_retry_attempt(o) ==
    /\ loop.pc = "idle"
    /\ Retryable(o)
    /\ candidate' = [candidate EXCEPT ![o[1]][o[2]].attempt = "running"]
    /\ loop' = [IdleLoop EXCEPT !.pc = "retrying", !.op = o]
    /\ UNCHANGED <<token, expired, authority, reservation, parent, profile, request,
                   sweep, thread, written, restarts>>

\* The snapshot changed, the probe failed, or the profile could not be bound.
RetryFails ==
    /\ loop.pc = "retrying"
    /\ candidate' = [candidate EXCEPT ![loop.op[1]][loop.op[2]].attempt = "none"]
    /\ loop' = IdleLoop
    /\ UNCHANGED <<token, expired, authority, reservation, parent, profile, request,
                   sweep, thread, written, restarts>>

RetryBinds ==
    /\ loop.pc = "retrying"
    /\ ~Leased
    /\ profile' = loop.op
    /\ loop' = [loop EXCEPT !.pc = "retried"]
    /\ UNCHANGED <<token, expired, authority, reservation, parent, candidate, request,
                   sweep, thread, written, restarts>>

RetrySucceeds ==
    /\ loop.pc = "retried"
    /\ candidate' = [candidate EXCEPT ![loop.op[1]][loop.op[2]].attempt = "succeeded"]
    /\ loop' = IdleLoop
    /\ UNCHANGED <<token, expired, authority, reservation, parent, profile, request,
                   sweep, thread, written, restarts>>

forget_operation(o) ==
    /\ loop.pc = "idle"
    /\ ProjectionFailed(Cand(o))
    /\ Cand(o).attempt = "none"
    /\ Cand(o).state # "received"
    /\ candidate' = [candidate EXCEPT ![o[1]][o[2]] =
          [@ EXCEPT !.projection = "none", !.artifacts = FALSE, !.attempt = "none"]]
    /\ UNCHANGED <<token, expired, authority, reservation, parent, profile, request,
                   loop, sweep, thread, written, restarts>>

Restart ==
    /\ restarts < MaxRestarts
    /\ restarts' = restarts + 1
    /\ token' = [t \in Tokens |-> IF token[t].state = "unminted" THEN token[t] ELSE Lost]
    /\ request' = [r \in Requests |-> NoRequest]
    /\ loop' = IdleLoop
    /\ sweep' = IdleSweep
    /\ thread' = [h \in Threads |-> IdleThread]
    /\ UNCHANGED <<expired, durable, written>>

-----------------------------------------------------------------------------
Pool(h) ==
    \/ \E t \in Tokens : CheckToken(h, t)
    \/ ReserveToken(h) \/ WriteRegistration(h) \/ WriteFails(h) \/ CommitToken(h)

Connect(r) ==
    \/ \E t \in DirectTokens : ConnectArrives(r, t)
    \/ ConnectInvalid(r)
    \/ \E id \in Identities : ConnectAdmitted(r, id) \/ ConnectRefused(r, id)

LoopStep ==
    \/ ConnectReserves \/ receive \/ ConnectFaults \/ ConnectReturns
    \/ RouteFails \/ RouteBinds \/ RouteContended \/ RouteCommits
    \/ RetryFails \/ RetryBinds \/ RetrySucceeds

Next ==
    \/ \E t \in Tokens, stored \in BOOLEAN : MintToken(t, stored)
    \/ \E t \in Tokens, s \in Steps : runtime_conformance_checkin(t, s)
    \/ \E t \in Tokens : Expire(t)
    \/ \E h \in Threads : Pool(h)
    \/ \E r \in Requests : Connect(r)
    \/ LoopStep
    \/ \E o \in Operations :
          \/ SweepStarts(o) \/ RouteStarts(o)
          \/ claim_retry_attempt(o) \/ forget_operation(o)
    \/ SweepFails \/ SweepBinds \/ SweepContended \/ SweepCommits
    \/ Restart

Spec == Init /\ [][Next]_vars

-----------------------------------------------------------------------------
(* Properties                                                              *)

\* A token pays for one registration at most, whether the requests that race
\* for it run one after the other or side by side, the token expires or is
\* replaced by a new one meanwhile, or one of them gives it back.
TokenSpentOnce ==
    \A t \in Tokens :
        written[t] + (IF t \in DirectTokens /\ candidate[t] # <<>> /\ candidate[t][1].accepted
                      THEN 1 ELSE 0) <= 1

\* An identity once accepted under a token is never accepted again, also
\* after its operation is forgotten and the daemon restarted.
IdentitiesDistinct ==
    \A t \in DirectTokens : \A m, n \in DOMAIN candidate[t] :
        (m # n /\ candidate[t][m].accepted /\ candidate[t][n].accepted)
        => candidate[t][m].identity # candidate[t][n].identity

\* The sweep, the commit route and retry validation never work on two
\* candidates of one token at once.
OneProbePerToken ==
    ~ /\ sweep.pc # "idle"
      /\ loop.pc \in {"probing", "bound", "retrying", "retried"}
      /\ sweep.op[1] = loop.op[1]

\* The profile is what the committed projection bound when it is recorded
\* as committed: a second writer cannot come in between.
CommittedAsBound ==
    [][\A o \in Operations :
          (Cand(o).projection # "committed" /\ Cand(o)'.projection = "committed")
          => profile = o]_vars

\* A corrected candidate is never displaced by the one it corrects.
NewerStaysBound ==
    [][\A t \in DirectTokens : profile = <<t, 2>> => profile' # <<t, 1>>]_vars

\* An accepted candidate is never stranded: until it is bound or failed, one
\* thread is working on it or the sweep will take it up, whoever died in the
\* middle of it and although nobody calls the commit route.
NeverStranded ==
    \A o \in Operations :
        (Cand(o).accepted /\ Cand(o).state = "received") => Owned(o) \/ Projectable(o)

=============================================================================
