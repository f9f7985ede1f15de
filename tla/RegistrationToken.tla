--------------------------- MODULE RegistrationToken ---------------------------
(***************************************************************************)
(* The in-memory store of registration tokens, for one profile name: what  *)
(* each of its methods does to the table. A method holds the store's lock, *)
(* so it is one step of whoever calls it. Tokens die with the daemon.      *)
(*                                                                         *)
(* Time is a set of expired tokens; a caller that took the time earlier    *)
(* passes what had expired then. Org-scoped tokens are left out: the route *)
(* that would use one is retired.                                          *)
(***************************************************************************)
EXTENDS Naturals, FiniteSets

CONSTANTS
    DirectTokens,   \* adapter tokens that come with a direct authority
    AdapterTokens,  \* adapter tokens for the submission route
    BinaryTokens,   \* tokens that register the path of a binary
    Steps           \* steps of the conformance challenge

ASSUME KindsAreDisjoint ==
    /\ DirectTokens \cap AdapterTokens = {}
    /\ BinaryTokens \cap (DirectTokens \cup AdapterTokens) = {}

Tokens == DirectTokens \cup AdapterTokens \cup BinaryTokens

VARIABLES
    token,    \* the table, and the challenge of each token
    expired   \* tokens whose time to live is over

TokenRecord ==
    [state : {"unminted", "minted", "lost"}, consumed : BOOLEAN,
     reserved : BOOLEAN, arrived : SUBSET Steps]

Unminted == [state |-> "unminted", consumed |-> FALSE, reserved |-> FALSE, arrived |-> {}]
Lost == [Unminted EXCEPT !.state = "lost"]

SamePurpose(t) == IF t \in BinaryTokens THEN BinaryTokens ELSE DirectTokens \cup AdapterTokens

\* A new token ends the ones minted before it for the same purpose, the
\* reserved ones too. If its companion record cannot be stored the new one
\* is withdrawn and the old ones stay ended.
mint_runtime(t, stored) ==
    [u \in Tokens |->
        IF u = t THEN [Unminted EXCEPT !.state = IF stored THEN "minted" ELSE "lost"]
        ELSE IF u \in SamePurpose(t) /\ token[u].state = "minted" THEN [token[u] EXCEPT !.consumed = TRUE]
        ELSE token[u]]

\* Mutant: a reserved token is still valid.
ValidWhileReserved(t, late) ==
    token[t].state = "minted" /\ ~token[t].consumed /\ t \notin late

validate_runtime(t, late) ==
    /\ token[t].state = "minted"
    /\ ~token[t].consumed /\ ~token[t].reserved
    /\ t \notin late

\* These leave the table alone when the token is not theirs to change.
consume_runtime(t, late) ==
    IF validate_runtime(t, late) THEN [token EXCEPT ![t].consumed = TRUE] ELSE token

reserve_runtime(t) == [token EXCEPT ![t].reserved = TRUE]

commit_runtime(t) ==
    IF token[t].reserved
    THEN [token EXCEPT ![t].consumed = TRUE, ![t].reserved = FALSE] ELSE token

release_runtime(t) == [token EXCEPT ![t].reserved = FALSE]

record_step_arrival_runtime(t, s) == [token EXCEPT ![t].arrived = @ \cup {s}]

all_steps_complete(t) == token[t].arrived = Steps

=============================================================================
