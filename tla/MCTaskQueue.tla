---------------------------- MODULE MCTaskQueue ----------------------------
(* Small instances of TaskQueue for TLC. *)
EXTENDS TaskQueue, TLC

CONSTANTS k1, o1, p1, p2, c1, c2, w1, w2, w3

OneSlug == [k \in {k1} |-> o1]

Interchangeable == Permutations({p1, p2}) \cup Permutations({w1, w2, w3})

=============================================================================
