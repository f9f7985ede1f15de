---------------------------- MODULE MCTaskLifecycle ----------------------------
(* Small instances of TaskLifecycle for TLC. *)
EXTENDS TaskLifecycle, TLC

CONSTANTS a1, a2, r1, sweeper, reaper

SymmetricWorkers == Permutations({a1, a2})

=============================================================================
