---------------------------- MODULE MCDirectConnect ----------------------------
(***************************************************************************)
(* The instance of DirectConnect for TLC.                                  *)
(***************************************************************************)
EXTENDS DirectConnect

Symmetry == Permutations(DirectTokens) \cup Permutations(Identities) \cup Permutations(Threads)
=============================================================================
