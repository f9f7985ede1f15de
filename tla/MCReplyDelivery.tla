--------------------------- MODULE MCReplyDelivery ---------------------------
(***************************************************************************)
(* Instances of ReplyDelivery for TLC. Agents and workers are              *)
(* interchangeable where only safety is checked.                           *)
(***************************************************************************)
EXTENDS ReplyDelivery, TLC

Symmetry == Permutations(Agents) \cup Permutations(Workers)
=============================================================================
