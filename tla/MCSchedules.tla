------------------------------ MODULE MCSchedules ------------------------------
(* A small instance of Schedules for TLC. *)
EXTENDS Schedules

CONSTANTS s1, o1

=============================================================================
