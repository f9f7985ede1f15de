-------------------------------- MODULE MCJobs ---------------------------------
(***************************************************************************)
(* A small instance of Jobs: one job, whose own races are the question, and *)
(* two clients, which may subscribe at different moments.                  *)
(***************************************************************************)
EXTENDS Jobs
CONSTANTS j1, c1, c2
================================================================================
