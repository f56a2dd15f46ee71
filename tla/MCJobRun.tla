------------------------------- MODULE MCJobRun -------------------------------
(***************************************************************************)
(* One run of a job of two steps, with everything that can happen to it.   *)
(***************************************************************************)
EXTENDS JobRun
===============================================================================
