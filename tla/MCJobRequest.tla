---------------------------- MODULE MCJobRequest -----------------------------
(***************************************************************************)
(* Instances of JobRequest for TLC; the configuration gives the numbers.   *)
(***************************************************************************)
EXTENDS JobRequest
=============================================================================
