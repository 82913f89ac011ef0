--------------------------- MODULE MCStreamResume ---------------------------
(***************************************************************************)
(* Instances of StreamResume for TLC; the configurations give the numbers. *)
(***************************************************************************)
EXTENDS StreamResume
=============================================================================
