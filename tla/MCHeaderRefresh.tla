--------------------------- MODULE MCHeaderRefresh ---------------------------
(***************************************************************************)
(* Instances of HeaderRefresh for TLC; the configurations give the         *)
(* readers, which are model values, and the numbers.                       *)
(***************************************************************************)
EXTENDS HeaderRefresh
=============================================================================
