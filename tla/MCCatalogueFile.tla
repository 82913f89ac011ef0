--------------------------- MODULE MCCatalogueFile ---------------------------
(***************************************************************************)
(* Instances of CatalogueFile for TLC: every constant is a model value or  *)
(* a number given in the configurations.                                   *)
(***************************************************************************)
EXTENDS CatalogueFile
=============================================================================
