----------------------------- MODULE MCCatalogue -----------------------------
(***************************************************************************)
(* Instances of Catalogue for TLC.                                         *)
(***************************************************************************)
EXTENDS Catalogue, TLC

CONSTANTS gemma, Gemma, qwen,   \* two spellings with one slug, and another
          dots,                 \* a name with no slug
          model, mmproj         \* a primary and its projector

MCSlugs == {1, 2}
MCSlugOf == [n \in Names |-> CASE n = qwen -> 2 [] n = dots -> 0 [] OTHER -> 1]
=============================================================================
