----------------------------- MODULE MCGroupIds ------------------------------
(***************************************************************************)
(* Instances of GroupIds for TLC.                                          *)
(***************************************************************************)
EXTENDS GroupIds, TLC

CONSTANTS gemma, Gemma, phi, qwen,  \* two spellings with one slug, and two others
          model, mmproj,            \* a primary and its projector
          c1, c2

\* Clients are alike, and so are the two spellings.
MCSymmetry == Permutations(Clients) \cup Permutations({gemma, Gemma})
MCSlugs == {1, 2, 3}
MCSlugOf == [n \in Names |-> CASE n = phi -> 2 [] n = qwen -> 3 [] OTHER -> 1]
=============================================================================
