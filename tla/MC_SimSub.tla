------------------------------ MODULE MC_SimSub ------------------------------
(***************************************************************************)
(* A small instance of SimSub: two versions of one manuscript.             *)
(***************************************************************************)
EXTENDS SimSub, TLC

CONSTANTS s1, s2, v1, v2, r1, c1, c2

MCManuscript == (v1 :> 1) @@ (v2 :> 1)

Symmetry ==
  Permutations({s1, s2}) \cup Permutations({v1, v2}) \cup Permutations({c1, c2})
=============================================================================
