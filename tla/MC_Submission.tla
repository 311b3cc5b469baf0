--------------------------- MODULE MC_Submission ---------------------------
(***************************************************************************)
(* Small instances of Submission.                                          *)
(***************************************************************************)
EXTENDS Submission, TLC

CONSTANTS s1, s2, v1, v2, r1, r2

One == {s1}
Two == {s1, s2}

NoBatch == {}
Single == {<<s1>>}
Distinct == {<<s1, s2>>}

RequestSymmetry == Permutations(Requests)
=============================================================================
