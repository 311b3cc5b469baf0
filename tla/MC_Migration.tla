---------------------------- MODULE MC_Migration ----------------------------
(***************************************************************************)
(* A small instance of Migration: one organization on each instance.       *)
(***************************************************************************)
EXTENDS Migration, TLC

CONSTANTS A, B, o1, o2, m1, m2, s1, p1, p2

MCHome == (o1 :> A) @@ (o2 :> B)
=============================================================================
