----------------------------- MODULE MC_Outbox ------------------------------
(* Small instances of Outbox.                                              *)
EXTENDS Outbox, TLC

CONSTANTS p1, p2   \* two API instances

TwoPollers == {p1, p2}
FirstIsPoison == {1}
PollerSymmetry == Permutations(TwoPollers)
=============================================================================
