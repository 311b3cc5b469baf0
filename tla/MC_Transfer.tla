----------------------------- MODULE MC_Transfer -----------------------------
(***************************************************************************)
(* A small instance of Transfer.                                           *)
(***************************************************************************)
EXTENDS Transfer

CONSTANTS f1, f2, w1, w2
=============================================================================
