----------------------------- MODULE MC_Identity -----------------------------
(***************************************************************************)
(* A small instance of Identity.                                           *)
(***************************************************************************)
EXTENDS Identity
=============================================================================
