---------------------------- MODULE MC_Contract ----------------------------
(***************************************************************************)
(* Small instances of Contract.                                            *)
(***************************************************************************)
EXTENDS Contract

CONSTANTS h1, h2

=============================================================================
