---------------------------- MODULE MC_Pipeline ----------------------------
(***************************************************************************)
(* Small instances of Pipeline.                                            *)
(***************************************************************************)
EXTENDS Pipeline

CONSTANTS e1
=============================================================================
