---------------------------- MODULE MC_FileScan ----------------------------
(***************************************************************************)
(* Small instances of FileScan.                                            *)
(***************************************************************************)
EXTENDS FileScan

CONSTANTS f1, f2, p1, p2, w1, w2
=============================================================================
