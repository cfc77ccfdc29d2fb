------------------------------ MODULE MCLogPull ------------------------------
(***************************************************************************)
(* A small instance of LogPull: two files, two calls.                      *)
(***************************************************************************)
EXTENDS LogPull, TLC

CONSTANTS p1, p2, f1, f2

MCFileList == <<f1, f2>>
MCSymmetry == Permutations(Pulls)
=============================================================================
