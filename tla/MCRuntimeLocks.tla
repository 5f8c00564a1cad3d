--------------------------- MODULE MCRuntimeLocks ---------------------------
(***************************************************************************)
(* Three threads: enough for every cycle among the locks that two or three *)
(* operations can close.                                                   *)
(***************************************************************************)
EXTENDS RuntimeLocks, TLC

CallerSymmetry == Permutations(Callers)
=============================================================================
