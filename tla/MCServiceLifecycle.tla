------------------------- MODULE MCServiceLifecycle -------------------------
(***************************************************************************)
(* Three services in alphabetical order.                                   *)
(***************************************************************************)
EXTENDS ServiceLifecycle

CONSTANTS s1, s2, s3

MCRank == [s \in Services |-> IF s = s1 THEN 1 ELSE IF s = s2 THEN 2 ELSE 3]
=============================================================================
