---------------------------- MODULE MCScheduler ----------------------------
(***************************************************************************)
(* Instances of Scheduler for TLC.                                         *)
(***************************************************************************)
EXTENDS Scheduler

CONSTANTS a, b

\* a runs at most twice, b (where there is one) has no limit.
MCMaxRuns == [id \in Ids |-> IF id = a THEN 2 ELSE Unlimited]
MCMaxTime == [id \in Ids |-> IF id = a THEN 3 ELSE 1]

=============================================================================
