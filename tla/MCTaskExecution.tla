-------------------------- MODULE MCTaskExecution --------------------------
(***************************************************************************)
(* Small instances of TaskExecution.                                       *)
(***************************************************************************)
EXTENDS JobRefinement, TLC

CONSTANTS j1, j2, j3, t1, t2, t3, t4

\* The attributes of the jobs: j1 is urgent and retried once, j2 is older and
\* not retried, j3 ties with j2.
MCRetries == [j \in Jobs |-> IF j = j1 THEN 1 ELSE 0]
MCPriority == [j \in Jobs |-> IF j = j1 THEN 30 ELSE 20]
MCCreatedAt == [j \in Jobs |-> IF j = j1 THEN 2 ELSE 1]

\* A client submits j2 twice, or every job once.
MCTwice == [j \in Jobs |-> IF j = j2 THEN 2 ELSE 1]
MCOnce == [j \in Jobs |-> 1]

ThreadSymmetry == Permutations(Threads)
=============================================================================
