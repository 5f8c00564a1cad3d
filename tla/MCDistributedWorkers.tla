------------------------ MODULE MCDistributedWorkers ------------------------
(***************************************************************************)
(* Small instances of DistributedWorkers.                                  *)
(***************************************************************************)
EXTENDS DistributedWorkers, TLC

CONSTANTS j1, j2, t1, w1, w2

\* j1 asks for a capability, is retried once, and prefers no worker; j2 has a
\* string target and names w1.
MCRetries == [j \in Jobs |-> IF j = j1 THEN 1 ELSE 0]
MCPriority == [j \in Jobs |-> 20]
MCCreatedAt == [j \in Jobs |-> IF j = j1 THEN 1 ELSE 2]
MCOnce == [j \in Jobs |-> 1]
MCExplicit == [j \in Jobs |-> IF j = j2 THEN w1 ELSE NoNode]
MCCapable == [j \in Jobs |-> IF j = j2 THEN {w2} \cap Nodes ELSE {}]
=============================================================================
