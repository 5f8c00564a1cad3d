--------------------------- MODULE JobRefinement ---------------------------
(***************************************************************************)
(* TaskExecution implements JobLifecycle for jobs that are submitted once: *)
(* the phase of a job follows from where its one entry is and from the     *)
(* worker that holds it.                                                   *)
(***************************************************************************)
EXTENDS TaskExecution

HeldAt(j, pcs) == \E t \in Threads : held[t] = j /\ pc[t] \in pcs

PhaseOf(j) ==
    CASE submits[j] = 0              -> "new"
      [] HeldAt(j, Executing)        -> "running"
      [] HeldAt(j, {"complete"})     -> "returned"
      [] HeldAt(j, {"fail"})         -> "exhausted"
      [] HeldAt(j, {"start"})        -> "cleared"
      [] HeldAt(j, {"check", "retry", "requeue"}) \/ j \in QueuedJobs -> "waiting"
      [] OTHER -> IF status[j] \in Finished THEN status[j] ELSE "gone"

Lifecycles == INSTANCE JobLifecycle
    WITH phase <- [j \in Jobs |-> PhaseOf(j)], asked <- cancelled, begun <- attempts,
         closing <- shuttingDown

\* Every step of the engine, its clients and its workers is a step of the life
\* of a job or none at all: retries come to an end, a cancellation that was
\* asked for before the worker's check is honoured, an outcome stays, and
\* nothing is lost while the engine is not closing (worker.py:45-103,
\* engine.py:55-68, 155-165).
ImplementsJobLifecycle == Lifecycles!JlSpec
============================================================================
