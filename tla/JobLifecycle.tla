---------------------------- MODULE JobLifecycle ----------------------------
(***************************************************************************)
(* What the Task Execution Engine promises about a job that is submitted   *)
(* once, without queue, threads or locks: it waits, a worker clears it for *)
(* execution unless its cancellation was asked for, its target runs, and   *)
(* it is retried as often as it has retries and no more.  Only the last    *)
(* attempt can fail the job, a reported outcome stays, and a job that      *)
(* leaves without one was cancelled, or dropped because the engine was     *)
(* closing, or took its thread down.                                       *)
(***************************************************************************)
EXTENDS Naturals

CONSTANTS Jobs, Retries

VARIABLES phase,    \* where each job is in its life
          asked,    \* its cancellation was asked for
          begun,    \* how often its target was started
          closing   \* the engine is shutting down

jlVars == <<phase, asked, begun, closing>>

JlInit == /\ phase = [j \in Jobs |-> "new"]
          /\ asked = [j \in Jobs |-> FALSE]
          /\ begun = [j \in Jobs |-> 0]
          /\ closing = FALSE

Moves(j, from, to) == phase[j] = from /\ phase' = [phase EXCEPT ![j] = to]
Same == UNCHANGED <<asked, begun, closing>>

Submit(j) == ~closing /\ Moves(j, "new", "waiting") /\ Same

Ask(j) == /\ phase[j] \notin {"completed", "failed"}
          /\ asked' = [asked EXCEPT ![j] = TRUE]
          /\ UNCHANGED <<phase, begun, closing>>

Clear(j) == ~asked[j] /\ Moves(j, "waiting", "cleared") /\ Same

Start(j) == /\ Moves(j, "cleared", "running")
            /\ begun' = [begun EXCEPT ![j] = @ + 1]
            /\ UNCHANGED <<asked, closing>>

Return(j) == Moves(j, "running", "returned") /\ Same
Retry(j)  == begun[j] <= Retries[j] /\ Moves(j, "running", "waiting") /\ Same
GiveUp(j) == begun[j] > Retries[j] /\ Moves(j, "running", "exhausted") /\ Same

Report(j) == /\ Moves(j, "returned", "completed") \/ Moves(j, "exhausted", "failed")
             /\ Same

\* Waiting jobs leave together when the queue is emptied.
Leave(S) == /\ \A j \in S : phase[j] = "waiting" /\ (asked[j] \/ closing)
            /\ phase' = [j \in Jobs |-> IF j \in S THEN "gone" ELSE phase[j]]
            /\ UNCHANGED <<asked, begun>>

\* A target that raises SystemExit.
Vanish(j) == Moves(j, "running", "gone") /\ Same

Close == closing' = ~closing /\ UNCHANGED <<phase, asked, begun>>

JlNext == \/ \E j \in Jobs : \/ Submit(j) \/ Ask(j) \/ Clear(j) \/ Start(j) \/ Return(j)
                             \/ Retry(j) \/ GiveUp(j) \/ Report(j) \/ Vanish(j)
          \/ \E S \in SUBSET Jobs : Leave(S) /\ closing' \in {closing, FALSE}
          \/ Close

JlSpec == JlInit /\ [][JlNext]_jlVars
=============================================================================
