---------------------------- MODULE RuntimeLocks ----------------------------
(***************************************************************************)
(* The order in which the runtime's operations take its re-entrant locks:  *)
(* RuntimeOrchestrator._lock, Scheduler._lock, TaskExecutionEngine._lock,  *)
(* DistributedWorkerManager._lock, WorkerNode._lock, Job._lock,            *)
(* JobQueue._lock, ScheduledJob._lock and the storage provider's lock.  An *)
(* operation is the sequence of acquisitions and releases its code goes    *)
(* through on its longest path; everything else it does is left out.       *)
(***************************************************************************)
EXTENDS Integers, Sequences

CONSTANTS
    Callers,   \* threads that call operations
    Nobody,
    Called     \* the operations they call

Locks == {"orchestrator", "scheduler", "engine", "manager", "node", "job", "queue",
          "scheduled_job", "storage"}

-----------------------------------------------------------------------------
(* The programs *)

Holding(l, body) ==
    <<[act |-> "acquire", lock |-> l]>> \o body \o <<[act |-> "release", lock |-> l]>>
Touch(l) == Holding(l, <<>>)

GetJob == Touch("engine")
ListWorkers == Touch("manager")

AssignJob == Holding("manager", GetJob \o Holding("node", Touch("job")))

SubmitJob ==
    Holding("engine", Touch("job") \o ListWorkers \o AssignJob \o Touch("queue"))

\* Mutant: the manager is told of the cancellation under the engine's lock.
CancelJobNotifying == Holding("engine", Touch("job") \o ListWorkers)

CancelJob == Holding("engine", Touch("job"))

ClearJobs == Holding("engine", Touch("job"))

ShutdownEngine == Holding("engine", Touch("queue"))

ReportJobStatus ==
    Holding("manager", GetJob \o Holding("job", Touch("node")) \o Touch("job") \o Touch("node"))

SendHeartbeat == Holding("manager", Touch("node"))

MonitorWorkers == Holding("manager", Touch("node") \o Touch("job") \o Touch("queue"))

ScheduleJob == Holding("scheduler", Touch("scheduled_job") \o Touch("storage"))

\* start and stop keep the orchestrator's lock while they call every service.
StopRuntime ==
    Holding("orchestrator", Touch("scheduler") \o Touch("manager") \o ShutdownEngine)

Programs ==
    [submit_job |-> SubmitJob, assign_job |-> AssignJob, cancel_job |-> CancelJob,
     clear_jobs |-> ClearJobs, shutdown |-> ShutdownEngine,
     report_job_status |-> ReportJobStatus, send_heartbeat |-> SendHeartbeat,
     monitor_workers |-> MonitorWorkers, schedule_job |-> ScheduleJob, stop |-> StopRuntime]

ASSUME CalledAssumption == Called \subseteq DOMAIN Programs /\ Nobody \notin Callers

-----------------------------------------------------------------------------
(* The threads *)

VARIABLES
    todo,    \* what each caller still has to do of its operation
    owner,   \* the thread that holds each lock, or Nobody
    depth    \* how often it has acquired it

vars == <<todo, owner, depth>>

Init ==
    /\ todo = [c \in Callers |-> <<>>]
    /\ owner = [l \in Locks |-> Nobody]
    /\ depth = [l \in Locks |-> 0]

Call(c) ==
    /\ todo[c] = <<>>
    /\ \E o \in Called : todo' = [todo EXCEPT ![c] = Programs[o]]
    /\ UNCHANGED <<owner, depth>>

Wants(c, act) == todo[c] # <<>> /\ Head(todo[c]).act = act

Acquire(c) ==
    /\ Wants(c, "acquire")
    /\ LET l == Head(todo[c]).lock IN
          /\ owner[l] \in {Nobody, c}
          /\ owner' = [owner EXCEPT ![l] = c]
          /\ depth' = [depth EXCEPT ![l] = @ + 1]
    /\ todo' = [todo EXCEPT ![c] = Tail(@)]

Release(c) ==
    /\ Wants(c, "release")
    /\ LET l == Head(todo[c]).lock IN
          /\ owner' = [owner EXCEPT ![l] = IF depth[l] = 1 THEN Nobody ELSE @]
          /\ depth' = [depth EXCEPT ![l] = @ - 1]
    /\ todo' = [todo EXCEPT ![c] = Tail(@)]

Next == \E c \in Callers : Call(c) \/ Acquire(c) \/ Release(c)

Spec == Init /\ [][Next]_vars

-----------------------------------------------------------------------------
(* Properties *)

\* No group of threads waits for locks held by one another.  The documentation
\* calls the engine "centralized, thread-safe, and modular"
\* (docs/architecture.md:356).  submit_job takes the engine's lock and then the
\* manager's (engine.py:76, 95); reports and assignments take them the other
\* way round (distributed.py:468, 477; 388, 402).
NoCircularWait ==
    \A S \in (SUBSET Callers) \ {{}} :
        ~ \A c \in S : Wants(c, "acquire") /\ owner[Head(todo[c]).lock] \in S \ {c}
=============================================================================
