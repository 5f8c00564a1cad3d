--------------------------- MODULE TaskExecution ---------------------------
(***************************************************************************)
(* The Task Execution Engine: Job objects (execution/models.py), the       *)
(* priority queue (execution/queue.py), the worker threads                 *)
(* (execution/worker.py) and the engine that owns them                     *)
(* (execution/engine.py).                                                  *)
(*                                                                         *)
(* A step is what one thread does between two points where another thread  *)
(* can be seen: each Job attribute has its own lock, the queue has one,    *)
(* and the engine's operations hold TaskExecutionEngine._lock throughout.  *)
(* Logging and the payload of events are left out.                         *)
(***************************************************************************)
EXTENDS Integers, FiniteSets

CONSTANTS
    Jobs,          \* the Job objects clients create
    Threads,       \* identities of JobWorker threads, old and new
    NoJob,         \* "no job", and "no active context"
    NumWorkers,    \* configuration key execution.workers
    Retries,       \* Job.retries
    Priority,      \* Job.priority
    CreatedAt,     \* Job.created_at
    Timed,         \* the jobs with a positive timeout
    HasContext,    \* the jobs whose context_id names a live RuntimeContext
    MayExit,       \* the jobs whose target may raise SystemExit
    MaxSubmits,    \* bound: calls of submit_job per job
    MaxShutdowns   \* bound: calls of shutdown

ASSUME NoJobAssumption == NoJob \notin Jobs
ASSUME AttributesAssumption ==
    /\ Retries \in [Jobs -> Nat]
    /\ Priority \in [Jobs -> Int]
    /\ CreatedAt \in [Jobs -> Nat]
ASSUME SubsetsAssumption ==
    Timed \subseteq Jobs /\ HasContext \subseteq Jobs /\ MayExit \subseteq Jobs
ASSUME BoundsAssumption ==
    NumWorkers \in Nat /\ MaxSubmits \in [Jobs -> Nat] /\ MaxShutdowns \in Nat
ASSUME ThreadsAssumption == IsFiniteSet(Threads)

VARIABLES
    status, cancelled, retryCount,  \* attributes of each Job
    registry,                       \* TaskExecutionEngine._jobs
    memory,                         \* status under job_execution:<id>, or "none"
    queue, counter,                 \* JobQueue._queue and its _counter
    pc, held,                       \* each worker's position and its job
    context,                        \* the context active in each worker
    stopped,                        \* JobWorker._stop_event
    executing,                      \* <<t, j>>: target of j runs on behalf of t
    workers,                        \* TaskExecutionEngine._workers
    shuttingDown, toJoin,           \* shutdown() holds the lock; still to join
    submits, attempts, dropped, shutdowns  \* history

jobVars == <<status, cancelled, retryCount>>
queueVars == <<queue, counter>>
workerVars == <<pc, held, context, executing>>
engineVars == <<registry, memory, workers, stopped, shuttingDown, toJoin>>
historyVars == <<submits, attempts, dropped, shutdowns>>
vars == <<jobVars, queueVars, workerVars, engineVars, historyVars>>

-----------------------------------------------------------------------------
(* Jobs and the queue *)

JobStatus == {"pending", "queued", "running", "completed", "failed", "cancelled"}
Finished == {"completed", "failed"}
Terminal == Finished \cup {"cancelled"}
\* Mutant: clear_jobs forgets running jobs.
ActiveStatusesNoRunning == {"pending", "queued"}

ActiveStatuses == {"pending", "queued", "running"}

\* The order of the tuples (-priority, created_at, counter, job).
Before(e, f) ==
    \/ Priority[e.job] > Priority[f.job]
    \/ /\ Priority[e.job] = Priority[f.job]
       /\ \/ CreatedAt[e.job] < CreatedAt[f.job]
          \/ CreatedAt[e.job] = CreatedAt[f.job] /\ e.seq < f.seq

QueueHeads == {e \in queue : \A f \in queue \ {e} : Before(e, f)}

QueuedJobs == {e.job : e \in queue}

Put(j) ==
    /\ counter' = counter + 1
    /\ queue' = queue \cup {[job |-> j, seq |-> counter + 1]}

SetStatus(j, s) == status' = [status EXCEPT ![j] = s]

-----------------------------------------------------------------------------
(* Clients.  An operation of the engine needs its lock, which shutdown()   *)
(* keeps while it joins the workers.                                       *)

EngineLockFree == ~shuttingDown

\* Without registered distributed workers submit_job always takes the local
\* fallback.  Nothing stops a client from submitting the same Job again.
SubmitJob(j) ==
    /\ EngineLockFree
    /\ submits[j] < MaxSubmits[j]
    /\ registry' = registry \cup {j}
    /\ SetStatus(j, "queued")
    /\ Put(j)
    /\ submits' = [submits EXCEPT ![j] = @ + 1]
    /\ dropped' = dropped \ {j}
    /\ UNCHANGED <<cancelled, retryCount, workerVars, memory, workers, stopped,
                   shuttingDown, toJoin, attempts, shutdowns>>

\* Mutant: cancel() does not look at the status.
CancelUnguarded(j) ==
    /\ cancelled' = [cancelled EXCEPT ![j] = TRUE]
    /\ SetStatus(j, "cancelled")
    /\ UNCHANGED <<retryCount, queueVars, workerVars, engineVars, historyVars>>

\* Job.cancel() returning True.
Cancel(j) ==
    /\ status[j] \notin Terminal
    /\ cancelled' = [cancelled EXCEPT ![j] = TRUE]
    /\ SetStatus(j, "cancelled")
    /\ UNCHANGED <<retryCount, queueVars, workerVars, engineVars, historyVars>>

CancelJob(j) ==
    /\ EngineLockFree
    /\ j \in registry
    /\ Cancel(j)

ClearJobs ==
    /\ EngineLockFree
    /\ registry' = {j \in registry : status[j] \in ActiveStatuses}
    /\ UNCHANGED <<jobVars, queueVars, workerVars, memory, workers, stopped,
                   shuttingDown, toJoin, historyVars>>

-----------------------------------------------------------------------------
(* Starting and stopping the workers *)

\* Mutant: initialize() without its early return.
InitializeTwice ==
    /\ EngineLockFree
    /\ \E S \in SUBSET {t \in Threads : pc[t] = "off"} :
          /\ Cardinality(S) = NumWorkers
          /\ workers' = workers \cup S
          /\ stopped' = [t \in Threads |-> IF t \in S THEN FALSE ELSE stopped[t]]
          /\ pc' = [t \in Threads |-> IF t \in S THEN "loop" ELSE pc[t]]
    /\ UNCHANGED <<jobVars, queueVars, held, context, executing, registry, memory,
                   shuttingDown, toJoin, historyVars>>

Initialize ==
    /\ EngineLockFree
    /\ workers = {}
    /\ \E S \in SUBSET {t \in Threads : pc[t] = "off"} :
          /\ Cardinality(S) = NumWorkers
          /\ workers' = S
          /\ stopped' = [t \in Threads |-> IF t \in S THEN FALSE ELSE stopped[t]]
          /\ pc' = [t \in Threads |-> IF t \in S THEN "loop" ELSE pc[t]]
    /\ UNCHANGED <<jobVars, queueVars, held, context, executing, registry, memory,
                   shuttingDown, toJoin, historyVars>>

ShutdownStop ==
    /\ EngineLockFree
    /\ shutdowns < MaxShutdowns
    /\ shutdowns' = shutdowns + 1
    /\ shuttingDown' = TRUE
    /\ toJoin' = workers
    /\ stopped' = [t \in Threads |-> stopped[t] \/ t \in workers]
    /\ UNCHANGED <<jobVars, queueVars, workerVars, registry, memory, workers,
                   submits, attempts, dropped>>

\* Mutant: join() without a timeout.
ShutdownJoinForever(t) ==
    /\ shuttingDown
    /\ t \in toJoin /\ pc[t] = "off"
    /\ toJoin' = toJoin \ {t}
    /\ UNCHANGED <<jobVars, queueVars, workerVars, registry, memory, workers,
                   stopped, shuttingDown, historyVars>>

\* join(timeout=2.0) returns: the thread ended, or two seconds passed.
ShutdownJoin(t) ==
    /\ shuttingDown
    /\ t \in toJoin
    /\ toJoin' = toJoin \ {t}
    /\ UNCHANGED <<jobVars, queueVars, workerVars, registry, memory, workers,
                   stopped, shuttingDown, historyVars>>

\* _workers.clear(), queue.clear(), and the lock is released.
ShutdownClear ==
    /\ shuttingDown
    /\ toJoin = {}
    /\ workers' = {}
    /\ dropped' = dropped \cup QueuedJobs
    /\ queue' = {}
    /\ shuttingDown' = FALSE
    /\ UNCHANGED <<jobVars, counter, workerVars, registry, memory, stopped,
                   toJoin, submits, attempts, shutdowns>>

-----------------------------------------------------------------------------
(* The worker thread *)

At(t, l) == pc[t] = l
GoTo(t, l) == pc' = [pc EXCEPT ![t] = l]

\* Mutant: no finally clause.
EndJobInContext(t) ==
    /\ GoTo(t, "loop")
    /\ held' = [held EXCEPT ![t] = NoJob]
    /\ UNCHANGED context

\* _process_job is over: the finally clause resets the context, run() loops.
EndJob(t) ==
    /\ GoTo(t, "loop")
    /\ held' = [held EXCEPT ![t] = NoJob]
    /\ context' = [context EXCEPT ![t] = NoJob]

\* Mutant: while True.
CheckStopIgnored(t) ==
    /\ At(t, "loop")
    /\ GoTo(t, "get")
    /\ UNCHANGED <<jobVars, queueVars, held, context, executing, engineVars, historyVars>>

\* while not self._stop_event.is_set()
CheckStop(t) ==
    /\ At(t, "loop")
    /\ GoTo(t, IF stopped[t] THEN "off" ELSE "get")
    /\ UNCHANGED <<jobVars, queueVars, held, context, executing, engineVars, historyVars>>

TakeJob(t) ==
    /\ At(t, "get")
    /\ \E e \in QueueHeads :
          /\ queue' = queue \ {e}
          /\ held' = [held EXCEPT ![t] = e.job]
    /\ GoTo(t, "check")
    /\ UNCHANGED <<jobVars, counter, context, executing, engineVars, historyVars>>

\* Mutant: the handler of queue.Empty does not continue.
QueueEmptyFallsThrough(t) ==
    /\ At(t, "get")
    /\ queue = {}
    /\ GoTo(t, "check")
    /\ UNCHANGED <<jobVars, queueVars, held, context, executing, engineVars, historyVars>>

\* queue.Empty after half a second.
QueueEmpty(t) ==
    /\ At(t, "get")
    /\ queue = {}
    /\ GoTo(t, "loop")
    /\ UNCHANGED <<jobVars, queueVars, held, context, executing, engineVars, historyVars>>

\* Mutant: only the status is looked at.
IsCancelledByStatus(j) == status[j] = "cancelled"

\* The cooperative check before execution.
IsCancelled(j) == cancelled[j] \/ status[j] = "cancelled"

SkipCancelled(t) ==
    /\ At(t, "check")
    /\ IsCancelled(held[t])
    /\ SetStatus(held[t], "cancelled")
    /\ EndJob(t)
    /\ UNCHANGED <<cancelled, retryCount, queueVars, executing, engineVars, historyVars>>

NotCancelled(t) ==
    /\ At(t, "check")
    /\ ~IsCancelled(held[t])
    /\ GoTo(t, "start")
    /\ UNCHANGED <<jobVars, queueVars, held, context, executing, engineVars, historyVars>>

\* Nothing is re-read between the check and job.status = RUNNING.
StartJob(t) ==
    LET j == held[t] IN
    /\ At(t, "start")
    /\ SetStatus(j, "running")
    /\ context' = [context EXCEPT ![t] = IF j \in HasContext THEN j ELSE NoJob]
    /\ executing' = executing \cup {<<t, j>>}
    /\ attempts' = [attempts EXCEPT ![j] = @ + 1]
    /\ GoTo(t, "run")
    /\ UNCHANGED <<cancelled, retryCount, queueVars, held, engineVars, submits,
                   dropped, shutdowns>>

\* The context the target sees: a job with a timeout runs in a fresh pool
\* thread, and context variables are not inherited by new threads.
TargetContext(t) == IF held[t] \in Timed THEN NoJob ELSE context[t]

TargetDone(t) == executing' = executing \ {<<t, held[t]>>}

\* Mutant: one retry too many.
HandleErrorOffByOne(t) ==
    GoTo(t, IF retryCount[held[t]] <= Retries[held[t]] THEN "retry" ELSE "fail")

\* if job.retry_count < job.retries
HandleError(t) ==
    GoTo(t, IF retryCount[held[t]] < Retries[held[t]] THEN "retry" ELSE "fail")

TargetReturns(t) ==
    /\ At(t, "run")
    /\ TargetDone(t)
    /\ GoTo(t, "complete")
    /\ UNCHANGED <<jobVars, queueVars, held, context, engineVars, historyVars>>

TargetRaises(t) ==
    /\ At(t, "run")
    /\ TargetDone(t)
    /\ HandleError(t)
    /\ UNCHANGED <<jobVars, queueVars, held, context, engineVars, historyVars>>

\* Mutant: the pool is shut down without waiting for the target.
TimeoutFiresNoWait(t) ==
    /\ At(t, "run")
    /\ held[t] \in Timed
    /\ HandleError(t)
    /\ UNCHANGED <<jobVars, queueVars, held, context, executing, engineVars, historyVars>>

\* future.result(timeout) expires; leaving the with block waits for the target.
TimeoutFires(t) ==
    /\ At(t, "run")
    /\ held[t] \in Timed
    /\ GoTo(t, "drain")
    /\ UNCHANGED <<jobVars, queueVars, held, context, executing, engineVars, historyVars>>

LateTargetEnds(t) ==
    /\ At(t, "drain")
    /\ TargetDone(t)
    /\ HandleError(t)
    /\ UNCHANGED <<jobVars, queueVars, held, context, engineVars, historyVars>>

\* SystemExit passes both "except Exception" clauses: only the finally runs,
\* and the thread ends.
TargetExits(t) ==
    /\ At(t, "run")
    /\ held[t] \in MayExit
    /\ TargetDone(t)
    /\ GoTo(t, "off")
    /\ held' = [held EXCEPT ![t] = NoJob]
    /\ context' = [context EXCEPT ![t] = NoJob]
    /\ UNCHANGED <<jobVars, queueVars, engineVars, historyVars>>

\* Mutant: the outcome is saved before the status is set.
CompleteJobUnset(t) ==
    /\ At(t, "complete")
    /\ GoTo(t, "save")
    /\ UNCHANGED <<jobVars, queueVars, held, context, executing, engineVars, historyVars>>

CompleteJob(t) ==
    /\ At(t, "complete")
    /\ SetStatus(held[t], "completed")
    /\ GoTo(t, "save")
    /\ UNCHANGED <<cancelled, retryCount, queueVars, held, context, executing,
                   engineVars, historyVars>>

FailJob(t) ==
    /\ At(t, "fail")
    /\ SetStatus(held[t], "failed")
    /\ GoTo(t, "save")
    /\ UNCHANGED <<cancelled, retryCount, queueVars, held, context, executing,
                   engineVars, historyVars>>

\* _save_to_memory reads job.status again.
SaveToMemory(t) ==
    /\ At(t, "save")
    /\ memory' = [memory EXCEPT ![held[t]] = status[held[t]]]
    /\ EndJob(t)
    /\ UNCHANGED <<jobVars, queueVars, executing, registry, workers, stopped,
                   shuttingDown, toJoin, historyVars>>

RetryJob(t) ==
    /\ At(t, "retry")
    /\ retryCount' = [retryCount EXCEPT ![held[t]] = @ + 1]
    /\ SetStatus(held[t], "queued")
    /\ GoTo(t, "requeue")
    /\ UNCHANGED <<cancelled, queueVars, held, context, executing, engineVars, historyVars>>

\* Mutant: the job is not put back.
RequeueLost(t) ==
    /\ At(t, "requeue")
    /\ EndJob(t)
    /\ UNCHANGED <<jobVars, queueVars, executing, engineVars, historyVars>>

\* Mutant: the retry is also put in the queue for a second worker.
RequeueTwice(t) ==
    /\ At(t, "requeue")
    /\ counter' = counter + 2
    /\ queue' = queue \cup {[job |-> held[t], seq |-> counter + n] : n \in 1..2}
    /\ EndJob(t)
    /\ UNCHANGED <<jobVars, executing, engineVars, historyVars>>

Requeue(t) ==
    /\ At(t, "requeue")
    /\ Put(held[t])
    /\ EndJob(t)
    /\ UNCHANGED <<jobVars, executing, engineVars, historyVars>>

-----------------------------------------------------------------------------
(* The specification *)

Init ==
    /\ status = [j \in Jobs |-> "pending"]
    /\ cancelled = [j \in Jobs |-> FALSE]
    /\ retryCount = [j \in Jobs |-> 0]
    /\ registry = {}
    /\ memory = [j \in Jobs |-> "none"]
    /\ queue = {} /\ counter = 0
    /\ pc = [t \in Threads |-> "off"]
    /\ held = [t \in Threads |-> NoJob]
    /\ context = [t \in Threads |-> NoJob]
    /\ stopped = [t \in Threads |-> FALSE]
    /\ executing = {}
    /\ workers = {} /\ shuttingDown = FALSE /\ toJoin = {}
    /\ submits = [j \in Jobs |-> 0]
    /\ attempts = [j \in Jobs |-> 0]
    /\ dropped = {} /\ shutdowns = 0

Client ==
    \/ \E j \in Jobs : SubmitJob(j) \/ Cancel(j) \/ CancelJob(j)
    \/ ClearJobs

Lifecycle ==
    \/ Initialize
    \/ ShutdownStop
    \/ \E t \in Threads : ShutdownJoin(t)
    \/ ShutdownClear

\* What the thread does by itself, apart from waiting for its target.
WorkerStep(t) ==
    \/ CheckStop(t) \/ TakeJob(t) \/ QueueEmpty(t)
    \/ SkipCancelled(t) \/ NotCancelled(t) \/ StartJob(t)
    \/ TimeoutFires(t)
    \/ CompleteJob(t) \/ FailJob(t) \/ SaveToMemory(t)
    \/ RetryJob(t) \/ Requeue(t)

TargetStep(t) ==
    TargetReturns(t) \/ TargetRaises(t) \/ LateTargetEnds(t) \/ TargetExits(t)

Next == Client \/ Lifecycle \/ \E t \in Threads : WorkerStep(t) \/ TargetStep(t)

Spec == Init /\ [][Next]_vars

-----------------------------------------------------------------------------
(* Fairness: the operating system keeps running every thread, and the      *)
(* caller of shutdown() is not abandoned inside it.  Whether targets       *)
(* return is the user's business: TargetFairness is a premise of the       *)
(* properties that need it.                                                *)

ThreadFairness ==
    /\ \A t \in Threads : WF_vars(WorkerStep(t))
    /\ \A t \in Threads : WF_vars(ShutdownJoin(t))
    /\ WF_vars(ShutdownClear)

TargetFairness == \A t \in Threads : WF_vars(TargetStep(t))

FairSpec == Spec /\ ThreadFairness

-----------------------------------------------------------------------------
(* Properties.  A client that submits one Job object twice runs it twice,   *)
(* possibly at the same time; what the engine promises about executions it  *)
(* promises to jobs submitted once.                                         *)

Idle == {"off", "loop", "get"}
Executing == {"run", "drain"}
Busy == {"check", "start", "complete", "fail", "retry", "requeue", "save"} \cup Executing

\* Every variable has its type, a worker holds a job exactly while it
\* processes one (worker.py:33-43), and shutdown joins registered workers.
TypeOK ==
    /\ status \in [Jobs -> JobStatus]
    /\ cancelled \in [Jobs -> BOOLEAN]
    /\ retryCount \in [Jobs -> Nat]
    /\ registry \subseteq Jobs
    /\ memory \in [Jobs -> JobStatus \cup {"none"}]
    /\ queue \subseteq [job : Jobs, seq : Nat]
    /\ counter \in Nat
    /\ pc \in [Threads -> Idle \cup Busy]
    /\ held \in [Threads -> Jobs \cup {NoJob}]
    /\ \A t \in Threads : pc[t] \in Idle <=> held[t] = NoJob
    /\ context \in [Threads -> Jobs \cup {NoJob}]
    /\ stopped \in [Threads -> BOOLEAN]
    /\ executing \subseteq Threads \X Jobs
    /\ workers \subseteq Threads
    /\ shuttingDown \in BOOLEAN
    /\ toJoin \subseteq workers
    /\ submits \in [Jobs -> Nat]
    /\ attempts \in [Jobs -> Nat]
    /\ dropped \subseteq Jobs
    /\ shutdowns \in Nat

\* A job submitted once is in at most one place, one queue entry or one
\* worker, and in none before it is submitted: no entry is duplicated by a
\* retry (worker.py:95), a restart or a zombie worker.
OnePlacePerJob ==
    \A j \in Jobs : submits[j] <= 1 =>
        /\ \A t, u \in Threads : held[t] = j /\ held[u] = j => t = u
        /\ \A e, f \in queue : e.job = j /\ f.job = j => e = f
        /\ \A t \in Threads : held[t] = j => j \notin QueuedJobs
        /\ submits[j] = 0 => j \notin QueuedJobs /\ \A t \in Threads : held[t] # j

\* Two executions of the target of a job submitted once never overlap, even
\* when the first one timed out and the job is being retried: leaving the
\* "with ThreadPoolExecutor" block waits for it (worker.py:114-119).
ExclusiveExecution ==
    \A a, b \in executing : a[2] = b[2] /\ submits[a[2]] <= 1 => a = b

\* The target of a job submitted once runs at most 1 + retries times,
\* whatever cancellations, timeouts and shutdowns interfere (worker.py:88-95).
AtMostRetriesPlusOne ==
    \A j \in Jobs : submits[j] <= 1 => attempts[j] <= Retries[j] + 1

\* A job is only QUEUED while somebody will look at it again: it is in the
\* queue, or with a worker about to start it or to put it back.  The exception
\* is a queue that shutdown emptied (engine.py:68).
QueuedHasOwner ==
    \A j \in Jobs : status[j] = "queued" =>
        \/ j \in QueuedJobs \cup dropped
        \/ \E t \in Threads : held[t] = j /\ pc[t] \in {"check", "start", "requeue"}

\* A job that will still run, and was not cancelled, can be found by get_job
\* and cancel_job: clear_jobs never forgets it, not even between two attempts
\* (engine.py:177-183, worker.py:86-103).
PendingWorkIsRegistered ==
    \A j \in Jobs :
        /\ submits[j] <= 1 /\ ~cancelled[j]
        /\ \/ j \in QueuedJobs
           \/ \E t \in Threads : held[t] = j /\ pc[t] # "save"
        => j \in registry

\* No job that is still to run is lost: it has an owner, and clients find it.
NoJobIsLost == QueuedHasOwner /\ PendingWorkIsRegistered

\* What _save_to_memory recorded is the outcome the job keeps, although the
\* status is read again at save time while others may cancel the job
\* (engine.py:271-275, models.py:198).
MemoryRecordsOutcome ==
    \A j \in Jobs : submits[j] <= 1 /\ memory[j] # "none" =>
        memory[j] \in Finished /\ status[j] = memory[j]

\* A worker never carries the context of a job it no longer processes, and an
\* inline target runs in the context of its own job (worker.py:67-72, 105-107).
ContextFollowsJob ==
    /\ \A t \in Threads : context[t] \in {NoJob, held[t]}
    /\ \A e \in executing : e[2] \in HasContext => context[e[1]] = e[2]

\* However often initialize and shutdown are called, and although shutdown
\* gives up on a busy worker after two seconds, no more than NumWorkers
\* workers ever accept jobs (engine.py:33-35, 58-67).
PoolBounded ==
    Cardinality({t \in Threads : pc[t] # "off" /\ ~stopped[t]}) <= NumWorkers

\* The threads of the engine, old and new, are as many as configured and carry
\* nothing over from one job to the next.
ThreadsInOrder == PoolBounded /\ ContextFollowsJob

\* COMPLETED and FAILED are final: no late cancellation, retry or second
\* worker changes the status or runs the target again (models.py:198).
OutcomeIsFinal ==
    [][\A j \in Jobs : submits'[j] <= 1 /\ status[j] \in Finished =>
          status'[j] = status[j] /\ attempts'[j] = attempts[j]]_vars

\* Cancelled, and no worker is past its check.
CancelledInTime(j) == cancelled[j] /\ \A t \in Threads : held[t] = j => pc[t] # "start"

\* From then on no attempt starts and no worker gets past its check, also when
\* a retry or a submission puts the status back to QUEUED (worker.py:49, 91;
\* engine.py:90).
CancelledNeverStarts ==
    [][\A j \in Jobs : CancelledInTime(j) =>
          CancelledInTime(j)' /\ attempts'[j] = attempts[j]]_vars

Settled(j) ==
    /\ status[j] \in Terminal
    /\ j \notin QueuedJobs
    /\ \A t \in Threads : held[t] # j

\* If targets return and the engine stays up from some time on, every submitted
\* job reaches a terminal status for good, or was thrown away by an earlier
\* shutdown.
EveryJobSettles ==
    TargetFairness /\ <>[](workers # {}) =>
        \A j \in Jobs : submits[j] > 0 ~> Settled(j) \/ j \in dropped

\* If targets return, a worker told to stop ends (worker.py:31), also one
\* shutdown gave up on.
StoppedWorkersExit ==
    TargetFairness =>
        \A t \in Threads : stopped[t] ~> (pc[t] = "off" \/ ~stopped[t])

\* shutdown() returns even when a target hangs (engine.py:63).
ShutdownReturns == shuttingDown ~> ~shuttingDown

-----------------------------------------------------------------------------
(* What the documentation says and the code does not do *)

\* engine.py:157 "Cancels a pending or running job by ID.": a job whose
\* cancellation was acknowledged neither runs on nor completes.
CancelIsFinal ==
    \A j \in Jobs : cancelled[j] => status[j] \notin Finished \cup {"running"}

\* docs/architecture.md:369 "`timeout`: Maximum execution time in seconds.":
\* a job with a timeout does not run for ever.
TimeoutEndsExecution ==
    \A t \in Threads : (pc[t] \in Executing /\ held[t] \in Timed) ~> pc[t] \notin Executing

\* docs/architecture.md:390 "Automatically runs jobs inside the active context
\* of the submitting thread."
TargetSeesContext ==
    \A e \in executing : e[2] \in HasContext => TargetContext(e[1]) = e[2]
=============================================================================
