------------------------- MODULE DistributedWorkers -------------------------
(***************************************************************************)
(* The distributed worker manager and its workers                          *)
(* (execution/distributed.py), composed with the Task Execution Engine:    *)
(* jobs are routed to worker nodes on submission, and the jobs of a dead   *)
(* node come back to the engine's own queue and worker threads.            *)
(*                                                                         *)
(* An operation of DistributedWorkerManager holds its lock and is one      *)
(* step.  Two of them are not: a failed report sets the status twice, and  *)
(* recovery handles one job after the other; in both the engine's clients  *)
(* and threads, which do not need the manager's lock, run in between.      *)
(* The time since a node's last heartbeat is counted in multiples of       *)
(* heartbeat_timeout.                                                      *)
(***************************************************************************)
EXTENDS TaskExecution, Sequences

CONSTANTS
    Nodes,          \* ids of distributed workers
    NoNode,
    Monitor,        \* the monitoring thread, as an owner of the manager's lock
    Explicit,       \* Job.worker_id at submission, or NoNode
    Capable,        \* the nodes that report the capability a job asks for
    ByCapability,   \* jobs with a capability in their kwargs
    ByTarget,       \* jobs whose target is a string
    DefaultNodes,   \* the nodes that report "default"
    TimelyHeartbeats,  \* TRUE: a live, unpaused worker is never late
    MaxStarts,      \* bound: starts of each worker
    MaxAssigns,     \* bound: assign_job called by clients
    MayStop,        \* the workers that may be stopped or paused
    MayCrash,       \* the workers that may crash
    MayClear        \* whether clients call clear_jobs

ASSUME RoutingAssumption ==
    /\ NoNode \notin Nodes /\ Monitor \notin Nodes /\ Monitor # NoNode
    /\ Explicit \in [Jobs -> Nodes \cup {NoNode}]
    /\ Capable \in [Jobs -> SUBSET Nodes]
    /\ ByCapability \subseteq Jobs /\ ByTarget \subseteq Jobs
    /\ DefaultNodes \subseteq Nodes
ASSUME FaultAssumption ==
    /\ TimelyHeartbeats \in BOOLEAN
    /\ MaxStarts \in Nat /\ MaxAssigns \in Nat
    /\ MayStop \subseteq Nodes /\ MayCrash \subseteq Nodes
    /\ MayClear \in BOOLEAN

VARIABLES
    node,       \* WorkerNode.status, or "unknown" to the manager
    stale,      \* age of WorkerNode.last_heartbeat: 0, 1 or 2 timeouts
    nqueue,     \* WorkerNode.queue
    assigned,   \* WorkerNode.assigned_jobs
    wpc, wjob,  \* position of the execution loop and its job
    wstatus,    \* BaseDistributedWorker.status
    wstop,      \* BaseDistributedWorker._stop_event
    mlock,      \* who keeps the manager's lock between two steps
    recovering, \* jobs _recover_worker_jobs still has to requeue
    starts, assigns  \* history

nodeVars == <<node, stale, nqueue, assigned>>
runnerVars == <<wpc, wjob, wstatus, wstop>>
managerVars == <<mlock, recovering, starts, assigns>>
distVars == <<nodeVars, runnerVars, managerVars>>
allVars == <<vars, distVars>>

WorkerState == {"registered", "active", "offline", "suspended", "failed"}

-----------------------------------------------------------------------------
(* The manager *)

ManagerLockFree == mlock = NoNode
Known(w) == node[w] # "unknown"
ActiveNodes == {w \in Nodes : node[w] = "active"}

\* discover_workers, with the two fallbacks of assign_job_by_capability.
Candidates(j) ==
    IF ActiveNodes \cap Capable[j] # {} THEN ActiveNodes \cap Capable[j]
    ELSE IF ActiveNodes \cap DefaultNodes # {} THEN ActiveNodes \cap DefaultNodes
    ELSE ActiveNodes

LeastLoaded(S) ==
    {w \in S : \A v \in S : Cardinality(assigned[w]) <= Cardinality(assigned[v])}

\* The nodes submit_job may hand the job to; none: the local queue.
Routes(j) ==
    IF Explicit[j] \in ActiveNodes THEN {Explicit[j]}
    ELSE IF j \in ByCapability /\ Candidates(j) # {} THEN LeastLoaded(Candidates(j))
    ELSE IF j \in ByTarget /\ ActiveNodes \cap Capable[j] # {}
         THEN LeastLoaded(Candidates(j))
    ELSE {}

PutOnNode(j, w) ==
    /\ assigned' = [assigned EXCEPT ![w] = @ \cup {j}]
    /\ nqueue' = [nqueue EXCEPT ![w] = Append(@, j)]

SubmitRouted(j) ==
    /\ EngineLockFree /\ ManagerLockFree
    /\ submits[j] < MaxSubmits[j]
    /\ \E w \in Routes(j) : PutOnNode(j, w)
    /\ registry' = registry \cup {j}
    /\ SetStatus(j, "queued")
    /\ submits' = [submits EXCEPT ![j] = @ + 1]
    /\ dropped' = dropped \ {j}
    /\ UNCHANGED <<cancelled, retryCount, queueVars, workerVars, memory, workers, stopped,
                   shuttingDown, toJoin, attempts, shutdowns, node, stale, runnerVars,
                   managerVars>>

SubmitLocally(j) ==
    /\ ManagerLockFree
    /\ Routes(j) = {}
    /\ SubmitJob(j)
    /\ UNCHANGED distVars

\* assign_job called by a client, for any job the engine knows.
AssignJob(j, w) ==
    /\ ManagerLockFree /\ EngineLockFree
    /\ assigns < MaxAssigns
    /\ node[w] = "active" /\ j \in registry
    /\ PutOnNode(j, w)
    /\ SetStatus(j, "queued")
    /\ assigns' = assigns + 1
    /\ UNCHANGED <<cancelled, retryCount, queueVars, workerVars, engineVars, historyVars,
                   node, stale, runnerVars, mlock, recovering, starts>>

\* Time passes without a heartbeat of w.
Tick(w) ==
    /\ Known(w) /\ stale[w] < 2
    /\ \/ ~TimelyHeartbeats
       \/ wpc[w] \in {"down", "crashed"} \/ wstop[w] \/ wstatus[w] # "active"
    /\ stale' = [stale EXCEPT ![w] = @ + 1]
    /\ UNCHANGED <<vars, node, nqueue, assigned, runnerVars, managerVars>>

\* The two branches of monitor_workers.
SuspendStale(w) ==
    /\ ManagerLockFree
    /\ node[w] = "active" /\ stale[w] >= 1
    /\ node' = [node EXCEPT ![w] = "suspended"]
    /\ UNCHANGED <<vars, stale, nqueue, assigned, runnerVars, managerVars>>

\* Mutant: an active node is declared dead, and its jobs recovered, at once.
DeclareOfflineEarly(w) ==
    /\ ManagerLockFree
    /\ node[w] \in {"active", "suspended"}
    /\ node' = [node EXCEPT ![w] = "offline"]
    /\ assigned' = [assigned EXCEPT ![w] = {}]
    /\ nqueue' = [nqueue EXCEPT ![w] = <<>>]
    /\ recovering' = assigned[w]
    /\ mlock' = Monitor
    /\ UNCHANGED <<vars, stale, runnerVars, starts, assigns>>

\* Mutant: only the jobs still in the node's queue are recovered.
DeclareOfflineQueued(w) ==
    /\ ManagerLockFree
    /\ node[w] = "suspended" /\ stale[w] >= 2
    /\ node' = [node EXCEPT ![w] = "offline"]
    /\ assigned' = [assigned EXCEPT ![w] = {}]
    /\ nqueue' = [nqueue EXCEPT ![w] = <<>>]
    /\ recovering' = {nqueue[w][i] : i \in DOMAIN nqueue[w]}
    /\ mlock' = Monitor
    /\ UNCHANGED <<vars, stale, runnerVars, starts, assigns>>

DeclareOffline(w) ==
    /\ ManagerLockFree
    /\ node[w] = "suspended" /\ stale[w] >= 2
    /\ node' = [node EXCEPT ![w] = "offline"]
    /\ assigned' = [assigned EXCEPT ![w] = {}]
    /\ nqueue' = [nqueue EXCEPT ![w] = <<>>]
    /\ recovering' = assigned[w]
    /\ mlock' = Monitor
    /\ UNCHANGED <<vars, stale, runnerVars, starts, assigns>>

\* Mutant: the status is reset, the job is not put in the central queue.
RecoverJobUnqueued(j) ==
    /\ mlock = Monitor
    /\ j \in recovering
    /\ recovering' = recovering \ {j}
    /\ SetStatus(j, "queued")
    /\ UNCHANGED <<cancelled, retryCount, queueVars, workerVars, engineVars, historyVars,
                   nodeVars, runnerVars, mlock, starts, assigns>>

RecoverJob(j) ==
    /\ mlock = Monitor
    /\ j \in recovering
    /\ recovering' = recovering \ {j}
    /\ SetStatus(j, "queued")
    /\ Put(j)
    /\ UNCHANGED <<cancelled, retryCount, workerVars, engineVars, historyVars, nodeVars,
                   runnerVars, mlock, starts, assigns>>

RecoveryDone ==
    /\ mlock = Monitor /\ recovering = {}
    /\ mlock' = NoNode
    /\ UNCHANGED <<vars, nodeVars, runnerVars, recovering, starts, assigns>>

-----------------------------------------------------------------------------
(* The life cycle of a worker *)

Up(w) == wpc[w] \notin {"down", "crashed"}

\* start(): a new WorkerNode replaces whatever the manager had under this id.
StartWorker(w) ==
    /\ ManagerLockFree
    /\ ~Up(w) /\ starts[w] < MaxStarts
    /\ starts' = [starts EXCEPT ![w] = @ + 1]
    /\ node' = [node EXCEPT ![w] = "registered"]
    /\ stale' = [stale EXCEPT ![w] = 0]
    /\ nqueue' = [nqueue EXCEPT ![w] = <<>>]
    /\ assigned' = [assigned EXCEPT ![w] = {}]
    /\ wpc' = [wpc EXCEPT ![w] = "idle"]
    /\ wjob' = [wjob EXCEPT ![w] = NoJob]
    /\ wstatus' = [wstatus EXCEPT ![w] = "active"]
    /\ wstop' = [wstop EXCEPT ![w] = FALSE]
    /\ UNCHANGED <<vars, mlock, recovering, assigns>>

StopSignal(w) ==
    /\ Up(w) /\ ~wstop[w] /\ w \in MayStop
    /\ wstop' = [wstop EXCEPT ![w] = TRUE]
    /\ UNCHANGED <<vars, nodeVars, wpc, wjob, wstatus, managerVars>>

\* The joins of stop() have returned, or timed out; unregister_worker pops the
\* node with its queue and its assigned jobs.
Unregister(w) ==
    /\ ManagerLockFree
    /\ wstop[w] /\ Known(w)
    /\ node' = [node EXCEPT ![w] = "unknown"]
    /\ stale' = [stale EXCEPT ![w] = 0]
    /\ nqueue' = [nqueue EXCEPT ![w] = <<>>]
    /\ assigned' = [assigned EXCEPT ![w] = {}]
    /\ wstatus' = [wstatus EXCEPT ![w] = "offline"]
    /\ UNCHANGED <<vars, wpc, wjob, wstop, managerVars>>

LoopEnds(w) ==
    /\ wpc[w] = "idle" /\ wstop[w]
    /\ wpc' = [wpc EXCEPT ![w] = "down"]
    /\ UNCHANGED <<vars, nodeVars, wjob, wstatus, wstop, managerVars>>

SetNode(w, s) ==
    /\ wstatus' = [wstatus EXCEPT ![w] = s]
    /\ node' = IF Known(w) THEN [node EXCEPT ![w] = s] ELSE node

Pause(w) ==
    /\ ManagerLockFree
    /\ Up(w) /\ ~wstop[w] /\ w \in MayStop /\ wstatus[w] = "active"
    /\ SetNode(w, "suspended")
    /\ UNCHANGED <<vars, stale, nqueue, assigned, wpc, wjob, wstop, managerVars>>

Resume(w) ==
    /\ ManagerLockFree
    /\ Up(w) /\ ~wstop[w] /\ wstatus[w] = "suspended"
    /\ SetNode(w, "active")
    /\ UNCHANGED <<vars, stale, nqueue, assigned, wpc, wjob, wstop, managerVars>>

\* The process of the worker dies without a word to the manager.
Crash(w) ==
    /\ Up(w) /\ w \in MayCrash /\ wpc[w] # "retrying"
    /\ wpc' = [wpc EXCEPT ![w] = "crashed"]
    /\ wjob' = [wjob EXCEPT ![w] = NoJob]
    /\ UNCHANGED <<vars, nodeVars, wstatus, wstop, managerVars>>

\* _heartbeat_loop and update_heartbeat: a suspended node stays suspended.
Heartbeat(w) ==
    /\ ManagerLockFree
    /\ Up(w) /\ ~wstop[w] /\ wstatus[w] = "active" /\ Known(w)
    /\ stale' = [stale EXCEPT ![w] = 0]
    /\ node' = IF node[w] \in {"registered", "offline"}
               THEN [node EXCEPT ![w] = "active"] ELSE node
    /\ UNCHANGED <<vars, nqueue, assigned, runnerVars, managerVars>>

-----------------------------------------------------------------------------
(* The execution loop of a worker *)

WGoTo(w, l) == wpc' = [wpc EXCEPT ![w] = l]

\* Mutant: the loop processes a job although the queue was empty.
FetchJobBlind(w) ==
    /\ ManagerLockFree
    /\ wpc[w] = "idle" /\ ~wstop[w] /\ wstatus[w] = "active"
    /\ Known(w) /\ nqueue[w] = <<>>
    /\ WGoTo(w, "fetched")
    /\ UNCHANGED <<vars, nodeVars, wjob, wstatus, wstop, managerVars>>

\* A report changes anything only if worker and job are still known.
Heard(w) == Known(w) /\ wjob[w] \in registry

FetchJob(w) ==
    /\ ManagerLockFree
    /\ wpc[w] = "idle" /\ ~wstop[w] /\ wstatus[w] = "active"
    /\ Known(w) /\ nqueue[w] # <<>>
    /\ wjob' = [wjob EXCEPT ![w] = Head(nqueue[w])]
    /\ nqueue' = [nqueue EXCEPT ![w] = Tail(@)]
    /\ WGoTo(w, "fetched")
    /\ UNCHANGED <<vars, node, stale, assigned, wstatus, wstop, managerVars>>

ReportRunning(w) ==
    /\ ManagerLockFree /\ EngineLockFree
    /\ wpc[w] = "fetched"
    /\ status' = IF Heard(w) THEN [status EXCEPT ![wjob[w]] = "running"] ELSE status
    /\ WGoTo(w, "check")
    /\ UNCHANGED <<cancelled, retryCount, queueVars, workerVars, engineVars, historyVars,
                   nodeVars, wjob, wstatus, wstop, managerVars>>

\* Mutant: the status is consulted, which ReportRunning has overwritten.
RunTargetByStatus(w) ==
    /\ wpc[w] = "check" /\ status[wjob[w]] # "cancelled"
    /\ attempts' = [attempts EXCEPT ![wjob[w]] = @ + 1]
    /\ WGoTo(w, "run")
    /\ UNCHANGED <<jobVars, queueVars, workerVars, engineVars, submits, dropped, shutdowns,
                   nodeVars, wjob, wstatus, wstop, managerVars>>

RunTarget(w) ==
    /\ wpc[w] = "check" /\ ~cancelled[wjob[w]]
    /\ attempts' = [attempts EXCEPT ![wjob[w]] = @ + 1]
    /\ WGoTo(w, "run")
    /\ UNCHANGED <<jobVars, queueVars, workerVars, engineVars, submits, dropped, shutdowns,
                   nodeVars, wjob, wstatus, wstop, managerVars>>

\* report_job_status of a terminal status s, up to the test for a retry.
ReportEnd(w, s) ==
    /\ ManagerLockFree /\ EngineLockFree
    /\ status' = IF Heard(w) THEN [status EXCEPT ![wjob[w]] = s] ELSE status
    /\ assigned' = IF Heard(w) THEN [assigned EXCEPT ![w] = @ \ {wjob[w]}] ELSE assigned

ForgetJob(w) ==
    /\ WGoTo(w, "idle")
    /\ wjob' = [wjob EXCEPT ![w] = NoJob]

SaveIf(c, j, s) == memory' = IF c THEN [memory EXCEPT ![j] = s] ELSE memory

ReportCancelled(w) ==
    /\ wpc[w] = "check" /\ cancelled[wjob[w]]
    /\ ReportEnd(w, "cancelled")
    /\ ForgetJob(w)
    /\ UNCHANGED <<cancelled, retryCount, queueVars, workerVars, engineVars, historyVars,
                   node, stale, nqueue, wstatus, wstop, managerVars>>

ReportCompleted(w) ==
    /\ wpc[w] = "run"
    /\ ReportEnd(w, "completed")
    /\ SaveIf(Heard(w), wjob[w], "completed")
    /\ ForgetJob(w)
    /\ UNCHANGED <<cancelled, retryCount, queueVars, workerVars, registry, workers, stopped,
                   shuttingDown, toJoin, historyVars, node, stale, nqueue, wstatus, wstop,
                   managerVars>>

WillRetry(w) == Heard(w) /\ retryCount[wjob[w]] < Retries[wjob[w]]

ReportFailed(w) ==
    /\ wpc[w] = "run" /\ ~WillRetry(w)
    /\ ReportEnd(w, "failed")
    /\ SaveIf(Heard(w), wjob[w], "failed")
    /\ ForgetJob(w)
    /\ UNCHANGED <<cancelled, retryCount, queueVars, workerVars, registry, workers, stopped,
                   shuttingDown, toJoin, historyVars, node, stale, nqueue, wstatus, wstop,
                   managerVars>>

\* The job is FAILED for a moment, while the manager's lock is kept.
ReportFailedForNow(w) ==
    /\ wpc[w] = "run" /\ WillRetry(w)
    /\ ReportEnd(w, "failed")
    /\ WGoTo(w, "retrying")
    /\ mlock' = w
    /\ UNCHANGED <<cancelled, retryCount, queueVars, workerVars, engineVars, historyVars,
                   node, stale, nqueue, wjob, wstatus, wstop, recovering, starts, assigns>>

\* Mutant: the retry is queued on the node but not recorded as assigned.
RetryOnNodeUnassigned(w) ==
    /\ wpc[w] = "retrying"
    /\ retryCount' = [retryCount EXCEPT ![wjob[w]] = @ + 1]
    /\ SetStatus(wjob[w], "queued")
    /\ nqueue' = [nqueue EXCEPT ![w] = Append(@, wjob[w])]
    /\ ForgetJob(w)
    /\ mlock' = NoNode
    /\ UNCHANGED <<cancelled, queueVars, workerVars, engineVars, historyVars, node, stale,
                   assigned, wstatus, wstop, recovering, starts, assigns>>

\* The retry goes to the same node, whatever its status.
RetryOnNode(w) ==
    /\ wpc[w] = "retrying"
    /\ retryCount' = [retryCount EXCEPT ![wjob[w]] = @ + 1]
    /\ SetStatus(wjob[w], "queued")
    /\ PutOnNode(wjob[w], w)
    /\ ForgetJob(w)
    /\ mlock' = NoNode
    /\ UNCHANGED <<cancelled, queueVars, workerVars, engineVars, historyVars, node, stale,
                   wstatus, wstop, recovering, starts, assigns>>

-----------------------------------------------------------------------------
(* The specification *)

DistInit ==
    /\ Init
    /\ node = [w \in Nodes |-> "unknown"]
    /\ stale = [w \in Nodes |-> 0]
    /\ nqueue = [w \in Nodes |-> <<>>]
    /\ assigned = [w \in Nodes |-> {}]
    /\ wpc = [w \in Nodes |-> "down"]
    /\ wjob = [w \in Nodes |-> NoJob]
    /\ wstatus = [w \in Nodes |-> "registered"]
    /\ wstop = [w \in Nodes |-> FALSE]
    /\ mlock = NoNode /\ recovering = {}
    /\ starts = [w \in Nodes |-> 0] /\ assigns = 0

DistClient ==
    \/ \E j \in Jobs : SubmitRouted(j) \/ SubmitLocally(j)
    \/ \E j \in Jobs, w \in Nodes : AssignJob(j, w)
    \/ UNCHANGED distVars /\ \E j \in Jobs : CancelJob(j)
    \/ MayClear /\ UNCHANGED distVars /\ ClearJobs

MonitorStep ==
    \/ \E w \in Nodes : SuspendStale(w) \/ DeclareOffline(w)
    \/ \E j \in Jobs : RecoverJob(j)
    \/ RecoveryDone

RunnerStep(w) ==
    \/ FetchJob(w) \/ ReportRunning(w) \/ RunTarget(w) \/ ReportCancelled(w)
    \/ RetryOnNode(w) \/ LoopEnds(w)

RunnerTarget(w) == ReportCompleted(w) \/ ReportFailed(w) \/ ReportFailedForNow(w)

RunnerLife(w) ==
    StartWorker(w) \/ StopSignal(w) \/ Unregister(w) \/ Pause(w) \/ Resume(w) \/ Crash(w)

EngineStep ==
    /\ Lifecycle \/ \E t \in Threads : WorkerStep(t) \/ TargetStep(t)
    /\ UNCHANGED distVars

DistNext ==
    \/ DistClient
    \/ MonitorStep
    \/ \E w \in Nodes : Tick(w) \/ Heartbeat(w) \/ RunnerStep(w) \/ RunnerTarget(w)
                        \/ RunnerLife(w)
    \/ EngineStep

DistSpec == DistInit /\ [][DistNext]_allVars
(* Threads of the engine, the monitor and live workers keep running; time   *)
(* passes; targets return.  Starting, stopping and crashing are not fair.   *)
DistFairness ==
    /\ \A t \in Threads :
          /\ WF_allVars(WorkerStep(t) /\ UNCHANGED distVars)
          /\ WF_allVars(TargetStep(t) /\ UNCHANGED distVars)
    /\ \A w \in Nodes :
          /\ WF_allVars(RunnerStep(w)) /\ WF_allVars(RunnerTarget(w))
          /\ WF_allVars(Tick(w)) /\ WF_allVars(Heartbeat(w))
    /\ WF_allVars(MonitorStep)

DistFairSpec == DistSpec /\ DistFairness

-----------------------------------------------------------------------------
(* Properties *)

\* Every variable has its type, and a worker's loop has a job exactly while it
\* executes one (distributed.py:211-216).
DistTypeOK ==
    /\ TypeOK
    /\ node \in [Nodes -> WorkerState \cup {"unknown"}]
    /\ stale \in [Nodes -> 0..2]
    /\ nqueue \in [Nodes -> Seq(Jobs)]
    /\ assigned \in [Nodes -> SUBSET Jobs]
    /\ wpc \in [Nodes -> {"down", "crashed", "idle", "fetched", "check", "run", "retrying"}]
    /\ wjob \in [Nodes -> Jobs \cup {NoJob}]
    /\ \A w \in Nodes : wpc[w] \in {"down", "crashed", "idle"} <=> wjob[w] = NoJob
    /\ wstatus \in [Nodes -> WorkerState]
    /\ wstop \in [Nodes -> BOOLEAN]
    /\ mlock \in Nodes \cup {NoNode, Monitor}
    /\ recovering \subseteq Jobs
    /\ starts \in [Nodes -> Nat] /\ assigns \in Nat

\* A job submitted once that waits in the queue of a node is also among its
\* assigned jobs, the only ones recovery looks at (distributed.py:558), unless
\* clients assign jobs to nodes by hand.
QueuedOnNodeIsAssigned ==
    assigns = 0 =>
        \A w \in Nodes : \A i \in DOMAIN nqueue[w] :
            submits[nqueue[w][i]] <= 1 => nqueue[w][i] \in assigned[w]

\* The bookkeeping of the nodes.
NodesConsistent == DistTypeOK /\ QueuedOnNodeIsAssigned

\* Where somebody will look at a job again: the central queue, a thread of the
\* engine, a node the monitor watches, or the recovery under way.
HasOwner(j) ==
    \/ j \in QueuedJobs \cup dropped \cup recovering
    \/ \E t \in Threads : held[t] = j
    \/ \E w \in Nodes :
          Known(w) /\ (j \in assigned[w] \/ (wpc[w] = "retrying" /\ wjob[w] = j))

\* A queued or running job is never lost: docs/distributed_workers.md:14
\* "Automatically recovers outstanding queued/running jobs of offline workers,
\* re-routing or re-enqueuing them back to the central execution engine."
NoOrphan == \A j \in Jobs : status[j] \in {"queued", "running"} => HasOwner(j)

\* With timely heartbeats a job submitted once never runs on two workers, or
\* on a worker and a thread of the engine, at the same time: recovery only
\* moves the jobs of workers that are really gone (distributed.py:546-551).
JobRunsInOnePlace ==
    \A j \in Jobs : submits[j] <= 1 =>
        Cardinality({t \in Threads : <<t, j>> \in executing}
                    \cup {w \in Nodes : wpc[w] = "run" /\ wjob[w] = j}) <= 1

\* Crashes leave every job with an owner and none with two that run it.
CrashesAreHandled == NoOrphan /\ JobRunsInOnePlace

\* A job whose cancellation was acknowledged is not started any more on a node
\* or in the engine, although reports and recovery overwrite its status
\* (distributed.py:236-241, 570; worker.py:49).
CancelledNeverStartsAnywhere ==
    [][\A j \in Jobs : CancelledInTime(j) =>
          CancelledInTime(j)' /\ attempts'[j] = attempts[j]]_allVars

SettledEverywhere(j) ==
    /\ Settled(j)
    /\ \A w \in Nodes : wjob[w] # j /\ j \notin assigned[w]

\* A crash of a worker, at any moment, delays its jobs but does not lose them:
\* the monitor notices, and the engine runs them (distributed.py:529-575).
EveryJobSurvivesCrashes ==
    <>[](workers # {}) => \A j \in Jobs : submits[j] > 0 ~> SettledEverywhere(j)

-----------------------------------------------------------------------------
(* What the documentation says and the code does not do *)

\* engine.py:179 "Clears all completed, failed, or cancelled jobs from the
\* tracked registry.": a job that will be retried is not forgotten.
ClearKeepsRetriedJobs ==
    \A j \in Jobs :
        ~cancelled[j] /\ (\E w \in Nodes : Known(w) /\ j \in assigned[w]) => j \in registry

\* docs/distributed_workers.md:61 "`SUSPENDED`: Temporarily paused or
\* experiencing stale heartbeats.": a live worker that sends heartbeats again
\* does not stay suspended.
SuspensionIsTemporary ==
    \A w \in Nodes :
        (node[w] = "suspended" /\ Up(w) /\ wstatus[w] = "active")
            ~> (node[w] # "suspended" \/ ~Up(w))
=============================================================================
