---------------------- MODULE DistributedWorkersProofs ----------------------
(***************************************************************************)
(* Proofs about DistributedWorkers, for every set of jobs, threads and     *)
(* nodes, every routing of jobs and every pattern of faults.               *)
(***************************************************************************)
EXTENDS DistributedWorkers, TaskExecutionProofs

\* The steps of DistNext that the engine takes by itself.
LocalStep == /\ \/ \E j \in Jobs : SubmitJob(j) \/ CancelJob(j)
                \/ ClearJobs \/ Lifecycle
                \/ \E t \in Threads : WorkerStep(t) \/ TargetStep(t)
             /\ UNCHANGED distVars

\* A local step is one of TaskExecution.
LEMMA LocalIsEngine == ASSUME LocalStep PROVE [Next]_vars
  BY DEF LocalStep, Next, Client

\* The types of what only the distributed workers have.
NodeTypes ==
    /\ node \in [Nodes -> WorkerState \cup {"unknown"}]
    /\ stale \in [Nodes -> 0..2]
    /\ nqueue \in [Nodes -> Seq(Jobs)]
    /\ assigned \in [Nodes -> SUBSET Jobs]
    /\ wpc \in [Nodes -> {"down", "crashed", "idle", "fetched", "check", "run", "retrying"}]
    /\ wjob \in [Nodes -> Jobs \cup {NoJob}]
    /\ \A w \in Nodes : wpc[w] \in {"down", "crashed", "idle"} <=> wjob[w] = NoJob
    /\ wstatus \in [Nodes -> WorkerState]
    /\ wstop \in [Nodes -> BOOLEAN]
    /\ mlock \in Nodes \cup {NoNode, Monitor}
    /\ recovering \subseteq Jobs
    /\ starts \in [Nodes -> Nat] /\ assigns \in Nat

\* Putting a job on a node keeps its queue a sequence of jobs.
LEMMA PutOnNodeTypes ==
    ASSUME NodeTypes, NEW j \in Jobs, NEW w \in Nodes, PutOnNode(j, w)
    PROVE  nqueue' \in [Nodes -> Seq(Jobs)] /\ assigned' \in [Nodes -> SUBSET Jobs]
<1>1. Append(nqueue[w], j) \in Seq(Jobs)
  BY DEF NodeTypes
<1> QED
  BY <1>1 DEF PutOnNode, NodeTypes

\* The nodes a job may be routed to are nodes.
LEMMA RoutesAreNodes == ASSUME NEW j \in Jobs PROVE Routes(j) \subseteq Nodes
  BY DEF Routes, LeastLoaded, Candidates, ActiveNodes

\* Every step keeps the types of the engine.
LEMMA DistNextTypeOK == DistTypeOK /\ [DistNext]_allVars => TypeOK'
<1> SUFFICES ASSUME DistTypeOK, [DistNext]_allVars
             PROVE  TypeOK'
  OBVIOUS
<1>0. TypeOK
  BY DEF DistTypeOK
<1>1. CASE LocalStep
  BY <1>0, <1>1, LocalIsEngine, NextTypeOK
<1>2. ASSUME UNCHANGED vars PROVE TypeOK'
  BY <1>0, <1>2, NextTypeOK
<1> USE NoJobAssumption DEF TypeOK, JobStatus
<1>3. ASSUME NEW j \in Jobs, SubmitRouted(j) PROVE TypeOK'
  BY <1>0, <1>3 DEF SubmitRouted, SetStatus, queueVars, workerVars
<1>4. ASSUME NEW j \in Jobs, NEW w \in Nodes, AssignJob(j, w) PROVE TypeOK'
  BY <1>0, <1>4 DEF AssignJob, SetStatus, queueVars, workerVars, engineVars, historyVars
<1>5. ASSUME NEW j \in Jobs, RecoverJob(j) PROVE TypeOK'
  BY <1>0, <1>5 DEF RecoverJob, SetStatus, Put, workerVars, engineVars, historyVars
<1>6. ASSUME NEW w \in Nodes, RunnerStep(w) \/ RunnerTarget(w) PROVE TypeOK'
  <2>1. wjob[w] = NoJob \/ wjob[w] \in Jobs
    BY DEF DistTypeOK
  <2>2. wpc[w] \in {"fetched", "check", "run", "retrying"} => wjob[w] \in Jobs
    BY <2>1 DEF DistTypeOK
  <2>3. CASE FetchJob(w) \/ LoopEnds(w)
    BY <1>2, <2>3 DEF FetchJob, LoopEnds
  <2>4. CASE ReportRunning(w) \/ RunTarget(w) \/ ReportCancelled(w) \/ ReportFailedForNow(w)
    BY <1>0, <2>2, <2>4 DEF ReportRunning, RunTarget, ReportCancelled, ReportFailedForNow,
        ReportEnd, jobVars, queueVars, workerVars, engineVars, historyVars
  <2>5. CASE ReportCompleted(w) \/ ReportFailed(w)
    BY <1>0, <2>2, <2>5 DEF ReportCompleted, ReportFailed, ReportEnd, SaveIf, queueVars,
        workerVars, historyVars
  <2>6. CASE RetryOnNode(w)
    BY <1>0, <2>2, <2>6 DEF RetryOnNode, SetStatus, queueVars, workerVars, engineVars, historyVars
  <2> QED
    BY <1>6, <2>3, <2>4, <2>5, <2>6 DEF RunnerStep, RunnerTarget
<1>7. ASSUME NEW w \in Nodes, Tick(w) \/ Heartbeat(w) \/ RunnerLife(w) PROVE UNCHANGED vars
  BY <1>7 DEF Tick, Heartbeat, RunnerLife, StartWorker, StopSignal, Unregister, Pause, Resume, Crash
<1>8. ASSUME NEW w \in Nodes, SuspendStale(w) \/ DeclareOffline(w) PROVE UNCHANGED vars
  BY <1>8 DEF SuspendStale, DeclareOffline
<1>9. ASSUME RecoveryDone PROVE UNCHANGED vars
  BY <1>9 DEF RecoveryDone
<1>10. ASSUME UNCHANGED allVars PROVE UNCHANGED vars
  BY <1>10 DEF allVars
<1> QED
  BY <1>1, <1>2, <1>3, <1>4, <1>5, <1>6, <1>7, <1>8, <1>9, <1>10
  DEF DistNext, DistClient, MonitorStep, SubmitLocally, EngineStep, LocalStep

\* Every step keeps the types of the nodes, their runners and the manager.
LEMMA NextNodeTypes == DistTypeOK /\ [DistNext]_allVars => NodeTypes'
<1> SUFFICES ASSUME DistTypeOK, [DistNext]_allVars
             PROVE  NodeTypes'
  OBVIOUS
<1>0. NodeTypes
  BY DEF DistTypeOK, NodeTypes
<1>1. ASSUME UNCHANGED distVars PROVE NodeTypes'
  BY <1>0, <1>1 DEF NodeTypes, distVars, nodeVars, runnerVars, managerVars
<1> USE NoJobAssumption, RoutingAssumption DEF WorkerState
<1>2. ASSUME NEW j \in Jobs, NEW w \in Nodes, PutOnNode(j, w),
             UNCHANGED <<node, stale, runnerVars, mlock, recovering, starts>>, assigns' \in Nat
      PROVE  NodeTypes'
  BY <1>0, <1>2, PutOnNodeTypes DEF NodeTypes, runnerVars
<1>3. ASSUME NEW j \in Jobs, SubmitRouted(j) PROVE NodeTypes'
  <2>1. PICK w \in Nodes : PutOnNode(j, w)
    BY <1>3, RoutesAreNodes DEF SubmitRouted
  <2> QED
    BY <1>0, <1>2, <1>3, <2>1 DEF SubmitRouted, managerVars, NodeTypes
<1>4. ASSUME NEW j \in Jobs, NEW w \in Nodes, AssignJob(j, w) PROVE NodeTypes'
  BY <1>0, <1>2, <1>4 DEF AssignJob, NodeTypes
<1>5. ASSUME NEW w \in Nodes, SuspendStale(w) \/ DeclareOffline(w) \/ Tick(w) \/ Heartbeat(w)
      PROVE  NodeTypes'
  <2>1. <<>> \in Seq(Jobs)
    OBVIOUS
  <2>2. CASE Tick(w)
    <3>1. stale' = [stale EXCEPT ![w] = @ + 1] /\ stale[w] < 2
      BY <2>2 DEF Tick
    <3>2. stale[w] \in 0..2 /\ stale[w] + 1 \in 0..2
      BY <1>0, <3>1 DEF NodeTypes
    <3>3. stale' \in [Nodes -> 0..2]
      BY <1>0, <3>1, <3>2, Zenon DEF NodeTypes
    <3> QED
      BY <1>0, <2>2, <3>3 DEF Tick, NodeTypes, runnerVars, managerVars
  <2>3. CASE SuspendStale(w) \/ Heartbeat(w)
    <3>1. stale' \in [Nodes -> 0..2]
      <4>1. 0 \in 0..2
        OBVIOUS
      <4> QED
        BY <1>0, <2>3, <4>1, Zenon DEF NodeTypes, SuspendStale, Heartbeat
    <3>2. node' \in [Nodes -> WorkerState \cup {"unknown"}]
      <4>1. \/ node' = node \/ node' = [node EXCEPT ![w] = "active"]
            \/ node' = [node EXCEPT ![w] = "suspended"]
        BY <2>3, Zenon DEF SuspendStale, Heartbeat
      <4> QED
        BY <1>0, <4>1 DEF NodeTypes
    <3>3. UNCHANGED <<nqueue, assigned, runnerVars, managerVars>>
      BY <2>3 DEF SuspendStale, Heartbeat
    <3> QED
      BY <1>0, <3>1, <3>2, <3>3 DEF NodeTypes, runnerVars, managerVars
  <2>4. CASE DeclareOffline(w)
    BY <1>0, <2>1, <2>4 DEF NodeTypes, DeclareOffline, runnerVars, managerVars
  <2> QED
    BY <1>5, <2>2, <2>3, <2>4
<1>6. ASSUME RecoveryDone \/ \E j \in Jobs : RecoverJob(j) PROVE NodeTypes'
  BY <1>0, <1>6 DEF NodeTypes, RecoveryDone, RecoverJob, nodeVars, runnerVars, managerVars
<1>7. ASSUME NEW w \in Nodes, RunnerStep(w) \/ RunnerTarget(w) PROVE NodeTypes'
  <2> USE DEF WGoTo, ForgetJob, ReportEnd
  <2>1. CASE FetchJob(w)
    <3>1. nqueue[w] \in Seq(Jobs) /\ nqueue[w] # <<>>
      BY <1>0, <2>1 DEF NodeTypes, FetchJob
    <3>2. Head(nqueue[w]) \in Jobs /\ Tail(nqueue[w]) \in Seq(Jobs)
      BY <3>1
    <3> QED
      BY <1>0, <2>1, <3>2 DEF NodeTypes, FetchJob, managerVars
  <2>2. CASE LoopEnds(w) \/ ReportRunning(w) \/ RunTarget(w)
    <3>1. /\ UNCHANGED <<nodeVars, wjob, wstatus, wstop, managerVars>>
          /\ \/ wpc[w] = "idle" /\ wpc' = [wpc EXCEPT ![w] = "down"]
             \/ wpc[w] = "fetched" /\ wpc' = [wpc EXCEPT ![w] = "check"]
             \/ wpc[w] = "check" /\ wpc' = [wpc EXCEPT ![w] = "run"]
      BY <2>2 DEF LoopEnds, ReportRunning, RunTarget
    <3>2. wpc' \in [Nodes -> {"down", "crashed", "idle", "fetched", "check", "run", "retrying"}]
      BY ZenonT(40), <1>0, <3>1 DEF NodeTypes
    <3>3. \A v \in Nodes : wpc'[v] \in {"down", "crashed", "idle"} <=> wjob[v] = NoJob
      BY <1>0, <3>1 DEF NodeTypes
    <3> QED
      BY <1>0, <3>1, <3>2, <3>3 DEF NodeTypes, nodeVars, managerVars
  <2>3. CASE ReportCancelled(w) \/ ReportCompleted(w) \/ ReportFailed(w)
    <3>1. assigned' \in [Nodes -> SUBSET Jobs]
      BY <1>0, <2>3 DEF NodeTypes, ReportCancelled, ReportCompleted, ReportFailed
    <3>2. wpc' = [wpc EXCEPT ![w] = "idle"] /\ wjob' = [wjob EXCEPT ![w] = NoJob]
      BY <2>3 DEF ReportCancelled, ReportCompleted, ReportFailed
    <3>3. UNCHANGED <<node, stale, nqueue, wstatus, wstop, managerVars>>
      BY <2>3 DEF ReportCancelled, ReportCompleted, ReportFailed
    <3> QED
      BY <1>0, <3>1, <3>2, <3>3 DEF NodeTypes, managerVars
  <2>4. CASE ReportFailedForNow(w)
    BY <1>0, <2>4 DEF NodeTypes, ReportFailedForNow
  <2>5. CASE RetryOnNode(w)
    <3>1. wjob[w] \in Jobs
      BY <1>0, <2>5 DEF NodeTypes, RetryOnNode
    <3>2. nqueue' \in [Nodes -> Seq(Jobs)] /\ assigned' \in [Nodes -> SUBSET Jobs]
      BY <1>0, <2>5, <3>1, PutOnNodeTypes DEF RetryOnNode
    <3> QED
      BY <1>0, <2>5, <3>2 DEF NodeTypes, RetryOnNode
  <2> QED
    BY <1>7, <2>1, <2>2, <2>3, <2>4, <2>5 DEF RunnerStep, RunnerTarget
<1>8. ASSUME NEW w \in Nodes, RunnerLife(w) PROVE NodeTypes'
  <2>1. <<>> \in Seq(Jobs)
    OBVIOUS
  <2>2. CASE StartWorker(w)
    BY <1>0, <2>1, <2>2 DEF NodeTypes, StartWorker
  <2>3. CASE StopSignal(w)
    <3>1. wstop' \in [Nodes -> BOOLEAN]
      BY <1>0, <2>3, Zenon DEF NodeTypes, StopSignal
    <3> QED
      BY <1>0, <2>3, <3>1 DEF NodeTypes, StopSignal, nodeVars, managerVars
  <2>6. CASE Crash(w)
    BY <1>0, <2>6 DEF NodeTypes, Crash, nodeVars, managerVars
  <2>4. CASE Unregister(w)
    BY <1>0, <2>1, <2>4 DEF NodeTypes, Unregister, managerVars
  <2>5. CASE Pause(w) \/ Resume(w)
    <3>1. /\ node' \in [Nodes -> WorkerState \cup {"unknown"}]
          /\ wstatus' \in [Nodes -> WorkerState]
      <4>1. PICK st \in {"active", "suspended"} :
                 /\ wstatus' = [wstatus EXCEPT ![w] = st]
                 /\ node' = node \/ node' = [node EXCEPT ![w] = st]
        BY <2>5, Zenon DEF Pause, Resume, SetNode
      <4> QED
        BY SMTT(30), <1>0, <4>1 DEF NodeTypes
    <3>2. UNCHANGED <<stale, nqueue, assigned, wpc, wjob, wstop, managerVars>>
      BY <2>5 DEF Pause, Resume
    <3> QED
      BY <1>0, <3>1, <3>2 DEF NodeTypes, managerVars
  <2> QED
    BY <1>8, <2>2, <2>3, <2>4, <2>5, <2>6 DEF RunnerLife
<1>9. ASSUME UNCHANGED allVars PROVE UNCHANGED distVars
  BY <1>9 DEF allVars
<1> QED
  BY <1>1, <1>3, <1>4, <1>5, <1>6, <1>7, <1>8, <1>9
  DEF DistNext, DistClient, MonitorStep, SubmitLocally, EngineStep

\* A job submitted once is in one entry of a node's queue or in the hands of
\* its runner, and in neither before it is submitted; what is in the queue is
\* assigned.  A second copy would lose its assignment when the first one ends.
OnNodeOnce(w, j) ==
    /\ \A i, k \in DOMAIN nqueue[w] : nqueue[w][i] = j /\ nqueue[w][k] = j => i = k
    /\ \A i \in DOMAIN nqueue[w] : nqueue[w][i] = j => wjob[w] # j /\ j \in assigned[w]
    /\ submits[j] = 0 => wjob[w] # j /\ \A i \in DOMAIN nqueue[w] : nqueue[w][i] # j

OncePerNode ==
    assigns = 0 => \A w \in Nodes, j \in Jobs : submits[j] <= 1 => OnNodeOnce(w, j)

\* Putting a job on a node where it is not makes one entry of it.
LEMMA PutOnNodeOnce ==
    ASSUME NodeTypes, NEW j \in Jobs, NEW w \in Nodes, PutOnNode(j, w),
           \A i \in DOMAIN nqueue[w] : nqueue[w][i] # j
    PROVE  /\ \A v \in Nodes \ {w} : nqueue'[v] = nqueue[v] /\ assigned'[v] = assigned[v]
           /\ DOMAIN nqueue'[w] = 1..(Len(nqueue[w]) + 1)
           /\ DOMAIN nqueue[w] = 1..Len(nqueue[w]) /\ Len(nqueue[w]) \in Nat
           /\ \A i \in 1..Len(nqueue[w]) : nqueue'[w][i] = nqueue[w][i]
           /\ nqueue'[w][Len(nqueue[w]) + 1] = j
           /\ assigned'[w] = assigned[w] \cup {j}
<1>1. nqueue[w] \in Seq(Jobs)
  BY DEF NodeTypes
<1>2. nqueue'[w] = Append(nqueue[w], j) /\ assigned'[w] = assigned[w] \cup {j}
  BY DEF PutOnNode, NodeTypes
<1> QED
  BY <1>1, <1>2 DEF PutOnNode, NodeTypes

\* A step that leaves node w alone, and makes submissions at most, keeps its
\* jobs where they are.
LEMMA QuietOnNode ==
    ASSUME NEW w \in Nodes, NEW j \in Jobs, OnNodeOnce(w, j), TypeOK,
           nqueue'[w] = nqueue[w], wjob'[w] = wjob[w],
           assigned'[w] = assigned[w] \/ assigned'[w] = assigned[w] \ {wjob[w]},
           submits'[j] = 0 => submits[j] = 0
    PROVE  OnNodeOnce(w, j)'
  BY DEF OnNodeOnce

\* Submissions only count upwards, and hand-made assignments are not undone.
LEMMA CountsGrow ==
    ASSUME DistTypeOK, [DistNext]_allVars
    PROVE  /\ assigns' = 0 => assigns = 0
           /\ \A j \in Jobs : submits[j] <= submits'[j]
<1> USE DEF distVars, managerVars
<1>1. \/ assigns' = assigns
      \/ \E j \in Jobs, w \in Nodes : AssignJob(j, w)
  <2>1. CASE DistClient
    BY <2>1 DEF DistClient, SubmitRouted, SubmitLocally
  <2>2. CASE MonitorStep \/ EngineStep
    BY <2>2 DEF MonitorStep, EngineStep, SuspendStale, DeclareOffline, RecoverJob, RecoveryDone
  <2>3. ASSUME NEW w \in Nodes, Tick(w) \/ Heartbeat(w) \/ RunnerLife(w) PROVE assigns' = assigns
    BY <2>3 DEF Tick, Heartbeat, RunnerLife, StartWorker, StopSignal, Unregister, Pause, Resume, Crash
  <2>4. ASSUME NEW w \in Nodes, RunnerStep(w) \/ RunnerTarget(w) PROVE assigns' = assigns
    BY <2>4 DEF RunnerStep, RunnerTarget, FetchJob, ReportRunning, RunTarget, ReportCancelled,
            RetryOnNode, LoopEnds, ReportCompleted, ReportFailed, ReportFailedForNow
  <2>5. CASE UNCHANGED allVars
    BY <2>5 DEF allVars
  <2> QED
    BY <2>1, <2>2, <2>3, <2>4, <2>5 DEF DistNext
<1>2. assigns' = 0 => assigns = 0
  <2>1. assigns \in Nat
    BY DEF DistTypeOK
  <2>2. assigns' = assigns \/ assigns' = assigns + 1
    BY <1>1 DEF AssignJob
  <2> QED
    BY <2>1, <2>2
<1>3. submits' = submits \/ \E k \in Jobs : submits' = [submits EXCEPT ![k] = @ + 1]
  <2>1. CASE DistClient
    BY <2>1 DEF DistClient, SubmitRouted, SubmitLocally, SubmitJob, AssignJob, CancelJob, Cancel,
            ClearJobs, historyVars
  <2>2. CASE MonitorStep
    BY <2>2 DEF MonitorStep, SuspendStale, DeclareOffline, RecoverJob, RecoveryDone, vars, historyVars
  <2>3. CASE EngineStep
    <3>1. CASE Lifecycle
      BY <3>1 DEF Lifecycle, Initialize, ShutdownStop, ShutdownJoin, ShutdownClear, historyVars
    <3>2. ASSUME NEW t \in Threads, WorkerStep(t) \/ TargetStep(t) PROVE submits' = submits
      BY <3>2 DEF WorkerStep, CheckStop, TakeJob, QueueEmpty, SkipCancelled, NotCancelled,
              StartJob, TimeoutFires, CompleteJob, FailJob, SaveToMemory, RetryJob, Requeue,
              TargetStep, TargetReturns, TargetRaises, LateTargetEnds, TargetExits, historyVars
    <3> QED
      BY <2>3, <3>1, <3>2 DEF EngineStep
  <2>4. ASSUME NEW w \in Nodes, Tick(w) \/ Heartbeat(w) \/ RunnerLife(w) PROVE submits' = submits
    BY <2>4 DEF Tick, Heartbeat, RunnerLife, StartWorker, StopSignal, Unregister, Pause, Resume,
            Crash, vars, historyVars
  <2>5. ASSUME NEW w \in Nodes, RunnerStep(w) \/ RunnerTarget(w) PROVE submits' = submits
    BY <2>5 DEF RunnerStep, RunnerTarget, FetchJob, ReportRunning, RunTarget, ReportCancelled,
            RetryOnNode, LoopEnds, ReportCompleted, ReportFailed, ReportFailedForNow, vars, historyVars
  <2>6. CASE UNCHANGED allVars
    BY <2>6 DEF allVars, vars, historyVars
  <2> QED
    BY <2>1, <2>2, <2>3, <2>4, <2>5, <2>6 DEF DistNext
<1>4. submits \in [Jobs -> Nat]
  BY DEF DistTypeOK, TypeOK
<1>5. \A j \in Jobs : submits'[j] \in {submits[j], submits[j] + 1}
  BY <1>3, <1>4
<1>6. \A j \in Jobs : submits[j] <= submits'[j]
  BY <1>4, <1>5
<1> QED
  BY <1>2, <1>6

\* A submission is the only way to a node for a job that never was on one, and
\* a retry moves the runner's job back into the queue of its node.
LEMMA NextOncePerNode == DistTypeOK /\ OncePerNode /\ [DistNext]_allVars => OncePerNode'
<1> SUFFICES ASSUME DistTypeOK, OncePerNode, [DistNext]_allVars, assigns' = 0,
                    NEW w \in Nodes, NEW j \in Jobs, submits'[j] <= 1
             PROVE  OnNodeOnce(w, j)'
  BY DEF OncePerNode
<1>1. NodeTypes /\ TypeOK
  BY DEF DistTypeOK, NodeTypes
<1>2. submits[j] \in Nat /\ submits'[j] \in Nat /\ submits[j] <= submits'[j]
  BY <1>1, CountsGrow, DistNextTypeOK DEF TypeOK
<1>3. assigns = 0 /\ submits[j] <= 1
  BY <1>2, CountsGrow
<1>4. OnNodeOnce(w, j)
  BY <1>3 DEF OncePerNode
<1>5. submits'[j] = 0 => submits[j] = 0
  BY <1>2
<1>6. ASSUME nqueue'[w] = nqueue[w], wjob'[w] = wjob[w], assigned'[w] = assigned[w]
      PROVE  OnNodeOnce(w, j)'
  BY <1>1, <1>4, <1>5, <1>6, QuietOnNode
<1>7. ASSUME NEW k \in Jobs, SubmitRouted(k) PROVE OnNodeOnce(w, j)'
  <2>1. PICK v \in Nodes : PutOnNode(k, v)
    BY <1>7, RoutesAreNodes DEF SubmitRouted
  <2>2. wjob' = wjob /\ submits' = [submits EXCEPT ![k] = @ + 1]
    BY <1>7 DEF SubmitRouted, runnerVars
  <2>3. CASE v # w
    BY <1>1, <1>6, <2>1, <2>2, <2>3 DEF PutOnNode, NodeTypes
  <2>4. CASE v = w /\ k = j
    <3>1. submits[j] = 0 /\ submits'[j] = 1
      BY <1>1, <1>2, <2>2, <2>4 DEF TypeOK
    <3>2. wjob[w] # j /\ \A i \in DOMAIN nqueue[w] : nqueue[w][i] # j
      BY <1>4, <3>1 DEF OnNodeOnce
    <3>3. /\ DOMAIN nqueue'[w] = 1..(Len(nqueue[w]) + 1)
          /\ DOMAIN nqueue[w] = 1..Len(nqueue[w]) /\ Len(nqueue[w]) \in Nat
          /\ \A i \in 1..Len(nqueue[w]) : nqueue'[w][i] = nqueue[w][i]
          /\ assigned'[w] = assigned[w] \cup {j}
      BY <1>1, <2>1, <2>4, <3>2, PutOnNodeOnce
    <3>4. \A i \in DOMAIN nqueue'[w] : nqueue'[w][i] = j => i = Len(nqueue[w]) + 1
      BY <3>2, <3>3
    <3> QED
      BY <2>2, <3>1, <3>2, <3>3, <3>4 DEF OnNodeOnce
  <2>5. CASE v = w /\ k # j
    <3>1. nqueue[w] \in Seq(Jobs) /\ nqueue'[w] = Append(nqueue[w], k)
          /\ assigned'[w] = assigned[w] \cup {k}
      BY <1>1, <2>1, <2>5 DEF PutOnNode, NodeTypes
    <3>2. \A i \in DOMAIN nqueue'[w] : nqueue'[w][i] = j => i \in DOMAIN nqueue[w] /\ nqueue[w][i] = j
      BY <2>5, <3>1
    <3> QED
      BY <1>4, <1>5, <2>2, <3>1, <3>2 DEF OnNodeOnce
  <2> QED
    BY <2>3, <2>4, <2>5
<1>8. ASSUME NEW v \in Nodes, FetchJob(v) PROVE OnNodeOnce(w, j)'
  <2>1. CASE v # w
    BY <1>1, <1>6, <1>8, <2>1 DEF FetchJob, NodeTypes
  <2>2. CASE v = w
    <3>1. /\ nqueue[w] \in Seq(Jobs) /\ nqueue[w] # <<>>
          /\ wjob'[w] = Head(nqueue[w]) /\ nqueue'[w] = Tail(nqueue[w])
          /\ assigned' = assigned
      BY <1>1, <1>8, <2>2 DEF FetchJob, NodeTypes
    <3>2. Len(nqueue[w]) \in Nat /\ Len(nqueue[w]) >= 1 /\ DOMAIN nqueue[w] = 1..Len(nqueue[w])
      BY <3>1
    <3>3. DOMAIN nqueue'[w] = 1..(Len(nqueue[w]) - 1)
      BY <3>1, <3>2
    <3>4. \A i \in DOMAIN nqueue'[w] : nqueue'[w][i] = nqueue[w][i + 1]
      BY <3>1, <3>2, <3>3
    <3>5. wjob'[w] = nqueue[w][1] /\ 1 \in DOMAIN nqueue[w]
      BY <3>1, <3>2
    <3>6. \A i \in DOMAIN nqueue'[w] : i + 1 \in DOMAIN nqueue[w] /\ i + 1 # 1 /\ i \in Int
      BY <3>2, <3>3
    <3> QED
      BY <1>4, <1>5, <3>1, <3>4, <3>5, <3>6 DEF OnNodeOnce
  <2> QED
    BY <2>1, <2>2
<1>9. ASSUME NEW v \in Nodes, RetryOnNode(v) PROVE OnNodeOnce(w, j)'
  <2>1. CASE v # w
    BY <1>1, <1>6, <1>9, <2>1 DEF RetryOnNode, PutOnNode, ForgetJob, NodeTypes
  <2>2. CASE v = w
    <3>1. wjob[w] \in Jobs /\ wjob'[w] = NoJob /\ submits' = submits
      BY <1>1, <1>9, <2>2 DEF RetryOnNode, ForgetJob, NodeTypes, historyVars
    <3>2. nqueue[w] \in Seq(Jobs) /\ nqueue'[w] = Append(nqueue[w], wjob[w])
          /\ assigned'[w] = assigned[w] \cup {wjob[w]}
      BY <1>1, <1>9, <2>2 DEF RetryOnNode, PutOnNode, NodeTypes
    <3>3. Len(nqueue[w]) \in Nat /\ DOMAIN nqueue[w] = 1..Len(nqueue[w])
          /\ DOMAIN nqueue'[w] = 1..(Len(nqueue[w]) + 1)
      BY <3>1, <3>2
    <3>4. /\ \A i \in DOMAIN nqueue[w] : nqueue'[w][i] = nqueue[w][i]
          /\ nqueue'[w][Len(nqueue[w]) + 1] = wjob[w]
      BY <3>1, <3>2, <3>3
    <3>5. \A i \in DOMAIN nqueue'[w] : i \in DOMAIN nqueue[w] \/ i = Len(nqueue[w]) + 1
      BY <3>3
    <3> QED
      BY <1>4, <3>1, <3>2, <3>4, <3>5, NoJobAssumption DEF OnNodeOnce
  <2> QED
    BY <2>1, <2>2
<1>10. ASSUME NEW v \in Nodes, ReportCancelled(v) \/ ReportCompleted(v) \/ ReportFailed(v)
       PROVE  OnNodeOnce(w, j)'
  <2>1. /\ nqueue' = nqueue /\ wjob' = [wjob EXCEPT ![v] = NoJob]
        /\ assigned' = assigned \/ assigned' = [assigned EXCEPT ![v] = @ \ {wjob[v]}]
    BY <1>10, Zenon DEF ReportCancelled, ReportCompleted, ReportFailed, ReportEnd, ForgetJob
  <2>2. /\ wjob'[w] \in {wjob[w], NoJob}
        /\ assigned'[w] = assigned[w] \/ assigned'[w] = assigned[w] \ {wjob[w]}
    BY <1>1, <2>1 DEF NodeTypes
  <2> QED
    BY <1>4, <1>5, <2>1, <2>2, NoJobAssumption DEF OnNodeOnce
<1>11. ASSUME NEW v \in Nodes, ReportFailedForNow(v) PROVE OnNodeOnce(w, j)'
  <2>1. /\ nqueue' = nqueue /\ wjob' = wjob
        /\ assigned' = assigned \/ assigned' = [assigned EXCEPT ![v] = @ \ {wjob[v]}]
    BY <1>11, Zenon DEF ReportFailedForNow, ReportEnd
  <2>2. assigned'[w] = assigned[w] \/ assigned'[w] = assigned[w] \ {wjob[w]}
    BY <1>1, <2>1 DEF NodeTypes
  <2> QED
    BY <1>1, <1>4, <1>5, <2>1, <2>2, QuietOnNode
<1>12. ASSUME NEW v \in Nodes, ReportRunning(v) \/ RunTarget(v) \/ LoopEnds(v) \/ Tick(v)
              \/ Heartbeat(v) \/ SuspendStale(v) \/ StopSignal(v) \/ Pause(v) \/ Resume(v)
       PROVE  OnNodeOnce(w, j)'
  BY <1>6, <1>12 DEF ReportRunning, RunTarget, LoopEnds, Tick, Heartbeat, SuspendStale,
                     StopSignal, Pause, Resume, nodeVars, runnerVars
<1>13. ASSUME NEW v \in Nodes, StartWorker(v) \/ Unregister(v) \/ DeclareOffline(v) \/ Crash(v)
       PROVE  OnNodeOnce(w, j)'
  <2>1. /\ wjob'[w] \in {wjob[w], NoJob}
        /\ \/ nqueue'[w] = <<>>
           \/ nqueue'[w] = nqueue[w] /\ assigned'[w] = assigned[w]
    BY <1>1, <1>13 DEF StartWorker, Unregister, DeclareOffline, Crash, nodeVars, runnerVars, NodeTypes
  <2>2. CASE nqueue'[w] = <<>>
    BY <1>4, <1>5, <2>1, <2>2, NoJobAssumption DEF OnNodeOnce
  <2>3. CASE nqueue'[w] = nqueue[w] /\ assigned'[w] = assigned[w]
    BY <1>4, <1>5, <2>1, <2>3, NoJobAssumption DEF OnNodeOnce
  <2> QED
    BY <2>1, <2>2, <2>3
<1>14. ASSUME RecoveryDone \/ \E k \in Jobs : RecoverJob(k) PROVE OnNodeOnce(w, j)'
  BY <1>6, <1>14 DEF RecoveryDone, RecoverJob, nodeVars, runnerVars
<1>15. ASSUME UNCHANGED distVars PROVE OnNodeOnce(w, j)'
  BY <1>6, <1>15 DEF distVars, nodeVars, runnerVars
<1>16. ASSUME NEW k \in Jobs, NEW v \in Nodes, AssignJob(k, v) PROVE FALSE
  BY <1>3, <1>16 DEF AssignJob
<1>17. ASSUME UNCHANGED allVars PROVE UNCHANGED distVars
  BY <1>17 DEF allVars
<1> QED
  BY <1>7, <1>8, <1>9, <1>10, <1>11, <1>12, <1>13, <1>14, <1>15, <1>16, <1>17
  DEF DistNext, DistClient, MonitorStep, SubmitLocally, EngineStep, RunnerStep, RunnerTarget,
      RunnerLife

\* All variables keep their types, and a job submitted once that waits on a
\* node is among the jobs its recovery will find, whatever stops, pauses,
\* late heartbeats, crashes and restarts happen.
THEOREM NodesStayConsistent == DistSpec => []NodesConsistent
<1>1. DistInit => DistTypeOK /\ OncePerNode
  <2> SUFFICES ASSUME DistInit PROVE DistTypeOK /\ OncePerNode
    OBVIOUS
  <2>1. TypeOK
    BY InitTypeOK DEF DistInit
  <2>2. nqueue \in [Nodes -> Seq(Jobs)]
    BY DEF DistInit
  <2>3. wstop \in [Nodes -> BOOLEAN] /\ assigned \in [Nodes -> SUBSET Jobs]
    BY Zenon DEF DistInit
  <2>4. DistTypeOK
    BY <2>1, <2>2, <2>3 DEF DistInit, DistTypeOK, WorkerState
  <2>5. OncePerNode
    BY NoJobAssumption DEF DistInit, OncePerNode, OnNodeOnce
  <2> QED
    BY <2>4, <2>5
<1>2. DistTypeOK /\ [DistNext]_allVars => DistTypeOK'
  BY DistNextTypeOK, NextNodeTypes DEF DistTypeOK, NodeTypes
<1>3. DistTypeOK /\ OncePerNode => NodesConsistent
  <2> SUFFICES ASSUME DistTypeOK, OncePerNode, assigns = 0, NEW w \in Nodes,
                      NEW i \in DOMAIN nqueue[w], submits[nqueue[w][i]] <= 1
               PROVE  nqueue[w][i] \in assigned[w]
    BY DEF NodesConsistent, QueuedOnNodeIsAssigned
  <2>1. nqueue[w] \in Seq(Jobs)
    BY DEF DistTypeOK
  <2>2. nqueue[w][i] \in Jobs
    BY <2>1
  <2> QED
    BY <2>2 DEF OncePerNode, OnNodeOnce
<1> QED
  BY <1>1, <1>2, <1>3, NextOncePerNode, PTL DEF DistSpec

-----------------------------------------------------------------------------
(* Cancellation *)

\* The manager, the monitor and the runners never take a cancellation back,
\* and a runner looks at it before it starts a target.
LEMMA CancellationStaysAnywhere ==
    ASSUME DistTypeOK, [DistNext]_allVars, NEW j \in Jobs, CancelledInTime(j)
    PROVE  CancelledInTime(j)' /\ attempts'[j] = attempts[j]
<1> DEFINE Goal == CancelledInTime(j)' /\ attempts'[j] = attempts[j]
<1>0. TypeOK
  BY DEF DistTypeOK
<1>1. ASSUME LocalStep PROVE Goal
  BY <1>0, <1>1, LocalIsEngine, CancellationStays
<1>2. ASSUME UNCHANGED <<cancelled, held, pc>>, attempts'[j] = attempts[j] PROVE Goal
  BY <1>2 DEF CancelledInTime
<1>3. ASSUME UNCHANGED vars PROVE Goal
  BY <1>2, <1>3 DEF vars, jobVars, workerVars, historyVars
<1>4. ASSUME NEW k \in Jobs,
             SubmitRouted(k) \/ RecoverJob(k) \/ \E w \in Nodes : AssignJob(k, w)
      PROVE  Goal
  BY <1>2, <1>4 DEF SubmitRouted, RecoverJob, AssignJob, workerVars, historyVars
<1>5. ASSUME NEW w \in Nodes, RunnerStep(w) \/ RunnerTarget(w) PROVE Goal
  <2>1. CASE RunTarget(w)
    <3>1. wjob[w] # j
      BY <2>1 DEF RunTarget, CancelledInTime
    <3>2. attempts'[j] = attempts[j]
      BY <1>0, <2>1, <3>1 DEF RunTarget, TypeOK
    <3> QED
      BY <1>2, <2>1, <3>2 DEF RunTarget, jobVars, workerVars
  <2>2. CASE FetchJob(w) \/ LoopEnds(w)
    BY <1>3, <2>2 DEF FetchJob, LoopEnds
  <2>3. CASE ReportRunning(w) \/ ReportCancelled(w) \/ RetryOnNode(w) \/ ReportCompleted(w)
             \/ ReportFailed(w) \/ ReportFailedForNow(w)
    BY <1>2, <2>3 DEF ReportRunning, ReportCancelled, RetryOnNode, ReportCompleted, ReportFailed,
        ReportFailedForNow, workerVars, historyVars
  <2> QED
    BY <1>5, <2>1, <2>2, <2>3 DEF RunnerStep, RunnerTarget
<1>6. ASSUME NEW w \in Nodes, Tick(w) \/ Heartbeat(w) \/ RunnerLife(w) PROVE UNCHANGED vars
  BY <1>6 DEF Tick, Heartbeat, RunnerLife, StartWorker, StopSignal, Unregister, Pause, Resume, Crash
<1>7. ASSUME NEW w \in Nodes, SuspendStale(w) \/ DeclareOffline(w) PROVE UNCHANGED vars
  BY <1>7 DEF SuspendStale, DeclareOffline
<1>8. ASSUME RecoveryDone PROVE UNCHANGED vars
  BY <1>8 DEF RecoveryDone
<1>9. ASSUME UNCHANGED allVars PROVE UNCHANGED vars
  BY <1>9 DEF allVars
<1> HIDE DEF Goal
<1>10. Goal
  BY <1>1, <1>3, <1>4, <1>5, <1>6, <1>7, <1>8, <1>9
  DEF DistNext, DistClient, MonitorStep, SubmitLocally, EngineStep, LocalStep
<1> QED
  BY <1>10 DEF Goal

\* A job cancelled before any thread of the engine got past its check starts
\* nowhere any more, although reports, recovery and retries overwrite its
\* status (distributed.py:236-241, worker.py:49).
THEOREM CancelledStaysDownAnywhere == DistSpec => CancelledNeverStartsAnywhere
<1>1. DistTypeOK /\ [DistNext]_allVars =>
        [\A j \in Jobs : CancelledInTime(j) =>
            CancelledInTime(j)' /\ attempts'[j] = attempts[j]]_allVars
  BY CancellationStaysAnywhere
<1>2. DistSpec => []DistTypeOK
  BY NodesStayConsistent, PTL DEF NodesConsistent
<1> QED
  BY <1>1, <1>2, PTL DEF DistSpec, CancelledNeverStartsAnywhere

-----------------------------------------------------------------------------
(* Crashes                                                                 *)
(*                                                                         *)
(* What is assumed of the environment: no worker is stopped, paused or     *)
(* started again, heartbeats are in time, clients submit a job once,       *)
(* assign none by hand and forget none, and no target exits the            *)
(* interpreter.  Any worker may crash at any moment, and the engine may be *)
(* shut down and initialized at any moment.                                *)
CrashesOnly ==
    /\ MayStop = {} /\ MaxStarts <= 1 /\ TimelyHeartbeats
    /\ \A j \in Jobs : MaxSubmits[j] <= 1
    /\ MaxAssigns = 0 /\ ~MayClear /\ MayExit = {}

\* A worker is not started yet, or known to the manager and active; while it
\* is up its heartbeats are in time, so that only a crashed one is declared
\* offline.
RunnerPlain(w) ==
    /\ ~wstop[w] /\ starts[w] <= 1
    /\ wstatus[w] \in {"registered", "active"}
    /\ starts[w] = 0 => /\ wpc[w] = "down" /\ node[w] = "unknown"
                        /\ assigned[w] = {} /\ nqueue[w] = <<>>
    /\ starts[w] # 0 => Known(w) /\ wstatus[w] = "active" /\ wpc[w] # "down"
    /\ Up(w) => stale[w] = 0

\* The job is on the node: assigned (then perhaps in its queue), or with its
\* runner.
OnNode(w, j) == j \in assigned[w] \/ wjob[w] = j

\* A job is in the engine (OnePlacePerJob), in recovery or on one node, and
\* nowhere before it is submitted; what a node has it has as an assigned job,
\* except for the moment between a failure and its retry.
InEngine(j) == j \in QueuedJobs \/ \E t \in Threads : held[t] = j

PlacedOnce(j) ==
    /\ InEngine(j) => j \notin recovering
    /\ InEngine(j) \/ j \in recovering \/ submits[j] = 0 => \A w \in Nodes : ~OnNode(w, j)
    /\ submits[j] = 0 => j \notin recovering
    /\ \A w, v \in Nodes : OnNode(w, j) /\ OnNode(v, j) => w = v
    /\ \A w \in Nodes : wjob[w] = j /\ wpc[w] # "retrying" => j \in assigned[w]

\* A submitted job is known to the engine, and the worker that saves one has
\* finished it.
SubmittedIsRegistered ==
    \A j \in Jobs : /\ submits[j] # 0 => j \in registry
                    /\ submits[j] <= 1
                    /\ \A t \in Threads : held[t] = j /\ pc[t] = "save" =>
                          status[j] \notin {"queued", "running"}

\* The manager's lock is kept between the two steps of a failed report, and
\* for the whole of a recovery.
LockKept ==
    /\ \A w \in Nodes : wpc[w] = "retrying" => mlock = w
    /\ recovering # {} => mlock = Monitor

\* All of it is one induction: each part needs the others.
CrashInv ==
    /\ LockKept
    /\ OnePlacePerJob /\ ExecutingMatches /\ OncePerNode /\ assigns = 0
    /\ \A w \in Nodes : RunnerPlain(w)
    /\ \A j \in Jobs : PlacedOnce(j)
    /\ SubmittedIsRegistered
    /\ NoOrphan

\* A step of the engine brings a job into the engine only by a submission.
LEMMA EngineComesFromSubmission ==
    ASSUME TypeOK, [Next]_vars, NEW j \in Jobs, InEngine(j)'
    PROVE  InEngine(j) \/ SubmitJob(j)
<1> USE NoJobAssumption DEF TypeOK, InEngine, QueuedJobs
<1>1. ASSUME NEW k \in Jobs, SubmitJob(k) PROVE InEngine(j) \/ SubmitJob(j)
  <2>1. held' = held /\ \A f \in queue' : f \in queue \/ f.job = k
    BY <1>1 DEF SubmitJob, Put, workerVars
  <2>2. CASE k = j
    BY <1>1, <2>2
  <2>3. CASE k # j
    BY <2>1, <2>3
  <2> QED
    BY <2>2, <2>3
<1>2. ASSUME Client \/ Lifecycle, \A k \in Jobs : ~SubmitJob(k) PROVE InEngine(j)
  <2>1. queue' \subseteq queue
    BY <1>2 DEF Client, Lifecycle, Cancel, CancelJob, ClearJobs, Initialize, ShutdownStop,
                ShutdownJoin, ShutdownClear, queueVars
  <2>2. held' = held
    BY <1>2, LifecycleLeavesJobs
  <2> QED
    BY <2>1, <2>2
<1>3. ASSUME NEW t \in Threads, WorkerStep(t) \/ TargetStep(t) PROVE InEngine(j)
  <2>1. \A u \in Threads \ {t} : held'[u] = held[u]
    BY <1>3, OtherThreadsAlone
  <2> USE DEF At, GoTo, EndJob
  <2>2. CASE TakeJob(t)
    <3>1. PICK e \in queue : queue' = queue \ {e} /\ held' = [held EXCEPT ![t] = e.job]
      BY <2>2 DEF TakeJob, QueueHeads
    <3> QED
      BY <2>1, <3>1
  <2>3. CASE Requeue(t)
    BY <2>1, <2>3 DEF Requeue, Put
  <2>4. CASE (WorkerStep(t) \/ TargetStep(t)) /\ ~TakeJob(t) /\ ~Requeue(t)
    <3>1. held'[t] \in {held[t], NoJob}
      BY <2>4 DEF WorkerStep, CheckStop, QueueEmpty, SkipCancelled, NotCancelled, StartJob,
                  TimeoutFires, CompleteJob, FailJob, SaveToMemory, RetryJob,
                  TargetStep, TargetReturns, TargetRaises, LateTargetEnds, TargetExits
    <3>2. queue' = queue
      BY <2>4 DEF WorkerStep, CheckStop, QueueEmpty, SkipCancelled, NotCancelled, StartJob,
                  TimeoutFires, CompleteJob, FailJob, SaveToMemory, RetryJob,
                  TargetStep, TargetReturns, TargetRaises, LateTargetEnds, TargetExits, queueVars
    <3> QED
      BY <2>1, <3>1, <3>2
  <2> QED
    BY <1>3, <2>2, <2>3, <2>4
<1>4. CASE UNCHANGED vars
  BY <1>4 DEF vars, queueVars, workerVars
<1> QED
  BY <1>1, <1>2, <1>3, <1>4 DEF Next

\* A job that an own step of the engine leaves QUEUED or RUNNING outside it was
\* so before, and was outside: threads only let go of what they have finished
\* or put back, and an emptied queue is recorded.
LEMMA EngineKeepsItsJobs ==
    ASSUME TypeOK, EngineStep, MayExit = {}, NEW j \in Jobs,
           \A t \in Threads : held[t] = j /\ pc[t] = "save" => status[j] \notin {"queued", "running"},
           status'[j] \in {"queued", "running"}, ~InEngine(j)', j \notin dropped'
    PROVE  status[j] = status'[j] /\ ~InEngine(j) /\ j \notin dropped
<1> USE NoJobAssumption DEF TypeOK, InEngine, QueuedJobs
<1>1. CASE Lifecycle
  <2>1. held' = held
    BY <1>1, LifecycleLeavesJobs
  <2>2. status' = status /\ (j \in QueuedJobs \cup dropped => j \in QueuedJobs' \cup dropped')
    BY <1>1 DEF Lifecycle, Initialize, ShutdownStop, ShutdownJoin, ShutdownClear, jobVars,
                queueVars, historyVars
  <2> QED
    BY <2>1, <2>2
<1>2. ASSUME NEW t \in Threads, WorkerStep(t) \/ TargetStep(t)
      PROVE  status[j] = status'[j] /\ ~InEngine(j) /\ j \notin dropped
  <2>1. \A u \in Threads \ {t} : held'[u] = held[u]
    BY <1>2, OtherThreadsAlone
  <2>2. dropped' = dropped
    BY <1>2 DEF WorkerStep, CheckStop, TakeJob, QueueEmpty, SkipCancelled, NotCancelled,
                StartJob, TimeoutFires, CompleteJob, FailJob, SaveToMemory, RetryJob, Requeue,
                TargetStep, TargetReturns, TargetRaises, LateTargetEnds, TargetExits, historyVars
  <2> USE DEF At, GoTo, EndJob, SetStatus
  <2>3. CASE TakeJob(t)
    <3>1. PICK e \in queue : queue' = queue \ {e} /\ held' = [held EXCEPT ![t] = e.job]
      BY <2>3 DEF TakeJob, QueueHeads
    <3>2. held[t] = NoJob /\ status' = status
      BY <2>3 DEF TakeJob, Idle, jobVars
    <3> QED
      BY <2>1, <2>2, <3>1, <3>2
  <2>4. CASE Requeue(t)
    <3> DEFINE n == [job |-> held[t], seq |-> counter + 1]
    <3>1. n.job = held[t] /\ n \in queue' /\ queue \subseteq queue' /\ status' = status
      BY <2>4 DEF Requeue, Put, jobVars
    <3> QED
      BY <2>1, <2>2, <3>1
  <2>5. CASE SkipCancelled(t) \/ SaveToMemory(t)
    <3>1. queue' = queue
      BY <2>5 DEF SkipCancelled, SaveToMemory, queueVars
    <3>2. held[t] # j /\ status'[j] = status[j]
      BY <2>5 DEF SkipCancelled, SaveToMemory, jobVars
    <3> QED
      BY <2>1, <2>2, <3>1, <3>2
  <2>6. CASE CheckStop(t) \/ QueueEmpty(t) \/ NotCancelled(t) \/ StartJob(t) \/ TimeoutFires(t)
             \/ CompleteJob(t) \/ FailJob(t) \/ RetryJob(t)
    <3>1. queue' = queue /\ held' = held /\ (status' = status \/ \E s : SetStatus(held[t], s))
      BY <2>6 DEF CheckStop, QueueEmpty, NotCancelled, StartJob, TimeoutFires, CompleteJob,
                  FailJob, RetryJob, queueVars, jobVars
    <3> QED
      BY <2>1, <2>2, <3>1
  <2>7. CASE TargetStep(t)
    <3>1. queue' = queue /\ held' = held /\ status' = status
      BY <2>7 DEF TargetStep, TargetReturns, TargetRaises, LateTargetEnds, TargetExits, queueVars,
                  jobVars
    <3> QED
      BY <2>2, <3>1
  <2> QED
    BY <1>2, <2>3, <2>4, <2>5, <2>6, <2>7 DEF WorkerStep
<1> QED
  BY <1>1, <1>2 DEF EngineStep

\* The steps that remain: workers start once, crash, fetch, run and report,
\* the monitor watches and recovers, clients submit and cancel.
CrashStep ==
    \/ \E j \in Jobs : \/ SubmitRouted(j) \/ SubmitLocally(j) \/ RecoverJob(j)
                       \/ CancelJob(j) /\ UNCHANGED distVars
    \/ \E w \in Nodes :
          \/ SuspendStale(w) \/ DeclareOffline(w) \/ Tick(w) \/ Heartbeat(w)
          \/ StartWorker(w) \/ Crash(w)
          \/ FetchJob(w) \/ ReportRunning(w) \/ RunTarget(w) \/ ReportCancelled(w)
          \/ RetryOnNode(w) \/ ReportCompleted(w) \/ ReportFailed(w) \/ ReportFailedForNow(w)
    \/ RecoveryDone \/ EngineStep \/ UNCHANGED allVars

\* The environment takes no other.
LEMMA OnlyCrashSteps ==
    ASSUME CrashesOnly, DistTypeOK, CrashInv, [DistNext]_allVars
    PROVE  CrashStep
<1>1. \A w \in Nodes : ~LoopEnds(w) /\ ~Unregister(w)
  BY DEF CrashInv, RunnerPlain, LoopEnds, Unregister
<1>2. \A w \in Nodes : ~StopSignal(w) /\ ~Pause(w)
  BY DEF CrashesOnly, StopSignal, Pause
<1>3. \A w \in Nodes : ~Resume(w)
  BY DEF CrashInv, RunnerPlain, Resume
<1>4. \A j \in Jobs, w \in Nodes : ~AssignJob(j, w)
  <2>1. ~(assigns < MaxAssigns)
    BY DEF CrashesOnly, CrashInv
  <2> QED
    BY <2>1 DEF AssignJob
<1> QED
  BY <1>1, <1>2, <1>3, <1>4
  DEF CrashStep, CrashesOnly, DistNext, DistClient, MonitorStep, RunnerStep, RunnerTarget, RunnerLife

\* The manager hears the report of every runner, because it knows the worker
\* and the engine the job.
LEMMA RunnersAreHeard ==
    ASSUME DistTypeOK, CrashInv, NEW w \in Nodes, wpc[w] \in {"fetched", "check", "run", "retrying"}
    PROVE  wjob[w] \in Jobs /\ Known(w) /\ Heard(w) /\ Up(w)
<1>1. wjob[w] \in Jobs
  BY DEF DistTypeOK
<1>2. Known(w)
  BY DEF CrashInv, RunnerPlain
<1>3. submits[wjob[w]] # 0
  BY <1>1 DEF CrashInv, PlacedOnce, OnNode
<1> QED
  BY <1>1, <1>2, <1>3 DEF Heard, Up, CrashInv, SubmittedIsRegistered

\* A runner starts once, its heartbeats are in time while it is up, and time
\* passes only for those that are not.
LEMMA NextRunnerPlain ==
    ASSUME CrashesOnly, DistTypeOK, DistTypeOK', CrashInv, [DistNext]_allVars, NEW w \in Nodes
    PROVE  RunnerPlain(w)'
<1>1. RunnerPlain(w) /\ CrashStep
  BY OnlyCrashSteps DEF CrashInv
<1>2. ASSUME UNCHANGED distVars PROVE RunnerPlain(w)'
  BY <1>1, <1>2 DEF RunnerPlain, Known, Up, distVars, nodeVars, runnerVars, managerVars
<1> USE DEF RunnerPlain, Known, Up, DistTypeOK, nodeVars, runnerVars, managerVars, WGoTo, ForgetJob
<1>3. ASSUME NEW j \in Jobs, SubmitRouted(j) PROVE RunnerPlain(w)'
  <2>1. PICK v \in Nodes : PutOnNode(j, v) /\ v \in ActiveNodes
    BY <1>3 DEF SubmitRouted, Routes, LeastLoaded, Candidates, ActiveNodes
  <2>2. starts[v] # 0
    BY <2>1 DEF ActiveNodes, CrashInv
  <2>3. w # v => assigned'[w] = assigned[w] /\ nqueue'[w] = nqueue[w]
    BY <2>1 DEF PutOnNode
  <2>4. UNCHANGED <<node, stale, runnerVars, managerVars>>
    BY <1>3 DEF SubmitRouted
  <2> QED
    BY <1>1, <2>2, <2>3, <2>4
<1>4. ASSUME NEW v \in Nodes, Tick(v) PROVE RunnerPlain(w)'
  <2>1. v = w => ~Up(w)
    BY <1>1, <1>4 DEF Tick, CrashesOnly, CrashInv
  <2> QED
    BY <1>1, <1>4, <2>1 DEF Tick
<1>5. ASSUME NEW v \in Nodes, SuspendStale(v) PROVE RunnerPlain(w)'
  BY <1>1, <1>5 DEF SuspendStale
<1>6. ASSUME NEW v \in Nodes, DeclareOffline(v) PROVE RunnerPlain(w)'
  BY <1>1, <1>6 DEF DeclareOffline
<1>7. ASSUME NEW v \in Nodes, Heartbeat(v) PROVE RunnerPlain(w)'
  <2>1. /\ stale' = [stale EXCEPT ![v] = 0]
        /\ node' = node \/ (node' = [node EXCEPT ![v] = "active"] /\ node[v] # "unknown")
        /\ UNCHANGED <<nqueue, assigned, runnerVars, managerVars>>
    BY <1>7, Zenon DEF Heartbeat
  <2> QED
    BY <1>1, <2>1
<1>8. ASSUME NEW v \in Nodes, StartWorker(v) PROVE RunnerPlain(w)'
  <2>1. CASE v = w
    <3>1. starts[w] = 0
      BY <1>1, <1>8, <2>1, FaultAssumption DEF StartWorker, CrashesOnly
    <3> QED
      BY <1>1, <1>8, <2>1, <3>1 DEF StartWorker
  <2>2. CASE v # w
    BY <1>1, <1>8, <2>2 DEF StartWorker
  <2> QED
    BY <2>1, <2>2
<1>9. ASSUME NEW v \in Nodes, Crash(v) PROVE RunnerPlain(w)'
  BY <1>1, <1>9 DEF Crash
<1>10. ASSUME NEW v \in Nodes, FetchJob(v) PROVE RunnerPlain(w)'
  BY <1>1, <1>10 DEF FetchJob
<1>11. ASSUME NEW v \in Nodes, ReportRunning(v) \/ RunTarget(v) PROVE RunnerPlain(w)'
  BY <1>1, <1>11 DEF ReportRunning, RunTarget
<1>12. ASSUME NEW v \in Nodes,
              ReportCancelled(v) \/ ReportCompleted(v) \/ ReportFailed(v) \/ ReportFailedForNow(v)
       PROVE  RunnerPlain(w)'
  <2>1. /\ assigned' = assigned \/ assigned' = [assigned EXCEPT ![v] = @ \ {wjob[v]}]
        /\ wpc[v] \in {"check", "run"}
        /\ wpc' = [wpc EXCEPT ![v] = "idle"] \/ wpc' = [wpc EXCEPT ![v] = "retrying"]
        /\ UNCHANGED <<node, stale, nqueue, wstatus, wstop, starts>>
    BY <1>12, Zenon DEF ReportCancelled, ReportCompleted, ReportFailed, ReportFailedForNow, ReportEnd
  <2>2. assigned'[w] \subseteq assigned[w]
    <3>1. CASE assigned' = assigned
      BY <3>1
    <3>2. CASE assigned' = [assigned EXCEPT ![v] = @ \ {wjob[v]}]
      BY <3>2
    <3> QED
      BY <2>1, <3>1, <3>2
  <2>3. wpc'[w] = wpc[w] \/ (Up(w) /\ wpc'[w] \in {"idle", "retrying"})
    BY <2>1
  <2> QED
    BY <1>1, <2>1, <2>2, <2>3
<1>13. ASSUME NEW v \in Nodes, RetryOnNode(v) PROVE RunnerPlain(w)'
  <2>1. /\ wpc[v] = "retrying" /\ wpc' = [wpc EXCEPT ![v] = "idle"]
        /\ assigned' = [assigned EXCEPT ![v] = @ \cup {wjob[v]}]
        /\ nqueue' = [nqueue EXCEPT ![v] = Append(@, wjob[v])]
        /\ UNCHANGED <<node, stale, wstatus, wstop, starts>>
    BY <1>13 DEF RetryOnNode, PutOnNode
  <2> QED
    BY <1>1, <2>1
<1>14. ASSUME NEW j \in Jobs, RecoverJob(j) PROVE RunnerPlain(w)'
  BY <1>1, <1>14 DEF RecoverJob
<1>15. ASSUME RecoveryDone PROVE RunnerPlain(w)'
  BY <1>1, <1>15 DEF RecoveryDone
<1>16. ASSUME UNCHANGED allVars PROVE UNCHANGED distVars
  BY <1>16 DEF allVars
<1> QED
  BY <1>1, <1>2, <1>3, <1>4, <1>5, <1>6, <1>7, <1>8, <1>9, <1>10, <1>11, <1>12, <1>13, <1>14,
     <1>15, <1>16 DEF CrashStep, SubmitLocally, EngineStep

\* The manager's lock is kept where the two long operations need it.
LEMMA NextLockKept ==
    ASSUME CrashesOnly, DistTypeOK, CrashInv, [DistNext]_allVars
    PROVE  LockKept'
<1>1. LockKept /\ CrashStep
  BY OnlyCrashSteps DEF CrashInv
<1> USE RoutingAssumption DEF LockKept, DistTypeOK, WGoTo, ForgetJob, ManagerLockFree
<1>2. ASSUME UNCHANGED <<wpc, mlock, recovering>> PROVE LockKept'
  BY <1>1, <1>2
<1>3. ASSUME NEW v \in Nodes, \E l \in {"idle", "fetched", "check", "run", "crashed"} : wpc' = [wpc EXCEPT ![v] = l],
             UNCHANGED <<mlock, recovering>>
      PROVE  LockKept'
  BY <1>1, <1>3
<1>4. ASSUME NEW j \in Jobs, SubmitRouted(j) PROVE LockKept'
  BY <1>2, <1>4 DEF SubmitRouted, runnerVars, managerVars
<1>5. ASSUME UNCHANGED distVars PROVE LockKept'
  BY <1>2, <1>5 DEF distVars, runnerVars, managerVars
<1>6. ASSUME NEW v \in Nodes, SuspendStale(v) \/ Tick(v) \/ Heartbeat(v) PROVE LockKept'
  BY <1>2, <1>6 DEF SuspendStale, Tick, Heartbeat, runnerVars, managerVars
<1>7. ASSUME NEW v \in Nodes,
             \/ StartWorker(v) \/ Crash(v) \/ FetchJob(v) \/ ReportRunning(v) \/ RunTarget(v)
             \/ ReportCancelled(v) \/ ReportCompleted(v) \/ ReportFailed(v)
      PROVE  LockKept'
  <2>1. UNCHANGED <<mlock, recovering>>
    BY <1>7 DEF StartWorker, Crash, FetchJob, ReportRunning, RunTarget, ReportCancelled,
                ReportCompleted, ReportFailed, managerVars
  <2>2. \E l \in {"idle", "fetched", "check", "run", "crashed"} : wpc' = [wpc EXCEPT ![v] = l]
    BY <1>7 DEF StartWorker, Crash, FetchJob, ReportRunning, RunTarget, ReportCancelled,
                ReportCompleted, ReportFailed
  <2> QED
    BY <1>3, <2>1, <2>2
<1>8. ASSUME NEW v \in Nodes, DeclareOffline(v) PROVE LockKept'
  BY <1>1, <1>8 DEF DeclareOffline, runnerVars
<1>9. ASSUME NEW v \in Nodes, ReportFailedForNow(v) PROVE LockKept'
  BY <1>1, <1>9 DEF ReportFailedForNow, ReportEnd
<1>10. ASSUME NEW v \in Nodes, RetryOnNode(v) PROVE LockKept'
  BY <1>1, <1>10 DEF RetryOnNode
<1>11. ASSUME NEW j \in Jobs, RecoverJob(j) PROVE LockKept'
  BY <1>1, <1>11 DEF RecoverJob, runnerVars
<1>12. ASSUME RecoveryDone PROVE LockKept'
  BY <1>1, <1>12 DEF RecoveryDone, runnerVars
<1> QED
  BY <1>1, <1>4, <1>5, <1>6, <1>7, <1>8, <1>9, <1>10, <1>11, <1>12
  DEF CrashStep, SubmitLocally, EngineStep, allVars

\* The steps of one node, its life cycle and the monitor's view of it included.
NodeStep(v) ==
    \/ SuspendStale(v) \/ DeclareOffline(v) \/ Tick(v) \/ Heartbeat(v)
    \/ StartWorker(v) \/ Crash(v)
    \/ FetchJob(v) \/ ReportRunning(v) \/ RunTarget(v) \/ ReportCancelled(v)
    \/ RetryOnNode(v) \/ ReportCompleted(v) \/ ReportFailed(v) \/ ReportFailedForNow(v)

\* They leave the queue and the threads of the engine alone, and change at most
\* the status of the job the runner has.
LEMMA NodesLeaveEngine ==
    ASSUME DistTypeOK, NEW v \in Nodes, NodeStep(v)
    PROVE  /\ UNCHANGED <<queue, held, pc, executing, registry, submits, dropped, assigns>>
           /\ \A j \in Jobs : status'[j] # status[j] => wjob[v] = j
<1>1. UNCHANGED <<queue, held, pc, executing, registry, submits, dropped, assigns>>
  BY DEF NodeStep, SuspendStale, DeclareOffline, Tick, Heartbeat, StartWorker, Crash, FetchJob,
         ReportRunning, RunTarget, ReportCancelled, RetryOnNode, ReportCompleted, ReportFailed,
         ReportFailedForNow, vars, jobVars, queueVars, workerVars, engineVars, historyVars, managerVars
<1>2. status' = status \/ \E s : status' = [status EXCEPT ![wjob[v]] = s]
  <2>1. CASE ReportRunning(v)
    BY <2>1, Zenon DEF ReportRunning
  <2>2. CASE RetryOnNode(v)
    BY <2>2 DEF RetryOnNode, SetStatus
  <2>3. ASSUME NEW s, ReportEnd(v, s) PROVE status' = status \/ status' = [status EXCEPT ![wjob[v]] = s]
    BY <2>3, Zenon DEF ReportEnd
  <2>4. CASE ReportCancelled(v) \/ ReportCompleted(v) \/ ReportFailed(v) \/ ReportFailedForNow(v)
    <3>1. \E s : ReportEnd(v, s)
      BY <2>4 DEF ReportCancelled, ReportCompleted, ReportFailed, ReportFailedForNow
    <3> QED
      BY <2>3, <3>1
  <2>5. CASE \/ SuspendStale(v) \/ DeclareOffline(v) \/ Tick(v) \/ Heartbeat(v)
             \/ StartWorker(v) \/ Crash(v) \/ FetchJob(v) \/ RunTarget(v)
    BY <2>5 DEF SuspendStale, DeclareOffline, Tick, Heartbeat, StartWorker, Crash, FetchJob,
                RunTarget, vars, jobVars
  <2> QED
    BY <2>1, <2>2, <2>4, <2>5 DEF NodeStep
<1> QED
  BY <1>1, <1>2 DEF DistTypeOK, TypeOK

\* A recovered job is not in the engine when it is put back there.
LEMMA RecoverKeepsPlace ==
    ASSUME DistTypeOK, CrashInv, NEW k \in Jobs, RecoverJob(k)
    PROVE  OnePlacePerJob'
<1> DEFINE n == [job |-> k, seq |-> counter + 1]
<1>1. queue' = queue \cup {n} /\ held' = held /\ submits' = submits
  BY DEF RecoverJob, Put, workerVars, historyVars
<1>2. ~InEngine(k) /\ submits[k] # 0
  BY DEF RecoverJob, CrashInv, PlacedOnce
<1>3. n.job = k
  OBVIOUS
<1> HIDE DEF n
<1> SUFFICES ASSUME NEW j \in Jobs, submits[j] <= 1
             PROVE  /\ \A t, u \in Threads : held[t] = j /\ held[u] = j => t = u
                    /\ \A e, f \in queue' : e.job = j /\ f.job = j => e = f
                    /\ \A t \in Threads : held[t] = j => j \notin QueuedJobs'
                    /\ submits[j] = 0 => j \notin QueuedJobs' /\ \A t \in Threads : held[t] # j
  BY <1>1 DEF OnePlacePerJob
<1>4. /\ \A t, u \in Threads : held[t] = j /\ held[u] = j => t = u
      /\ \A e, f \in queue : e.job = j /\ f.job = j => e = f
      /\ \A t \in Threads : held[t] = j => j \notin QueuedJobs
      /\ submits[j] = 0 => j \notin QueuedJobs /\ \A t \in Threads : held[t] # j
  BY DEF OnePlacePerJob, CrashInv
<1> QED
  BY <1>1, <1>2, <1>3, <1>4 DEF QueuedJobs, InEngine

\* The engine's own invariants survive the steps of the nodes.
LEMMA NextInEngine ==
    ASSUME CrashesOnly, DistTypeOK, CrashInv, [DistNext]_allVars
    PROVE  OnePlacePerJob' /\ ExecutingMatches'
<1>1. OnePlacePerJob /\ ExecutingMatches /\ CrashStep
  BY OnlyCrashSteps DEF CrashInv
<1>2. CASE LocalStep
  BY <1>1, <1>2, LocalIsEngine, NextOnePlacePerJob, NextExecutingMatches DEF DistTypeOK
<1>3. ASSUME UNCHANGED <<held, pc, executing>> PROVE ExecutingMatches'
  BY <1>1, <1>3 DEF ExecutingMatches
<1>4. ASSUME UNCHANGED <<held, queue>>,
             \A j \in Jobs : submits'[j] <= 1 => submits[j] <= 1 /\ (submits'[j] = 0 => submits[j] = 0)
      PROVE  OnePlacePerJob'
  BY <1>1, <1>4 DEF OnePlacePerJob, QueuedJobs
<1>5. ASSUME NEW j \in Jobs, SubmitRouted(j) PROVE OnePlacePerJob' /\ ExecutingMatches'
  <2>1. UNCHANGED <<held, pc, executing, queue>> /\ submits' = [submits EXCEPT ![j] = @ + 1]
    BY <1>5 DEF SubmitRouted, queueVars, workerVars
  <2>2. \A k \in Jobs : submits'[k] <= 1 => submits[k] <= 1 /\ (submits'[k] = 0 => submits[k] = 0)
    BY <2>1 DEF DistTypeOK, TypeOK
  <2> QED
    BY <1>3, <1>4, <2>1, <2>2
<1>6. ASSUME NEW v \in Nodes, NodeStep(v) PROVE OnePlacePerJob' /\ ExecutingMatches'
  BY <1>3, <1>4, <1>6, NodesLeaveEngine
<1>7. ASSUME NEW j \in Jobs, RecoverJob(j) PROVE OnePlacePerJob' /\ ExecutingMatches'
  BY <1>3, <1>7, RecoverKeepsPlace DEF RecoverJob, workerVars
<1>8. CASE UNCHANGED vars
  BY <1>3, <1>4, <1>8 DEF vars, queueVars, workerVars, historyVars
<1> QED
  BY <1>1, <1>2, <1>5, <1>6, <1>7, <1>8
  DEF CrashStep, LocalStep, NodeStep, SubmitLocally, EngineStep, RecoveryDone, allVars

\* A job that may be submitted was not submitted before.
LEMMA FirstSubmission ==
    ASSUME CrashesOnly, TypeOK, NEW k \in Jobs, submits[k] < MaxSubmits[k]
    PROVE  submits[k] = 0
<1>1. MaxSubmits[k] <= 1
  BY Zenon DEF CrashesOnly
<1>2. MaxSubmits[k] \in Nat /\ submits[k] \in Nat
  BY BoundsAssumption DEF TypeOK
<1> QED
  BY <1>1, <1>2

\* Submissions are counted, and registered jobs are not forgotten.
LEMMA SubmitsAreCounted ==
    ASSUME CrashesOnly, DistTypeOK, CrashInv, [DistNext]_allVars, NEW j \in Jobs
    PROVE  /\ submits'[j] \in Nat /\ submits'[j] <= 1
           /\ submits'[j] = 0 => submits[j] = 0
           /\ submits'[j] # 0 => j \in registry'
<1>1. CrashStep
  BY OnlyCrashSteps
<1> USE DEF DistTypeOK, TypeOK
<1>2. /\ submits[j] \in Nat /\ submits[j] <= 1 /\ (submits[j] # 0 => j \in registry)
  BY DEF CrashInv, SubmittedIsRegistered
<1>3. ASSUME NEW k \in Jobs, SubmitRouted(k) \/ SubmitJob(k)
      PROVE  /\ submits'[j] \in Nat /\ submits'[j] <= 1
             /\ submits'[j] = 0 => submits[j] = 0
             /\ submits'[j] # 0 => j \in registry'
  <2>1. /\ submits' = [submits EXCEPT ![k] = @ + 1] /\ registry' = registry \cup {k}
        /\ submits[k] < MaxSubmits[k]
    BY <1>3 DEF SubmitRouted, SubmitJob
  <2>2. submits[k] = 0
    BY <2>1, FirstSubmission
  <2> QED
    BY <1>2, <2>1, <2>2
<1>4. ASSUME UNCHANGED <<submits, registry>>
      PROVE  /\ submits'[j] \in Nat /\ submits'[j] <= 1
             /\ submits'[j] = 0 => submits[j] = 0
             /\ submits'[j] # 0 => j \in registry'
  BY <1>2, <1>4
<1>5. ASSUME NEW k \in Jobs, CancelJob(k) \/ RecoverJob(k) PROVE UNCHANGED <<submits, registry>>
  BY <1>5 DEF CancelJob, Cancel, RecoverJob, engineVars, historyVars
<1>6. ASSUME NEW v \in Nodes, NodeStep(v) PROVE UNCHANGED <<submits, registry>>
  BY <1>6, NodesLeaveEngine
<1>7. ASSUME EngineStep PROVE UNCHANGED <<submits, registry>>
  <2>1. CASE Lifecycle
    BY <2>1 DEF Lifecycle, Initialize, ShutdownStop, ShutdownJoin, ShutdownClear, historyVars
  <2>2. ASSUME NEW t \in Threads, WorkerStep(t) \/ TargetStep(t) PROVE UNCHANGED <<submits, registry>>
    BY <2>2 DEF WorkerStep, CheckStop, TakeJob, QueueEmpty, SkipCancelled, NotCancelled,
                StartJob, TimeoutFires, CompleteJob, FailJob, SaveToMemory, RetryJob, Requeue,
                TargetStep, TargetReturns, TargetRaises, LateTargetEnds, TargetExits, historyVars,
                engineVars
  <2> QED
    BY <1>7, <2>1, <2>2 DEF EngineStep
<1>8. ASSUME RecoveryDone \/ UNCHANGED allVars PROVE UNCHANGED <<submits, registry>>
  BY <1>8 DEF RecoveryDone, allVars, vars, engineVars, historyVars
<1> QED
  BY <1>1, <1>3, <1>4, <1>5, <1>6, <1>7, <1>8 DEF CrashStep, SubmitLocally, NodeStep

\* Nothing reopens a job that a thread of the engine is about to save.
LEMMA NextSubmittedIsRegistered ==
    ASSUME CrashesOnly, DistTypeOK, CrashInv, [DistNext]_allVars
    PROVE  SubmittedIsRegistered'
<1> SUFFICES ASSUME NEW j \in Jobs, NEW t \in Threads, held'[t] = j, pc'[t] = "save"
             PROVE  status'[j] \notin {"queued", "running"}
  BY SubmitsAreCounted DEF SubmittedIsRegistered
<1>1. CrashStep
  BY OnlyCrashSteps
<1>2. TypeOK /\ OnePlacePerJob /\ SubmittedIsRegistered
  BY DEF DistTypeOK, CrashInv
<1> USE NoJobAssumption DEF TypeOK
<1>3. ASSUME held[t] = j, pc[t] = "save", status'[j] \in {status[j], "cancelled"}
      PROVE  status'[j] \notin {"queued", "running"}
  BY <1>2, <1>3 DEF SubmittedIsRegistered
<1>4. ASSUME held[t] = j
      PROVE  /\ submits[j] # 0 /\ j \notin recovering
             /\ \A w \in Nodes : wjob[w] # j
             /\ \A u \in Threads \ {t} : held[u] # j
  BY <1>2, <1>4 DEF CrashInv, PlacedOnce, InEngine, OnNode, OnePlacePerJob, SubmittedIsRegistered
<1>5. ASSUME NEW k \in Jobs, SubmitRouted(k) \/ SubmitJob(k)
      PROVE  status'[j] \notin {"queued", "running"}
  <2>1. /\ UNCHANGED <<held, pc>> /\ status' = [status EXCEPT ![k] = "queued"]
        /\ submits[k] < MaxSubmits[k]
    BY <1>5 DEF SubmitRouted, SubmitJob, SetStatus, workerVars
  <2>2. submits[k] = 0
    BY <1>2, <2>1, FirstSubmission
  <2> QED
    BY <1>2, <1>3, <1>4, <2>1, <2>2
<1>6. ASSUME NEW k \in Jobs, CancelJob(k) PROVE status'[j] \notin {"queued", "running"}
  <2>1. UNCHANGED <<held, pc>> /\ status' = [status EXCEPT ![k] = "cancelled"]
    BY <1>6 DEF CancelJob, Cancel, SetStatus, workerVars
  <2> QED
    BY <1>2, <1>3, <2>1
<1>7. ASSUME NEW k \in Jobs, RecoverJob(k) PROVE status'[j] \notin {"queued", "running"}
  <2>1. UNCHANGED <<held, pc>> /\ status' = [status EXCEPT ![k] = "queued"] /\ k \in recovering
    BY <1>7 DEF RecoverJob, SetStatus, workerVars
  <2> QED
    BY <1>2, <1>3, <1>4, <2>1
<1>8. ASSUME NEW v \in Nodes, NodeStep(v) PROVE status'[j] \notin {"queued", "running"}
  BY <1>2, <1>3, <1>4, <1>8, NodesLeaveEngine
<1>9. ASSUME Lifecycle PROVE status'[j] \notin {"queued", "running"}
  <2>1. status' = status
    BY <1>9 DEF Lifecycle, Initialize, ShutdownStop, ShutdownJoin, ShutdownClear, jobVars
  <2>2. held' = held /\ pc[t] = "save"
    BY <1>2, <1>9, LifecycleLeavesJobs
  <2> QED
    BY <1>3, <2>1, <2>2
<1>10. ASSUME NEW u \in Threads, WorkerStep(u) \/ TargetStep(u)
       PROVE  status'[j] \notin {"queued", "running"}
  <2>1. status' = status \/ \E s : status' = [status EXCEPT ![held[u]] = s]
    BY <1>10 DEF WorkerStep, CheckStop, TakeJob, QueueEmpty, SkipCancelled, NotCancelled,
                StartJob, TimeoutFires, CompleteJob, FailJob, SaveToMemory, RetryJob, Requeue,
                TargetStep, TargetReturns, TargetRaises, LateTargetEnds, TargetExits, jobVars, SetStatus
  <2>2. CASE u # t
    <3>1. held[t] = j /\ pc[t] = "save"
      BY <1>2, <1>10, <2>2, OtherThreadsAlone
    <3> QED
      BY <1>2, <1>3, <1>4, <2>1, <2>2, <3>1
  <2>3. CASE u = t
    <3>1. CompleteJob(t) \/ FailJob(t)
      <4> USE DEF GoTo, EndJob, At
      <4>1. ~(WorkerStep(t) /\ ~CompleteJob(t) /\ ~FailJob(t))
        BY <1>2, <2>3 DEF WorkerStep, CheckStop, TakeJob, QueueEmpty, SkipCancelled, NotCancelled,
                StartJob, TimeoutFires, SaveToMemory, RetryJob, Requeue
      <4>2. ~TargetStep(t)
        BY <1>2, <2>3 DEF TargetStep, TargetReturns, TargetRaises, LateTargetEnds, TargetExits, HandleError
      <4> QED
        BY <1>10, <2>3, <4>1, <4>2
    <3> QED
      BY <1>2, <3>1 DEF CompleteJob, FailJob, SetStatus
  <2> QED
    BY <2>2, <2>3
<1>11. ASSUME UNCHANGED vars PROVE status'[j] \notin {"queued", "running"}
  BY <1>3, <1>11 DEF vars, jobVars, workerVars
<1> QED
  BY <1>1, <1>5, <1>6, <1>7, <1>8, <1>9, <1>10, <1>11
  DEF CrashStep, SubmitLocally, EngineStep, NodeStep, RecoveryDone, allVars

\* A step of a node brings no job there.
LEMMA NodesGainNothing ==
    ASSUME CrashesOnly, DistTypeOK, CrashInv, NEW v \in Nodes, NodeStep(v),
           NEW w \in Nodes, NEW j \in Jobs
    PROVE  /\ OnNode(w, j)' => OnNode(w, j)
           /\ wjob'[w] = j /\ wpc'[w] # "retrying" => j \in assigned'[w]
<1>1. \A u \in Nodes : RunnerPlain(u)
  BY DEF CrashInv
<1>2. wjob[w] = j /\ wpc[w] # "retrying" => j \in assigned[w]
  BY DEF CrashInv, PlacedOnce
<1> USE NoJobAssumption DEF OnNode, DistTypeOK, WGoTo, ForgetJob
<1>3. CASE SuspendStale(v) \/ Tick(v) \/ Heartbeat(v)
  BY <1>2, <1>3 DEF SuspendStale, Tick, Heartbeat, runnerVars
<1>4. CASE DeclareOffline(v)
  <2>1. wjob[v] = NoJob
    BY <1>1, <1>4 DEF DeclareOffline, RunnerPlain, Up
  <2> QED
    BY <1>2, <1>4, <2>1 DEF DeclareOffline, runnerVars
<1>5. CASE StartWorker(v)
  BY <1>2, <1>5 DEF StartWorker
<1>6. CASE Crash(v)
  BY <1>2, <1>6 DEF Crash, nodeVars
<1>7. CASE FetchJob(v)
  <2>1. nqueue[v] \in Seq(Jobs) /\ nqueue[v] # <<>>
    BY <1>7 DEF FetchJob
  <2>2. Head(nqueue[v]) = nqueue[v][1] /\ 1 \in DOMAIN nqueue[v]
    BY <2>1
  <2>3. nqueue[v][1] \in Jobs
    BY <2>1, <2>2
  <2>4. nqueue[v][1] \in assigned[v]
    BY <2>2, <2>3 DEF CrashInv, OncePerNode, OnNodeOnce, SubmittedIsRegistered
  <2>5. wjob' = [wjob EXCEPT ![v] = nqueue[v][1]] /\ UNCHANGED assigned
    BY <1>7, <2>2 DEF FetchJob
  <2>6. wpc' = [wpc EXCEPT ![v] = "fetched"]
    BY <1>7 DEF FetchJob
  <2> QED
    BY <1>2, <2>4, <2>5, <2>6
<1>8. CASE ReportRunning(v) \/ RunTarget(v)
  BY <1>2, <1>8 DEF ReportRunning, RunTarget, nodeVars
<1>9. CASE ReportCancelled(v) \/ ReportCompleted(v) \/ ReportFailed(v) \/ ReportFailedForNow(v)
  <2>1. /\ assigned' = assigned \/ assigned' = [assigned EXCEPT ![v] = @ \ {wjob[v]}]
        /\ \/ wpc' = [wpc EXCEPT ![v] = "idle"] /\ wjob' = [wjob EXCEPT ![v] = NoJob]
           \/ wpc' = [wpc EXCEPT ![v] = "retrying"] /\ wjob' = wjob
    BY <1>9, Zenon DEF ReportCancelled, ReportCompleted, ReportFailed, ReportFailedForNow, ReportEnd
  <2>2. assigned'[w] \subseteq assigned[w] /\ (w # v => assigned'[w] = assigned[w])
    <3>1. CASE assigned' = assigned
      BY <3>1
    <3>2. CASE assigned' = [assigned EXCEPT ![v] = @ \ {wjob[v]}]
      BY <3>2
    <3> QED
      BY <2>1, <3>1, <3>2
  <2>3. /\ wjob'[w] \in {wjob[w], NoJob}
        /\ w # v => wjob'[w] = wjob[w] /\ wpc'[w] = wpc[w]
        /\ w = v => wjob'[w] = NoJob \/ wpc'[w] = "retrying"
    BY <2>1
  <2> QED
    BY <1>2, <2>2, <2>3
<1>10. CASE RetryOnNode(v)
  BY <1>2, <1>10 DEF RetryOnNode, PutOnNode
<1> QED
  BY <1>3, <1>4, <1>5, <1>6, <1>7, <1>8, <1>9, <1>10 DEF NodeStep

\* A job is in one place only: what is recovered is no longer on a node, and a
\* node is given a job only when it is submitted.
LEMMA NextPlacedOnce ==
    ASSUME CrashesOnly, DistTypeOK, CrashInv, [DistNext]_allVars, NEW j \in Jobs
    PROVE  PlacedOnce(j)'
<1>1. CrashStep /\ PlacedOnce(j) /\ OnePlacePerJob /\ TypeOK
  BY OnlyCrashSteps DEF CrashInv, DistTypeOK
<1>2. submits'[j] = 0 => submits[j] = 0
  BY SubmitsAreCounted
<1>3. submits[j] = 0 => ~InEngine(j)
  BY <1>1 DEF OnePlacePerJob, InEngine
<1>4. ASSUME InEngine(j)' => InEngine(j), recovering' \subseteq recovering,
             \A w \in Nodes : /\ OnNode(w, j)' => OnNode(w, j)
                              /\ wjob'[w] = j /\ wpc'[w] # "retrying" => j \in assigned'[w]
      PROVE  PlacedOnce(j)'
  BY <1>1, <1>2, <1>4 DEF PlacedOnce
<1>5. ASSUME UNCHANGED <<assigned, wjob, wpc>>
      PROVE  \A w \in Nodes : /\ OnNode(w, j)' => OnNode(w, j)
                              /\ wjob'[w] = j /\ wpc'[w] # "retrying" => j \in assigned'[w]
  BY <1>1, <1>5 DEF OnNode, PlacedOnce
<1>6. ASSUME UNCHANGED <<queue, held>> PROVE InEngine(j)' => InEngine(j)
  BY <1>6 DEF InEngine, QueuedJobs
<1>7. ASSUME NEW k \in Jobs, SubmitRouted(k) PROVE PlacedOnce(j)'
  <2>1. /\ UNCHANGED <<queue, held, recovering, wjob, wpc>> /\ submits[k] < MaxSubmits[k]
        /\ submits' = [submits EXCEPT ![k] = @ + 1]
    BY <1>7 DEF SubmitRouted, queueVars, workerVars, runnerVars, managerVars
  <2>2. PICK v \in Nodes : assigned' = [assigned EXCEPT ![v] = @ \cup {k}]
    BY <1>7, RoutesAreNodes DEF SubmitRouted, PutOnNode
  <2>3. CASE k # j
    <3>1. \A w \in Nodes : OnNode(w, j)' <=> OnNode(w, j)
      BY <2>1, <2>2, <2>3 DEF OnNode, DistTypeOK
    <3>2. \A w \in Nodes : wjob'[w] = j /\ wpc'[w] # "retrying" => j \in assigned'[w]
      BY <1>1, <2>1, <2>2, <2>3 DEF DistTypeOK, PlacedOnce
    <3> QED
      BY <1>4, <1>6, <2>1, <3>1, <3>2
  <2>4. CASE k = j
    <3>1. submits[j] = 0
      BY <1>1, <2>1, <2>4, FirstSubmission
    <3>2. submits'[j] # 0
      BY <1>1, <2>1, <2>4, <3>1 DEF TypeOK
    <3>3. ~InEngine(j)' /\ j \notin recovering'
      BY <1>1, <1>3, <1>6, <2>1, <3>1 DEF PlacedOnce
    <3>4. \A w \in Nodes : ~OnNode(w, j)
      BY <1>1, <3>1 DEF PlacedOnce
    <3>5. \A w \in Nodes : wjob'[w] # j /\ (OnNode(w, j)' => w = v)
      BY <2>1, <2>2, <2>4, <3>4 DEF OnNode, DistTypeOK
    <3> QED
      BY <3>2, <3>3, <3>5 DEF PlacedOnce
  <2> QED
    BY <2>3, <2>4
<1>8. ASSUME [Next]_vars, UNCHANGED distVars PROVE PlacedOnce(j)'
  <2>1. UNCHANGED <<assigned, wjob, wpc, recovering>>
    BY <1>8 DEF distVars, nodeVars, runnerVars, managerVars
  <2>2. CASE InEngine(j)' => InEngine(j)
    BY <1>4, <1>5, <2>1, <2>2
  <2>3. CASE InEngine(j)' /\ ~InEngine(j)
    <3>1. SubmitJob(j)
      BY <1>1, <1>8, <2>3, EngineComesFromSubmission
    <3>2. submits[j] = 0
      BY <1>1, <3>1, FirstSubmission DEF SubmitJob
    <3>3. \A w \in Nodes : ~OnNode(w, j)' /\ wjob'[w] # j
      BY <1>1, <2>1, <3>2 DEF PlacedOnce, OnNode
    <3>4. j \notin recovering'
      BY <1>1, <2>1, <3>2 DEF PlacedOnce
    <3> QED
      BY <3>3, <3>4 DEF PlacedOnce
  <2> QED
    BY <2>2, <2>3
<1>9. ASSUME NEW v \in Nodes, NodeStep(v) PROVE PlacedOnce(j)'
  <2>1. \A w \in Nodes : /\ OnNode(w, j)' => OnNode(w, j)
                         /\ wjob'[w] = j /\ wpc'[w] # "retrying" => j \in assigned'[w]
    BY <1>9, NodesGainNothing
  <2>2. InEngine(j)' => InEngine(j)
    BY <1>6, <1>9, NodesLeaveEngine
  <2>3. CASE DeclareOffline(v)
    <3>1. recovering' = assigned[v] /\ assigned' = [assigned EXCEPT ![v] = {}] /\ wjob' = wjob
      BY <2>3 DEF DeclareOffline, runnerVars
    <3>2. wjob[v] = NoJob
      BY <2>3 DEF DeclareOffline, CrashInv, RunnerPlain, Up, DistTypeOK
    <3>3. ~OnNode(v, j)'
      BY <3>1, <3>2, NoJobAssumption DEF OnNode, DistTypeOK
    <3>4. j \in recovering' => OnNode(v, j)
      BY <3>1 DEF OnNode
    <3>5. j \in recovering' =>
            /\ ~InEngine(j) /\ submits[j] # 0 /\ \A w \in Nodes : OnNode(w, j) => w = v
      BY <1>1, <3>4 DEF PlacedOnce
    <3> QED
      BY <1>1, <1>2, <2>1, <2>2, <3>3, <3>5 DEF PlacedOnce
  <2>4. CASE ~DeclareOffline(v)
    <3>1. recovering' = recovering
      BY <1>9, <2>4 DEF NodeStep, SuspendStale, Tick, Heartbeat, StartWorker, Crash,
         FetchJob, ReportRunning, RunTarget, ReportCancelled, RetryOnNode, ReportCompleted,
         ReportFailed, ReportFailedForNow, managerVars
    <3> QED
      BY <1>4, <2>1, <2>2, <3>1
  <2> QED
    BY <2>3, <2>4
<1>10. ASSUME NEW k \in Jobs, RecoverJob(k) PROVE PlacedOnce(j)'
  <2>1. /\ UNCHANGED <<assigned, wjob, wpc, held, submits>>
        /\ recovering' = recovering \ {k} /\ k \in recovering
    BY <1>10 DEF RecoverJob, nodeVars, runnerVars, workerVars, historyVars
  <2> DEFINE n == [job |-> k, seq |-> counter + 1]
  <2>2. queue' = queue \cup {n} /\ n.job = k
    BY <1>10 DEF RecoverJob, Put
  <2> HIDE DEF n
  <2>3. InEngine(j)' => InEngine(j) \/ j = k
    BY <2>1, <2>2 DEF InEngine, QueuedJobs
  <2>4. CASE j # k
    BY <1>4, <1>5, <2>1, <2>3, <2>4
  <2>5. CASE j = k
    <3>1. submits[j] # 0 /\ \A w \in Nodes : ~OnNode(w, j)
      BY <1>1, <2>1, <2>5 DEF PlacedOnce
    <3>2. \A w \in Nodes : ~OnNode(w, j)' /\ wjob'[w] # j
      BY <2>1, <3>1 DEF OnNode
    <3> QED
      BY <2>1, <2>5, <3>2 DEF PlacedOnce
  <2> QED
    BY <2>4, <2>5
<1>11. ASSUME RecoveryDone PROVE PlacedOnce(j)'
  BY <1>4, <1>5, <1>6, <1>11 DEF RecoveryDone, vars, queueVars, workerVars, nodeVars, runnerVars
<1>12. CASE LocalStep \/ UNCHANGED allVars
  BY <1>8, <1>12, LocalIsEngine DEF LocalStep, allVars
<1> QED
  BY <1>1, <1>7, <1>9, <1>10, <1>11, <1>12
  DEF CrashStep, LocalStep, SubmitLocally, EngineStep, NodeStep

\* A job keeps an owner: a dead node's jobs pass to the recovery, the recovered
\* ones to the queue, and a failed one to its own node again.
LEMMA NextNoOrphan ==
    ASSUME CrashesOnly, DistTypeOK, CrashInv, [DistNext]_allVars
    PROVE  NoOrphan'
<1> SUFFICES ASSUME NEW j \in Jobs, status'[j] \in {"queued", "running"}
             PROVE  HasOwner(j)'
  BY DEF NoOrphan
<1>1. CrashStep /\ TypeOK
  BY OnlyCrashSteps DEF DistTypeOK
<1>2. ASSUME status[j] \in {"queued", "running"}
      PROVE  \/ j \in QueuedJobs \/ j \in dropped \/ j \in recovering
             \/ \E t \in Threads : held[t] = j
             \/ \E w \in Nodes : Known(w) /\ (j \in assigned[w] \/ (wpc[w] = "retrying" /\ wjob[w] = j))
  BY <1>2 DEF CrashInv, NoOrphan, HasOwner
<1> DEFINE OnKnown(w) == Known(w) /\ (j \in assigned[w] \/ (wpc[w] = "retrying" /\ wjob[w] = j))
<1>3. ASSUME status[j] \in {"queued", "running"},
             j \in QueuedJobs => j \in QueuedJobs' \cup dropped', j \in dropped => j \in dropped',
             j \in recovering => j \in recovering', held' = held,
             \A w \in Nodes : OnKnown(w) => OnKnown(w)' \/ j \in recovering'
      PROVE  HasOwner(j)'
  BY <1>2, <1>3 DEF HasOwner
<1>4. ASSUME UNCHANGED distVars
      PROVE  recovering' = recovering /\ \A w \in Nodes : OnKnown(w) => OnKnown(w)'
  BY <1>4 DEF distVars, nodeVars, runnerVars, managerVars, Known
<1>5. ASSUME NEW k \in Jobs, SubmitLocally(k) PROVE HasOwner(j)'
  <2> DEFINE n == [job |-> k, seq |-> counter + 1]
  <2>1. /\ queue' = queue \cup {n} /\ n.job = k /\ held' = held /\ dropped' = dropped \ {k}
        /\ status' = [status EXCEPT ![k] = "queued"] /\ UNCHANGED distVars
    BY <1>5 DEF SubmitLocally, SubmitJob, Put, SetStatus, workerVars
  <2> HIDE DEF n
  <2>2. CASE k = j
    BY <2>1, <2>2 DEF HasOwner, QueuedJobs
  <2>3. CASE k # j
    <3>1. status[j] = status'[j] /\ (j \in QueuedJobs => j \in QueuedJobs')
      BY <1>1, <2>1, <2>3 DEF TypeOK, QueuedJobs
    <3> QED
      BY <1>3, <1>4, <2>1, <2>3, <3>1
  <2> QED
    BY <2>2, <2>3
<1>6. ASSUME NEW k \in Jobs, SubmitRouted(k) PROVE HasOwner(j)'
  <2>1. PICK v \in Nodes : node[v] = "active" /\ assigned' = [assigned EXCEPT ![v] = @ \cup {k}]
    BY <1>6 DEF SubmitRouted, PutOnNode, Routes, LeastLoaded, Candidates, ActiveNodes
  <2>2. /\ UNCHANGED <<queue, held, node, wpc, wjob, recovering>>
        /\ dropped' = dropped \ {k} /\ status' = [status EXCEPT ![k] = "queued"]
    BY <1>6 DEF SubmitRouted, SetStatus, queueVars, workerVars, runnerVars, managerVars
  <2>3. CASE k = j
    BY <2>1, <2>2, <2>3 DEF HasOwner, Known, DistTypeOK
  <2>4. CASE k # j
    <3>1. status[j] = status'[j] /\ QueuedJobs' = QueuedJobs
      BY <1>1, <2>2, <2>4 DEF TypeOK, QueuedJobs
    <3>2. \A w \in Nodes : OnKnown(w) => OnKnown(w)'
      BY <2>1, <2>2 DEF Known, DistTypeOK
    <3> QED
      BY <1>3, <2>2, <2>4, <3>1, <3>2
  <2> QED
    BY <2>3, <2>4
<1>7. ASSUME NEW k \in Jobs, CancelJob(k), UNCHANGED distVars PROVE HasOwner(j)'
  <2>1. UNCHANGED <<queue, held, dropped>> /\ status' = [status EXCEPT ![k] = "cancelled"]
    BY <1>7 DEF CancelJob, Cancel, SetStatus, workerVars, queueVars, historyVars
  <2>2. status[j] = status'[j] /\ QueuedJobs' = QueuedJobs
    BY <1>1, <2>1 DEF TypeOK, QueuedJobs
  <2> QED
    BY <1>3, <1>4, <1>7, <2>1, <2>2
<1>8. ASSUME EngineStep PROVE HasOwner(j)'
  <2>1. CASE InEngine(j)' \/ j \in dropped'
    BY <2>1 DEF InEngine, HasOwner
  <2>2. CASE ~InEngine(j)' /\ j \notin dropped'
    <3>1. status[j] = status'[j] /\ ~InEngine(j) /\ j \notin dropped
      BY <1>1, <1>8, <2>2, EngineKeepsItsJobs DEF CrashesOnly, CrashInv, SubmittedIsRegistered
    <3>2. j \in recovering \/ \E w \in Nodes : OnKnown(w)
      BY <1>2, <3>1 DEF InEngine
    <3> QED
      BY <1>4, <1>8, <3>2 DEF EngineStep, HasOwner
  <2> QED
    BY <2>1, <2>2
<1>9. ASSUME NEW k \in Jobs, RecoverJob(k) PROVE HasOwner(j)'
  <2> DEFINE n == [job |-> k, seq |-> counter + 1]
  <2>1. /\ queue' = queue \cup {n} /\ n.job = k /\ held' = held /\ dropped' = dropped
        /\ status' = [status EXCEPT ![k] = "queued"] /\ recovering' = recovering \ {k}
        /\ UNCHANGED <<node, assigned, wpc, wjob>>
    BY <1>9 DEF RecoverJob, Put, SetStatus, workerVars, historyVars, nodeVars, runnerVars
  <2> HIDE DEF n
  <2>2. CASE k = j
    BY <2>1, <2>2 DEF HasOwner, QueuedJobs
  <2>3. CASE k # j
    <3>1. status[j] = status'[j] /\ (j \in QueuedJobs => j \in QueuedJobs')
      BY <1>1, <2>1, <2>3 DEF TypeOK, QueuedJobs
    <3>2. \A w \in Nodes : OnKnown(w) => OnKnown(w)'
      BY <2>1 DEF Known
    <3> QED
      BY <1>3, <2>1, <2>3, <3>1, <3>2
  <2> QED
    BY <2>2, <2>3
<1>10. ASSUME NEW v \in Nodes, NodeStep(v), status'[j] = status[j],
              j \in recovering => j \in recovering',
              \A w \in Nodes : OnKnown(w) => OnKnown(w)' \/ j \in recovering'
       PROVE  HasOwner(j)'
  <2>1. UNCHANGED <<queue, held, dropped>>
    BY <1>10, NodesLeaveEngine
  <2> QED
    BY <1>3, <1>10, <2>1 DEF QueuedJobs
<1>11. ASSUME NEW v \in Nodes, NodeStep(v) PROVE HasOwner(j)'
  <2> USE DEF Known, DistTypeOK, WGoTo, ForgetJob
  <2>1. CASE SuspendStale(v) \/ Tick(v) \/ FetchJob(v) \/ RunTarget(v)
    <3>1. /\ status' = status /\ recovering' = recovering /\ assigned' = assigned
          /\ \A w \in Nodes : Known(w) => Known(w)'
      BY <2>1 DEF SuspendStale, Tick, FetchJob, RunTarget, vars, jobVars, managerVars, nodeVars
    <3>2. \A w \in Nodes : wpc[w] = "retrying" => wpc'[w] = wpc[w] /\ wjob'[w] = wjob[w]
      BY <2>1 DEF SuspendStale, Tick, FetchJob, RunTarget, runnerVars
    <3> QED
      BY <1>10, <1>11, <3>1, <3>2
  <2>2. CASE Heartbeat(v)
    <3>1. node' = node \/ node' = [node EXCEPT ![v] = "active"]
      BY <2>2, Zenon DEF Heartbeat
    <3>2. \A w \in Nodes : Known(w) => Known(w)'
      BY <3>1
    <3>3. UNCHANGED <<status, recovering, assigned, wpc, wjob>>
      BY <2>2 DEF Heartbeat, vars, jobVars, managerVars, runnerVars
    <3> QED
      BY <1>10, <1>11, <3>2, <3>3
  <2>3. CASE DeclareOffline(v)
    <3>1. /\ status' = status /\ recovering' = assigned[v] /\ UNCHANGED <<wpc, wjob>>
          /\ assigned' = [assigned EXCEPT ![v] = {}] /\ node' = [node EXCEPT ![v] = "offline"]
          /\ mlock = NoNode
      BY <2>3 DEF DeclareOffline, ManagerLockFree, vars, jobVars, runnerVars
    <3>2. recovering = {} /\ \A w \in Nodes : wpc[w] # "retrying"
      BY <3>1, RoutingAssumption DEF CrashInv, LockKept
    <3>3. \A w \in Nodes : OnKnown(w) => OnKnown(w)' \/ j \in recovering'
      BY <3>1, <3>2
    <3> QED
      BY <1>10, <1>11, <3>1, <3>2, <3>3
  <2>4. CASE StartWorker(v)
    <3>1. starts[v] = 0
      BY <2>4, FaultAssumption DEF StartWorker, CrashesOnly
    <3>2. node[v] = "unknown"
      BY <3>1 DEF CrashInv, RunnerPlain
    <3> QED
      BY <1>10, <1>11, <2>4, <3>2 DEF StartWorker, vars, jobVars
  <2>5. CASE Crash(v)
    BY <1>10, <1>11, <2>5 DEF Crash, vars, jobVars, nodeVars, managerVars
  <2>6. CASE ReportRunning(v)
    <3>1. status' = status \/ status' = [status EXCEPT ![wjob[v]] = "running"]
      BY <2>6, Zenon DEF ReportRunning
    <3>2. wjob[v] \in Jobs /\ Known(v) /\ wjob[v] \in assigned[v]
      BY <2>6, RunnersAreHeard DEF ReportRunning, CrashInv, PlacedOnce
    <3>3. /\ UNCHANGED <<node, assigned, wjob, recovering>> /\ wpc[v] = "fetched"
          /\ wpc' = [wpc EXCEPT ![v] = "check"]
      BY <2>6 DEF ReportRunning, nodeVars, managerVars
    <3>4. CASE wjob[v] = j
      BY <3>2, <3>3, <3>4 DEF HasOwner
    <3>5. CASE wjob[v] # j
      <4>1. status'[j] = status[j]
        BY <1>1, <3>1, <3>5 DEF TypeOK
      <4> QED
        BY <1>10, <1>11, <3>3, <4>1
    <3> QED
      BY <3>4, <3>5
  <2>7. CASE ReportCancelled(v) \/ ReportCompleted(v) \/ ReportFailed(v) \/ ReportFailedForNow(v)
    <3>1. Heard(v) /\ wjob[v] \in Jobs
      BY <2>7, RunnersAreHeard DEF ReportCancelled, ReportCompleted, ReportFailed, ReportFailedForNow
    <3>2. PICK s \in {"cancelled", "completed", "failed"} : ReportEnd(v, s)
      BY <2>7 DEF ReportCancelled, ReportCompleted, ReportFailed, ReportFailedForNow
    <3>3. /\ status' = [status EXCEPT ![wjob[v]] = s]
          /\ assigned' = [assigned EXCEPT ![v] = @ \ {wjob[v]}]
      BY <3>1, <3>2 DEF ReportEnd
    <3>4. wjob[v] # j /\ status'[j] = status[j]
      BY <1>1, <3>1, <3>3 DEF TypeOK
    <3>5. /\ UNCHANGED <<node, recovering>> /\ wpc[v] # "retrying"
          /\ \A w \in Nodes \ {v} : wpc'[w] = wpc[w] /\ wjob'[w] = wjob[w]
      BY <2>7 DEF ReportCancelled, ReportCompleted, ReportFailed, ReportFailedForNow, managerVars
    <3>6. \A w \in Nodes : OnKnown(w) => OnKnown(w)'
      BY <3>3, <3>4, <3>5
    <3> QED
      BY <1>10, <1>11, <3>4, <3>5, <3>6
  <2>8. CASE RetryOnNode(v)
    <3>1. wjob[v] \in Jobs /\ Known(v)
      BY <2>8, RunnersAreHeard DEF RetryOnNode
    <3>2. /\ UNCHANGED <<node, recovering>> /\ wpc' = [wpc EXCEPT ![v] = "idle"]
          /\ assigned' = [assigned EXCEPT ![v] = @ \cup {wjob[v]}]
          /\ wjob' = [wjob EXCEPT ![v] = NoJob] /\ status' = [status EXCEPT ![wjob[v]] = "queued"]
      BY <2>8 DEF RetryOnNode, PutOnNode, SetStatus
    <3>3. CASE wjob[v] = j
      BY <3>1, <3>2, <3>3 DEF HasOwner
    <3>4. CASE wjob[v] # j
      <4>1. status'[j] = status[j]
        BY <1>1, <3>2, <3>4 DEF TypeOK
      <4>2. \A w \in Nodes : OnKnown(w) => OnKnown(w)'
        BY <3>2, <3>4
      <4> QED
        BY <1>10, <1>11, <3>2, <4>1, <4>2
    <3> QED
      BY <3>3, <3>4
  <2> QED
    BY <1>11, <2>1, <2>2, <2>3, <2>4, <2>5, <2>6, <2>7, <2>8 DEF NodeStep
<1>12. ASSUME RecoveryDone \/ UNCHANGED allVars PROVE HasOwner(j)'
  <2>1. UNCHANGED <<status, queue, held, dropped, recovering, node, assigned, wpc, wjob>>
    BY <1>12 DEF RecoveryDone, allVars, distVars, vars, jobVars, queueVars, workerVars, historyVars,
                 nodeVars, runnerVars, managerVars
  <2> QED
    BY <1>3, <2>1 DEF QueuedJobs, Known
<1> QED
  BY <1>1, <1>5, <1>6, <1>7, <1>8, <1>9, <1>11, <1>12 DEF CrashStep, NodeStep

\* A job that is in one place runs in one place.
LEMMA PlacedOnceRunsOnce ==
    ASSUME DistTypeOK, CrashInv PROVE JobRunsInOnePlace
<1> SUFFICES ASSUME NEW j \in Jobs, submits[j] <= 1
             PROVE  Cardinality({t \in Threads : <<t, j>> \in executing}
                                \cup {w \in Nodes : wpc[w] = "run" /\ wjob[w] = j}) <= 1
  BY DEF JobRunsInOnePlace
<1> DEFINE T == {t \in Threads : <<t, j>> \in executing}
           W == {w \in Nodes : wpc[w] = "run" /\ wjob[w] = j}
<1>1. \A t \in T : held[t] = j /\ InEngine(j)
  BY DEF CrashInv, ExecutingMatches, InEngine
<1>2. \A t, u \in T : t = u
  BY <1>1 DEF CrashInv, OnePlacePerJob
<1>3. \A w, v \in W : w = v
  BY DEF CrashInv, PlacedOnce, OnNode
<1>4. T # {} => W = {}
  BY <1>1 DEF CrashInv, PlacedOnce, OnNode
<1>5. \A x, y \in T \cup W : x = y
  BY <1>2, <1>3, <1>4
<1> SUFFICES Cardinality(T \cup W) <= 1
  OBVIOUS
<1> HIDE DEF T, W
<1>6. CASE T \cup W = {}
  <2>1. Cardinality({}) = 0
    BY FS_EmptySet
  <2> QED
    BY <1>6, <2>1
<1>7. CASE T \cup W # {}
  <2>1. PICK x : x \in T \cup W
    BY <1>7
  <2>2. T \cup W = {x}
    BY <1>5, <2>1
  <2>3. Cardinality({x}) = 1
    BY FS_Singleton
  <2> QED
    BY <2>2, <2>3
<1> QED
  BY <1>6, <1>7

\* Whatever workers crash, and whenever, a job that is queued or running has
\* somebody to look at it again, and never runs in two places
\* (distributed.py:529-575), as long as heartbeats are in time, workers are
\* started once and not stopped, and every job is submitted once.
THEOREM CrashesAlwaysHandled == CrashesOnly => (DistSpec => []CrashesAreHandled)
<1> SUFFICES ASSUME CrashesOnly PROVE DistSpec => []CrashesAreHandled
  OBVIOUS
<1>1. DistInit => CrashInv
  <2> SUFFICES ASSUME DistInit PROVE CrashInv
    OBVIOUS
  <2>1. OnePlacePerJob /\ ExecutingMatches /\ SubmittedIsRegistered /\ NoOrphan
    BY NoJobAssumption DEF DistInit, Init, OnePlacePerJob, ExecutingMatches, Executing,
                           SubmittedIsRegistered, NoOrphan, QueuedJobs
  <2>2. \A w \in Nodes : ~wstop[w]
    BY Zenon DEF DistInit
  <2>3. OncePerNode
    BY NoJobAssumption DEF DistInit, OncePerNode, OnNodeOnce
  <2>4. \A w \in Nodes : RunnerPlain(w)
    BY <2>2 DEF DistInit, RunnerPlain, Up, Known
  <2>5. LockKept /\ \A j \in Jobs : PlacedOnce(j)
    BY NoJobAssumption DEF DistInit, Init, LockKept, PlacedOnce, OnNode, InEngine, QueuedJobs
  <2> QED
    BY <2>1, <2>3, <2>4, <2>5 DEF CrashInv, DistInit
<1>2. DistTypeOK /\ DistTypeOK' /\ CrashInv /\ [DistNext]_allVars => CrashInv'
  <2> SUFFICES ASSUME DistTypeOK, DistTypeOK', CrashInv, [DistNext]_allVars PROVE CrashInv'
    OBVIOUS
  <2>1. OncePerNode' /\ LockKept' /\ OnePlacePerJob' /\ ExecutingMatches' /\ SubmittedIsRegistered'
    BY NextOncePerNode, NextLockKept, NextInEngine, NextSubmittedIsRegistered DEF CrashInv
  <2>2. (\A w \in Nodes : RunnerPlain(w)') /\ (\A j \in Jobs : PlacedOnce(j)') /\ NoOrphan'
    BY NextRunnerPlain, NextPlacedOnce, NextNoOrphan
  <2>3. assigns' = 0
    <3>1. CrashStep /\ assigns = 0
      BY OnlyCrashSteps DEF CrashInv
    <3> QED
      BY <3>1 DEF CrashStep, SubmitRouted, SubmitLocally, RecoverJob, SuspendStale, DeclareOffline,
         Tick, Heartbeat, StartWorker, Crash, FetchJob, ReportRunning, RunTarget, ReportCancelled,
         RetryOnNode, ReportCompleted, ReportFailed, ReportFailedForNow, RecoveryDone, EngineStep,
         allVars, distVars, managerVars
  <2> QED
    BY <2>1, <2>2, <2>3 DEF CrashInv
<1>3. DistTypeOK /\ CrashInv => CrashesAreHandled
  BY PlacedOnceRunsOnce DEF CrashesAreHandled, CrashInv
<1>4. NodesConsistent => DistTypeOK
  BY DEF NodesConsistent
<1> QED
  BY <1>1, <1>2, <1>3, <1>4, NodesStayConsistent, PTL DEF DistSpec
=============================================================================
