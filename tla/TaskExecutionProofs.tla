------------------------ MODULE TaskExecutionProofs ------------------------
(***************************************************************************)
(* Proofs about TaskExecution, for every set of jobs and threads and every *)
(* value of the bounds, and that it implements JobLifecycle when clients   *)
(* submit no Job object twice.                                             *)
(***************************************************************************)
EXTENDS JobRefinement, FiniteSetTheorems, TLAPS

\* Init establishes the types.
LEMMA InitTypeOK == Init => TypeOK
<1> SUFFICES ASSUME Init PROVE TypeOK
  OBVIOUS
<1>1. cancelled \in [Jobs -> BOOLEAN] /\ stopped \in [Threads -> BOOLEAN]
  BY Zenon DEF Init
<1>2. queue \subseteq [job : Jobs, seq : Nat] /\ executing \subseteq Threads \X Jobs
  BY Zenon DEF Init
<1>3. status \in [Jobs -> JobStatus] /\ memory \in [Jobs -> JobStatus \cup {"none"}]
  BY DEF Init, JobStatus
<1>4. pc \in [Threads -> Idle \cup Busy] /\ held \in [Threads -> Jobs \cup {NoJob}]
  BY DEF Init, Idle
<1>5. \A t \in Threads : pc[t] \in Idle <=> held[t] = NoJob
  BY DEF Init, Idle
<1>6. shuttingDown \in BOOLEAN
  BY DEF Init
<1> QED
  BY <1>1, <1>2, <1>3, <1>4, <1>5, <1>6 DEF Init, TypeOK

\* Every step of the engine, of its clients and of its workers keeps them.
LEMMA NextTypeOK == TypeOK /\ [Next]_vars => TypeOK'
<1> SUFFICES ASSUME TypeOK, [Next]_vars
             PROVE  TypeOK'
  OBVIOUS
<1> USE NoJobAssumption, AttributesAssumption, SubsetsAssumption
<1> USE DEF TypeOK, JobStatus, Idle, Busy, Executing
<1>1. ASSUME NEW j \in Jobs, SubmitJob(j) PROVE TypeOK'
  BY <1>1 DEF SubmitJob, SetStatus, Put, workerVars
<1>2. ASSUME NEW j \in Jobs, Cancel(j) PROVE TypeOK'
  BY <1>2 DEF Cancel, SetStatus, queueVars, workerVars, engineVars, historyVars
<1>3. ASSUME ClearJobs PROVE TypeOK'
  BY <1>3 DEF ClearJobs, jobVars, queueVars, workerVars, historyVars
<1>4. ASSUME Initialize PROVE TypeOK'
  <2>1. PICK S \in SUBSET {t \in Threads : pc[t] = "off"} :
             /\ workers' = S
             /\ stopped' = [t \in Threads |-> IF t \in S THEN FALSE ELSE stopped[t]]
             /\ pc' = [t \in Threads |-> IF t \in S THEN "loop" ELSE pc[t]]
    BY <1>4, Zenon DEF Initialize
  <2>2. stopped' \in [Threads -> BOOLEAN]
    BY <2>1, Zenon
  <2>3. pc' \in [Threads -> Idle \cup Busy] /\ workers' \subseteq Threads
    BY <2>1
  <2>4. \A t \in Threads : pc'[t] \in Idle <=> held[t] = NoJob
    BY <2>1
  <2>5. toJoin' \subseteq workers'
    BY <1>4 DEF Initialize
  <2> QED
    BY <1>4, <2>2, <2>3, <2>4, <2>5 DEF Initialize, jobVars, queueVars, historyVars
<1>5. ASSUME ShutdownStop PROVE TypeOK'
  BY <1>5 DEF ShutdownStop, jobVars, queueVars, workerVars
<1>6. ASSUME NEW t \in Threads, ShutdownJoin(t) PROVE TypeOK'
  BY <1>6 DEF ShutdownJoin, jobVars, queueVars, workerVars, historyVars
<1>7. ASSUME ShutdownClear PROVE TypeOK'
  <2>1. QueuedJobs \subseteq Jobs
    BY DEF QueuedJobs
  <2>2. queue' \subseteq [job : Jobs, seq : Nat] /\ workers' \subseteq Threads
    BY <1>7, Zenon DEF ShutdownClear
  <2>3. toJoin' \subseteq workers' /\ shuttingDown' \in BOOLEAN
    BY <1>7, Zenon DEF ShutdownClear
  <2> QED
    BY <1>7, <2>1, <2>2, <2>3 DEF ShutdownClear, jobVars, workerVars
<1>8. ASSUME NEW t \in Threads, WorkerStep(t) PROVE TypeOK'
  <2> USE DEF At, GoTo
  <2>1. CASE CheckStop(t)
    BY <2>1 DEF CheckStop, jobVars, queueVars, engineVars, historyVars
  <2>2. CASE TakeJob(t)
    BY <2>2 DEF TakeJob, QueueHeads, jobVars, engineVars, historyVars
  <2>3. CASE QueueEmpty(t)
    BY <2>3 DEF QueueEmpty, jobVars, queueVars, engineVars, historyVars
  <2>4. CASE SkipCancelled(t)
    BY <2>4 DEF SkipCancelled, SetStatus, EndJob, queueVars, engineVars, historyVars
  <2>5. CASE NotCancelled(t)
    BY <2>5 DEF NotCancelled, jobVars, queueVars, engineVars, historyVars
  <2>6. CASE StartJob(t)
    BY <2>6 DEF StartJob, SetStatus, queueVars, engineVars
  <2>7. CASE TimeoutFires(t)
    BY <2>7 DEF TimeoutFires, jobVars, queueVars, engineVars, historyVars
  <2>8. CASE CompleteJob(t)
    BY <2>8 DEF CompleteJob, SetStatus, queueVars, engineVars, historyVars
  <2>9. CASE FailJob(t)
    BY <2>9 DEF FailJob, SetStatus, queueVars, engineVars, historyVars
  <2>10. CASE SaveToMemory(t)
    BY <2>10 DEF SaveToMemory, EndJob, jobVars, queueVars, historyVars
  <2>11. CASE RetryJob(t)
    BY <2>11 DEF RetryJob, SetStatus, queueVars, engineVars, historyVars
  <2>12. CASE Requeue(t)
    BY <2>12 DEF Requeue, Put, EndJob, jobVars, engineVars, historyVars
  <2> QED
    BY <1>8, <2>1, <2>2, <2>3, <2>4, <2>5, <2>6, <2>7, <2>8, <2>9, <2>10, <2>11, <2>12
    DEF WorkerStep
<1>9. ASSUME NEW t \in Threads, TargetStep(t) PROVE TypeOK'
  <2> USE DEF At, GoTo, TargetDone, HandleError
  <2>1. CASE TargetReturns(t)
    BY <2>1 DEF TargetReturns, jobVars, queueVars, engineVars, historyVars
  <2>2. CASE TargetRaises(t)
    BY <2>2 DEF TargetRaises, jobVars, queueVars, engineVars, historyVars
  <2>3. CASE LateTargetEnds(t)
    BY <2>3 DEF LateTargetEnds, jobVars, queueVars, engineVars, historyVars
  <2>4. CASE TargetExits(t)
    BY <2>4 DEF TargetExits, jobVars, queueVars, engineVars, historyVars
  <2> QED
    BY <1>9, <2>1, <2>2, <2>3, <2>4 DEF TargetStep
<1>10. CASE UNCHANGED vars
  BY <1>10 DEF vars, jobVars, queueVars, workerVars, engineVars, historyVars
<1> QED
  BY <1>1, <1>2, <1>3, <1>4, <1>5, <1>6, <1>7, <1>8, <1>9, <1>10
  DEF Next, Client, Lifecycle, CancelJob

\* Every variable of the engine always has its type, and a worker holds a job
\* exactly while it processes one.
THEOREM TypeCorrect == Spec => []TypeOK
  BY InitTypeOK, NextTypeOK, PTL DEF Spec
-----------------------------------------------------------------------------
(* Where the jobs are.  OnePlacePerJob only depends on submits, held and   *)
(* queue, so most actions leave it alone.                                  *)

\* A worker that takes the head of the queue moves the job's only entry into
\* its hands.
LEMMA TakeKeepsPlace ==
    ASSUME TypeOK, OnePlacePerJob, NEW t \in Threads, TakeJob(t)
    PROVE  OnePlacePerJob'
<1>1. PICK e \in queue : queue' = queue \ {e} /\ held' = [held EXCEPT ![t] = e.job]
  BY DEF TakeJob, QueueHeads
<1>2. held[t] = NoJob /\ submits' = submits
  BY DEF TakeJob, At, TypeOK, Idle, historyVars
<1>3. e.job \in Jobs
  BY DEF TypeOK
<1> SUFFICES ASSUME NEW j \in Jobs, submits[j] <= 1
             PROVE  /\ \A u, v \in Threads : held'[u] = j /\ held'[v] = j => u = v
                    /\ \A f, g \in queue' : f.job = j /\ g.job = j => f = g
                    /\ \A u \in Threads : held'[u] = j => \A f \in queue' : f.job # j
                    /\ submits[j] = 0 =>
                          /\ \A f \in queue' : f.job # j
                          /\ \A u \in Threads : held'[u] # j
  BY <1>2 DEF OnePlacePerJob, QueuedJobs
<1> QED
  BY <1>1, <1>2, <1>3, NoJobAssumption DEF OnePlacePerJob, QueuedJobs, TypeOK

\* A worker that puts its job back moves it from its hands into the queue.
LEMMA RequeueKeepsPlace ==
    ASSUME TypeOK, OnePlacePerJob, NEW t \in Threads, Requeue(t)
    PROVE  OnePlacePerJob'
<1> DEFINE n == [job |-> held[t], seq |-> counter + 1]
<1>1. queue' = queue \cup {n} /\ held' = [held EXCEPT ![t] = NoJob] /\ submits' = submits
  BY DEF Requeue, Put, EndJob, historyVars
<1>2. held[t] \in Jobs
  BY DEF Requeue, At, TypeOK, Idle
<1>3. n.job = held[t]
  OBVIOUS
<1> HIDE DEF n
<1> SUFFICES ASSUME NEW j \in Jobs, submits[j] <= 1
             PROVE  /\ \A u, v \in Threads : held'[u] = j /\ held'[v] = j => u = v
                    /\ \A f, g \in queue' : f.job = j /\ g.job = j => f = g
                    /\ \A u \in Threads : held'[u] = j => \A f \in queue' : f.job # j
                    /\ submits[j] = 0 =>
                          /\ \A f \in queue' : f.job # j
                          /\ \A u \in Threads : held'[u] # j
  BY <1>1 DEF OnePlacePerJob, QueuedJobs
<1> QED
  BY <1>1, <1>2, <1>3, NoJobAssumption DEF OnePlacePerJob, QueuedJobs, TypeOK

\* A first submission creates the only entry of a job that was nowhere; a
\* second one is outside the property.
LEMMA SubmitKeepsPlace ==
    ASSUME TypeOK, OnePlacePerJob, NEW k \in Jobs, SubmitJob(k)
    PROVE  OnePlacePerJob'
<1> DEFINE n == [job |-> k, seq |-> counter + 1]
<1>1. queue' = queue \cup {n} /\ held' = held /\ submits' = [submits EXCEPT ![k] = @ + 1]
  BY DEF SubmitJob, Put, workerVars
<1>2. n.job = k
  OBVIOUS
<1> HIDE DEF n
<1> SUFFICES ASSUME NEW j \in Jobs, submits'[j] <= 1
             PROVE  /\ \A u, v \in Threads : held[u] = j /\ held[v] = j => u = v
                    /\ \A f, g \in queue' : f.job = j /\ g.job = j => f = g
                    /\ \A u \in Threads : held[u] = j => \A f \in queue' : f.job # j
                    /\ submits'[j] = 0 =>
                          /\ \A f \in queue' : f.job # j
                          /\ \A u \in Threads : held[u] # j
  BY <1>1 DEF OnePlacePerJob, QueuedJobs
<1>3. CASE j = k
  <2>1. submits[j] = 0 /\ submits'[j] = 1
    BY <1>1, <1>3 DEF TypeOK
  <2> QED
    BY <1>1, <1>2, <1>3, <2>1 DEF OnePlacePerJob, QueuedJobs
<1>4. CASE j # k
  BY <1>1, <1>2, <1>4 DEF OnePlacePerJob, QueuedJobs, TypeOK
<1> QED
  BY <1>3, <1>4

\* Dropping jobs, from a worker's hands or from the queue, keeps the property.
LEMMA DropKeepsPlace ==
    ASSUME OnePlacePerJob, TypeOK, submits' = submits, queue' \subseteq queue,
           \A t \in Threads : held'[t] \in {held[t], NoJob}
    PROVE  OnePlacePerJob'
  BY NoJobAssumption DEF OnePlacePerJob, QueuedJobs, TypeOK

\* No step puts a job that was submitted once into a second place.
LEMMA NextOnePlacePerJob == TypeOK /\ OnePlacePerJob /\ [Next]_vars => OnePlacePerJob'
<1> SUFFICES ASSUME TypeOK, OnePlacePerJob, [Next]_vars
             PROVE  OnePlacePerJob'
  OBVIOUS
<1> DEFINE Drop == /\ submits' = submits
                   /\ queue' \subseteq queue
                   /\ \A t \in Threads : held'[t] \in {held[t], NoJob}
<1>1. ASSUME NEW j \in Jobs, Cancel(j) PROVE Drop
  BY <1>1 DEF Cancel, queueVars, workerVars, historyVars
<1>2. ASSUME ClearJobs PROVE Drop
  BY <1>2 DEF ClearJobs, queueVars, workerVars, historyVars
<1>3. ASSUME Lifecycle PROVE Drop
  BY <1>3 DEF Lifecycle, Initialize, ShutdownStop, ShutdownJoin, ShutdownClear, queueVars,
              workerVars, historyVars
<1>4. ASSUME NEW t \in Threads, TargetStep(t) PROVE Drop
  BY <1>4 DEF TargetStep, TargetReturns, TargetRaises, LateTargetEnds, TargetExits,
              queueVars, historyVars, TypeOK
<1>5. ASSUME NEW t \in Threads, WorkerStep(t) PROVE Drop \/ TakeJob(t) \/ Requeue(t)
  BY <1>5 DEF WorkerStep, CheckStop, QueueEmpty, SkipCancelled, NotCancelled, StartJob,
              TimeoutFires, CompleteJob, FailJob, SaveToMemory, RetryJob, EndJob,
              queueVars, historyVars, TypeOK
<1>6. CASE UNCHANGED vars
  BY <1>6 DEF vars, queueVars, workerVars, historyVars, OnePlacePerJob, QueuedJobs
<1>7. Drop => OnePlacePerJob'
  BY DropKeepsPlace
<1> HIDE DEF Drop
<1> QED
  BY <1>1, <1>2, <1>3, <1>4, <1>5, <1>6, <1>7, SubmitKeepsPlace, TakeKeepsPlace,
     RequeueKeepsPlace
  DEF Next, Client, CancelJob

\* A job submitted once is always in at most one queue entry or with one worker.
THEOREM OnePlace == Spec => []OnePlacePerJob
<1>1. Init => OnePlacePerJob
  BY NoJobAssumption DEF Init, OnePlacePerJob, QueuedJobs
<1> QED
  BY <1>1, NextOnePlacePerJob, TypeCorrect, PTL DEF Spec
-----------------------------------------------------------------------------
(* Executions of targets *)

\* A target runs exactly while its worker waits for it, in time or not.
ExecutingMatches ==
    \A t \in Threads, j \in Jobs :
        <<t, j>> \in executing <=> held[t] = j /\ pc[t] \in Executing

\* Starting a target, waiting for it and its end keep the two in step.
LEMMA NextExecutingMatches ==
    TypeOK /\ ExecutingMatches /\ [Next]_vars => ExecutingMatches'
<1> SUFFICES ASSUME TypeOK, ExecutingMatches, [Next]_vars
             PROVE  ExecutingMatches'
  OBVIOUS
<1> USE NoJobAssumption DEF ExecutingMatches, TypeOK, Executing
<1>1. CASE Client
  BY <1>1 DEF Client, SubmitJob, Cancel, CancelJob, ClearJobs, workerVars
<1>2. CASE Initialize
  <2>1. /\ executing' = executing /\ held' = held
        /\ \A t \in Threads : pc'[t] # pc[t] => pc[t] = "off" /\ pc'[t] = "loop"
    BY <1>2 DEF Initialize
  <2> QED
    BY <2>1
<1>3. CASE Lifecycle /\ ~Initialize
  BY <1>3 DEF Lifecycle, ShutdownStop, ShutdownJoin, ShutdownClear, workerVars
<1>4. ASSUME NEW t \in Threads, WorkerStep(t), ~StartJob(t) PROVE ExecutingMatches'
  <2>1. executing' = executing
    BY <1>4 DEF WorkerStep, CheckStop, TakeJob, QueueEmpty, SkipCancelled, NotCancelled,
                TimeoutFires, CompleteJob, FailJob, SaveToMemory, RetryJob, Requeue
  <2>2. \A u \in Threads \ {t} : pc'[u] = pc[u] /\ held'[u] = held[u]
    BY <1>4 DEF WorkerStep, CheckStop, TakeJob, QueueEmpty, SkipCancelled, NotCancelled,
                TimeoutFires, CompleteJob, FailJob, SaveToMemory, RetryJob, Requeue,
                EndJob, GoTo
  <2>3. \/ pc[t] \notin Executing /\ pc'[t] \notin Executing
        \/ pc[t] \in Executing /\ pc'[t] \in Executing /\ held' = held
    BY <1>4 DEF WorkerStep, CheckStop, TakeJob, QueueEmpty, SkipCancelled, NotCancelled,
                TimeoutFires, CompleteJob, FailJob, SaveToMemory, RetryJob, Requeue,
                EndJob, GoTo, At
  <2> QED
    BY <2>1, <2>2, <2>3
<1>5. ASSUME NEW t \in Threads, StartJob(t) PROVE ExecutingMatches'
  BY <1>5 DEF StartJob, At, GoTo
<1>6. ASSUME NEW t \in Threads, TargetStep(t) PROVE ExecutingMatches'
  <2>1. executing' = executing \ {<<t, held[t]>>}
    BY <1>6 DEF TargetStep, TargetReturns, TargetRaises, LateTargetEnds, TargetExits,
                TargetDone
  <2>2. \A u \in Threads \ {t} : pc'[u] = pc[u] /\ held'[u] = held[u]
    BY <1>6 DEF TargetStep, TargetReturns, TargetRaises, LateTargetEnds, TargetExits,
                HandleError, GoTo
  <2>3. pc'[t] \notin Executing
    BY <1>6 DEF TargetStep, TargetReturns, TargetRaises, LateTargetEnds, TargetExits,
                HandleError, GoTo, At
  <2>4. held'[t] \in {held[t], NoJob}
    BY <1>6 DEF TargetStep, TargetReturns, TargetRaises, LateTargetEnds, TargetExits
  <2>5. pc[t] \in Executing
    BY <1>6 DEF TargetStep, TargetReturns, TargetRaises, LateTargetEnds, TargetExits, At
  <2> QED
    BY <2>1, <2>2, <2>3, <2>4, <2>5
<1>7. CASE UNCHANGED vars
  BY <1>7 DEF vars, workerVars
<1> QED
  BY <1>1, <1>2, <1>3, <1>4, <1>5, <1>6, <1>7 DEF Next

\* Executions of a job submitted once never overlap.
THEOREM Exclusive == Spec => []ExclusiveExecution
<1>1. Init => ExecutingMatches
  BY NoJobAssumption DEF Init, ExecutingMatches, Executing
<1>2. TypeOK /\ OnePlacePerJob /\ ExecutingMatches => ExclusiveExecution
  <2> SUFFICES ASSUME TypeOK, OnePlacePerJob, ExecutingMatches,
                      NEW a \in executing, NEW b \in executing,
                      a[2] = b[2], submits[a[2]] <= 1
               PROVE  a = b
    BY DEF ExclusiveExecution
  <2>1. /\ a = <<a[1], a[2]>> /\ a[1] \in Threads /\ a[2] \in Jobs
        /\ b = <<b[1], b[2]>> /\ b[1] \in Threads
    BY DEF TypeOK
  <2>2. held[a[1]] = a[2] /\ held[b[1]] = a[2]
    BY <2>1 DEF ExecutingMatches
  <2>3. a[1] = b[1]
    BY <2>1, <2>2 DEF OnePlacePerJob
  <2> QED
    BY <2>1, <2>3
<1> QED
  BY <1>1, <1>2, NextExecutingMatches, TypeCorrect, OnePlace, PTL DEF Spec

-----------------------------------------------------------------------------
(* Outcomes *)

\* A finished job submitted once is nowhere any more, except with the worker
\* that saves it; conversely that worker has finished it.
FinishedIsNowhere ==
    \A j \in Jobs : submits[j] <= 1 =>
        /\ status[j] \in Finished =>
              submits[j] # 0 /\ j \notin QueuedJobs
              /\ \A t \in Threads : held[t] = j => pc[t] = "save"
        /\ \A t \in Threads : held[t] = j /\ pc[t] = "save" => status[j] \in Finished

\* Only the holder of a job, a cancellation or a new submission changes its
\* status, and none of them starts from COMPLETED or FAILED.
LEMMA NextFinishedIsNowhere ==
    TypeOK /\ OnePlacePerJob /\ FinishedIsNowhere /\ [Next]_vars => FinishedIsNowhere'
<1> SUFFICES ASSUME TypeOK, OnePlacePerJob, FinishedIsNowhere, [Next]_vars,
                    NEW j \in Jobs, submits'[j] <= 1
             PROVE  /\ status'[j] \in Finished =>
                          submits'[j] # 0 /\ j \notin QueuedJobs'
                          /\ \A t \in Threads : held'[t] = j => pc'[t] = "save"
                    /\ \A t \in Threads :
                          held'[t] = j /\ pc'[t] = "save" => status'[j] \in Finished
  BY DEF FinishedIsNowhere
<1> DEFINE Goal == /\ status'[j] \in Finished =>
                          submits'[j] # 0 /\ j \notin QueuedJobs'
                          /\ \A t \in Threads : held'[t] = j => pc'[t] = "save"
                   /\ \A t \in Threads :
                          held'[t] = j /\ pc'[t] = "save" => status'[j] \in Finished
<1> USE NoJobAssumption DEF TypeOK, Finished, QueuedJobs
<1>1. ASSUME NEW k \in Jobs, SubmitJob(k) PROVE Goal
  <2>1. CASE k = j
    <3>1. submits[j] = 0 /\ status'[j] = "queued" /\ held' = held
      BY <1>1, <2>1 DEF SubmitJob, SetStatus, workerVars
    <3> QED
      BY <3>1 DEF OnePlacePerJob
  <2>2. CASE k # j
    BY <1>1, <2>2 DEF SubmitJob, SetStatus, Put, FinishedIsNowhere, workerVars
  <2> QED
    BY <2>1, <2>2
<1>2. ASSUME NEW k \in Jobs, Cancel(k) PROVE Goal
  BY <1>2 DEF Cancel, SetStatus, Terminal, FinishedIsNowhere, workerVars, queueVars, historyVars
<1>3. ASSUME ClearJobs PROVE Goal
  BY <1>3 DEF ClearJobs, FinishedIsNowhere, jobVars, workerVars, queueVars, historyVars
<1>4. ASSUME Initialize PROVE Goal
  <2>1. \A t \in Threads : pc'[t] # pc[t] => pc[t] = "off" /\ pc'[t] = "loop"
    BY <1>4 DEF Initialize
  <2> QED
    BY <1>4, <2>1 DEF Initialize, FinishedIsNowhere, jobVars, queueVars, historyVars, Idle
<1>5. ASSUME Lifecycle, ~Initialize PROVE Goal
  BY <1>5 DEF Lifecycle, ShutdownStop, ShutdownJoin, ShutdownClear, FinishedIsNowhere,
              jobVars, workerVars, queueVars, historyVars
<1>6. ASSUME NEW t \in Threads, WorkerStep(t) PROVE Goal
  <2> USE DEF At, GoTo, Idle, FinishedIsNowhere
  <2>1. CASE CheckStop(t) \/ QueueEmpty(t)
    BY <2>1 DEF CheckStop, QueueEmpty, jobVars, queueVars, historyVars
  <2>2. CASE TakeJob(t)
    <3>1. PICK e \in queue : queue' = queue \ {e} /\ held' = [held EXCEPT ![t] = e.job]
      BY <2>2 DEF TakeJob, QueueHeads
    <3> QED
      BY <2>2, <3>1 DEF TakeJob, jobVars, historyVars
  <2>3. CASE SkipCancelled(t)
    BY <2>3 DEF SkipCancelled, SetStatus, EndJob, queueVars, historyVars, OnePlacePerJob
  <2>4. CASE NotCancelled(t) \/ TimeoutFires(t)
    BY <2>4 DEF NotCancelled, TimeoutFires, jobVars, queueVars, historyVars
  <2>5. CASE StartJob(t)
    BY <2>5 DEF StartJob, SetStatus, queueVars, OnePlacePerJob
  <2>6. CASE CompleteJob(t) \/ FailJob(t)
    BY <2>6 DEF CompleteJob, FailJob, SetStatus, queueVars, historyVars, OnePlacePerJob
  <2>7. CASE SaveToMemory(t)
    BY <2>7 DEF SaveToMemory, EndJob, jobVars, queueVars, historyVars
  <2>8. CASE RetryJob(t)
    BY <2>8 DEF RetryJob, SetStatus, queueVars, historyVars, OnePlacePerJob
  <2>9. CASE Requeue(t)
    BY <2>9 DEF Requeue, Put, EndJob, jobVars, historyVars
  <2> QED
    BY <1>6, <2>1, <2>2, <2>3, <2>4, <2>5, <2>6, <2>7, <2>8, <2>9 DEF WorkerStep
<1>7. ASSUME NEW t \in Threads, TargetStep(t) PROVE Goal
  <2>1. status' = status /\ queue' = queue /\ submits' = submits
    BY <1>7 DEF TargetStep, TargetReturns, TargetRaises, LateTargetEnds, TargetExits,
                jobVars, queueVars, historyVars
  <2>2. \A u \in Threads \ {t} : pc'[u] = pc[u] /\ held'[u] = held[u]
    BY <1>7 DEF TargetStep, TargetReturns, TargetRaises, LateTargetEnds, TargetExits,
                HandleError, GoTo
  <2>3. pc[t] # "save" /\ pc'[t] # "save" /\ held'[t] \in {held[t], NoJob}
    BY <1>7 DEF TargetStep, TargetReturns, TargetRaises, LateTargetEnds, TargetExits,
                HandleError, GoTo, At
  <2> QED
    BY <2>1, <2>2, <2>3 DEF FinishedIsNowhere
<1>8. ASSUME UNCHANGED vars PROVE Goal
  BY <1>8 DEF vars, FinishedIsNowhere, jobVars, workerVars, queueVars, historyVars
<1> HIDE DEF Goal
<1>9. Goal
  BY <1>1, <1>2, <1>3, <1>4, <1>5, <1>6, <1>7, <1>8 DEF Next, Client, CancelJob
<1> QED
  BY <1>9 DEF Goal

\* A step from a state where finished jobs are nowhere leaves their status and
\* their number of attempts alone.
LEMMA FinishedStays ==
    ASSUME TypeOK, FinishedIsNowhere, [Next]_vars,
           NEW j \in Jobs, submits'[j] <= 1, status[j] \in Finished
    PROVE  status'[j] = status[j] /\ attempts'[j] = attempts[j]
<1> USE DEF TypeOK, Finished
<1>1. ASSUME NEW k \in Jobs, SubmitJob(k) PROVE j # k /\ status'[j] = status[j]
  BY <1>1 DEF SubmitJob, SetStatus, FinishedIsNowhere
<1>2. ASSUME Client PROVE status'[j] = status[j] /\ attempts'[j] = attempts[j]
  BY <1>1, <1>2 DEF Client, SubmitJob, Cancel, CancelJob, ClearJobs, SetStatus, Terminal, jobVars,
              historyVars
<1>3. ASSUME Lifecycle PROVE status'[j] = status[j] /\ attempts'[j] = attempts[j]
  BY <1>3 DEF Lifecycle, Initialize, ShutdownStop, ShutdownJoin, ShutdownClear, jobVars,
              historyVars
<1>4. ASSUME NEW t \in Threads, WorkerStep(t)
      PROVE  status'[j] = status[j] /\ attempts'[j] = attempts[j]
  <2>1. submits' = submits
    BY <1>4 DEF WorkerStep, CheckStop, TakeJob, QueueEmpty, SkipCancelled, NotCancelled,
              StartJob, TimeoutFires, CompleteJob, FailJob, SaveToMemory, RetryJob, Requeue,
              historyVars
  <2>2. held[t] = j => pc[t] = "save"
    BY <2>1 DEF FinishedIsNowhere
  <2> QED
    BY <1>4, <2>2 DEF WorkerStep, CheckStop, TakeJob, QueueEmpty, SkipCancelled, NotCancelled,
              StartJob, TimeoutFires, CompleteJob, FailJob, SaveToMemory, RetryJob, Requeue,
              SetStatus, At, jobVars, historyVars
<1>5. ASSUME NEW t \in Threads, TargetStep(t)
      PROVE  status'[j] = status[j] /\ attempts'[j] = attempts[j]
  BY <1>5 DEF TargetStep, TargetReturns, TargetRaises, LateTargetEnds, TargetExits, jobVars,
              historyVars
<1>6. CASE UNCHANGED vars
  BY <1>6 DEF vars, jobVars, historyVars
<1> QED
  BY <1>2, <1>3, <1>4, <1>5, <1>6 DEF Next

\* COMPLETED and FAILED are final for a job submitted once.
THEOREM FinalOutcome == Spec => OutcomeIsFinal
<1>1. Init => FinishedIsNowhere
  BY NoJobAssumption DEF Init, FinishedIsNowhere, Finished, QueuedJobs
<1>2. TypeOK /\ FinishedIsNowhere /\ [Next]_vars =>
        [\A j \in Jobs : submits'[j] <= 1 /\ status[j] \in Finished =>
            status'[j] = status[j] /\ attempts'[j] = attempts[j]]_vars
  BY FinishedStays
<1> QED
  BY <1>1, <1>2, NextFinishedIsNowhere, TypeCorrect, OnePlace, PTL DEF Spec, OutcomeIsFinal

-----------------------------------------------------------------------------
(* Cancellation *)

\* Nothing takes a cancellation back, and NotCancelled, the only way to
\* "start", looks at it.
LEMMA CancellationStays ==
    ASSUME TypeOK, [Next]_vars, NEW j \in Jobs, CancelledInTime(j)
    PROVE  CancelledInTime(j)' /\ attempts'[j] = attempts[j]
<1> DEFINE Goal == CancelledInTime(j)' /\ attempts'[j] = attempts[j]
<1> USE NoJobAssumption DEF TypeOK, CancelledInTime
<1>1. ASSUME Client PROVE Goal
  BY <1>1 DEF Client, SubmitJob, Cancel, CancelJob, ClearJobs, jobVars, workerVars, historyVars
<1>2. ASSUME Initialize PROVE Goal
  <2>1. \A t \in Threads : pc'[t] = pc[t] \/ pc'[t] = "loop"
    BY <1>2 DEF Initialize
  <2> QED
    BY <1>2, <2>1 DEF Initialize, jobVars, historyVars
<1>3. ASSUME Lifecycle, ~Initialize PROVE Goal
  BY <1>3 DEF Lifecycle, ShutdownStop, ShutdownJoin, ShutdownClear, jobVars, workerVars,
              historyVars
<1>4. ASSUME NEW t \in Threads, WorkerStep(t) PROVE Goal
  <2> USE DEF At, GoTo
  <2>1. CASE CheckStop(t) \/ QueueEmpty(t) \/ TimeoutFires(t)
    BY <2>1 DEF CheckStop, QueueEmpty, TimeoutFires, jobVars, historyVars
  <2>2. CASE TakeJob(t)
    <3>1. pc' = [pc EXCEPT ![t] = "check"] /\ \A u \in Threads \ {t} : held'[u] = held[u]
      BY <2>2 DEF TakeJob
    <3> QED
      BY <2>2, <3>1 DEF TakeJob, jobVars, historyVars
  <2>3. CASE SkipCancelled(t) \/ SaveToMemory(t) \/ Requeue(t)
    BY <2>3 DEF SkipCancelled, SaveToMemory, Requeue, EndJob, jobVars, historyVars
  <2>4. CASE NotCancelled(t)
    <3>1. held[t] # j
      BY <2>4 DEF NotCancelled, IsCancelled
    <3> QED
      BY <2>4, <3>1 DEF NotCancelled, jobVars, historyVars
  <2>5. CASE StartJob(t)
    <3>1. held[t] # j
      BY <2>5 DEF StartJob
    <3>2. attempts'[j] = attempts[j]
      BY <2>5, <3>1 DEF StartJob
    <3> QED
      BY <2>5, <3>2 DEF StartJob
  <2>6. CASE CompleteJob(t) \/ FailJob(t) \/ RetryJob(t)
    BY <2>6 DEF CompleteJob, FailJob, RetryJob, historyVars
  <2> QED
    BY <1>4, <2>1, <2>2, <2>3, <2>4, <2>5, <2>6 DEF WorkerStep
<1>5. ASSUME NEW t \in Threads, TargetStep(t) PROVE Goal
  <2>1. cancelled' = cancelled /\ attempts' = attempts
    BY <1>5 DEF TargetStep, TargetReturns, TargetRaises, LateTargetEnds, TargetExits, jobVars,
                historyVars
  <2>2. /\ \A u \in Threads \ {t} : pc'[u] = pc[u] /\ held'[u] = held[u]
        /\ pc'[t] # "start"
    BY <1>5 DEF TargetStep, TargetReturns, TargetRaises, LateTargetEnds, TargetExits,
                HandleError, GoTo
  <2> QED
    BY <2>1, <2>2
<1>6. CASE UNCHANGED vars
  BY <1>6 DEF vars, jobVars, workerVars, historyVars
<1> QED
  BY <1>1, <1>2, <1>3, <1>4, <1>5, <1>6 DEF Next

\* A job cancelled before a worker got past its check never starts, however
\* often it is submitted or retried (worker.py:49).
THEOREM CancelledStaysDown == Spec => CancelledNeverStarts
<1>1. TypeOK /\ [Next]_vars =>
        [\A j \in Jobs : CancelledInTime(j) =>
            CancelledInTime(j)' /\ attempts'[j] = attempts[j]]_vars
  BY CancellationStays
<1> QED
  BY <1>1, TypeCorrect, PTL DEF Spec, CancelledNeverStarts

-----------------------------------------------------------------------------
(* What a step leaves alone *)

\* A step of one worker, or of the target it waits for, leaves the position,
\* the job and the context of every other worker alone.
LEMMA OtherThreadsAlone ==
    ASSUME NEW t \in Threads, WorkerStep(t) \/ TargetStep(t), TypeOK
    PROVE  \A u \in Threads \ {t} :
              pc'[u] = pc[u] /\ held'[u] = held[u] /\ context'[u] = context[u]
<1> USE DEF TypeOK, GoTo, EndJob
<1>1. CASE WorkerStep(t)
  BY <1>1 DEF WorkerStep, CheckStop, TakeJob, QueueEmpty, SkipCancelled, NotCancelled,
              StartJob, TimeoutFires, CompleteJob, FailJob, SaveToMemory, RetryJob, Requeue
<1>2. CASE TargetStep(t)
  BY <1>2 DEF TargetStep, TargetReturns, TargetRaises, LateTargetEnds, TargetExits, HandleError
<1> QED
  BY <1>1, <1>2

\* Clients, and shutdown, leave the workers' positions and jobs alone, and
\* initialize only makes idle threads loop.
LEMMA LifecycleLeavesJobs ==
    ASSUME TypeOK, Client \/ Lifecycle
    PROVE  /\ held' = held /\ context' = context /\ executing' = executing
           /\ \A t \in Threads : pc'[t] # pc[t] => pc[t] = "off" /\ pc'[t] = "loop"
<1>1. CASE Client
  BY <1>1 DEF Client, SubmitJob, Cancel, CancelJob, ClearJobs, workerVars
<1>2. CASE Lifecycle
  BY <1>2 DEF Lifecycle, Initialize, ShutdownStop, ShutdownJoin, ShutdownClear, workerVars, TypeOK
<1> QED
  BY <1>1, <1>2

-----------------------------------------------------------------------------
(* Attempts *)

\* A worker that has not started its job yet, or is about to put it back, and
\* a worker that has.
BeforeStart == {"check", "start", "requeue"}
AfterStart == {"run", "drain", "complete", "fail", "retry", "save"}

\* Of a job submitted once every attempt but the current one was followed by a
\* retry that counted it.
AttemptsOf(j) ==
    /\ retryCount[j] <= Retries[j]
    /\ attempts[j] <= retryCount[j] + 1
    /\ submits[j] = 0 => attempts[j] = 0 /\ retryCount[j] = 0
    /\ j \in QueuedJobs => attempts[j] = retryCount[j]
    /\ \A t \in Threads : held[t] = j =>
          /\ pc[t] \in BeforeStart => attempts[j] = retryCount[j]
          /\ pc[t] \in AfterStart => attempts[j] = retryCount[j] + 1
          /\ pc[t] = "retry" => retryCount[j] < Retries[j]

AttemptsAccounted == \A j \in Jobs : submits[j] <= 1 => AttemptsOf(j)

\* The counters of a job only move when its target is started and when its
\* retry is decided, and its one place (OnePlacePerJob) tells which is next.
LEMMA NextAttemptsAccounted ==
    TypeOK /\ OnePlacePerJob /\ AttemptsAccounted /\ [Next]_vars => AttemptsAccounted'
<1> SUFFICES ASSUME TypeOK, OnePlacePerJob, AttemptsAccounted, [Next]_vars,
                    NEW j \in Jobs, submits'[j] <= 1
             PROVE  AttemptsOf(j)'
  BY DEF AttemptsAccounted
<1> USE NoJobAssumption, AttributesAssumption
<1> USE DEF TypeOK, AttemptsOf, BeforeStart, AfterStart, QueuedJobs
<1>1. ASSUME submits' = submits PROVE AttemptsOf(j)
  BY <1>1 DEF AttemptsAccounted
<1>2. ASSUME NEW k \in Jobs, SubmitJob(k) PROVE AttemptsOf(j)'
  <2>1. /\ retryCount' = retryCount /\ attempts' = attempts /\ held' = held /\ pc' = pc
        /\ submits' = [submits EXCEPT ![k] = @ + 1]
        /\ \A f \in queue' : f \in queue \/ f.job = k
    BY <1>2 DEF SubmitJob, Put, workerVars
  <2>2. AttemptsOf(j)
    BY <2>1 DEF AttemptsAccounted
  <2>3. CASE k = j
    BY <2>1, <2>2, <2>3 DEF OnePlacePerJob
  <2>4. CASE k # j
    BY <2>1, <2>2, <2>4
  <2> QED
    BY <2>3, <2>4
<1>3. ASSUME Client \/ Lifecycle, \A k \in Jobs : ~SubmitJob(k) PROVE AttemptsOf(j)'
  <2>1. /\ retryCount' = retryCount /\ attempts' = attempts /\ submits' = submits
        /\ queue' \subseteq queue
    BY <1>3 DEF Client, Lifecycle, Cancel, CancelJob, ClearJobs, Initialize, ShutdownStop,
                ShutdownJoin, ShutdownClear, jobVars, queueVars, historyVars
  <2>2. /\ held' = held
        /\ \A t \in Threads : pc'[t] # pc[t] => pc[t] = "off" /\ pc'[t] = "loop"
    BY <1>3, LifecycleLeavesJobs
  <2> QED
    BY <1>1, <2>1, <2>2
<1>4. ASSUME NEW t \in Threads, WorkerStep(t) \/ TargetStep(t) PROVE AttemptsOf(j)'
  <2>1. \A u \in Threads \ {t} : pc'[u] = pc[u] /\ held'[u] = held[u]
    BY <1>4, OtherThreadsAlone
  <2>2. submits' = submits
    BY <1>4 DEF WorkerStep, CheckStop, TakeJob, QueueEmpty, SkipCancelled, NotCancelled,
                StartJob, TimeoutFires, CompleteJob, FailJob, SaveToMemory, RetryJob, Requeue,
                TargetStep, TargetReturns, TargetRaises, LateTargetEnds, TargetExits, historyVars
  <2>3. AttemptsOf(j)
    BY <1>1, <2>2
  <2> USE DEF At, GoTo, EndJob, Idle, Busy, Executing
  <2>4. CASE CheckStop(t) \/ QueueEmpty(t)
    BY <2>4, <2>3, <2>1 DEF CheckStop, QueueEmpty, jobVars, queueVars, historyVars
  <2>5. CASE TakeJob(t)
    <3>1. PICK e \in queue : queue' = queue \ {e} /\ held' = [held EXCEPT ![t] = e.job]
      BY <2>5 DEF TakeJob, QueueHeads
    <3> QED
      BY <2>5, <3>1, <2>3, <2>1 DEF TakeJob, jobVars, historyVars
  <2>6. CASE SkipCancelled(t) \/ SaveToMemory(t)
    BY <2>6, <2>3, <2>1 DEF SkipCancelled, SaveToMemory, jobVars, queueVars, historyVars
  <2>7. CASE NotCancelled(t) \/ TimeoutFires(t) \/ CompleteJob(t) \/ FailJob(t)
    BY <2>7, <2>3, <2>1 DEF NotCancelled, TimeoutFires, CompleteJob, FailJob, jobVars,
                       queueVars, historyVars
  <2>8. CASE StartJob(t)
    BY <2>8, <2>3, <2>1, <2>2 DEF StartJob, OnePlacePerJob, queueVars
  <2>9. CASE RetryJob(t)
    BY <2>9, <2>3, <2>1, <2>2 DEF RetryJob, OnePlacePerJob, queueVars, historyVars
  <2>10. CASE Requeue(t)
    BY <2>10, <2>3, <2>1 DEF Requeue, Put, jobVars, historyVars
  <2>11. CASE TargetStep(t)
    BY <2>11, <2>3, <2>1 DEF TargetStep, TargetReturns, TargetRaises, LateTargetEnds,
                       TargetExits, HandleError, jobVars, queueVars, historyVars
  <2> QED
    BY <1>4, <2>4, <2>5, <2>6, <2>7, <2>8, <2>9, <2>10, <2>11 DEF WorkerStep
<1>5. CASE UNCHANGED vars
  BY <1>1, <1>5 DEF vars, jobVars, queueVars, workerVars, historyVars
<1> QED
  BY <1>2, <1>3, <1>4, <1>5 DEF Next

\* The counters of jobs submitted once are always accounted for.
LEMMA AttemptsAlwaysAccounted == Spec => []AttemptsAccounted
<1>1. Init => AttemptsAccounted
  BY NoJobAssumption, AttributesAssumption
  DEF Init, AttemptsAccounted, AttemptsOf, QueuedJobs, BeforeStart, AfterStart
<1> QED
  BY <1>1, NextAttemptsAccounted, TypeCorrect, OnePlace, PTL DEF Spec

\* A job submitted once runs at most 1 + retries times, whatever cancellations,
\* timeouts, crashes of threads and restarts of the engine interfere.
THEOREM BoundedAttempts == Spec => []AtMostRetriesPlusOne
<1>1. TypeOK /\ AttemptsAccounted => AtMostRetriesPlusOne
  BY AttributesAssumption DEF TypeOK, AttemptsAccounted, AttemptsOf, AtMostRetriesPlusOne
<1> QED
  BY <1>1, TypeCorrect, AttemptsAlwaysAccounted, PTL

-----------------------------------------------------------------------------
(* No job is lost *)

\* Every step that takes a QUEUED job out of one place puts it into another.
LEMMA NextQueuedHasOwner == TypeOK /\ QueuedHasOwner /\ [Next]_vars => QueuedHasOwner'
<1> SUFFICES ASSUME TypeOK, QueuedHasOwner, [Next]_vars,
                    NEW j \in Jobs, status'[j] = "queued"
             PROVE  \/ j \in QueuedJobs' \cup dropped'
                    \/ \E t \in Threads : held'[t] = j /\ pc'[t] \in BeforeStart
  BY DEF QueuedHasOwner, BeforeStart
<1> DEFINE Goal == \/ j \in QueuedJobs' \cup dropped'
                   \/ \E t \in Threads : held'[t] = j /\ pc'[t] \in BeforeStart
<1> USE NoJobAssumption DEF TypeOK, QueuedJobs, BeforeStart, SetStatus
<1>1. status[j] = "queued" => \/ j \in QueuedJobs \cup dropped
                              \/ \E t \in Threads : held[t] = j /\ pc[t] \in BeforeStart
  BY DEF QueuedHasOwner
<1>2. ASSUME NEW k \in Jobs, SubmitJob(k) PROVE Goal
  <2> DEFINE n == [job |-> k, seq |-> counter + 1]
  <2>1. n.job = k /\ n \in queue' /\ queue \subseteq queue' /\ dropped' = dropped \ {k}
    BY <1>2 DEF SubmitJob, Put
  <2>2. held' = held /\ pc' = pc /\ (j # k => status[j] = "queued")
    BY <1>2 DEF SubmitJob, workerVars
  <2> QED
    BY <1>1, <2>1, <2>2
<1>3. ASSUME NEW k \in Jobs, Cancel(k) PROVE Goal
  BY <1>1, <1>3 DEF Cancel, queueVars, workerVars, historyVars
<1>4. ASSUME ClearJobs PROVE Goal
  BY <1>1, <1>4 DEF ClearJobs, jobVars, queueVars, workerVars, historyVars
<1>5. ASSUME Lifecycle PROVE Goal
  <2>1. /\ held' = held
        /\ \A t \in Threads : pc'[t] # pc[t] => pc[t] = "off" /\ pc'[t] = "loop"
    BY <1>5, LifecycleLeavesJobs
  <2>2. status[j] = "queued" /\ (j \in QueuedJobs \cup dropped => j \in QueuedJobs' \cup dropped')
    BY <1>5 DEF Lifecycle, Initialize, ShutdownStop, ShutdownJoin, ShutdownClear, jobVars,
                queueVars, historyVars
  <2> QED
    BY <1>1, <2>1, <2>2
<1>6. ASSUME NEW t \in Threads, WorkerStep(t) \/ TargetStep(t) PROVE Goal
  <2>1. \A u \in Threads \ {t} : pc'[u] = pc[u] /\ held'[u] = held[u]
    BY <1>6, OtherThreadsAlone
  <2>2. dropped' = dropped
    BY <1>6 DEF WorkerStep, CheckStop, TakeJob, QueueEmpty, SkipCancelled, NotCancelled,
                StartJob, TimeoutFires, CompleteJob, FailJob, SaveToMemory, RetryJob, Requeue,
                TargetStep, TargetReturns, TargetRaises, LateTargetEnds, TargetExits, historyVars
  <2> USE DEF At, GoTo, EndJob, Idle, Busy, Executing
  <2>3. CASE CheckStop(t) \/ QueueEmpty(t) \/ NotCancelled(t) \/ TimeoutFires(t)
             \/ SaveToMemory(t)
    BY <1>1, <2>1, <2>2, <2>3 DEF CheckStop, QueueEmpty, NotCancelled, TimeoutFires,
                                 SaveToMemory, jobVars, queueVars
  <2>4. CASE TakeJob(t)
    <3>1. PICK e \in queue : queue' = queue \ {e} /\ held' = [held EXCEPT ![t] = e.job]
      BY <2>4 DEF TakeJob, QueueHeads
    <3> QED
      BY <1>1, <2>1, <2>2, <2>4, <3>1 DEF TakeJob, jobVars
  <2>5. CASE SkipCancelled(t) \/ StartJob(t) \/ CompleteJob(t) \/ FailJob(t)
    <3>1. j # held[t] /\ status[j] = "queued" /\ queue' = queue
      BY <2>5 DEF SkipCancelled, StartJob, CompleteJob, FailJob, queueVars
    <3> QED
      BY <1>1, <2>1, <2>2, <3>1
  <2>6. CASE RetryJob(t)
    BY <1>1, <2>1, <2>2, <2>6 DEF RetryJob, queueVars
  <2>7. CASE Requeue(t)
    <3> DEFINE n == [job |-> held[t], seq |-> counter + 1]
    <3>1. n.job = held[t] /\ n \in queue' /\ queue \subseteq queue' /\ status' = status
      BY <2>7 DEF Requeue, Put, jobVars
    <3> QED
      BY <1>1, <2>1, <2>2, <3>1
  <2>8. CASE TargetStep(t)
    BY <1>1, <2>1, <2>2, <2>8 DEF TargetStep, TargetReturns, TargetRaises, LateTargetEnds,
                                 TargetExits, jobVars, queueVars
  <2> QED
    BY <1>6, <2>3, <2>4, <2>5, <2>6, <2>7, <2>8 DEF WorkerStep
<1>7. ASSUME UNCHANGED vars PROVE Goal
  BY <1>1, <1>7 DEF vars, jobVars, queueVars, workerVars, historyVars
<1> HIDE DEF Goal
<1>8. Goal
  BY <1>2, <1>3, <1>4, <1>5, <1>6, <1>7 DEF Next, Client, CancelJob
<1> QED
  BY <1>8 DEF Goal

\* Only a cancellation makes a status CANCELLED, and it leaves its mark.
CancelledIsMarked == \A j \in Jobs : status[j] = "cancelled" => cancelled[j]

\* The worker that skips a cancelled job is the one other step that sets the
\* status, and it repeats a cancellation.
LEMMA NextCancelledIsMarked ==
    TypeOK /\ CancelledIsMarked /\ [Next]_vars => CancelledIsMarked'
<1> SUFFICES ASSUME TypeOK, CancelledIsMarked, [Next]_vars
             PROVE  CancelledIsMarked'
  OBVIOUS
<1> USE DEF TypeOK, CancelledIsMarked, SetStatus
<1>1. CASE Client
  BY <1>1 DEF Client, SubmitJob, Cancel, CancelJob, ClearJobs, jobVars
<1>2. CASE Lifecycle
  BY <1>2 DEF Lifecycle, Initialize, ShutdownStop, ShutdownJoin, ShutdownClear, jobVars
<1>3. ASSUME NEW t \in Threads, WorkerStep(t) PROVE CancelledIsMarked'
  BY <1>3 DEF WorkerStep, CheckStop, TakeJob, QueueEmpty, SkipCancelled, IsCancelled,
              NotCancelled, StartJob, TimeoutFires, CompleteJob, FailJob, SaveToMemory,
              RetryJob, Requeue, jobVars
<1>4. ASSUME NEW t \in Threads, TargetStep(t) PROVE CancelledIsMarked'
  BY <1>4 DEF TargetStep, TargetReturns, TargetRaises, LateTargetEnds, TargetExits, jobVars
<1>5. CASE UNCHANGED vars
  BY <1>5 DEF vars, jobVars
<1> QED
  BY <1>1, <1>2, <1>3, <1>4, <1>5 DEF Next

\* There is work for the job: an entry, or a worker that has not finished it.
WorkLeft(j) == j \in QueuedJobs \/ \E t \in Threads : held[t] = j /\ pc[t] # "save"

\* Only a submission makes work for a job that had none.
LEMMA WorkComesFromSubmission ==
    ASSUME TypeOK, [Next]_vars, NEW j \in Jobs, WorkLeft(j)'
    PROVE  WorkLeft(j) \/ SubmitJob(j)
<1> USE NoJobAssumption DEF TypeOK, WorkLeft, QueuedJobs
<1>1. ASSUME NEW k \in Jobs, SubmitJob(k) PROVE WorkLeft(j) \/ SubmitJob(j)
  <2>1. /\ held' = held /\ pc' = pc
        /\ \A f \in queue' : f \in queue \/ f.job = k
    BY <1>1 DEF SubmitJob, Put, workerVars
  <2>2. CASE k = j
    BY <1>1, <2>2
  <2>3. CASE k # j
    BY <2>1, <2>3
  <2> QED
    BY <2>2, <2>3
<1>2. ASSUME Client \/ Lifecycle, \A k \in Jobs : ~SubmitJob(k) PROVE WorkLeft(j)
  <2>1. queue' \subseteq queue
    BY <1>2 DEF Client, Lifecycle, Cancel, CancelJob, ClearJobs, Initialize, ShutdownStop,
                ShutdownJoin, ShutdownClear, queueVars
  <2>2. /\ held' = held
        /\ \A t \in Threads : pc'[t] # pc[t] => pc[t] = "off" /\ pc'[t] = "loop"
    BY <1>2, LifecycleLeavesJobs
  <2> QED
    BY <2>1, <2>2
<1>3. ASSUME NEW t \in Threads, WorkerStep(t) \/ TargetStep(t) PROVE WorkLeft(j)
  <2>1. \A u \in Threads \ {t} : pc'[u] = pc[u] /\ held'[u] = held[u]
    BY <1>3, OtherThreadsAlone
  <2> USE DEF At, GoTo, EndJob
  <2>2. CASE TakeJob(t)
    <3>1. PICK e \in queue : queue' = queue \ {e} /\ held' = [held EXCEPT ![t] = e.job]
      BY <2>2 DEF TakeJob, QueueHeads
    <3> QED
      BY <2>1, <3>1
  <2>3. CASE Requeue(t)
    BY <2>1, <2>3 DEF Requeue, Put
  <2>4. CASE WorkerStep(t) /\ ~TakeJob(t) /\ ~Requeue(t)
    <3>1. held'[t] = NoJob \/ (held'[t] = held[t] /\ pc[t] # "save")
      BY <2>4 DEF WorkerStep, CheckStop, QueueEmpty, SkipCancelled, NotCancelled, StartJob,
                  TimeoutFires, CompleteJob, FailJob, SaveToMemory, RetryJob
    <3>2. queue' = queue
      BY <2>4 DEF WorkerStep, CheckStop, QueueEmpty, SkipCancelled, NotCancelled, StartJob,
                  TimeoutFires, CompleteJob, FailJob, SaveToMemory, RetryJob, queueVars
    <3> QED
      BY <2>1, <3>1, <3>2
  <2>5. CASE TargetStep(t)
    <3>1. queue' = queue /\ held'[t] \in {held[t], NoJob} /\ pc[t] # "save"
      BY <2>5 DEF TargetStep, TargetReturns, TargetRaises, LateTargetEnds, TargetExits, queueVars
    <3> QED
      BY <2>1, <3>1
  <2> QED
    BY <1>3, <2>2, <2>3, <2>4, <2>5
<1>4. CASE UNCHANGED vars
  BY <1>4 DEF vars, queueVars, workerVars
<1> QED
  BY <1>1, <1>2, <1>3, <1>4 DEF Next

\* clear_jobs keeps a job with work left: its status is neither a final one
\* (FinishedIsNowhere) nor CANCELLED (CancelledIsMarked).
LEMMA NextPendingWorkIsRegistered ==
    /\ TypeOK /\ FinishedIsNowhere /\ CancelledIsMarked /\ PendingWorkIsRegistered /\ [Next]_vars
    => PendingWorkIsRegistered'
<1> SUFFICES ASSUME TypeOK, FinishedIsNowhere, CancelledIsMarked, PendingWorkIsRegistered,
                    [Next]_vars,
                    NEW j \in Jobs, submits'[j] <= 1, ~cancelled'[j], WorkLeft(j)'
             PROVE  j \in registry'
  BY DEF PendingWorkIsRegistered, WorkLeft
<1> USE DEF TypeOK
<1>1. CASE SubmitJob(j)
  BY <1>1 DEF SubmitJob
<1>2. CASE ~SubmitJob(j)
  <2>1. WorkLeft(j)
    BY <1>2, WorkComesFromSubmission
  <2>2. submits'[j] = submits[j] /\ (cancelled[j] => cancelled'[j])
    <3>1. CASE Client
      BY <1>2, <3>1 DEF Client, SubmitJob, Cancel, CancelJob, ClearJobs, jobVars, historyVars
    <3>2. CASE Lifecycle
      BY <3>2 DEF Lifecycle, Initialize, ShutdownStop, ShutdownJoin, ShutdownClear, jobVars,
                  historyVars
    <3>3. ASSUME NEW t \in Threads, WorkerStep(t) PROVE submits' = submits /\ cancelled' = cancelled
      BY <3>3 DEF WorkerStep, CheckStop, TakeJob, QueueEmpty, SkipCancelled, NotCancelled,
                  StartJob, TimeoutFires, CompleteJob, FailJob, SaveToMemory, RetryJob, Requeue,
                  jobVars, historyVars
    <3>4. ASSUME NEW t \in Threads, TargetStep(t) PROVE submits' = submits /\ cancelled' = cancelled
      BY <3>4 DEF TargetStep, TargetReturns, TargetRaises, LateTargetEnds, TargetExits, jobVars,
                  historyVars
    <3>5. CASE UNCHANGED vars
      BY <3>5 DEF vars, jobVars, historyVars
    <3> QED
      BY <3>1, <3>2, <3>3, <3>4, <3>5 DEF Next
  <2>3. j \in registry
    BY <2>1, <2>2 DEF PendingWorkIsRegistered, WorkLeft
  <2>4. CASE ClearJobs
    <3>1. status[j] \notin Finished
      BY <2>1, <2>2 DEF FinishedIsNowhere, WorkLeft
    <3>2. status[j] # "cancelled"
      BY <2>2 DEF CancelledIsMarked
    <3> QED
      BY <2>3, <2>4, <3>1, <3>2 DEF ClearJobs, ActiveStatuses, Finished, JobStatus
  <2>5. CASE ~ClearJobs
    <3>1. CASE Client \/ Lifecycle
      BY <2>3, <2>5, <3>1 DEF Client, SubmitJob, Cancel, CancelJob, Lifecycle, Initialize,
                  ShutdownStop, ShutdownJoin, ShutdownClear, engineVars
    <3>2. ASSUME NEW t \in Threads, WorkerStep(t) \/ TargetStep(t) PROVE registry' = registry
      BY <3>2 DEF WorkerStep, CheckStop, TakeJob, QueueEmpty, SkipCancelled, NotCancelled,
                  StartJob, TimeoutFires, CompleteJob, FailJob, SaveToMemory, RetryJob, Requeue,
                  TargetStep, TargetReturns, TargetRaises, LateTargetEnds, TargetExits, engineVars
    <3>3. CASE UNCHANGED vars
      BY <2>3, <3>3 DEF vars, engineVars
    <3> QED
      BY <2>3, <3>1, <3>2, <3>3 DEF Next
  <2> QED
    BY <2>4, <2>5
<1> QED
  BY <1>1, <1>2

\* Finished jobs are always nowhere, and cancelled ones marked.
LEMMA AlwaysFinishedIsNowhere == Spec => [](FinishedIsNowhere /\ CancelledIsMarked)
<1>1. Init => FinishedIsNowhere /\ CancelledIsMarked
  BY NoJobAssumption DEF Init, FinishedIsNowhere, CancelledIsMarked, Finished, QueuedJobs
<1> QED
  BY <1>1, NextFinishedIsNowhere, NextCancelledIsMarked, TypeCorrect, OnePlace, PTL DEF Spec

\* No job that is still to run is lost: a QUEUED one has an owner that will
\* look at it, and clients find it until it is finished or cancelled.
THEOREM NothingLost == Spec => []NoJobIsLost
<1>1. Init => QueuedHasOwner /\ PendingWorkIsRegistered
  BY NoJobAssumption DEF Init, QueuedHasOwner, PendingWorkIsRegistered, QueuedJobs
<1> QED
  BY <1>1, NextQueuedHasOwner, NextPendingWorkIsRegistered, TypeCorrect, AlwaysFinishedIsNowhere,
     PTL DEF Spec, NoJobIsLost

-----------------------------------------------------------------------------
(* What is saved *)

\* The worker that saves has finished its job, and a finished job keeps its
\* status.
LEMMA NextMemoryRecordsOutcome ==
    TypeOK /\ FinishedIsNowhere /\ MemoryRecordsOutcome /\ [Next]_vars => MemoryRecordsOutcome'
<1> SUFFICES ASSUME TypeOK, FinishedIsNowhere, MemoryRecordsOutcome, [Next]_vars,
                    NEW j \in Jobs, submits'[j] <= 1, memory'[j] # "none"
             PROVE  memory'[j] \in Finished /\ status'[j] = memory'[j]
  BY DEF MemoryRecordsOutcome
<1> USE DEF TypeOK
<1>1. ASSUME NEW t \in Threads, SaveToMemory(t), held[t] = j
      PROVE  memory'[j] \in Finished /\ status'[j] = memory'[j]
  <2>1. status[j] \in Finished
    BY <1>1 DEF SaveToMemory, FinishedIsNowhere, At, historyVars
  <2> QED
    BY <1>1, <2>1 DEF SaveToMemory, jobVars
<1>2. ASSUME \A t \in Threads : ~(SaveToMemory(t) /\ held[t] = j)
      PROVE  memory'[j] = memory[j]
  <2>1. CASE Client \/ Lifecycle
    BY <2>1 DEF Client, SubmitJob, Cancel, CancelJob, ClearJobs, Lifecycle, Initialize,
                ShutdownStop, ShutdownJoin, ShutdownClear, engineVars
  <2>2. ASSUME NEW t \in Threads, WorkerStep(t) \/ TargetStep(t) PROVE memory'[j] = memory[j]
    BY <1>2, <2>2 DEF WorkerStep, CheckStop, TakeJob, QueueEmpty, SkipCancelled, NotCancelled,
                StartJob, TimeoutFires, CompleteJob, FailJob, SaveToMemory, RetryJob, Requeue,
                TargetStep, TargetReturns, TargetRaises, LateTargetEnds, TargetExits, engineVars
  <2>3. CASE UNCHANGED vars
    BY <2>3 DEF vars, engineVars
  <2> QED
    BY <2>1, <2>2, <2>3 DEF Next
<1>3. submits' = submits \/ \E k \in Jobs : submits' = [submits EXCEPT ![k] = @ + 1]
  <2>1. CASE Client
    BY <2>1 DEF Client, SubmitJob, Cancel, CancelJob, ClearJobs, historyVars
  <2>2. CASE Lifecycle
    BY <2>2 DEF Lifecycle, Initialize, ShutdownStop, ShutdownJoin, ShutdownClear, historyVars
  <2>3. ASSUME NEW t \in Threads, WorkerStep(t) \/ TargetStep(t) PROVE submits' = submits
    BY <2>3 DEF WorkerStep, CheckStop, TakeJob, QueueEmpty, SkipCancelled, NotCancelled,
                StartJob, TimeoutFires, CompleteJob, FailJob, SaveToMemory, RetryJob, Requeue,
                TargetStep, TargetReturns, TargetRaises, LateTargetEnds, TargetExits, historyVars
  <2>4. CASE UNCHANGED vars
    BY <2>4 DEF vars, historyVars
  <2> QED
    BY <2>1, <2>2, <2>3, <2>4 DEF Next
<1>4. submits[j] <= 1
  BY <1>3
<1>5. CASE \A t \in Threads : ~(SaveToMemory(t) /\ held[t] = j)
  <2>1. memory[j] \in Finished /\ status[j] = memory[j]
    BY <1>2, <1>4, <1>5 DEF MemoryRecordsOutcome
  <2> QED
    BY <1>2, <1>5, <2>1, FinishedStays
<1> QED
  BY <1>1, <1>5

\* What _save_to_memory recorded for a job submitted once is its final status.
THEOREM MemoryIsTrue == Spec => []MemoryRecordsOutcome
<1>1. Init => MemoryRecordsOutcome
  BY DEF Init, MemoryRecordsOutcome
<1> QED
  BY <1>1, NextMemoryRecordsOutcome, TypeCorrect, AlwaysFinishedIsNowhere, PTL DEF Spec

-----------------------------------------------------------------------------
(* Threads *)

\* The context of a worker is set with the start of its job and reset with its
\* end.
LEMMA NextContextFollowsJob ==
    TypeOK /\ ExecutingMatches /\ ContextFollowsJob /\ [Next]_vars => ContextFollowsJob'
<1> SUFFICES ASSUME TypeOK, ExecutingMatches, ContextFollowsJob, [Next]_vars
             PROVE  ContextFollowsJob'
  OBVIOUS
<1> USE NoJobAssumption DEF TypeOK, ContextFollowsJob
<1>1. CASE Client \/ Lifecycle
  BY <1>1, LifecycleLeavesJobs
<1>2. ASSUME NEW t \in Threads, WorkerStep(t) \/ TargetStep(t) PROVE ContextFollowsJob'
  <2>1. \A u \in Threads \ {t} : held'[u] = held[u] /\ context'[u] = context[u]
    BY <1>2, OtherThreadsAlone
  <2> USE DEF At, GoTo, EndJob, Idle, Busy, Executing
  <2>2. CASE StartJob(t)
    <3>1. held[t] \in Jobs /\ held' = held
      BY <2>2 DEF StartJob
    <3>2. context'[t] = IF held[t] \in HasContext THEN held[t] ELSE NoJob
      BY <2>2 DEF StartJob
    <3>3. \A e \in executing' : e \in executing \/ e = <<t, held[t]>>
      BY <2>2 DEF StartJob
    <3>4. \A e \in executing : e[1] \in Threads \ {t}
      <4> SUFFICES ASSUME NEW e \in executing PROVE e[1] \in Threads \ {t}
        OBVIOUS
      <4>1. e = <<e[1], e[2]>> /\ e[1] \in Threads /\ e[2] \in Jobs
        OBVIOUS
      <4>2. pc[e[1]] \in Executing
        BY <4>1 DEF ExecutingMatches
      <4> QED
        BY <2>2, <4>1, <4>2 DEF StartJob
    <3> QED
      BY <2>1, <3>1, <3>2, <3>3, <3>4
  <2>3. CASE TakeJob(t)
    <3>1. held[t] = NoJob /\ context' = context /\ executing' = executing
      BY <2>3 DEF TakeJob
    <3> QED
      BY <2>1, <3>1
  <2>4. CASE CheckStop(t) \/ QueueEmpty(t) \/ NotCancelled(t) \/ TimeoutFires(t)
             \/ CompleteJob(t) \/ FailJob(t) \/ RetryJob(t)
    BY <2>4 DEF CheckStop, QueueEmpty, NotCancelled, TimeoutFires, CompleteJob, FailJob, RetryJob
  <2>5. CASE SkipCancelled(t) \/ SaveToMemory(t) \/ Requeue(t)
    <3>1. held'[t] = NoJob /\ context'[t] = NoJob /\ executing' = executing
          /\ pc[t] \notin Executing
      BY <2>5 DEF SkipCancelled, SaveToMemory, Requeue
    <3>2. \A e \in executing : e[1] \in Threads \ {t}
      <4> SUFFICES ASSUME NEW e \in executing PROVE e[1] \in Threads \ {t}
        OBVIOUS
      <4>1. e = <<e[1], e[2]>> /\ e[1] \in Threads /\ e[2] \in Jobs
        OBVIOUS
      <4> QED
        BY <3>1, <4>1 DEF ExecutingMatches
    <3> QED
      BY <2>1, <3>1, <3>2
  <2>6. CASE TargetStep(t)
    <3>1. executing' = executing \ {<<t, held[t]>>}
      BY <2>6 DEF TargetStep, TargetReturns, TargetRaises, LateTargetEnds, TargetExits, TargetDone
    <3>2. \/ held'[t] = held[t] /\ context'[t] = context[t]
          \/ held'[t] = NoJob /\ context'[t] = NoJob
      BY <2>6 DEF TargetStep, TargetReturns, TargetRaises, LateTargetEnds, TargetExits
    <3>3. \A e \in executing' : e \in executing /\ e[1] \in Threads \ {t}
      <4> SUFFICES ASSUME NEW e \in executing' PROVE e \in executing /\ e[1] \in Threads \ {t}
        OBVIOUS
      <4>1. e \in executing /\ e # <<t, held[t]>>
        BY <3>1
      <4>2. e = <<e[1], e[2]>> /\ e[1] \in Threads /\ e[2] \in Jobs
        BY <4>1
      <4>3. held[e[1]] = e[2]
        BY <4>1, <4>2 DEF ExecutingMatches
      <4> QED
        BY <4>1, <4>2, <4>3
    <3> QED
      BY <2>1, <3>2, <3>3
  <2> QED
    BY <1>2, <2>2, <2>3, <2>4, <2>5, <2>6 DEF WorkerStep
<1>3. CASE UNCHANGED vars
  BY <1>3 DEF vars, workerVars
<1> QED
  BY <1>1, <1>2, <1>3 DEF Next

\* The engine knows every worker that has not been told to stop, has no more
\* of them than configured, and has told them all once it is shutting down.
PoolKnown ==
    /\ \A t \in Threads : pc[t] # "off" /\ ~stopped[t] => t \in workers
    /\ Cardinality(workers) <= NumWorkers
    /\ shuttingDown => \A t \in workers : stopped[t]

\* Workers are only started when there are none and only forgotten when they
\* have been told to stop.
LEMMA NextPoolKnown == TypeOK /\ PoolKnown /\ [Next]_vars => PoolKnown'
<1> SUFFICES ASSUME TypeOK, PoolKnown, [Next]_vars
             PROVE  PoolKnown'
  OBVIOUS
<1> USE DEF TypeOK, PoolKnown
<1>1. CASE Client
  BY <1>1 DEF Client, SubmitJob, Cancel, CancelJob, ClearJobs, workerVars, engineVars
<1>2. CASE Initialize
  <2>1. PICK S \in SUBSET {t \in Threads : pc[t] = "off"} :
             /\ Cardinality(S) = NumWorkers
             /\ workers' = S
             /\ stopped' = [t \in Threads |-> IF t \in S THEN FALSE ELSE stopped[t]]
             /\ pc' = [t \in Threads |-> IF t \in S THEN "loop" ELSE pc[t]]
    BY <1>2, Zenon DEF Initialize
  <2>2. \A t \in Threads : pc'[t] # "off" /\ ~stopped'[t] => t \in workers'
    BY <1>2, <2>1 DEF Initialize
  <2>3. Cardinality(workers') <= NumWorkers
    BY <2>1, BoundsAssumption
  <2>4. ~shuttingDown'
    BY <1>2 DEF Initialize, EngineLockFree
  <2> QED
    BY <2>2, <2>3, <2>4
<1>3. CASE ShutdownStop
  <2>1. pc' = pc /\ workers' = workers
    BY <1>3 DEF ShutdownStop, workerVars
  <2>2. \A t \in Threads : stopped'[t] = (stopped[t] \/ t \in workers)
    BY <1>3, Zenon DEF ShutdownStop
  <2>3. \A t \in workers : stopped'[t]
    BY <2>2, Zenon
  <2>4. \A t \in Threads : ~stopped'[t] => ~stopped[t]
    BY <2>2, Zenon
  <2> QED
    BY <2>1, <2>3, <2>4
<1>4. ASSUME NEW t \in Threads, ShutdownJoin(t) PROVE PoolKnown'
  BY <1>4 DEF ShutdownJoin, workerVars
<1>5. CASE ShutdownClear
  <2>1. workers' = {} /\ pc' = pc /\ stopped' = stopped /\ shuttingDown /\ ~shuttingDown'
    BY <1>5 DEF ShutdownClear, workerVars
  <2>2. Cardinality(workers') <= NumWorkers
    BY <2>1, FS_EmptySet, BoundsAssumption
  <2> QED
    BY <2>1, <2>2
<1>6. ASSUME NEW t \in Threads, WorkerStep(t) \/ TargetStep(t) PROVE PoolKnown'
  <2>1. \A u \in Threads \ {t} : pc'[u] = pc[u]
    BY <1>6, OtherThreadsAlone
  <2>2. stopped' = stopped /\ workers' = workers /\ shuttingDown' = shuttingDown
    BY <1>6 DEF WorkerStep, CheckStop, TakeJob, QueueEmpty, SkipCancelled, NotCancelled,
                StartJob, TimeoutFires, CompleteJob, FailJob, SaveToMemory, RetryJob, Requeue,
                TargetStep, TargetReturns, TargetRaises, LateTargetEnds, TargetExits, engineVars
  <2>3. pc[t] # "off"
    BY <1>6 DEF WorkerStep, CheckStop, TakeJob, QueueEmpty, SkipCancelled, NotCancelled,
                StartJob, TimeoutFires, CompleteJob, FailJob, SaveToMemory, RetryJob, Requeue,
                TargetStep, TargetReturns, TargetRaises, LateTargetEnds, TargetExits, At
  <2> QED
    BY <2>1, <2>2, <2>3
<1>7. CASE UNCHANGED vars
  BY <1>7 DEF vars, workerVars, engineVars
<1> QED
  BY <1>1, <1>2, <1>3, <1>4, <1>5, <1>6, <1>7 DEF Next, Lifecycle

\* However often the engine is initialized and shut down, at most NumWorkers
\* workers accept jobs, and none carries a context over to the next job.
THEOREM ThreadsStayInOrder == Spec => []ThreadsInOrder
<1>1. Init => ExecutingMatches /\ ContextFollowsJob /\ PoolKnown
  <2> SUFFICES ASSUME Init PROVE ExecutingMatches /\ ContextFollowsJob /\ PoolKnown
    OBVIOUS
  <2>1. ExecutingMatches /\ ContextFollowsJob
    BY NoJobAssumption DEF Init, ExecutingMatches, ContextFollowsJob, Executing
  <2>2. Cardinality(workers) <= NumWorkers
    BY FS_EmptySet, BoundsAssumption DEF Init
  <2> QED
    BY <2>1, <2>2 DEF Init, PoolKnown
<1>2. TypeOK /\ PoolKnown => PoolBounded
  <2> SUFFICES ASSUME TypeOK, PoolKnown PROVE PoolBounded
    OBVIOUS
  <2> DEFINE A == {t \in Threads : pc[t] # "off" /\ ~stopped[t]}
  <2>1. A \subseteq workers /\ workers \subseteq Threads
    BY DEF PoolKnown, TypeOK
  <2>2. IsFiniteSet(workers)
    BY <2>1, ThreadsAssumption, FS_Subset
  <2>3. IsFiniteSet(A) /\ Cardinality(A) <= Cardinality(workers)
    BY <2>1, <2>2, FS_Subset
  <2>4. Cardinality(A) \in Nat /\ Cardinality(workers) \in Nat
    BY <2>2, <2>3, FS_CardinalityType
  <2> HIDE DEF A
  <2>5. Cardinality(A) <= NumWorkers
    BY <2>3, <2>4, BoundsAssumption DEF PoolKnown
  <2> QED
    BY <2>5 DEF PoolBounded, A
<1> QED
  BY <1>1, <1>2, NextExecutingMatches, NextContextFollowsJob, NextPoolKnown, TypeCorrect, PTL
  DEF Spec, ThreadsInOrder

-----------------------------------------------------------------------------
(* The refinement                                                          *)

\* No client submits a Job object twice, and none has so far.
Once == \A j \in Jobs : MaxSubmits[j] <= 1
SubmittedOnce == \A j \in Jobs : submits[j] <= MaxSubmits[j]

\* What the refinement rests on.
RefinementInv ==
    /\ TypeOK /\ OnePlacePerJob /\ FinishedIsNowhere /\ CancelledIsMarked
    /\ AttemptsAccounted /\ SubmittedOnce

\* submit_job stops at the bound.
LEMMA NextSubmittedOnce == TypeOK /\ SubmittedOnce /\ [Next]_vars => SubmittedOnce'
<1> SUFFICES ASSUME TypeOK, SubmittedOnce, [Next]_vars
             PROVE  SubmittedOnce'
  OBVIOUS
<1> USE BoundsAssumption DEF TypeOK, SubmittedOnce
<1>1. CASE Client
  BY <1>1 DEF Client, SubmitJob, Cancel, CancelJob, ClearJobs, historyVars
<1>2. CASE Lifecycle
  BY <1>2 DEF Lifecycle, Initialize, ShutdownStop, ShutdownJoin, ShutdownClear, historyVars
<1>3. ASSUME NEW t \in Threads, WorkerStep(t) \/ TargetStep(t) PROVE submits' = submits
  BY <1>3 DEF WorkerStep, CheckStop, TakeJob, QueueEmpty, SkipCancelled, NotCancelled,
              StartJob, TimeoutFires, CompleteJob, FailJob, SaveToMemory, RetryJob, Requeue,
              TargetStep, TargetReturns, TargetRaises, LateTargetEnds, TargetExits, historyVars
<1>4. CASE UNCHANGED vars
  BY <1>4 DEF vars, historyVars
<1> QED
  BY <1>1, <1>2, <1>3, <1>4 DEF Next

-----------------------------------------------------------------------------
(* The phase of a job, by where it is: OnePlacePerJob makes the cases of    *)
(* PhaseOf exclude each other.                                              *)

\* A job that a worker holds is in the phase of that worker's position.
HeldPhase(l, s) ==
    CASE l \in Executing -> "running"
      [] l = "complete" -> "returned"
      [] l = "fail" -> "exhausted"
      [] l = "start" -> "cleared"
      [] l \in {"check", "retry", "requeue"} -> "waiting"
      [] OTHER -> s

\* The phase of a job that was not submitted, that a worker holds, that waits
\* in the queue, and that is nowhere.
PhaseFits(j) ==
    /\ submits[j] = 0 => PhaseOf(j) = "new"
    /\ \A t \in Threads : held[t] = j => PhaseOf(j) = HeldPhase(pc[t], status[j])
    /\ j \in QueuedJobs => PhaseOf(j) = "waiting"
    /\ submits[j] = 1 /\ j \notin QueuedJobs /\ (\A t \in Threads : held[t] # j)
       => PhaseOf(j) = IF status[j] \in Finished THEN status[j] ELSE "gone"

PhasesFit == \A j \in Jobs : PhaseFits(j)

\* PhaseOf says what it should in every state of the invariant.
LEMMA PhaseByPlace == Once /\ RefinementInv => PhasesFit
<1> SUFFICES ASSUME Once, RefinementInv, NEW j \in Jobs
             PROVE  PhaseFits(j)
  BY DEF PhasesFit
<1> USE NoJobAssumption DEF TypeOK, Idle, Busy, Executing, RefinementInv
<1>0. submits[j] \in {0, 1}
  BY BoundsAssumption DEF Once, SubmittedOnce
<1>1. ASSUME submits[j] = 0
      PROVE  PhaseOf(j) = "new" /\ j \notin QueuedJobs /\ \A t \in Threads : held[t] # j
  BY <1>1 DEF PhaseOf, OnePlacePerJob, HeldAt
<1>2. ASSUME NEW t \in Threads, held[t] = j PROVE PhaseOf(j) = HeldPhase(pc[t], status[j])
  <2>1. submits[j] = 1 /\ j \notin QueuedJobs /\ pc[t] \in Busy
    BY <1>0, <1>1, <1>2 DEF OnePlacePerJob
  <2>2. \A pcs : HeldAt(j, pcs) <=> pc[t] \in pcs
    BY <1>0, <1>2 DEF HeldAt, OnePlacePerJob
  <2>3. pc[t] = "save" => status[j] \in Finished
    BY <1>0, <1>2 DEF FinishedIsNowhere
  <2> QED
    BY <2>1, <2>2, <2>3 DEF PhaseOf, HeldPhase
<1>3. ASSUME \A t \in Threads : held[t] # j, submits[j] = 1
      PROVE  PhaseOf(j) = IF j \in QueuedJobs THEN "waiting"
                          ELSE IF status[j] \in Finished THEN status[j] ELSE "gone"
  <2>1. \A pcs : ~HeldAt(j, pcs)
    BY <1>3 DEF HeldAt
  <2> QED
    BY <1>3, <2>1 DEF PhaseOf
<1>4. j \in QueuedJobs => submits[j] = 1 /\ \A t \in Threads : held[t] # j
  BY <1>0 DEF OnePlacePerJob
<1> QED
  BY <1>1, <1>2, <1>3, <1>4 DEF PhaseFits

\* The same of the next state.
LEMMA PhaseByPlaceNext == Once /\ RefinementInv' => PhasesFit'
<1>1. (Once /\ RefinementInv)' => PhasesFit'
  BY PhaseByPlace, PTL
<1> QED
  BY <1>1 DEF Once

\* A step leaves the place and the outcome of a job alone.
SamePlace(k) ==
    /\ submits'[k] = submits[k]
    /\ k \in QueuedJobs' <=> k \in QueuedJobs
    /\ \A t \in Threads : /\ held'[t] = k <=> held[t] = k
                          /\ held[t] = k => pc'[t] = pc[t]
    /\ status'[k] = status[k] \/ {status'[k], status[k]} \cap Finished = {}

\* Such a job keeps its phase.
LEMMA PhaseKept ==
    ASSUME NEW k \in Jobs, SamePlace(k) PROVE PhaseOf(k)' = PhaseOf(k)
<1>1. \A pcs : HeldAt(k, pcs)' <=> HeldAt(k, pcs)
  BY DEF HeldAt, SamePlace
<1>2. status'[k] \in Finished <=> status[k] \in Finished
  BY DEF SamePlace
<1> QED
  BY <1>1, <1>2 DEF PhaseOf, SamePlace

\* No phase changes, and one does.
AllKeep == \A k \in Jobs : PhaseOf(k)' = PhaseOf(k)
OnlyMoves(j, from, to) ==
    /\ PhaseOf(j) = from /\ PhaseOf(j)' = to
    /\ \A k \in Jobs \ {j} : PhaseOf(k)' = PhaseOf(k)

\* A change of one phase is a move of the abstract specification.
LEMMA MovesAbstractly ==
    ASSUME NEW j \in Jobs, NEW from, NEW to, OnlyMoves(j, from, to)
    PROVE  Lifecycles!Moves(j, from, to)
  BY DEF OnlyMoves, Lifecycles!Moves

\* No change of a phase is none of the abstract variable.
LEMMA KeepsAbstractly ==
    ASSUME AllKeep PROVE [k \in Jobs |-> PhaseOf(k)]' = [k \in Jobs |-> PhaseOf(k)]
  BY DEF AllKeep

-----------------------------------------------------------------------------
(* The steps of the engine, one by one *)

Refines == [Lifecycles!JlNext]_(Lifecycles!jlVars)

\* put adds the job to the jobs in the queue.
LEMMA PutQueues == ASSUME NEW j \in Jobs, Put(j) PROVE QueuedJobs' = QueuedJobs \cup {j}
<1> DEFINE n == [job |-> j, seq |-> counter + 1]
<1>1. queue' = queue \cup {n} /\ n.job = j
  BY DEF Put
<1> HIDE DEF n
<1> QED
  BY <1>1 DEF QueuedJobs

\* A submission happened once or never.
LEMMA OnceOrNever ==
    ASSUME Once, RefinementInv, NEW j \in Jobs PROVE submits[j] \in {0, 1}
<1>1. submits[j] \in Nat /\ MaxSubmits[j] \in Nat /\ MaxSubmits[j] <= 1
  BY BoundsAssumption DEF RefinementInv, TypeOK, Once
<1>2. submits[j] <= MaxSubmits[j]
  BY DEF RefinementInv, SubmittedOnce
<1> QED
  BY <1>1, <1>2

\* Submission moves a new job to waiting.
LEMMA SubmitRefines ==
    ASSUME Once, RefinementInv, RefinementInv', NEW j \in Jobs, SubmitJob(j)
    PROVE  Refines
<1>0. TypeOK
  BY DEF RefinementInv
<1>1. submits[j] = 0 /\ submits' = [submits EXCEPT ![j] = @ + 1] /\ submits'[j] # 0
  <2>1. submits[j] \in Nat /\ MaxSubmits[j] \in Nat /\ MaxSubmits[j] <= 1
    BY <1>0, BoundsAssumption DEF TypeOK, Once
  <2>2. submits[j] < MaxSubmits[j] /\ submits' = [submits EXCEPT ![j] = @ + 1]
    BY DEF SubmitJob
  <2>3. submits'[j] = submits[j] + 1
    BY <1>0, <2>2 DEF TypeOK
  <2> QED
    BY <2>1, <2>2, <2>3
<1>2. /\ held' = held /\ pc' = pc
      /\ \A k \in Jobs \ {j} : status'[k] = status[k] /\ submits'[k] = submits[k]
  BY <1>0 DEF SubmitJob, SetStatus, workerVars, TypeOK
<1>3. QueuedJobs' = QueuedJobs \cup {j}
  BY PutQueues DEF SubmitJob
<1>4. PhaseOf(j) = "new"
  BY <1>1, PhaseByPlace DEF PhasesFit, PhaseFits
<1>5. PhaseOf(j)' = "waiting"
  BY <1>3, PhaseByPlaceNext DEF PhasesFit, PhaseFits
<1>6. \A k \in Jobs \ {j} : SamePlace(k)
  BY <1>2, <1>3 DEF SamePlace
<1>7. Lifecycles!Moves(j, "new", "waiting")
  BY <1>4, <1>5, <1>6, PhaseKept, MovesAbstractly DEF OnlyMoves
<1>8. Lifecycles!Submit(j)
  BY <1>7 DEF SubmitJob, EngineLockFree, Lifecycles!Submit, Lifecycles!Same
<1> QED
  BY <1>8 DEF Refines, Lifecycles!JlNext

\* A cancellation that is acknowledged is asked for, of a job without outcome.
LEMMA CancelRefines ==
    ASSUME Once, RefinementInv, RefinementInv', NEW j \in Jobs, Cancel(j)
    PROVE  Refines
<1> USE DEF RefinementInv, TypeOK
<1>1. \A k \in Jobs : SamePlace(k)
  BY DEF Cancel, SetStatus, Terminal, Finished, SamePlace, QueuedJobs, queueVars, workerVars,
         historyVars
<1>2. PhaseOf(j) \notin {"completed", "failed"}
  <2>1. status[j] \notin Finished
    BY DEF Cancel, Terminal
  <2>2. PhaseFits(j) /\ submits[j] \in {0, 1}
    BY PhaseByPlace, OnceOrNever DEF PhasesFit
  <2>3. \A t \in Threads : held[t] = j => pc[t] \in Busy \ {"save"}
    BY <2>1, <2>2, NoJobAssumption DEF FinishedIsNowhere, Idle, Busy
  <2> QED
    BY <2>1, <2>2, <2>3 DEF PhaseFits, HeldPhase, Busy, Executing
<1>3. Lifecycles!Ask(j)
  BY <1>1, <1>2, PhaseKept, KeepsAbstractly
  DEF Cancel, AllKeep, Lifecycles!Ask, engineVars, historyVars
<1> QED
  BY <1>3 DEF Refines, Lifecycles!JlNext

\* The other jobs keep their phase when a worker that holds one acts on it
\* without the queue.
LEMMA OthersKeep ==
    ASSUME NEW t \in Threads, NEW j \in Jobs, held[t] = j, TypeOK,
           WorkerStep(t) \/ TargetStep(t), ~TakeJob(t), ~Requeue(t)
    PROVE  \A k \in Jobs \ {j} : PhaseOf(k)' = PhaseOf(k)
<1>1. \A u \in Threads \ {t} : pc'[u] = pc[u] /\ held'[u] = held[u]
  BY OtherThreadsAlone
<1>2. queue' = queue /\ submits' = submits
  BY DEF WorkerStep, CheckStop, QueueEmpty, SkipCancelled, NotCancelled,
         StartJob, TimeoutFires, CompleteJob, FailJob, SaveToMemory, RetryJob,
         TargetStep, TargetReturns, TargetRaises, LateTargetEnds, TargetExits, queueVars,
         historyVars
<1>3. held'[t] \in {j, NoJob}
  BY DEF WorkerStep, CheckStop, QueueEmpty, SkipCancelled, NotCancelled, EndJob,
         StartJob, TimeoutFires, CompleteJob, FailJob, SaveToMemory, RetryJob,
         TargetStep, TargetReturns, TargetRaises, LateTargetEnds, TargetExits, TypeOK
<1>4. \A k \in Jobs \ {j} : status'[k] = status[k]
  BY DEF WorkerStep, CheckStop, QueueEmpty, SkipCancelled, NotCancelled, SetStatus,
         StartJob, TimeoutFires, CompleteJob, FailJob, SaveToMemory, RetryJob,
         TargetStep, TargetReturns, TargetRaises, LateTargetEnds, TargetExits, jobVars, TypeOK
<1>5. \A k \in Jobs \ {j} : SamePlace(k)
  BY <1>1, <1>2, <1>3, <1>4, NoJobAssumption DEF SamePlace, QueuedJobs
<1> QED
  BY <1>5, PhaseKept

\* The phase of the job a worker holds and keeps, before and after.
LEMMA HeldMoves ==
    ASSUME Once, RefinementInv, RefinementInv', NEW t \in Threads, NEW j \in Jobs,
           held[t] = j, held'[t] = j, WorkerStep(t) \/ TargetStep(t), ~TakeJob(t), ~Requeue(t)
    PROVE  OnlyMoves(j, HeldPhase(pc[t], status[j]), HeldPhase(pc'[t], status'[j]))
<1>1. PhaseOf(j) = HeldPhase(pc[t], status[j])
  BY PhaseByPlace DEF PhasesFit, PhaseFits
<1>2. PhaseOf(j)' = HeldPhase(pc'[t], status'[j])
  BY PhaseByPlaceNext DEF PhasesFit, PhaseFits, HeldPhase
<1> QED
  BY <1>1, <1>2, OthersKeep DEF OnlyMoves, RefinementInv

\* The phase of the job a worker gives up without the queue: its outcome, or
\* gone.
LEMMA HeldLeaves ==
    ASSUME Once, RefinementInv, RefinementInv', NEW t \in Threads, NEW j \in Jobs,
           held[t] = j, held'[t] = NoJob, WorkerStep(t) \/ TargetStep(t), ~TakeJob(t),
           ~Requeue(t)
    PROVE  OnlyMoves(j, HeldPhase(pc[t], status[j]),
                     IF status'[j] \in Finished THEN status'[j] ELSE "gone")
<1>1. PhaseOf(j) = HeldPhase(pc[t], status[j])
  BY PhaseByPlace DEF PhasesFit, PhaseFits
<1>2. submits[j] = 1 /\ j \notin QueuedJobs /\ \A u \in Threads \ {t} : held[u] # j
  BY OnceOrNever DEF RefinementInv, OnePlacePerJob
<1>3. \A u \in Threads \ {t} : held'[u] = held[u]
  BY OtherThreadsAlone DEF RefinementInv
<1>4. queue' = queue /\ submits' = submits
  BY DEF WorkerStep, CheckStop, QueueEmpty, SkipCancelled, NotCancelled,
         StartJob, TimeoutFires, CompleteJob, FailJob, SaveToMemory, RetryJob,
         TargetStep, TargetReturns, TargetRaises, LateTargetEnds, TargetExits, queueVars,
         historyVars
<1>5. submits'[j] = 1 /\ j \notin QueuedJobs' /\ \A u \in Threads : held'[u] # j
  BY <1>2, <1>3, <1>4, NoJobAssumption DEF QueuedJobs
<1>6. PhaseOf(j)' = IF status'[j] \in Finished THEN status'[j] ELSE "gone"
  BY <1>5, PhaseByPlaceNext DEF PhasesFit, PhaseFits
<1> QED
  BY <1>1, <1>6, OthersKeep DEF OnlyMoves, RefinementInv

\* A step that changes no phase, no cancellation, no count of attempts and not
\* whether the engine is closing is none of the abstract specification.
LEMMA StutterRefines ==
    ASSUME AllKeep, cancelled' = cancelled, attempts' = attempts, shuttingDown' = shuttingDown
    PROVE  Refines
  BY KeepsAbstractly DEF Refines, Lifecycles!jlVars

\* What a worker does by itself: it clears or skips the job it took, starts
\* it, reports its outcome or puts it back; taking, saving and requeueing are
\* invisible.
LEMMA WorkerRefines ==
    ASSUME Once, RefinementInv, RefinementInv', NEW t \in Threads, WorkerStep(t)
    PROVE  Refines
<1>0. TypeOK
  BY DEF RefinementInv
<1>j. PICK j : j = held[t]
  OBVIOUS
<1> USE <1>j
<1> USE DEF At, GoTo
<1>1. ASSUME pc[t] \in Busy PROVE j \in Jobs
  BY <1>0, <1>1, NoJobAssumption DEF TypeOK, Idle, Busy, Executing
<1>2. CASE CheckStop(t) \/ QueueEmpty(t)
  <2>1. /\ held' = held /\ queue' = queue /\ submits' = submits /\ status' = status
        /\ held[t] = NoJob /\ \A u \in Threads \ {t} : pc'[u] = pc[u]
    BY <1>0, <1>2 DEF CheckStop, QueueEmpty, jobVars, queueVars, historyVars, TypeOK, Idle
  <2>2. \A k \in Jobs : SamePlace(k)
    BY <2>1, NoJobAssumption DEF SamePlace, QueuedJobs
  <2> QED
    BY <1>2, <2>2, PhaseKept, StutterRefines
    DEF CheckStop, QueueEmpty, AllKeep, jobVars, engineVars, historyVars
<1>3. CASE TakeJob(t)
  <2>1. PICK e \in queue : queue' = queue \ {e} /\ held' = [held EXCEPT ![t] = e.job]
    BY <1>3 DEF TakeJob, QueueHeads
  <2>2. e.job \in Jobs /\ held[t] = NoJob /\ held'[t] = e.job /\ pc'[t] = "check"
    BY <1>0, <1>3, <2>1 DEF TakeJob, TypeOK, Idle
  <2>3. \A u \in Threads \ {t} : pc'[u] = pc[u] /\ held'[u] = held[u]
    BY <1>0, OtherThreadsAlone
  <2>4. submits' = submits /\ status' = status
    BY <1>3 DEF TakeJob, jobVars, historyVars
  <2>5. PhaseOf(e.job) = "waiting"
    BY <2>2, PhaseByPlace DEF PhasesFit, PhaseFits, QueuedJobs
  <2>6. \A k \in Jobs : k = e.job => PhaseOf(k)' = "waiting"
    BY <2>2, PhaseByPlaceNext DEF PhasesFit, PhaseFits, HeldPhase, Executing
  <2>7. \A k \in Jobs \ {e.job} : SamePlace(k)
    BY <2>1, <2>2, <2>3, <2>4, NoJobAssumption DEF SamePlace, QueuedJobs
  <2> QED
    BY <1>3, <2>2, <2>5, <2>6, <2>7, PhaseKept, StutterRefines
    DEF TakeJob, AllKeep, jobVars, engineVars, historyVars
<1>4. CASE SkipCancelled(t)
  <2>1. j \in Jobs /\ held'[t] = NoJob /\ status'[j] = "cancelled" /\ pc[t] = "check"
    BY <1>0, <1>1, <1>4 DEF SkipCancelled, EndJob, SetStatus, Busy, TypeOK
  <2>2. OnlyMoves(j, "waiting", "gone")
    BY <1>4, <2>1, HeldLeaves DEF HeldPhase, Executing, Finished, SkipCancelled, TakeJob, Requeue
  <2>3. cancelled[j]
    BY <1>4, <2>1 DEF SkipCancelled, IsCancelled, RefinementInv, CancelledIsMarked
  <2>4. Lifecycles!Leave({j}) /\ shuttingDown' = shuttingDown
    BY <1>4, <2>1, <2>2, <2>3 DEF SkipCancelled, OnlyMoves, Lifecycles!Leave, engineVars, historyVars
  <2> QED
    BY <2>1, <2>4 DEF Refines, Lifecycles!JlNext
<1>5. CASE NotCancelled(t)
  <2>1. j \in Jobs /\ held'[t] = j /\ pc[t] = "check" /\ pc'[t] = "start" /\ ~cancelled[j]
    BY <1>0, <1>1, <1>5 DEF NotCancelled, IsCancelled, Busy, TypeOK
  <2>2. OnlyMoves(j, "waiting", "cleared")
    BY <1>5, <2>1, HeldMoves DEF HeldPhase, Executing, TakeJob, Requeue
  <2>3. Lifecycles!Clear(j)
    BY <1>5, <2>1, <2>2, MovesAbstractly
    DEF NotCancelled, Lifecycles!Clear, Lifecycles!Same, jobVars, engineVars, historyVars
  <2> QED
    BY <2>1, <2>3 DEF Refines, Lifecycles!JlNext
<1>6. CASE StartJob(t)
  <2>1. j \in Jobs /\ held'[t] = j /\ pc[t] = "start" /\ pc'[t] = "run"
    BY <1>0, <1>1, <1>6 DEF StartJob, Busy, TypeOK
  <2>2. OnlyMoves(j, "cleared", "running")
    BY <1>6, <2>1, HeldMoves DEF HeldPhase, Executing, TakeJob, Requeue
  <2>3. Lifecycles!Start(j)
    BY <1>6, <2>1, <2>2, MovesAbstractly DEF StartJob, Lifecycles!Start, engineVars
  <2> QED
    BY <2>1, <2>3 DEF Refines, Lifecycles!JlNext
<1>7. CASE TimeoutFires(t)
  <2>1. j \in Jobs /\ held'[t] = j /\ pc[t] = "run" /\ pc'[t] = "drain"
    BY <1>0, <1>1, <1>7 DEF TimeoutFires, Busy, Executing, TypeOK
  <2>2. OnlyMoves(j, "running", "running")
    BY <1>7, <2>1, HeldMoves DEF HeldPhase, Executing, TakeJob, Requeue
  <2> QED
    BY <1>7, <2>1, <2>2, StutterRefines
    DEF TimeoutFires, OnlyMoves, AllKeep, jobVars, engineVars, historyVars
<1>8. CASE CompleteJob(t) \/ FailJob(t)
  <2>1. /\ j \in Jobs /\ held'[t] = j /\ pc'[t] = "save"
        /\ \/ pc[t] = "complete" /\ status'[j] = "completed"
           \/ pc[t] = "fail" /\ status'[j] = "failed"
    BY <1>0, <1>1, <1>8 DEF CompleteJob, FailJob, SetStatus, Busy, TypeOK
  <2>2. OnlyMoves(j, "returned", "completed") \/ OnlyMoves(j, "exhausted", "failed")
    BY <1>8, <2>1, HeldMoves DEF HeldPhase, Executing, TakeJob, Requeue
  <2>3. Lifecycles!Report(j)
    BY <1>8, <2>1, <2>2, MovesAbstractly
    DEF CompleteJob, FailJob, Lifecycles!Report, Lifecycles!Same, engineVars, historyVars
  <2> QED
    BY <2>1, <2>3 DEF Refines, Lifecycles!JlNext
<1>9. CASE SaveToMemory(t)
  <2>1. j \in Jobs /\ held'[t] = NoJob /\ status' = status /\ pc[t] = "save"
    BY <1>0, <1>1, <1>9 DEF SaveToMemory, EndJob, Busy, TypeOK, jobVars
  <2>2. status[j] \in Finished
    BY <2>1, OnceOrNever DEF RefinementInv, FinishedIsNowhere
  <2>3. OnlyMoves(j, status[j], status[j])
    BY <1>9, <2>1, <2>2, HeldLeaves DEF HeldPhase, Executing, TakeJob, Requeue
  <2> QED
    BY <1>9, <2>1, <2>3, StutterRefines
    DEF SaveToMemory, OnlyMoves, AllKeep, jobVars, historyVars
<1>10. CASE RetryJob(t)
  <2>1. j \in Jobs /\ held'[t] = j /\ pc[t] = "retry" /\ pc'[t] = "requeue"
    BY <1>0, <1>1, <1>10 DEF RetryJob, Busy, TypeOK
  <2>2. OnlyMoves(j, "waiting", "waiting")
    BY <1>10, <2>1, HeldMoves DEF HeldPhase, Executing, TakeJob, Requeue
  <2> QED
    BY <1>10, <2>1, <2>2, StutterRefines
    DEF RetryJob, OnlyMoves, AllKeep, engineVars, historyVars
<1>11. CASE Requeue(t)
  <2>1. j \in Jobs /\ held'[t] = NoJob /\ pc[t] = "requeue"
    BY <1>0, <1>1, <1>11 DEF Requeue, EndJob, Busy, TypeOK
  <2>2. QueuedJobs' = QueuedJobs \cup {j}
    BY <1>11, <2>1, PutQueues DEF Requeue
  <2>3. \A u \in Threads \ {t} : pc'[u] = pc[u] /\ held'[u] = held[u]
    BY <1>0, OtherThreadsAlone
  <2>4. submits' = submits /\ status' = status
    BY <1>11 DEF Requeue, jobVars, historyVars
  <2>5. PhaseOf(j) = "waiting"
    BY <2>1, PhaseByPlace DEF PhasesFit, PhaseFits, HeldPhase, Executing
  <2>6. PhaseOf(j)' = "waiting"
    BY <2>1, <2>2, PhaseByPlaceNext DEF PhasesFit, PhaseFits
  <2>7. \A k \in Jobs \ {j} : SamePlace(k)
    BY <2>1, <2>2, <2>3, <2>4, NoJobAssumption DEF SamePlace
  <2> QED
    BY <1>11, <2>1, <2>5, <2>6, <2>7, PhaseKept, StutterRefines
    DEF Requeue, AllKeep, jobVars, engineVars, historyVars
<1> QED
  BY <1>2, <1>3, <1>4, <1>5, <1>6, <1>7, <1>8, <1>9, <1>10, <1>11 DEF WorkerStep

\* The end of a target: the job is returned, retried or exhausted, as its
\* attempts tell, or its thread is gone.
LEMMA TargetRefines ==
    ASSUME Once, RefinementInv, RefinementInv', NEW t \in Threads, TargetStep(t)
    PROVE  Refines
<1>0. TypeOK
  BY DEF RefinementInv
<1>j. PICK j : j = held[t]
  OBVIOUS
<1> USE <1>j DEF At, GoTo
<1>1. j \in Jobs /\ pc[t] \in Executing
  BY <1>0, NoJobAssumption
  DEF TypeOK, Idle, Executing, TargetStep, TargetReturns, TargetRaises, LateTargetEnds, TargetExits
<1>2. /\ cancelled' = cancelled /\ attempts' = attempts /\ shuttingDown' = shuttingDown
      /\ status' = status
  BY DEF TargetStep, TargetReturns, TargetRaises, LateTargetEnds, TargetExits, jobVars,
         engineVars, historyVars
<1>3. ~TakeJob(t) /\ ~Requeue(t)
  BY <1>1 DEF TakeJob, Requeue, Executing
<1>4. CASE TargetReturns(t)
  <2>1. held'[t] = j /\ pc'[t] = "complete"
    BY <1>0, <1>4 DEF TargetReturns, TypeOK
  <2>2. OnlyMoves(j, "running", "returned")
    BY <1>1, <1>3, <2>1, HeldMoves DEF HeldPhase, Executing
  <2>3. Lifecycles!Return(j)
    BY <1>1, <1>2, <2>2, MovesAbstractly DEF Lifecycles!Return, Lifecycles!Same
  <2> QED
    BY <1>1, <2>3 DEF Refines, Lifecycles!JlNext
<1>5. CASE TargetRaises(t) \/ LateTargetEnds(t)
  <2>1. held'[t] = j
    BY <1>5 DEF TargetRaises, LateTargetEnds
  <2>2. pc'[t] = IF retryCount[j] < Retries[j] THEN "retry" ELSE "fail"
    BY <1>0, <1>5 DEF TargetRaises, LateTargetEnds, HandleError, TypeOK
  <2>3. attempts[j] = retryCount[j] + 1
    <3>1. AttemptsOf(j)
      BY <1>1, OnceOrNever DEF RefinementInv, AttemptsAccounted
    <3> QED
      BY <1>1, <3>1 DEF AttemptsOf, AfterStart, Executing
  <2>4. retryCount[j] \in Nat /\ Retries[j] \in Nat
    BY <1>0, <1>1, AttributesAssumption DEF TypeOK
  <2>5. CASE retryCount[j] < Retries[j]
    <3>1. OnlyMoves(j, "running", "waiting")
      BY <1>1, <1>3, <2>1, <2>2, <2>5, HeldMoves DEF HeldPhase, Executing
    <3>2. attempts[j] <= Retries[j]
      BY <2>3, <2>4, <2>5
    <3>3. Lifecycles!Retry(j)
      BY <1>1, <1>2, <3>1, <3>2, MovesAbstractly DEF Lifecycles!Retry, Lifecycles!Same
    <3> QED
      BY <1>1, <3>3 DEF Refines, Lifecycles!JlNext
  <2>6. CASE ~(retryCount[j] < Retries[j])
    <3>1. OnlyMoves(j, "running", "exhausted")
      BY <1>1, <1>3, <2>1, <2>2, <2>6, HeldMoves DEF HeldPhase, Executing
    <3>2. attempts[j] > Retries[j]
      BY <2>3, <2>4, <2>6
    <3>3. Lifecycles!GiveUp(j)
      BY <1>1, <1>2, <3>1, <3>2, MovesAbstractly DEF Lifecycles!GiveUp, Lifecycles!Same
    <3> QED
      BY <1>1, <3>3 DEF Refines, Lifecycles!JlNext
  <2> QED
    BY <2>5, <2>6
<1>6. CASE TargetExits(t)
  <2>1. held'[t] = NoJob
    BY <1>0, <1>6 DEF TargetExits, TypeOK
  <2>2. status[j] \notin Finished
    BY <1>1, OnceOrNever DEF RefinementInv, FinishedIsNowhere, Executing
  <2>3. OnlyMoves(j, "running", "gone")
    BY <1>1, <1>2, <1>3, <2>1, <2>2, HeldLeaves DEF HeldPhase, Executing
  <2>4. Lifecycles!Vanish(j)
    BY <1>1, <1>2, <2>3, MovesAbstractly DEF Lifecycles!Vanish, Lifecycles!Same
  <2> QED
    BY <1>1, <2>4 DEF Refines, Lifecycles!JlNext
<1> QED
  BY <1>4, <1>5, <1>6 DEF TargetStep

\* The queue is emptied: every waiting job in it leaves, because the engine is
\* closing.
LEMMA ShutdownClearRefines ==
    ASSUME Once, RefinementInv, RefinementInv', ShutdownClear
    PROVE  Refines
<1>0. TypeOK
  BY DEF RefinementInv
<1>1. PICK S : S = QueuedJobs
  OBVIOUS
<1>2. S \in SUBSET Jobs
  BY <1>0, <1>1 DEF TypeOK, QueuedJobs
<1>3. QueuedJobs' = {}
  BY DEF ShutdownClear, QueuedJobs
<1>4. held' = held /\ pc' = pc /\ submits' = submits /\ status' = status
  BY DEF ShutdownClear, jobVars, workerVars
<1>5. \A k \in S : PhaseOf(k) = "waiting"
  BY <1>1, <1>2, PhaseByPlace DEF PhasesFit, PhaseFits
<1>6. \A k \in S : PhaseOf(k)' = "gone"
  <2> SUFFICES ASSUME NEW k \in S PROVE PhaseOf(k)' = "gone"
    OBVIOUS
  <2>1. k \in Jobs /\ k \in QueuedJobs
    BY <1>1, <1>2
  <2>2. submits[k] = 1 /\ status[k] \notin Finished /\ \A t \in Threads : held[t] # k
    BY <2>1, OnceOrNever DEF RefinementInv, OnePlacePerJob, FinishedIsNowhere
  <2> QED
    BY <1>3, <1>4, <2>1, <2>2, PhaseByPlaceNext DEF PhasesFit, PhaseFits
<1>7. \A k \in Jobs \ S : SamePlace(k)
  BY <1>1, <1>3, <1>4 DEF SamePlace
<1>8. \A k \in Jobs \ S : PhaseOf(k)' = PhaseOf(k)
  BY <1>7, PhaseKept
<1>9. Lifecycles!Leave(S) /\ shuttingDown' = FALSE
  BY <1>2, <1>5, <1>6, <1>8 DEF ShutdownClear, Lifecycles!Leave, jobVars
<1> QED
  BY <1>2, <1>9 DEF Refines, Lifecycles!JlNext

\* Every other operation of the engine changes no phase; shutdown begins by
\* closing.
LEMMA EngineRefines ==
    ASSUME Once, RefinementInv, RefinementInv', ClearJobs \/ Lifecycle, ~ShutdownClear
    PROVE  Refines
<1>0. TypeOK
  BY DEF RefinementInv
<1>1. /\ queue' = queue /\ submits' = submits /\ status' = status
      /\ cancelled' = cancelled /\ attempts' = attempts
  BY DEF ClearJobs, Lifecycle, Initialize, ShutdownStop, ShutdownJoin, jobVars, queueVars,
         historyVars
<1>2. /\ held' = held
      /\ \A t \in Threads : pc'[t] # pc[t] => pc[t] = "off" /\ pc'[t] = "loop"
  BY <1>0, LifecycleLeavesJobs DEF Client
<1>3. \A t \in Threads : held[t] \in Jobs => pc[t] # "off"
  BY <1>0, NoJobAssumption DEF TypeOK, Idle
<1>4. \A k \in Jobs : SamePlace(k)
  BY <1>1, <1>2, <1>3 DEF SamePlace, QueuedJobs
<1>5. AllKeep
  BY <1>4, PhaseKept DEF AllKeep
<1>6. CASE ShutdownStop
  <2>1. Lifecycles!Close
    BY <1>1, <1>5, <1>6, KeepsAbstractly DEF ShutdownStop, EngineLockFree, Lifecycles!Close
  <2> QED
    BY <2>1 DEF Refines, Lifecycles!JlNext
<1>7. CASE ~ShutdownStop
  <2>1. shuttingDown' = shuttingDown
    BY <1>7 DEF ClearJobs, Lifecycle, Initialize, ShutdownJoin
  <2> QED
    BY <1>1, <1>5, <2>1, StutterRefines
<1> QED
  BY <1>6, <1>7

\* The engine implements the life of a job that JobLifecycle promises, as long
\* as no Job object is submitted twice: its initial states are initial there,
\* and each of its steps is a step there or none.
THEOREM EngineImplementsLifecycle == Once => (Spec => ImplementsJobLifecycle)
<1> SUFFICES ASSUME Once PROVE Spec => ImplementsJobLifecycle
  OBVIOUS
<1>1. Init => Lifecycles!JlInit
  <2> SUFFICES ASSUME Init PROVE Lifecycles!JlInit
    OBVIOUS
  <2>1. \A j \in Jobs : PhaseOf(j) = "new"
    BY DEF Init, PhaseOf, HeldAt, Executing, QueuedJobs
  <2> QED
    BY <2>1 DEF Init, Lifecycles!JlInit
<1>2. Init => SubmittedOnce
  BY BoundsAssumption DEF Init, SubmittedOnce
<1>3. RefinementInv /\ RefinementInv' /\ [Next]_vars => Refines
  <2> SUFFICES ASSUME RefinementInv, RefinementInv', [Next]_vars PROVE Refines
    OBVIOUS
  <2>1. CASE UNCHANGED vars
    <3>1. \A k \in Jobs : SamePlace(k)
      BY <2>1 DEF vars, jobVars, queueVars, workerVars, historyVars, SamePlace, QueuedJobs
    <3> QED
      BY <2>1, <3>1, PhaseKept, StutterRefines
      DEF AllKeep, vars, jobVars, engineVars, historyVars
  <2> QED
    BY <2>1, SubmitRefines, CancelRefines, WorkerRefines, TargetRefines, EngineRefines,
       ShutdownClearRefines DEF Next, Client, CancelJob
<1>4. Spec => []RefinementInv
  BY <1>2, NextSubmittedOnce, TypeCorrect, OnePlace, AlwaysFinishedIsNowhere,
     AttemptsAlwaysAccounted, PTL DEF Spec, RefinementInv
<1> QED
  BY <1>1, <1>3, <1>4, PTL DEF Spec, Refines, ImplementsJobLifecycle, Lifecycles!JlSpec

=============================================================================
