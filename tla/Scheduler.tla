----------------------------- MODULE Scheduler -----------------------------
(***************************************************************************)
(* The scheduler service (execution/scheduler.py): clients schedule and    *)
(* unschedule jobs, a polling thread submits the due ones to the Task      *)
(* Execution Engine, and every change is saved to storage.                 *)
(*                                                                         *)
(* Scheduler._lock makes each client operation one step.  The polling      *)
(* thread holds it only to collect the due jobs and to serialise the       *)
(* schedule; it submits, counts and writes to storage without it.  The     *)
(* times at which a job falls due are numbered 1, 2, ... per job.          *)
(***************************************************************************)
EXTENDS Integers, Sequences, SequencesExt

CONSTANTS
    Ids,            \* ids of scheduled jobs
    Loops,          \* identities of polling threads
    NoLoop, Nil,
    Repeating,      \* the jobs with an interval or a cron expression
    CronMayEnd,     \* the cron jobs with gaps longer than the search window
    MaxRuns,        \* ScheduledJob.max_runs, -1 for None
    JoinTimesOut,   \* TRUE: a tick may take longer than shutdown's 3 seconds
    MaxSchedules,   \* bound: schedule_job per id
    MaxSetbacks,    \* bound: crashes, calls of reload and writes refused by storage
    MaxRestarts,    \* bound: calls of shutdown
    MaxTime,        \* bound: due times per job
    CountCap        \* run counts saturate here

\* A ScheduledJob: run_count, next_run_time and whether it was cancelled.
Job == [runs : 0..CountCap, next : Nat, cancelled : BOOLEAN]

ASSUME SchedulerAssumption ==
    /\ NoLoop \notin Loops /\ Nil \notin Job
    /\ Repeating \subseteq Ids /\ CronMayEnd \subseteq Repeating
    /\ MaxRuns \in [Ids -> Nat \cup {-1}]
    /\ JoinTimesOut \in BOOLEAN
    /\ {MaxSchedules, MaxSetbacks, MaxRestarts} \subseteq Nat
    /\ MaxTime \in [Ids -> Nat]
    /\ CountCap \in Nat \ {0} /\ \A id \in Ids : MaxRuns[id] <= CountCap
    /\ IsFiniteSet(Ids)

VARIABLES
    jobs,       \* Scheduler._jobs: the ScheduledJob under each id, or Nil
    order,      \* the order of that dictionary
    disk,       \* what storage has under "scheduler:schedule"
    lpc,        \* position of each polling thread
    batch,      \* its triggered_jobs still to trigger
    snap,       \* its serialised schedule, not yet written
    current,    \* Scheduler._thread
    stop,       \* Scheduler._stop_event
    closing,    \* shutdown() is joining the thread
    now,        \* the last due time of each job that has come
    answers,    \* history: submissions to the engine, per id and due time
    gone,       \* history: unscheduled, and not scheduled again
    setbacks,   \* history: what sets the table or storage back to an older schedule
    scheduled, restarts  \* history

tableVars == <<jobs, order, disk>>
loopVars == <<lpc, batch, snap>>
serviceVars == <<current, stop, closing>>
countVars == <<gone, scheduled, restarts>>
historyVars == <<now, answers, countVars, setbacks>>
vars == <<tableVars, loopVars, serviceVars, historyVars>>

-----------------------------------------------------------------------------
(* Scheduled jobs *)

None == 0
Unlimited == -1
Capped(n) == IF n < CountCap THEN n ELSE CountCap
Present == {id \in Ids : jobs[id] # Nil}
Due(id) == jobs[id].next # None /\ jobs[id].next <= now[id] /\ ~jobs[id].cancelled

\* The ids of s that are in S, in their order.
Kept(s, S) ==
    LET kept[n \in 0..Len(s)] ==
            IF n = 0 THEN <<>>
            ELSE IF s[n] \in S THEN Append(kept[n - 1], s[n]) ELSE kept[n - 1]
    IN  kept[Len(s)]

\* Mutant: the comparison with max_runs is off by one.
NextRunOffByOne(id, runs, cancelled) ==
    IF \/ cancelled
       \/ MaxRuns[id] # Unlimited /\ runs > MaxRuns[id]
       \/ runs > 0 /\ id \notin Repeating
    THEN None ELSE now[id] + 1

\* Mutant: the next run of an interval is reckoned from the run before.
NextRunFromLast(id, runs, cancelled) ==
    IF \/ cancelled
       \/ MaxRuns[id] # Unlimited /\ runs >= MaxRuns[id]
       \/ runs > 0 /\ id \notin Repeating
    THEN None ELSE IF now[id] = 0 THEN 1 ELSE now[id]

\* calculate_next_run: a time from now on, or None.
NextRun(id, runs, cancelled) ==
    IF \/ cancelled
       \/ MaxRuns[id] # Unlimited /\ runs >= MaxRuns[id]
       \/ runs > 0 /\ id \notin Repeating
    THEN None ELSE now[id] + 1

NewJob(id) == [runs |-> 0, next |-> NextRun(id, 0, FALSE), cancelled |-> FALSE]

\* The part of the table that _save_schedule writes.
Serialized(table) ==
    [id \in Ids |->
        IF table[id] = Nil THEN Nil
        ELSE IF table[id].cancelled \/ table[id].next = None THEN Nil
        ELSE table[id]]

Setback == setbacks < MaxSetbacks /\ setbacks' = setbacks + 1

\* storage.set; an exception is logged and the old schedule stays.
Set(schedule) ==
    \/ disk' = schedule /\ UNCHANGED setbacks
    \/ Setback /\ UNCHANGED disk

\* Objects collected by a tick outlive their place in the table: what becomes
\* of the entries of the batches when the objects of the jobs in S leave it.
Detach(S, how) ==
    batch' = [l \in Loops |->
                [i \in DOMAIN batch[l] |->
                    IF batch[l][i].id \in S /\ batch[l][i].object = "current"
                    THEN [batch[l][i] EXCEPT !.object = how] ELSE batch[l][i]]]

\* _load_schedule: a saved job replaces the object of its id, or is added (the
\* order among added jobs is the one of the saved dictionary; here any one order).
Load ==
    LET saved == {id \in Ids : disk[id] # Nil} IN
    /\ jobs' = [id \in Ids |-> IF id \in saved THEN disk[id] ELSE jobs[id]]
    /\ order' = order \o SetToSeq(saved \ Present)
    /\ Detach(saved, "replaced")

-----------------------------------------------------------------------------
(* Clients *)

ScheduleJob(id) ==
    /\ scheduled[id] < MaxSchedules
    /\ scheduled' = [scheduled EXCEPT ![id] = @ + 1]
    /\ jobs' = [jobs EXCEPT ![id] = NewJob(id)]
    /\ order' = IF jobs[id] = Nil THEN Append(order, id) ELSE order
    /\ Set(Serialized(jobs'))
    /\ Detach({id}, "replaced")
    /\ gone' = gone \ {id}
    /\ UNCHANGED <<lpc, snap, serviceVars, now, answers, restarts>>

\* Mutant: the job keeps its place in the order of the table.
UnscheduleJobOrdered(id) ==
    /\ jobs[id] # Nil
    /\ jobs' = [jobs EXCEPT ![id] = Nil]
    /\ Set(Serialized(jobs'))
    /\ Detach({id}, "cancelled")
    /\ gone' = gone \cup {id}
    /\ UNCHANGED <<order, lpc, snap, serviceVars, now, answers, scheduled, restarts>>

UnscheduleJob(id) ==
    /\ jobs[id] # Nil
    /\ jobs' = [jobs EXCEPT ![id] = Nil]
    /\ order' = Kept(order, Ids \ {id})
    /\ Set(Serialized(jobs'))
    /\ Detach({id}, "cancelled")
    /\ gone' = gone \cup {id}
    /\ UNCHANGED <<lpc, snap, serviceVars, now, answers, scheduled, restarts>>

\* ScheduledJob.cancel() on an object a client keeps; nothing is saved.
CancelJob(id) ==
    /\ jobs[id] # Nil /\ ~jobs[id].cancelled
    /\ jobs' = [jobs EXCEPT ![id].cancelled = TRUE, ![id].next = None]
    /\ UNCHANGED <<order, disk, loopVars, serviceVars, historyVars>>

ClearJobs ==
    LET done == {id \in Present : jobs[id].cancelled \/ jobs[id].next = None} IN
    /\ done # {} \/ disk # Serialized(jobs)
    /\ jobs' = [id \in Ids |-> IF id \in done THEN Nil ELSE jobs[id]]
    /\ order' = Kept(order, Ids \ done)
    /\ Set(Serialized(jobs'))
    /\ Detach(done, "cancelled")
    /\ UNCHANGED <<lpc, snap, serviceVars, now, answers, countVars>>

Reload ==
    /\ Setback
    /\ Load
    /\ UNCHANGED <<disk, lpc, snap, serviceVars, now, answers, countVars>>

\* The clock reaches next_run_time.
BecomeDue(id) ==
    /\ jobs[id] # Nil /\ jobs[id].next = now[id] + 1
    /\ now[id] < MaxTime[id]
    /\ now' = [now EXCEPT ![id] = @ + 1]
    /\ UNCHANGED <<tableVars, loopVars, serviceVars, answers, countVars, setbacks>>

-----------------------------------------------------------------------------
(* The life cycle.  The orchestrator calls initialize and shutdown one     *)
(* after the other.                                                        *)

Running(l) == lpc[l] # "off"

\* initialize() clears the stop event, whoever still looks at it.
Initialize ==
    /\ ~closing
    /\ current \notin {l \in Loops : Running(l)}
    /\ stop' = FALSE
    /\ Load
    /\ \E l \in Loops :
          /\ ~Running(l)
          /\ current' = l
          /\ lpc' = [lpc EXCEPT ![l] = "poll"]
    /\ UNCHANGED <<disk, snap, closing, historyVars>>

Shutdown ==
    /\ restarts < MaxRestarts
    /\ current # NoLoop /\ ~closing
    /\ stop' = TRUE /\ closing' = TRUE
    /\ restarts' = restarts + 1
    /\ UNCHANGED <<tableVars, loopVars, current, now, answers, gone, scheduled,
                   setbacks>>

\* join(timeout=3.0) returned: only a thread in the middle of a tick, waiting
\* for the engine or for storage, can take longer.
ShutdownDone ==
    /\ closing
    /\ ~Running(current) \/ (JoinTimesOut /\ lpc[current] # "poll")
    /\ closing' = FALSE
    /\ current' = NoLoop
    /\ UNCHANGED <<tableVars, loopVars, stop, historyVars>>

\* The process dies; only storage survives.
Crash ==
    /\ Setback
    /\ jobs' = [id \in Ids |-> Nil]
    /\ order' = <<>>
    /\ lpc' = [l \in Loops |-> "off"]
    /\ batch' = [l \in Loops |-> <<>>]
    /\ snap' = [l \in Loops |-> Nil]
    /\ current' = NoLoop /\ stop' = FALSE /\ closing' = FALSE
    /\ UNCHANGED <<disk, now, answers, countVars>>

-----------------------------------------------------------------------------
(* The polling thread *)

LoopGoTo(l, p) == lpc' = [lpc EXCEPT ![l] = p]
Rest(l) == batch' = [batch EXCEPT ![l] = Tail(@)]

LoopEnds(l) ==
    /\ lpc[l] = "poll" /\ stop
    /\ LoopGoTo(l, "off")
    /\ UNCHANGED <<tableVars, batch, snap, serviceVars, historyVars>>

DueIds == Kept(order, {id \in Present : Due(id)})

Entries(ids) ==
    [i \in DOMAIN ids |-> [id |-> ids[i], object |-> "current",
                           runs |-> jobs[ids[i]].runs, at |-> jobs[ids[i]].next]]

\* _tick collects the due jobs under the lock.
Collect(l) ==
    /\ lpc[l] = "poll" /\ ~stop
    /\ batch' = [batch EXCEPT ![l] = Entries(DueIds)]
    /\ LoopGoTo(l, "submit")
    /\ UNCHANGED <<tableVars, snap, serviceVars, historyVars>>

TickEnds(l) ==
    /\ lpc[l] = "submit" /\ batch[l] = <<>>
    /\ LoopGoTo(l, "poll")
    /\ UNCHANGED <<tableVars, batch, snap, serviceVars, historyVars>>

\* The job is submitted whatever happened to it since it was collected.
Submit(l) ==
    LET e == Head(batch[l]) IN
    /\ lpc[l] = "submit" /\ batch[l] # <<>>
    /\ answers' = [answers EXCEPT ![e.id][e.at] = Capped(@ + 1)]
    /\ LoopGoTo(l, "count")
    /\ UNCHANGED <<tableVars, batch, snap, serviceVars, now, countVars, setbacks>>

\* The run count of the collected object, which the table may have lost.
RunsOf(e) == Capped((IF e.object = "current" THEN jobs[e.id].runs ELSE e.runs) + 1)
CancelledOf(e) ==
    \/ e.object = "cancelled"
    \/ e.object = "current" /\ jobs[e.id].cancelled
NextOf(e) == NextRun(e.id, RunsOf(e), CancelledOf(e))

\* run_count and next_run_time of the collected object, in the table or not.
Count(l) ==
    LET e == Head(batch[l]) IN
    /\ lpc[l] = "count"
    /\ jobs' = IF e.object = "current"
               THEN [jobs EXCEPT ![e.id].runs = RunsOf(e), ![e.id].next = NextOf(e)]
               ELSE jobs
    /\ LoopGoTo(l, "serialize")
    /\ UNCHANGED <<order, disk, batch, snap, serviceVars, historyVars>>

\* Mutant: the exception ends the polling thread.
CountFailsForGood(l) ==
    LET e == Head(batch[l]) IN
    /\ lpc[l] = "count"
    /\ e.id \in CronMayEnd /\ NextOf(e) # None
    /\ jobs' = IF e.object = "current"
               THEN [jobs EXCEPT ![e.id].runs = RunsOf(e)] ELSE jobs
    /\ batch' = [batch EXCEPT ![l] = <<>>]
    /\ LoopGoTo(l, "off")
    /\ UNCHANGED <<order, disk, snap, serviceVars, historyVars>>

\* get_next_cron_time finds nothing in its window: the ValueError leaves
\* next_run_time as it is and ends the tick, for the jobs behind as well.
CountFails(l) ==
    LET e == Head(batch[l]) IN
    /\ lpc[l] = "count"
    /\ e.id \in CronMayEnd /\ NextOf(e) # None
    /\ jobs' = IF e.object = "current"
               THEN [jobs EXCEPT ![e.id].runs = RunsOf(e)] ELSE jobs
    /\ batch' = [batch EXCEPT ![l] = <<>>]
    /\ LoopGoTo(l, "poll")
    /\ UNCHANGED <<order, disk, snap, serviceVars, historyVars>>

\* _save_schedule serialises under the lock ...
Serialize(l) ==
    /\ lpc[l] = "serialize"
    /\ snap' = [snap EXCEPT ![l] = Serialized(jobs)]
    /\ LoopGoTo(l, "write")
    /\ UNCHANGED <<tableVars, batch, serviceVars, historyVars>>

\* ... and writes after releasing it.
Write(l) ==
    /\ lpc[l] = "write"
    /\ Set(snap[l])
    /\ snap' = [snap EXCEPT ![l] = Nil]
    /\ Rest(l)
    /\ LoopGoTo(l, "submit")
    /\ UNCHANGED <<jobs, order, serviceVars, now, answers, countVars>>

-----------------------------------------------------------------------------
(* The specification *)

Init ==
    /\ jobs = [id \in Ids |-> Nil] /\ order = <<>>
    /\ disk = [id \in Ids |-> Nil]
    /\ lpc = [l \in Loops |-> "off"]
    /\ batch = [l \in Loops |-> <<>>]
    /\ snap = [l \in Loops |-> Nil]
    /\ current = NoLoop /\ stop = FALSE /\ closing = FALSE
    /\ now = [id \in Ids |-> 0]
    /\ answers = [id \in Ids |-> [t \in 1..MaxTime[id] |-> 0]]
    /\ gone = {}
    /\ scheduled = [id \in Ids |-> 0]
    /\ setbacks = 0 /\ restarts = 0

Client ==
    \/ \E id \in Ids : ScheduleJob(id) \/ UnscheduleJob(id) \/ CancelJob(id)
    \/ ClearJobs \/ Reload

Lifecycle == Initialize \/ Shutdown \/ ShutdownDone \/ Crash

Polling(l) ==
    \/ LoopEnds(l) \/ Collect(l) \/ TickEnds(l)
    \/ Submit(l) \/ Count(l) \/ CountFails(l) \/ Serialize(l) \/ Write(l)

Next ==
    \/ Client \/ Lifecycle
    \/ \E id \in Ids : BecomeDue(id)
    \/ \E l \in Loops : Polling(l)

Spec == Init /\ [][Next]_vars

\* The operating system keeps the polling thread running.
FairSpec == Spec /\ \A l \in Loops : WF_vars(Polling(l))

-----------------------------------------------------------------------------
(* Properties *)

Entry == [id : Ids, object : {"current", "replaced", "cancelled"},
          runs : 0..CountCap, at : Nat \ {0}]
\* The sum of a[1], ..., a[n].
Total(a, n) ==
    LET sum[t \in 0..n] == IF t = 0 THEN 0 ELSE sum[t - 1] + a[t]
    IN  sum[n]
Submissions(id) == Total(answers[id], MaxTime[id])

\* Every variable has its type, and the order of the table lists exactly the
\* jobs in it (scheduler.py:333, 350, 378).
TypeOK ==
    /\ jobs \in [Ids -> Job \cup {Nil}]
    /\ ToSet(order) = Present /\ IsInjective(order)
    /\ disk \in [Ids -> Job \cup {Nil}]
    /\ lpc \in [Loops -> {"off", "poll", "submit", "count", "serialize", "write"}]
    /\ \A l \in Loops : \A i \in DOMAIN batch[l] : batch[l][i] \in Entry
    /\ \A l \in Loops : snap[l] = Nil \/ snap[l] \in [Ids -> Job \cup {Nil}]
    /\ current \in Loops \cup {NoLoop}
    /\ stop \in BOOLEAN /\ closing \in BOOLEAN
    /\ now \in [Ids -> Nat]
    /\ \A id \in Ids : answers[id] \in [1..MaxTime[id] -> 0..CountCap]
    /\ gone \subseteq Ids
    /\ scheduled \in [Ids -> Nat]
    /\ setbacks \in Nat /\ restarts \in Nat

\* A due time is answered by one submission, plus at most one for each event
\* that sets the table back to what storage has: a crash between the submission
\* and the save, a reload behind the polling thread's back, a save that storage
\* refused (scheduler.py:426, 448-459, 478).
OneSubmissionPerDueTime ==
    \A id \in Ids \ CronMayEnd : \A t \in 1..MaxTime[id] :
        answers[id][t] <= 1 + setbacks

\* The same for the whole life of a job scheduled once: max_runs bounds its
\* submissions across shutdowns, crashes and reloads of the service, up to one
\* run for each such event (scheduler.py:180, 448-459, 483-514).
AtMostMaxRuns ==
    \A id \in Ids \ CronMayEnd : scheduled[id] <= 1 /\ MaxRuns[id] # Unlimited =>
        Submissions(id) <= MaxRuns[id] + setbacks

\* The table is well formed, and nobody exceeds max_runs.
ScheduleConsistent == TypeOK /\ AtMostMaxRuns

\* docs/scheduler.md:12 "When a job becomes due, the `Scheduler` triggers it by
\* submitting/enqueuing it directly to the `TaskExecutionEngine`": while the
\* polling thread runs, a due job does not stay due, also after a cron
\* expression ended ticks in the ValueError of get_next_cron_time
\* (scheduler.py:81), once that job is gone.
DueJobsAreTriggered ==
    <>[](current # NoLoop /\ ~stop) /\ <>[](\A id \in CronMayEnd : jobs[id] = Nil) =>
        \A id \in Ids \ CronMayEnd :
            (jobs[id] # Nil /\ Due(id)) ~> (jobs[id] = Nil \/ ~Due(id))

-----------------------------------------------------------------------------
(* What the documentation says and the code does not do *)

\* docs/scheduler.md:130 "Unschedules a job. Returns `True` if found and
\* cancelled.": a job that was unscheduled does not come back.
NoResurrection == \A id \in gone : jobs[id] = Nil

\* docs/scheduler.md:56 "Maximum number of execution counts before the schedule
\* finishes."
MaxRunsIsAMaximum ==
    \A id \in Ids : scheduled[id] <= 1 /\ MaxRuns[id] # Unlimited =>
        Submissions(id) <= MaxRuns[id]

\* scheduler.py:276 "Gracefully shuts down the Scheduler. Stops the polling
\* thread.": no thread of an earlier start goes on polling.
OldLoopsStop ==
    \A l \in Loops : lpc[l] = "poll" /\ ~stop => l = current
=============================================================================
