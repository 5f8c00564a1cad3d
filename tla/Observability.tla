--------------------------- MODULE Observability ---------------------------
(***************************************************************************)
(* The observability service (observability/service.py, metrics.py,        *)
(* error_tracker.py), a subscriber to every event of the bus.              *)
(*                                                                         *)
(* Its handler runs in the publishing thread and takes several locks one   *)
(* after the other: it looks a counter up in the registry, or creates it,  *)
(* increments the object it got, and records the error of a failed task.   *)
(* A reload in between empties the registry and leaves it with an object   *)
(* nobody will see again.                                                  *)
(***************************************************************************)
EXTENDS EventBus

CONSTANTS
    Failure,      \* the event "task_failed"
    MaxErrors,    \* ErrorTracker.max_errors
    MaxRestarts   \* bound: calls of initialize and reload

ASSUME ObservabilityAssumption ==
    Observer \in Handlers /\ Failure \in Names /\ MaxErrors \in Nat /\ MaxRestarts \in Nat

VARIABLES
    initialized,  \* ObservabilityService._initialized
    providers,    \* number of registered metric providers
    counters,     \* the event counter of each name; None before it is created
    object,       \* the counter each publisher holds, as an epoch of the registry
    epoch,        \* history: number of reloads
    hat,          \* position of each publisher in _handle_event
    errors,       \* ErrorTracker._errors, as numbers of events
    counted,      \* history: increments since the last reload
    restarts      \* history

serviceVars == <<initialized, providers, restarts>>
metricVars == <<counters, object, epoch, hat, errors, counted>>
obsVars == <<serviceVars, metricVars>>
telemetryVars == <<busVars, obsVars>>

None == -1
Restart == restarts < MaxRestarts /\ restarts' = restarts + 1

\* initialize: a provider more at each start.  Nobody but these operations
\* reads the flag, so it may change together with the subscription.
Initialize ==
    /\ Restart /\ ~initialized
    /\ initialized' = TRUE /\ providers' = providers + 1
    /\ Add(Star, Observer)
    /\ UNCHANGED <<metricVars, history, poolVars, sendVars, recordVars, expected,
                   published, ops>>

\* Mutant: the handler stays subscribed.
ShutdownServiceSubscribed ==
    /\ initialized /\ initialized' = FALSE
    /\ UNCHANGED <<providers, restarts, metricVars, busVars>>

ShutdownService ==
    /\ initialized /\ initialized' = FALSE
    /\ Drop(Star, Observer) /\ Staying
    /\ UNCHANGED <<providers, restarts, metricVars, history, poolVars, sendVars, recordVars,
                   published, ops>>

\* reload: metrics, errors and the snapshots of the providers are cleared.
Reload ==
    /\ Restart
    /\ counters' = [n \in Names |-> None] /\ errors' = <<>>
    /\ epoch' = epoch + 1 /\ counted' = [n \in Names |-> 0]
    /\ UNCHANGED <<initialized, providers, object, hat, busVars>>

-----------------------------------------------------------------------------
(* _handle_event, in the thread that publishes *)

\* Mutant: the registry is read, and written by the step after: two threads
\* that create the counter of a name get one each.
GetCounterLate(t) ==
    /\ Serving(t, Observer) /\ Wanted(t, Observer) /\ hat[t] = "idle"
    /\ counters' = [counters EXCEPT ![event[t].name] = 0]
    /\ object' = [object EXCEPT ![t] = epoch]
    /\ hat' = [hat EXCEPT ![t] = "inc"]
    /\ UNCHANGED <<serviceVars, epoch, errors, counted, busVars>>

\* MetricsRegistry.counter: look up or create, under the registry's lock.
GetCounter(t) ==
    /\ Serving(t, Observer) /\ Wanted(t, Observer) /\ hat[t] = "idle"
    /\ counters' = [counters EXCEPT ![event[t].name] = IF @ = None THEN 0 ELSE @]
    /\ object' = [object EXCEPT ![t] = epoch]
    /\ hat' = [hat EXCEPT ![t] = "inc"]
    /\ UNCHANGED <<serviceVars, epoch, errors, counted, busVars>>

\* The handler returns: the next subscription is served.
Handled(t) ==
    /\ hat' = [hat EXCEPT ![t] = "idle"]
    /\ Called(Observer, event[t].n)
    /\ Next1(t)
    /\ UNCHANGED <<subVars, history, poolVars, sending, event, refused, expected, published, ops>>

\* Counter.inc, on the object in hand: lost if the registry was cleared since.
Increment(t) ==
    LET n == event[t].name
        live == object[t] = epoch
    IN
    /\ hat[t] = "inc"
    /\ counters' = IF live THEN [counters EXCEPT ![n] = @ + 1] ELSE counters
    /\ counted' = IF live THEN [counted EXCEPT ![n] = @ + 1] ELSE counted
    /\ \/ n = Failure /\ hat' = [hat EXCEPT ![t] = "record"] /\ UNCHANGED busVars
       \/ n # Failure /\ Handled(t)
    /\ UNCHANGED <<serviceVars, object, epoch, errors>>

\* record_custom_error: the oldest error gives way.
Kept(n) == LET e == Append(errors, n) IN IF Len(e) > MaxErrors THEN Tail(e) ELSE e

RecordError(t) ==
    /\ hat[t] = "record"
    /\ errors' = Kept(event[t].n)
    /\ Handled(t)
    /\ UNCHANGED <<serviceVars, counters, object, epoch, counted>>

-----------------------------------------------------------------------------
(* The specification *)

TelemetryInit ==
    /\ BusInit
    /\ initialized = FALSE /\ providers = 0 /\ restarts = 0
    /\ counters = [n \in Names |-> None] /\ counted = [n \in Names |-> 0]
    /\ object = [t \in Publishers |-> 0] /\ epoch = 0
    /\ hat = [t \in Publishers |-> "idle"]
    /\ errors = <<>>

ObserverStep(t) == GetCounter(t) \/ Increment(t) \/ RecordError(t)

TelemetryNext ==
    \/ BusClient /\ UNCHANGED obsVars
    \/ PoolStep /\ UNCHANGED obsVars
    \/ \E t \in Publishers : (PublisherStep(t) /\ UNCHANGED obsVars) \/ ObserverStep(t)
    \/ Initialize \/ ShutdownService \/ Reload

TelemetrySpec == TelemetryInit /\ [][TelemetryNext]_telemetryVars

-----------------------------------------------------------------------------
(* Properties *)

\* The counter of a name is the number of its events handled since the last
\* reload: creating it and counting lose nothing to other threads
\* (metrics.py:257-266, service.py:157-161).
CountersAreExact ==
    \A n \in Names : counted[n] = IF counters[n] = None THEN 0 ELSE counters[n]

\* A service that is down is not called for events published after it went
\* down (service.py:75-88).
DownMeansSilent ==
    [][\A t \in Publishers : t \in sending /\ t \notin sending' /\ ~initialized =>
          Observer \notin ToSet(todo'[t])]_telemetryVars

=============================================================================
