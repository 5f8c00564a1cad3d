-------------------------- MODULE ServiceLifecycle --------------------------
(***************************************************************************)
(* Starting and stopping the runtime: the orchestrator                     *)
(* (core/orchestrator.py), the service registry and manager behind it      *)
(* (runtime/registry.py, runtime/service_manager.py) and the thread pool   *)
(* of the event bus (events/event_bus.py), which they switch on and off.   *)
(*                                                                         *)
(* The orchestrator and the registry hold their locks throughout a call,   *)
(* but both locks are re-entrant.  Handlers of the events for a change of  *)
(* state run in the thread of the call, and so do the hooks of services    *)
(* and the handlers of what these publish: the plugin registry is itself a *)
(* service and publishes from its initialize() (sdk/client.py:368-373,     *)
(* plugins/registry.py:253-258).  All of them may call start(), stop(),    *)
(* register_service() and unregister_service(), in the middle of the loops *)
(* over services too, so the calls under way form a stack.                 *)
(***************************************************************************)
EXTENDS Integers, Sequences, SequencesExt

CONSTANTS
    Services,      \* names of services
    Rank,          \* their alphabetical order
    Dependencies,  \* the names that appear in dependency lists
    MaxDepth,      \* bound: calls within one another
    MaxCalls,      \* bound: calls of start and stop
    MaxRegisters   \* bound: calls of register_service

ASSUME RankAssumption ==
    /\ Rank \in [Services -> Nat]
    /\ \A s, r \in Services : Rank[s] = Rank[r] => s = r
ASSUME DependenciesAssumption == Dependencies \subseteq Services
ASSUME LimitsAssumption == {MaxDepth, MaxCalls, MaxRegisters} \subseteq Nat

VARIABLES
    registered,   \* names in the order of RuntimeServiceManager._services
    deps,         \* ServiceMetadata.dependencies
    state,        \* RuntimeServiceManager._states, "none" without an entry
    initialized,  \* RuntimeServiceManager._is_initialized
    orch,         \* RuntimeOrchestrator._state
    stack,        \* the calls under way, innermost last
    executor,     \* EventBus._executor: "live" or "none"
    busDown,      \* EventBus._is_shutdown
    late,         \* history: registered since the last startup order
    stuck,        \* history: services whose last shutdown() raised
    crossed,      \* history: the loop that left the services as they are was crossed
    calls, registers  \* history

serviceVars == <<registered, deps, state>>
busVars == <<executor, busDown>>
boundVars == <<calls, registers>>
vars == <<serviceVars, initialized, orch, stack, busVars, late, stuck, crossed, boundVars>>

Registered == ToSet(registered)

-----------------------------------------------------------------------------
(* The startup order *)

\* Mutant: a dependency is enough.
ReadyAfterOne(done) ==
    {s \in Registered \ done : deps[s] = {} \/ deps[s] \cap done # {}}

\* The services whose indegree has come down to zero.
Ready(done) == {s \in Registered \ done : deps[s] \subseteq done}

First(S) == CHOOSE s \in S : \A r \in S : Rank[s] <= Rank[r]

\* One round of the loop over the sorted queue.
Round(done) ==
    LET ready == Ready(ToSet(done))
    IN  IF ready = {} THEN done ELSE Append(done, First(ready))

\* The order that as many rounds as there are services make.
Sorted ==
    LET order[n \in 0..Len(registered)] == IF n = 0 THEN <<>> ELSE Round(order[n - 1])
    IN  order[Len(registered)]

\* Neither MissingDependencyError nor CircularDependencyError.
HasOrder ==
    /\ \A s \in Registered : deps[s] \subseteq Registered
    /\ Len(Sorted) = Len(registered)

-----------------------------------------------------------------------------
(* Calls *)

\* A call: what it is, how far it has come, the services its loop has still to
\* handle, whether a loop of stop() follows a startup order, and (history)
\* whether start() or stop() was called within it.
Call(op, at, todo) ==
    [op |-> op, at |-> at, todo |-> todo, sorted |-> FALSE, crossed |-> FALSE]

Top == IF stack = <<>> THEN Call("none", "idle", <<>>) ELSE Last(stack)
InCall(op, at) == Top.op = op /\ Top.at = at
Current == Head(Top.todo)

\* The innermost call goes on.
Becomes(f) == stack' = [stack EXCEPT ![Len(stack)] = f]
Goes(at, todo) == Becomes([Top EXCEPT !.at = at, !.todo = todo])

\* _transition_to at the end of a call.
Leave(s) == orch' = s /\ Goes("returning", <<>>)

\* Others run: handlers of a transition, or the hook of a service.
CallsOut == Top.at \in {"idle", "published", "hook", "returning"}

\* The registry's lock is held by unregister_service and by the loops.
HoldsRegistry(f) == f.op = "unregister" \/ f.at \in {"init", "hook", "shutdown"}

\* Registrations come from the thread of the innermost call, whose locks are
\* re-entrant, or from a thread that finds the lock free.
RegistryOpen == CallsOut \/ \A i \in DOMAIN stack : ~HoldsRegistry(stack[i])

MayCall == CallsOut /\ Len(stack) < MaxDepth

Enter(op, s) ==
    /\ MayCall
    /\ calls < MaxCalls
    /\ orch' = s
    /\ stack' = Append([i \in DOMAIN stack |-> [stack[i] EXCEPT !.crossed = TRUE]],
                      Call(op, "published", <<>>))
    /\ calls' = calls + 1
    /\ UNCHANGED <<serviceVars, initialized, busVars, late, stuck, crossed, registers>>

\* Anything else returns with a warning or raises at once.
CallStart ==
    /\ orch \notin {"running", "initializing"}
    /\ Enter("start", "initializing")

CallStop ==
    /\ orch \notin {"stopped", "uninitialized"}
    /\ Enter("stop", "shutting_down")

Return ==
    /\ Top.at = "returning"
    /\ stack' = Front(stack)
    /\ UNCHANGED <<serviceVars, initialized, orch, busVars, late, stuck, crossed, boundVars>>

-----------------------------------------------------------------------------
(* The registry *)

RegisterService(s, D) ==
    /\ RegistryOpen
    /\ registers < MaxRegisters
    /\ s \notin Registered
    /\ registered' = Append(registered, s)
    /\ deps' = [deps EXCEPT ![s] = D]
    /\ state' = [state EXCEPT ![s] = "uninitialized"]
    /\ registers' = registers + 1
    /\ late' = late \cup {s} /\ stuck' = stuck \ {s}
    /\ UNCHANGED <<initialized, orch, stack, busVars, crossed, calls>>

\* The entries of the three dictionaries are deleted.
Delete(s) ==
    /\ registered' = RemoveFirst(registered, s)
    /\ deps' = [deps EXCEPT ![s] = {}]
    /\ state' = [state EXCEPT ![s] = "none"]
    /\ late' = late \ {s} /\ stuck' = stuck \ {s}
    /\ UNCHANGED <<initialized, orch, busVars, crossed, boundVars>>

MayUnregister(s) == s \in Registered /\ \A r \in Registered : s \notin deps[r]

\* The service is not active, or its shutdown() calls nobody; an error of it
\* is only logged.
UnregisterService(s) ==
    /\ RegistryOpen
    /\ MayUnregister(s)
    /\ Delete(s)
    /\ UNCHANGED stack

\* The shutdown() of an active service may call others.
UnregisterBegin(s) ==
    /\ MayCall
    /\ MayUnregister(s) /\ state[s] = "active"
    /\ stack' = Append(stack, Call("unregister", "hook", <<s>>))
    /\ UNCHANGED <<serviceVars, initialized, orch, busVars, late, stuck, crossed, boundVars>>

\* The entries may be gone by then (KeyError).
UnregisterEnd ==
    /\ InCall("unregister", "hook")
    /\ stack' = Front(stack)
    /\ \/ Current \in Registered /\ Delete(Current)
       \/ Current \notin Registered
          /\ UNCHANGED <<serviceVars, initialized, orch, busVars, late, stuck, crossed, boundVars>>

-----------------------------------------------------------------------------
(* start() *)

\* The bus is reset; the manager returns at once when it is initialised, and
\* raises when there is no startup order.
BeginInitialize ==
    /\ InCall("start", "published")
    /\ executor' = "none" /\ busDown' = FALSE
    /\ \/ initialized /\ Leave("running") /\ UNCHANGED late
       \/ ~initialized /\ ~HasOrder /\ Leave("failed") /\ UNCHANGED late
       \/ /\ ~initialized /\ HasOrder
          /\ Becomes(Call("start", "init", Sorted))
          /\ late' = {}
          /\ UNCHANGED orch
    /\ UNCHANGED <<serviceVars, initialized, stuck, crossed, boundVars>>

\* A service that was unregistered meanwhile is a KeyError (line 135), after
\* its state is set.
InitializeBegin ==
    /\ InCall("start", "init") /\ Top.todo # <<>>
    /\ state' = [state EXCEPT ![Current] = "initializing"]
    /\ \/ Current \in Registered /\ Goes("hook", Top.todo) /\ UNCHANGED <<orch, crossed>>
       \/ /\ Current \notin Registered
          /\ Leave("failed")
          /\ crossed' = (crossed \/ Top.crossed)
    /\ UNCHANGED <<registered, deps, initialized, busVars, late, stuck, boundVars>>

\* The state is set without a look at what happened within initialize().
InitializeEnd ==
    /\ InCall("start", "hook")
    /\ state' = [state EXCEPT ![Current] = "active"]
    /\ stuck' = stuck \ {Current}
    /\ Goes("init", Tail(Top.todo))
    /\ UNCHANGED <<registered, deps, initialized, orch, busVars, late, crossed, boundVars>>

\* The first failure ends the start; what was initialised stays active.
InitializeFails ==
    /\ InCall("start", "hook")
    /\ state' = [state EXCEPT ![Current] = "failed"]
    /\ stuck' = stuck \ {Current}
    /\ Leave("failed")
    /\ crossed' = (crossed \/ Top.crossed)
    /\ UNCHANGED <<registered, deps, initialized, busVars, late, boundVars>>

InitializeDone ==
    /\ InCall("start", "init") /\ Top.todo = <<>>
    /\ initialized' = TRUE
    /\ Leave("running")
    /\ crossed' = Top.crossed
    /\ UNCHANGED <<serviceVars, busVars, late, stuck, boundVars>>

-----------------------------------------------------------------------------
(* stop() *)

\* Mutant: services are shut down in the order of their start.
BeginShutdownForward ==
    /\ InCall("stop", "published")
    /\ Becomes([Call("stop", "shutdown", IF HasOrder THEN Sorted ELSE registered)
                  EXCEPT !.sorted = HasOrder])
    /\ UNCHANGED <<serviceVars, initialized, orch, busVars, late, stuck, crossed, boundVars>>

\* Without a startup order the order of registration is reversed instead.
BeginShutdown ==
    /\ InCall("stop", "published")
    /\ Becomes([Call("stop", "shutdown", Reverse(IF HasOrder THEN Sorted ELSE registered))
                  EXCEPT !.sorted = HasOrder])
    /\ UNCHANGED <<serviceVars, initialized, orch, busVars, late, stuck, crossed, boundVars>>

\* What is not active is passed over.  An active state without a service is a
\* KeyError (line 163), with the manager still initialised.
ShutdownBegin ==
    /\ InCall("stop", "shutdown") /\ Top.todo # <<>>
    /\ \/ state[Current] # "active" /\ Goes("shutdown", Tail(Top.todo)) /\ UNCHANGED <<orch, crossed>>
       \/ /\ state[Current] = "active" /\ Current \in Registered
          /\ Goes("hook", Top.todo)
          /\ UNCHANGED <<orch, crossed>>
       \/ /\ state[Current] = "active" /\ Current \notin Registered
          /\ Leave("failed")
          /\ crossed' = TRUE
    /\ UNCHANGED <<serviceVars, initialized, busVars, late, stuck, boundVars>>

\* An error of shutdown() is logged and the service stays active.
ShutdownEnd ==
    /\ InCall("stop", "hook")
    /\ Goes("shutdown", Tail(Top.todo))
    /\ \/ state' = [state EXCEPT ![Current] = "stopped"] /\ UNCHANGED stuck
       \/ stuck' = stuck \cup {Current} /\ UNCHANGED state
    /\ UNCHANGED <<registered, deps, initialized, orch, busVars, late, crossed, boundVars>>

\* Mutant: the manager still counts as initialised.
ShutdownServicesDoneInitialized ==
    /\ InCall("stop", "shutdown") /\ Top.todo = <<>>
    /\ Goes("check", <<>>)
    /\ UNCHANGED <<serviceVars, initialized, orch, busVars, late, stuck, crossed, boundVars>>

ShutdownServicesDone ==
    /\ InCall("stop", "shutdown") /\ Top.todo = <<>>
    /\ initialized' = FALSE
    /\ Goes("check", <<>>)
    /\ UNCHANGED <<serviceVars, orch, busVars, late, stuck, crossed, boundVars>>

Active == {s \in Registered : state[s] = "active"}

StopFails ==
    /\ InCall("stop", "check")
    /\ Active # {}
    /\ Leave("failed")
    /\ UNCHANGED <<serviceVars, initialized, busVars, late, stuck, crossed, boundVars>>

\* EventBus.shutdown does nothing when there is no pool.
StopSucceeds ==
    /\ InCall("stop", "check")
    /\ Active = {}
    /\ executor' = "none"
    /\ busDown' = (busDown \/ executor = "live")
    /\ Leave("stopped")
    /\ UNCHANGED <<serviceVars, initialized, late, stuck, crossed, boundVars>>

-----------------------------------------------------------------------------
(* The event bus *)

\* A publication with an asynchronous handler, by any thread: _get_executor
\* makes a pool when there is none, and raises after a shutdown.
PublishAsync ==
    /\ executor = "none" /\ ~busDown
    /\ executor' = "live"
    /\ UNCHANGED <<serviceVars, initialized, orch, stack, busDown, late, stuck, crossed, boundVars>>

-----------------------------------------------------------------------------
(* The specification *)

Init ==
    /\ registered = <<>>
    /\ deps = [s \in Services |-> {}]
    /\ state = [s \in Services |-> "none"]
    /\ initialized = FALSE
    /\ orch = "uninitialized"
    /\ stack = <<>>
    /\ executor = "live" /\ busDown = FALSE
    /\ late = {} /\ stuck = {} /\ crossed = FALSE
    /\ calls = 0 /\ registers = 0

Client ==
    \/ \E s \in Services :
          \/ UnregisterService(s) \/ UnregisterBegin(s)
          \/ \E D \in SUBSET Dependencies : RegisterService(s, D)
    \/ CallStart \/ CallStop \/ PublishAsync

CallStep ==
    \/ BeginInitialize \/ InitializeBegin \/ InitializeEnd \/ InitializeFails \/ InitializeDone
    \/ BeginShutdown \/ ShutdownBegin \/ ShutdownEnd \/ ShutdownServicesDone
    \/ StopFails \/ StopSucceeds \/ Return \/ UnregisterEnd

Next == Client \/ CallStep

Spec == Init /\ [][Next]_vars

-----------------------------------------------------------------------------
(* Properties *)

ServiceState == {"uninitialized", "initializing", "active", "failed", "stopped"}
RuntimeState == {"uninitialized", "initializing", "running", "shutting_down", "stopped", "failed"}

\* Every variable has its type, and a registered service has a state; the
\* converse fails when a service is unregistered within its own initialize()
\* or shutdown(), whose end sets the state again (service_manager.py:139, 167).
TypeOK ==
    /\ registered \in Seq(Services) /\ IsInjective(registered)
    /\ deps \in [Services -> SUBSET Services]
    /\ state \in [Services -> ServiceState \cup {"none"}]
    /\ \A s \in Registered : state[s] # "none"
    /\ initialized \in BOOLEAN
    /\ orch \in RuntimeState
    /\ \A i \in DOMAIN stack :
          stack[i] \in [op : {"start", "stop", "unregister"},
                        at : {"published", "init", "shutdown", "hook", "check", "returning"},
                        todo : Seq(Services), sorted : BOOLEAN, crossed : BOOLEAN]
    /\ executor \in {"live", "none"} /\ busDown \in BOOLEAN
    /\ late \subseteq Registered /\ stuck \subseteq Services /\ crossed \in BOOLEAN
    /\ calls \in Nat /\ registers \in Nat

\* A set of services all of which wait for one another, or for one that is not
\* registered.
Blocked(S) == S # {} /\ \A s \in S : \E d \in deps[s] : d \in S \/ d \notin Registered

\* _get_startup_order succeeds exactly when no group of services blocks itself,
\* and then every service comes once, after all it depends on
\* (service_manager.py:88-120).
OrderIsTopological ==
    /\ HasOrder <=> \A S \in SUBSET Registered : ~Blocked(S)
    /\ HasOrder =>
          LET order == Sorted IN
          /\ ToSet(order) = Registered
          /\ \A i, k \in DOMAIN order : order[i] \in deps[order[k]] => i < k

\* The tables agree with each other and the order computed from them is right.
RegistryConsistent == TypeOK /\ OrderIsTopological

\* A service known to the startup order is being initialised, or is active,
\* only once everything it depends on is active, whatever failed before and
\* whoever is registered or unregistered in the middle of the loop
\* (service_manager.py:133-139).  A start() or stop() within the loop is the
\* exception.
StartedInOrder ==
    \A s \in Registered \ late :
        ~Top.crossed /\ state'[s] # state[s] /\ state'[s] \in {"initializing", "active"} =>
            \A d \in deps[s] : state[d] = "active"

\* Where stop() found a startup order, a service is stopped only after the
\* services that depend on it, save those whose own shutdown raised
\* (service_manager.py:153-167), with the same exception.
StoppedInOrder ==
    \A s \in Services :
        ~Top.crossed /\ Top.sorted /\ state[s] = "active" /\ state'[s] = "stopped" =>
            \A r \in Registered \ stuck : s \in deps[r] => state[r] # "active"

\* Both ways the dependencies are kept, over any sequence of failures, nested
\* calls and registrations.
DependenciesKept == [][StartedInOrder /\ StoppedInOrder]_vars

\* When no call is under way, RUNNING means that every service known to the
\* last startup order is active, although handlers may have stopped and
\* started the runtime from within (orchestrator.py:104, service_manager.py:126),
\* unless they did so in the middle of the loop that left the services as
\* they are.
RunningIsComplete ==
    stack = <<>> /\ orch = "running" /\ ~crossed => Registered \ late \subseteq Active

\* When no call is under way, STOPPED means that no service is active, wherever
\* in the loops others called start() and stop() (orchestrator.py:136-143).
StoppedIsDown ==
    stack = <<>> /\ orch = "stopped" => Active = {}

\* The state the orchestrator shows is the truth about its services.
StatesAreTrue == RunningIsComplete /\ StoppedIsDown

-----------------------------------------------------------------------------
(* What the code says of itself and its documentation, and it does not do *)

\* docs/PRODUCTION_AUDIT.md:41 "Added safe `shutdown()` logic to permanently
\* disable the internal `ThreadPoolExecutor` and prevent thread leaks after
\* system shutdown."
NoPoolAfterShutdown ==
    stack = <<>> /\ orch = "stopped" => executor = "none"

\* core/orchestrator.py:103 "Initialize all registered services in
\* dependency-respecting topological order": with a stop() in the middle of
\* the loop the services behind it are initialised over stopped ones.
StartRespectsDependencies ==
    [][\A s \in Registered \ late :
          state[s] = "initializing" /\ state'[s] = "active" =>
              \A d \in deps[s] : state[d] = "active"]_vars
=============================================================================
