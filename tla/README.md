# Verification of Yasin-Core

TLA+ models of Yasin-Core, checked with TLC on small instances. Nearly all of
the safety properties are also proved with TLAPS, for every value of the
constants: any number of jobs, threads, nodes, services, plugins and handlers.
`PROJECT.json` lists the runs, the definitions with the source lines they model,
the findings, the hazards and the theorems.

## 1. Inventory of the system

| component | state | operations | talks to | hard behaviour |
|---|---|---|---|---|
| Task Execution Engine (`execution/engine.py`, `worker.py`, `queue.py`, `models.py`) | job attributes, registry of jobs, priority queue, worker threads and their stop events | submit, cancel, clear, initialize, shutdown; take, run, retry, time out, save | manager (routing), memory, event bus, context | cancellation against the worker's check, timeouts that wait for the target, workers that outlive shutdown, retries after shutdown |
| Distributed workers (`execution/distributed.py`) | nodes with status, heartbeat, queue and assigned jobs; worker loops | start, stop, pause, resume, heartbeat, fetch, report, assign, monitor, recover | engine (jobs, queue, memory) | crashes, late heartbeats, reports from workers declared dead, locks taken in two orders |
| Scheduler (`execution/scheduler.py`) | table of scheduled jobs, saved schedule, polling thread | schedule, unschedule, cancel, clear, reload, initialize, shutdown, tick | engine (submission), storage | collect-then-trigger without the lock, write after unlock, crash between submission and save, exception in a tick |
| Orchestrator, service manager, registry (`core/orchestrator.py`, `runtime/`) | runtime state, service table with states and dependencies | start, stop, reload, register, unregister | every service, event bus | failures half way through a start or stop, handlers and hooks that call start, stop or the registry in the middle of a loop |
| Event bus (`events/event_bus.py`) | two tables of subscriptions, history, thread pool | subscribe, unsubscribe, publish, clear, reset, shutdown | everybody | handlers called without the lock, from a copy of the list; publication against shutdown |
| Observability (`observability/`) | metric registry, error tracker, registered providers | initialize, reload, shutdown, handle an event | event bus | a counter looked up and incremented in two steps while reload empties the registry |
| Plugin registry (`plugins/`) | plugins with state, error and dependencies | register, load, start, stop, unload, unregister, initialize, shutdown, reload | event bus, DI container | recursion along dependencies, hooks that raise, handlers that call back, instances replaced by others with other dependencies |
| Memory and storage (`memory/`, `storage/`) | a dictionary and a JSON file, entries with expiry | get, set, delete, clear, search, filter, save, load | everybody | crash or unserialisable value in the middle of a write, values shared with callers and changed without a save, entries that expire between clean-up and read |
| Context engine (`context/`) | contexts by id, parents, expiry, the objects callers hold | create, get, update, delete, deactivate, prune, save, load | storage | objects that outlive their place in the table, loads that replace them, stored forms that share their metadata and tags |
| Agents and security (`agents/`, `security/`) | agents by name, started and running, roles, audit history | register, unregister, start and stop all, execute a task, grant, revoke | memory, security | table and roles change between check and execution; start and stop of all under way |
| API gateway (`api/`) | routes, accepted tokens | validate, authenticate, route, dispatch | SDK client | every error path must end in one answer |
| Providers (`providers/`) | providers by name, two counters per name | register, unregister, generate, generate_response, generate_stream | network, observability | routing and fallbacks by unlocked lookups while the registry changes, streams that are dropped, counters reloaded between two increments |
| DI container (`di/`) | registrations, singletons, the stack of keys of a thread | register, resolve, clear | everybody | recursion, failures deep inside, two threads |
| Configuration (`config/`) | defaults, file, environment, overrides, schemas | set, register_schema, plugin configuration, reload, validate | everybody | store before validate, keys known when the environment is matched |
| SDK client, compatibility, contracts | none of their own | forwarding, version comparison, data classes | the components above | none |

What makes each correct is stated as the properties of its module.

## 2. Modules

* `TaskExecution` models the engine alone. A step is what one thread does
  between two points at which other threads can be seen: a `Job` attribute, the
  queue and the engine each have their lock. `pc[t]` is the position of worker
  thread `t` in `JobWorker.run` and `_process_job`, `held[t]` its job,
  `executing` the pairs of thread and job whose target is running (a target may
  outlive its timeout), `workers` the engine's list, `stopped` the stop events.
  Threads left behind by `shutdown` stay in the model. `submits`, `attempts`,
  `dropped` and `shutdowns` are history.
* `JobLifecycle` is the abstract specification of a job submitted once: phases
  new, waiting, cleared, running, returned or exhausted, and an outcome.
  `JobRefinement` gives the mapping (`PhaseOf`) under which `TaskExecution`
  implements it.
* `DistributedWorkers` extends `TaskExecution`: nodes, workers, manager, monitor
  and recovery, composed with the engine's queue and threads. Operations of the
  manager hold its lock and are one step, but a failed report and recovery are
  several, because the engine's clients and threads see the job in between.
* `RuntimeLocks` keeps only the acquisitions and releases of the re-entrant
  locks by each operation. What handlers of events acquire on top of them is left
  out: it is the application's code.
* `Scheduler` models the table of scheduled jobs, its saved copy and the polling
  thread, whose tick is cut where the lock is released: collect, submit, count,
  serialise, write. Times are numbered per job: `next_run_time` is the number of
  the next due time, and a job is due when the clock has reached it. An object a
  tick has collected may be replaced or cancelled in the table before it is
  triggered; the entry in `batch` says which.
* `ServiceLifecycle` models the orchestrator, the registry, the service manager
  and the pool of the event bus. The locks of the first two are re-entrant, and
  others run inside their calls: handlers of a transition, the `initialize` or
  `shutdown` of a service, and the handlers of what these publish (the plugin
  registry is a service and publishes its events from `initialize`). All of them
  may call `start`, `stop` and the registry in the middle of a loop over services
  (`CallsOut`), so the calls under way form a stack. A frame holds the services
  its loop has still to handle, and `crossed` says that a `start` or `stop` was
  called inside it. Another thread's registration waits for the lock
  (`RegistryOpen`). Two simplifications: while a `shutdown` hook that
  `unregister_service` calls is under way, a `start` of another thread is taken
  to come after it; and `reload`, which changes no state here, is no call of its
  own: what its hooks call is called as if nothing were under way.
  A service unregistered inside its own hook leaves a state without a service,
  which later is a `KeyError` (`InitializeBegin`, `ShutdownBegin`, `UnregisterEnd`).
* `EventBus` models `publish` in its three parts (history, copy of the
  subscriptions, one handler at a time) for several publishers; `todo[t]` is what
  is left of the copy. `Observability` extends it: its handler is one of the
  callbacks and runs in the publisher's thread, lookup and increment apart.
  A reload's clears of the registry and of the error tracker are one step, and
  the counter per event name stands for the others the handler keeps.
* `PluginRegistry` makes the recursion of the registry explicit: `stack` holds a
  frame per call under way, `raised` is an exception on its way up. The
  recursion limit of the interpreter is `MaxDepth`. What the depth-first search
  of `validate_dependencies` accepts is `Grounded`: the least set closed under
  "registered, compatible, and all dependencies in the set", which leaves out
  cycles and what depends on them. `register` replaces the instance of a name with
  its own dependency list (`deps`) and version condition (`admitted`), and stops
  nothing; `outdated` is history: the plugins that were started over an instance
  that has been replaced by a different one since.
* `Storage` models the JSON store and the long-term memory in it; opening the
  file for writing and filling it are two steps. `set` and `get` share values with
  their callers, who change them in place without a save (`Mutate`, `InPlace`), in
  the middle of a dump too; `changed` has the keys for which this happened since
  the last save or load. What is read back is JSON's normal form of what was written
  (`JsonOf`: a tuple comes back as a list, an integer key as a string). The second loop of
  `_cleanup_expired` is the second disjunct of `ScanEnds`. `Contexts` extends it with the
  context engine, whose forms are keys of the same store. A context's metadata
  and tags are one content `val`; the stored form refers to the object it was made
  from (`of`), so that an update of the object changes the store
  (`update_context_metadata`). A context's variables are left out, because the stored
  form has a copy of them; reading them is a `get`. `deactivate` is called by whoever
  holds a context, listed or not; `off` has the ids of these.
* `AgentRuntime` models tasks, the table of agents, sweeps over all agents, roles
  and the audit history; the clearing of a memory is left out. `Gateway` extends it: two of its routes run the task's
  steps in the server's thread.
* `Providers`, `DIContainer` and `Configuration` model one component each. A call
  of a provider, a resolve and a fallback are several steps; an operation of the
  configuration holds its lock and is one. The registry of providers has no lock:
  `route_request` is one lookup per step (`Route`), then a listing (`ListProviders`) and
  the lookup of the first name listed (`Take`), which may find nothing, so that `None`
  heads the providers to try (`AttemptNone`). A reload of the observability service
  falls between the two increments of a failed attempt; `lost` and `strays` count
  what it erases. The container looks a parameter up by its type and then by its
  name (`Wanted`). A request of the gateway may have a JSON body that is no object.

Every `MC*` module gives the constants values for TLC. `MCPlatform` puts the
components without shared state into one run: `focus`, chosen in `Init`, says
which of them the behaviour is about, and only that one moves, so that their
states add up instead of multiplying.

Eight modules hold the theorems (section 5): `TaskExecutionProofs` (the refinement
too), `DistributedWorkersProofs`, `SchedulerProofs`, `ServiceLifecycleProofs`,
`PluginRegistryProofs`, `TelemetryProofs` (event bus and observability),
`ContextsProofs` (storage and contexts) and `PlatformProofs` (the components of
`MCPlatform`).

Definitions preceded by a comment "Mutant" are not part of a model: each is a
plausible mistake in the code, used to see that a property notices it. A property
that is a conjunction of named parts has one for each part that has something to
say about the code; `PROJECT.json` lists one of them.

## 3. Runs

| run | properties | shows |
|---|---|---|
| `engine_safety` | `TypeOK`, `OnePlacePerJob`, `ExclusiveExecution`, `AtMostRetriesPlusOne`, `NoJobIsLost`, `MemoryRecordsOutcome`, `ThreadsInOrder`, `OutcomeIsFinal`, `CancelledNeverStarts` | jobs are in one place, executions of a job do not overlap, attempts are bounded by `retries + 1`, a QUEUED job has an owner and pending work is registered, the saved outcome is the final one, the pool does not grow and contexts do not leak between jobs, outcomes are final, a cancelled job does not start again. One job is submitted twice; the properties that hold only for jobs submitted once say so |
| `engine_liveness` | `EveryJobSettles`, `StoppedWorkersExit`, `ShutdownReturns`, `ImplementsJobLifecycle` | `shutdown` returns even if targets hang; if they return, every job settles and stopped workers end; the engine implements the abstract life of a job |
| `workers_crash` | `CrashesAreHandled`, `EveryJobSurvivesCrashes` | with timely heartbeats, a crash loses no job and runs none twice at once, and every job settles |
| `workers_faults` | `NodesConsistent`, `CancelledNeverStartsAnywhere` | late heartbeats, pauses, stops, clearing and manual assignment: bookkeeping and finality of cancellation |
| `scheduler` | `OneSubmissionPerDueTime`, `ScheduleConsistent`, `DueJobsAreTriggered` | a due time is answered once and `max_runs` is kept, up to one run per crash, reload or refused write; while the polling thread runs, due jobs are triggered, unless a cron expression without a next time stays in the table |
| `services` | `RegistryConsistent`, `StatesAreTrue`, `DependenciesKept` | the startup order is right for every dependency graph; start and stop respect it also after failures, but in the rest of a loop that a `start` or `stop` has crossed; wherever nested calls come, STOPPED is true, and so is RUNNING unless such a loop left the services as they are |
| `plugins` | `RegistryIsTrue`, `StartsAfterDependencies`, `SweepsEndWell` | through hooks that raise and exceptions of nested calls, the ACTIVE plugins are those that run (one whose version is refused, or that rests on an instance that was replaced, may run without being ACTIVE, see below), FAILED ones have an error, dependencies are started first; shutdown leaves nothing up and reload restores what was |
| `telemetry` | `BusConsistent`, `NobodyIsSkipped`, `CountersAreExact`, `DownMeansSilent` | a handler that stays subscribed gets its event although others raise, come and go; the history is the recent one; counters are exact with several publishers and reloads; a service that is down is not called |
| `persistence` | `StoreConsistent`, `StaleOnlyAfterFailure`, `ContextsConsistent` | unless a write failed, a restart gives back the keys and lifetimes that were in memory, and the contents in JSON's form but for values changed in place since the last save; expired entries are handed out only after such a failure; contexts in the table are active unless a holder deactivated them, and keep their lifetime through saves, crashes and loads |
| `platform` | `NoCircularWait`, `AgentsInOrder`, `RequestsInOrder`, `CallsAccountedFor`, `SingletonBuiltOnce`, `CycleIsReal`, `LayersInForce` | all operations but `submit_job` take locks without circular waits; agents marked running were started, a task is executed only after each of its permissions was granted, roles changing in between, memories are written in order; a request reaches the client only when admitted and is answered with the task's final state; a call of a provider tries each once, gives up only when all of its chain failed (or at once when `None` heads it, see below) and is counted; singletons are built once and only real cycles are reported; layers take precedence as documented and validation misses nothing |

Two runs end in a violation and are the findings: each shows that what a document
says does not hold.

| run | property | what happens |
|---|---|---|
| `locks_submit` | `NoCircularWait` | `submit_job` and a report take two locks in opposite orders and deadlock |
| `storage_transaction` | `UpdatesAreTransactional` | `save()` empties the file before it fills it; a crash or a value without a JSON form leaves a torn file, which loads as an empty store |

Further divergences met while modelling are not in the list of runs. The ones
with a configuration are reproduced by running TLC on it by hand with the `MC`
module of that component; the definition of the property quotes the document.

| configuration | property | what happens |
|---|---|---|
| `TaskExecution_context.cfg` | `TargetSeesContext` | a job with a timeout does not see its context |
| `TaskExecution_cancel.cfg` | `CancelIsFinal` | a cancelled job runs and completes |
| `TaskExecution_timeout.cfg` | `TimeoutEndsExecution` | a timeout does not end a hanging target |
| `DistributedWorkers_stop.cfg` | `NoOrphan` | a worker that stops gracefully takes its queued jobs with it |
| `DistributedWorkers_faults.cfg` with this invariant in place of its own | `ClearKeepsRetriedJobs` | `clear_jobs` forgets a job that is about to be retried |
| `DistributedWorkers_suspended.cfg` | `SuspensionIsTemporary` | one late heartbeat suspends a worker for good |
| `Scheduler_unschedule.cfg` | `NoResurrection` | an unscheduled job comes back after a reload |
| `Scheduler_limit.cfg` | `MaxRunsIsAMaximum` | a reload during a tick lets a job exceed `max_runs` |
| `Scheduler_join.cfg` | `OldLoopsStop` | an old polling thread is revived by the next `initialize` |
| `ServiceLifecycle_crossed.cfg` | `StartRespectsDependencies` | a `stop` called by a handler of an event that a service publishes from its `initialize` (`plugins/registry.py:253`) takes the active services down; the loop goes on, activates the rest over them (`service_manager.py:139`) and sets RUNNING |
| `Platform_fallback.cfg` | `ChainIsTriedOnFailure` | the first listed provider is removed before `get_provider` looks it up (`base.py:269`): `None` heads the providers to try, `p.name` raises in the `except` branch (`base.py:328`) and no fallback is tried |
| `ServiceLifecycle_crossed.cfg` with this invariant in place of its own | `NoPoolAfterShutdown` | the event bus makes a pool after the runtime stopped |
| `PluginRegistry_cycle.cfg` | `NoRunawayRecursion` | a FAILED plugin of a circular dependency is started without validation and recurses to the interpreter's limit |
| `Contexts_all.cfg` with this property in place of its own | `DeletedIsInactive` | a context that was loaded over and then deleted stays active in its old holder's hands |
| `Platform_all.cfg` with this property in place of its own | `DefaultsKept` | the default of a schema replaces one that was there |
| `Platform_all.cfg` with this property in place of its own | `CheckedAgentExecutes` | the agent that executes is not the one whose permissions were checked |
| `PluginRegistry_all.cfg` with this property changed | `RunningIsActive` without `AdmitsVersion` | a plugin whose version is refused is FAILED and yet can be started (`start_plugin` does not validate a FAILED plugin, `registry.py:297`); the next `initialize` marks it FAILED while it runs (`registry.py:351`), and nothing stops it any more |
| `PluginRegistry_all.cfg` with this property changed | `RunningIsActive` without `outdated` | an instance is replaced by one with other dependencies (a cycle, or one that is not registered) while a plugin that depends on it runs; the next `initialize` marks that plugin FAILED (`registry.py:349-354`) while it runs, and a `reload` does not bring it back |
| `ServiceLifecycle_all.cfg` with this property changed | `RunningIsComplete` without `crossed` | RUNNING over stopped services, the state that `ServiceLifecycle_crossed.cfg` leads to |
| `Contexts_all.cfg` with this property changed | `RestartGivesMemory` without `changed` | `update_context_metadata`, `add_tags`, or a caller that changes a value it gave to `set` or got from `get`, changes the store in memory and saves nothing (`context/engine.py:119`, 125, 298, 313): a restart gives the old values |
| `Contexts_all.cfg` with this property changed | `TableIsActive` without `off` | `deactivate` of a held context (`context/engine.py:58`) leaves an inactive one in the table, and `save` stores it as such |
| `Platform_all.cfg` with this property changed | `MetricsAddUp` without `strays` | a reload between the two increments of a failed attempt leaves an error without its request |
| `Scheduler_all.cfg` with `MaxRuns` 2 and `MaxTime` 1 for both jobs | `AtMostMaxRuns` for the jobs of `CronMayEnd` too | a tick that ends in the ValueError of a cron expression has counted the run in memory and saves nothing; after a restart the job exceeds `max_runs` without any crash |
| none | `DueJobsAreTriggered` without its second premise | a cron expression without a next time starves the jobs behind it |
| none | `StoppedInOrder` without `HasOrder` | a dependency that is not registered turns the order of a shutdown around |
| none | none | the agent runtime records its metrics through methods that the registry does not have (`runtime.py:305`, 323, 329); the exception is swallowed, and the metrics of `docs/agent_runtime.md:95` stay empty |

## 4. Bounds and fairness

* Engine: two jobs with different priorities, creation times and retries, one
  with a timeout, one submitted twice (`MaxSubmits`) with a context that may
  raise SystemExit; a pool of two workers and a third thread, so that a new pool
  and a zombie of the pool before it run together; one shutdown
  (`MaxShutdowns`). Two threads on one job, and an old and a new pool, are all
  the sharing the properties speak of.
* Workers: with crashes two nodes and two jobs; with late heartbeats, stops,
  pauses, clearing and a manual assignment one node and one job, one start
  (`MaxStarts`) and no crash, because each of these events meets every other one
  there already. One thread of the engine. Heartbeat ages 0, 1 and 2 are the
  three cases `monitor_workers` tells apart.
* Scheduler: two jobs, one with an interval, two runs and three due times
  (`MaxTime`), so that a third run would show, one a cron job without limit that
  may end in an error; one restart (`MaxRestarts`) and one crash, reload or
  refused write (`MaxSetbacks`). Run counts saturate at `CountCap`, above every
  count the invariants compare with.
* Services: three services with any dependencies on two of them, cycles and
  missing ones included, built by three registrations in any order, also after
  the start; three calls of `start` and `stop` (`MaxCalls`), the least that
  restarts a stopped runtime, nested two deep, at any point of the loops at which
  a handler or a hook can call. `ServiceLifecycle_crossed.cfg` needs two services and two calls.
* Plugins: four plugins, one of which does not admit the version, over a choice
  of graphs (chains, a dependency registered last or never, a cycle), from which
  an instance that replaces another takes its dependencies, three calls,
  one of them from a handler, one hook that raises, six frames.
* Event bus: two publishers and two publications over a history of one entry, so
  that it overflows; one synchronous handler that raises, one in the pool, and
  the observability service, which is started or reloaded twice.
* Storage and contexts: one memory key and the keys of a parent and a child
  context, lifetimes that end before and after the clock's one tick, four calls
  (an update in place is one) and one crash or refusal. Contents are of three
  kinds: one that JSON gives back as it is, one that it changes, one that it refuses.
* Platform: three threads in the lock programs; a longer cycle would need more
  than three locks in a cycle, which the operations do not have. Two agents under
  one name, one of which asks for two permissions, two tasks, three changes of agents or roles, an audit history of
  one. A call of `generate_response` with a chain of three names and one of `generate_stream` over four
  names and as many providers, three changes (`MaxChanges`), each a registration, a removal
  or a reload of the counters: one removal empties what is preferred, one the listed name. Two
  threads and four calls of the container over four keys. Two configuration
  keys and four operations.

Deadlock is not checked where the clients may simply stop calling (`services`,
`plugins`, `telemetry`, `persistence`, `platform`); circular waits are what
`NoCircularWait` is about. Symmetry is used only for threads that are
interchangeable, in runs without liveness properties.

Fairness: the operating system runs every thread (weak fairness of the steps of
workers, of the polling thread, of the monitor and of the caller of `shutdown`).
That targets return (`TargetFairness`) is a premise of the properties that need
it. `DistFairSpec` adds heartbeats, the clock and targets. Nothing is assumed of
clients, of `initialize`, of crashes or of restarts: what depends on the engine
staying up says so in its premise (`<>[](workers # {})`).

## 5. Proofs

Every theorem is proved from the named assumptions on the constants alone, for
any sets and any bounds. Each follows the same argument: an invariant that says
what the threads and calls under way rely on, one lemma per operation that keeps
it, and the property as a consequence. The invariants were checked with TLC on
the runs before they were proved.

### Task Execution Engine (`TaskExecutionProofs`)

* `TypeCorrect`: `TypeOK`, which is inductive.
* `OnePlace`: `OnePlacePerJob`, inductive together with `TypeOK`. The lemmas
  `TakeKeepsPlace`, `RequeueKeepsPlace`, `SubmitKeepsPlace` and `DropKeepsPlace`
  say what moving a job between queue and worker does to it; every action is one
  of these moves or none.
* `Exclusive`: `ExclusiveExecution`. It is not inductive: nothing in it says
  that a running target belongs to a worker that still holds the job. The
  invariant `ExecutingMatches` says so (a pair in `executing` is a thread in
  `run` or `drain` and the job it holds), and with `OnePlacePerJob` it implies
  the theorem.
* `FinalOutcome`: the action property `OutcomeIsFinal`. Its invariant,
  `FinishedIsNowhere`, says that a job submitted once that is COMPLETED or
  FAILED is neither queued nor with a worker that could touch it again.
* `CancelledStaysDown`: the action property `CancelledNeverStarts`, from the
  types alone: `CancelledInTime` is stable because no step takes a cancellation
  back and the only way to `start` looks at it.
* `BoundedAttempts`: `AtMostRetriesPlusOne`, from `AttemptsAccounted`: where a
  job is tells how many of its starts the retry counter has not yet seen.
* `NothingLost`: `NoJobIsLost`; its two halves are inductive with the types.
* `MemoryIsTrue`: `MemoryRecordsOutcome`, inductive with `FinishedIsNowhere`: the
  outcome that is saved cannot be overtaken by another one.
* `ThreadsStayInOrder`: `ThreadsInOrder`, from `PoolKnown` (a thread that accepts
  jobs is in the engine's list) and `ContextFollowsJob`.
* `EngineImplementsLifecycle`: under `Once` (no Job object is submitted twice) the
  engine implements `JobLifecycle`, for all jobs at once. A job submitted twice
  has two lives and `JobLifecycle` describes one; the run chooses its constants
  accordingly. The mapping is `PhaseOf`; each step of the engine is, for every
  job, a step of its life or a stutter.

### Distributed workers (`DistributedWorkersProofs`)

* `NodesStayConsistent`: types, and a queued job of a node is one of its assigned
  jobs. `OncePerNode` strengthens it: only a job that stands in a node's queue
  once keeps its assignment when the node takes it.
* `CancelledStaysDownAnywhere`: cancellations stay, and both the engine's
  workers and the nodes' runners look at them first.
* `CrashesAlwaysHandled`: `CrashesAreHandled` under `CrashesOnly` (timely
  heartbeats, no stop, no clearing, no manual assignment, no target that raises
  SystemExit, each node started and each job submitted at most once). These are the circumstances of the run
  `workers_crash`; without them the configurations of section 3 lose jobs. `CrashInv`
  follows a job from queue to node to recovery and back; the manager's lock
  (`LockKept`) is what makes the two halves of a recovery one.

### Scheduler (`SchedulerProofs`)

* `DueTimesAnsweredOnce` and `MaxRunsHold`: `OneSubmissionPerDueTime` and
  `ScheduleConsistent`, both under `JoinReturns`: `shutdown`'s join does not time
  out. When it does, an old polling thread works beside a new one
  (`Scheduler_join.cfg`) and a due time can be answered twice. `ScheduleInv` counts,
  for each due time, the submissions made and those that the table, the saved
  copy, the batch under way and the text being written could still cause.

### Services (`ServiceLifecycleProofs`)

* `RegistryStaysConsistent`: the startup order exists exactly when no group of
  services blocks itself, and then it is complete and topological, for every
  dependency graph; by induction over the rounds of `Sorted`.
* `StatesStayTrue`, `DependenciesStayKept`: `LifecycleInv`. `StackOK` says where in a call
  others run and that a loop that is not crossed has only `unregister_service` inside it;
  `StartingOK` and `StoppingOK` say, of every loop on the stack that is not crossed, which
  services it has behind it and that those before it come in order; `TruthOK` says that what
  manager and orchestrator show is true or belongs to a loop under way. A crossed loop
  keeps only its list, which is enough for STOPPED: a `stop` looks at the services once
  more when its loop is over. The lemmas on frames say that pushing, changing and popping
  the innermost call leaves what is said of the others.

### Plugins (`PluginRegistryProofs`)

* `RegistryStaysTrue`, `DependenciesStartFirst`, `ShutdownsBringAllDown`. The
  invariant `PluginInv` gives each frame on the stack what it relies on while
  another call runs inside it (`WaitsOK`), when it goes on (`TopOK`) and when it
  gets an exception (`RaisedOK`): that a plugin being started is not ACTIVE, that
  each of its dependencies is ACTIVE, still to do or being started, that what
  `shutdown` has passed is down. No start of a plugin whose dependencies are all ACTIVE is
  inside another start of it (`StartWaiting`), and ACTIVE plugins depend on
  registered ones only (`GroundedOK`), so that `initialize` finds them valid; a
  plugin that rests on a replaced instance is `outdated` and leaves these claims
  until it is started again over current ones.
  All of it holds as long as no handler calls back into the registry; types
  and the errors of FAILED plugins hold even then.

### Event bus, store, contexts (`TelemetryProofs`, `ContextsProofs`)

* `BusStaysConsistent`, `NobodyIsEverSkipped`, `CountersStayExact`,
  `DownStaysSilent`, from `TelemetryInv`: what is left of a publisher's copy of
  the subscriptions, together with what it has called, is what it read; an
  increment is of the counter that is in the registry, or of one that a reload
  has thrown away.
* `StorageStaysConsistent`, `StaleAnswersConfess`, `ContextsStayConsistent`, from
  `ContextsInv`: what is being dumped and what is in the file have the keys and
  lifetimes of what is in memory, and its contents in JSON's form where `changed` has
  no key, unless a write failed; all copies of a context (objects, table, store, file) carry one
  lifetime and are active unless the id is in `off`. JSON's form is a projection
  (`JsonOf[JsonOf[v]] = JsonOf[v]`), so that another load changes nothing.

### The components of the platform run (`PlatformProofs`)

* `ConfigurationInForce` (`ConfigInv`: what is merged is what the layers say),
  `SingletonsAreBuiltOnce` (`ContainerInv`: a resolve that builds has the lock, and
  no frame below it builds the same key), `AgentsStayInOrder` and
  `RequestsStayInOrder` (`GatewayInv`), `CallsAreAccountedFor` (`ProvidersInv`: the
  counters, with what reloads have erased, are behind by exactly the calls that are about to
  count, and each call has tried, or has still to try, what it found of its chain).
* `OtherCallsNeverDeadlock`: `NoCircularWait` under `NoSubmit`, because the locks of
  all other programs are taken in one order. With `submit_job` it is false
  (`locks_submit`).

Each theorem is about the specification of its component; `MCPlatform` only puts
them side by side.

### Assumptions on the constants

Beside types and distinct names: `Threads`, `Requests`, `Ctxs` and the scheduler's
`Ids` are finite (a count or a sum over them is taken), `AgentNames` is not empty, a list
of initial subscriptions names nobody twice, the numbers that stand for "nothing"
are no members of the sets they are compared with, `MaxRuns` does not exceed
`CountCap`, and `MaxDepth > 3` (CPython's limit is 1000; the
deepest chain of calls that no recursion along dependencies prolongs, a reload
that shuts down, unloads and stops, has four frames).

### What the proofs changed

Invariants that turned out not to be inductive were strengthened; some were
false outside the bounds of their run, and the model or the property was corrected:

* a job submitted twice can be in a node's queue and assigned nowhere, so
  `QueuedOnNodeIsAssigned` is about jobs submitted once;
* `AtMostMaxRuns` leaves out the jobs whose ticks may end in a ValueError, and
  `RunningIsActive` and `ReloadRestores` leave out plugins whose version is
  refused: both are divergences of section 3, which the bounds of the runs
  had hidden. The run of the plugins now has such a plugin;
* routing in one step hid that `None` can head the providers to try, values that are
  never shared hid the updates that are not saved, handlers that wait for the end of a loop hid
  the starts over stopped services, and dependencies fixed per name hid the
  replaced instances: the models have these steps now, and the properties say
  which of their consequences they leave out (section 3);
* the container looks subclasses up in the order of its dictionary (`order`), and
  two disjuncts of the end of a task overlapped.

Definitions that the provers could not reason about were replaced by equivalent
ones: lists filtered by a recursive function (`Kept`) instead of `SelectSeq`, sums
by `Total` instead of a fold, the first match removed by `RemoveFirst`, the valid
plugins as a least closed set instead of an iteration.

### Only model-checked

* Liveness under fairness: `EveryJobSettles`, `StoppedWorkersExit`,
  `ShutdownReturns`, `EveryJobSurvivesCrashes`, `DueJobsAreTriggered`.
* `CycleIsReal`, which speaks of the transitive closure of a relation: its
  definition in the community modules is beyond the provers.
* `ReloadRestores`, the second half of `SweepsEndWell`: when dependency chains are
  longer than the recursion limit it does not hold, and a limit in terms of their
  length needs an argument about the depth of the stack that is not done yet.

Induction over data with an operator as parameter is beyond the provers. Where a
recursive function had to be reasoned about (`Sorted`, `Kept`, `Total`), its values
are a set of naturals with a least counterexample (`LeastNatural`).

## 6. Not modelled, and the plan

Left out of the models: logging, event payloads, results and errors of jobs, and
the variables of contexts. Outcomes the models leave to nondeterminism: whether a target,
hook, provider or handler returns, raises or hangs, whether storage accepts a
write, when time passes. The branch of the scheduler for a client without an
execution engine is left out: a client always has one.

Not modelled:

* the SDK client (`sdk/`): it forwards to the components and keeps no state;
* `compatibility`, `contracts`: data classes and warnings; whether a plugin's
  version condition holds is the constant `Compatible`;
* provider adapters: network I/O; a call's outcome is a choice in `Providers`;
* saved agent states, inboxes and capabilities: tables that only their caller
  reads and writes;
* the in-memory storage and the short-term memory: the same operations as
  `Storage` without a file;
* credentials, masking, the parsing and flattening of configuration files and the
  cron arithmetic: conversions of text;
* gauges, histograms, process and API metrics: the same registry of metrics as
  the counters, without further control.

Next:

1. `ReloadRestores` as a theorem: it needs a bound on the depth of recursion from
   the length of the dependency chains, and an invariant about the plugins that
   `reload` still has to start.
2. `CycleIsReal`: that a path of dependencies on the stack of a thread is one of
   the registered graph, with paths in place of the transitive closure.
3. The scheduler and a polling thread that outlives its join: what still holds.
4. `CronTime`: `parse_cron_field` and `get_next_cron_time` against a definition of
   "the next matching minute".
5. The comparison of versions as a pure algorithm.
