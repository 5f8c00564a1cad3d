--------------------------- MODULE PluginRegistry ---------------------------
(***************************************************************************)
(* The plugin registry (plugins/registry.py): registration, recursive      *)
(* loading and starting along the dependencies, stopping, unloading,       *)
(* reloading.                                                              *)
(*                                                                         *)
(* Every operation holds the registry's re-entrant lock, so other threads  *)
(* see it as one step.  The thread inside it does not: operations call one *)
(* another, hooks of plugins raise, and every change of state is published *)
(* to handlers that may call the registry again.  The calls under way form *)
(* a stack of frames, and `raised' is an exception on its way up.          *)
(***************************************************************************)
EXTENDS Integers, Sequences, SequencesExt, FiniteSets

CONSTANTS
    Plugins,      \* names of plugins
    NoPlugin,     \* the frame of an operation on the whole registry
    Orders,       \* the orders of registration to explore
    Graphs,       \* the dependency lists to explore
    Compatible,   \* plugins whose first instance admits this version
    MaxDepth,     \* the interpreter's recursion limit, in frames
    MaxCalls,     \* bound: calls by clients and handlers
    MaxNested,    \* bound: calls by handlers, from within a call
    MaxFaults     \* bound: exceptions raised by hooks

ASSUME PluginAssumption ==
    /\ NoPlugin \notin Plugins
    /\ Orders \subseteq Seq(Plugins) /\ \A o \in Orders : IsInjective(o)
    /\ Graphs \subseteq [Plugins -> Seq(Plugins)]
    /\ Compatible \subseteq Plugins
    /\ {MaxDepth, MaxCalls, MaxNested, MaxFaults} \subseteq Nat
    /\ MaxDepth > 3   \* a sweep inside a reload can stop and unload

VARIABLES
    plugins,   \* keys of PluginRegistry.plugins, in order
    deps,      \* YasinPlugin.dependencies of the instance registered
    admitted,  \* names whose instance's core_version_compat admits this version
    states,    \* PluginRegistry.states, "none" without an entry
    errors,    \* keys of PluginRegistry.errors
    stack,     \* the calls under way, innermost last
    raised,    \* an exception is propagating into the innermost call
    running,   \* history: registered plugins started and not stopped since
    outdated,  \* history: plugins that were started before an instance they
               \* depend on was replaced by a different one
    wasActive, \* history: what was ACTIVE when reload was called last
    faults, calls, nested  \* history

tableVars == <<plugins, deps, admitted, states, errors>>
callVars == <<stack, raised>>
tallyVars == <<wasActive, outdated, calls, nested>>
pluginVars == <<tableVars, callVars, running, faults, tallyVars>>

PluginState == {"registered", "loaded", "active", "stopped", "failed"}

Present(p) == p \in ToSet(plugins)
StateOf(p) == IF states[p] = "none" THEN "registered" ELSE states[p]
ActivePlugins == {p \in Plugins : states[p] = "active"}
SetState(p, s) == states' = [states EXCEPT ![p] = s]

\* The ids of s that are in S, in their order.
Kept(s, S) ==
    LET kept[n \in 0..Len(s)] ==
            IF n = 0 THEN <<>>
            ELSE IF s[n] \in S THEN Append(kept[n - 1], s[n]) ELSE kept[n - 1]
    IN  kept[Len(s)]

\* V contains each plugin of base that has all its dependencies in V.
Closed(V, base) == \A q \in base : ToSet(deps[q]) \subseteq V => q \in V
\* The plugins of base all of whose dependencies, down to the last one, are in
\* base, and free of cycles: the least closed set.
Grounded(base) == {p \in Plugins : \A V \in SUBSET Plugins : Closed(V, base) => p \in V}

\* validate_dependencies succeeds.
ValidPlugins == Grounded(ToSet(plugins) \cap admitted)

\* p and all it depends on, down to the last one, are in S.
RestsOn(p, S) == \E T \in SUBSET S : p \in T /\ \A q \in T : ToSet(deps[q]) \subseteq T

-----------------------------------------------------------------------------
(* Frames *)

Frame(op, p, by) == [op |-> op, p |-> p, by |-> by, at |-> "enter", todo |-> <<>>]
Top == Last(stack)
In(op, at) == stack # <<>> /\ ~raised /\ Top.op = op /\ Top.at = at
Caught(op) == raised /\ Top.op = op
Replace(f) == Append(Front(stack), f)
At(at) == [Top EXCEPT !.at = at]
Rest == [Top EXCEPT !.todo = Tail(@)]

Continue(f) == stack' = Replace(f) /\ raised' = FALSE
Leave == stack' = Front(stack) /\ raised' = FALSE
\* Clients get the exception; the bus isolates the exceptions of handlers.
Throw == stack' = Front(stack) /\ raised' = (Top.by = "code")
\* A call from within; too deep, it raises RecursionError at once.
Invoke(f, op, p) ==
    IF Len(stack) < MaxDepth
    THEN stack' = Append(Replace(f), Frame(op, p, "code")) /\ raised' = FALSE
    ELSE stack' = Replace(f) /\ raised' = TRUE

Fails(p) ==
    /\ SetState(p, "failed")
    /\ errors' = errors \cup {p}
Fault == faults < MaxFaults /\ faults' = faults + 1

UnchangedTable == UNCHANGED <<tableVars, running, faults, tallyVars>>

-----------------------------------------------------------------------------
(* Calls by clients, and by handlers of the events a call publishes *)

MayCall ==
    /\ calls < MaxCalls /\ calls' = calls + 1
    /\ \/ stack = <<>> /\ UNCHANGED nested
       \/ stack # <<>> /\ ~raised /\ Top.at \in {"done", "failed"} /\ nested < MaxNested
          /\ nested' = nested + 1

\* The instance registered for p, with its own dependencies and version: what
\* runs on top of another instance is out of date, unless nothing has changed.
Instance(p) ==
    /\ \E g \in Graphs : deps' = [deps EXCEPT ![p] = g[p]]
    /\ admitted' \in {admitted \cup {p}, admitted \ {p}}
    /\ outdated' = IF <<deps, admitted>>' = <<deps, admitted>> THEN outdated
                   ELSE outdated \cup {q \in running \ {p} : ~RestsOn(q, Plugins \ {p})}

\* Mutant: a name already there is listed twice.
RegisterTwice(p) ==
    /\ MayCall
    /\ plugins' = Append(plugins, p)
    /\ Instance(p)
    /\ SetState(p, "registered")
    /\ errors' = errors \ {p}
    /\ running' = running \ {p}
    /\ UNCHANGED <<callVars, wasActive, faults>>

\* register: an instance already there is replaced, whatever its state, and is
\* not stopped.
Register(p) ==
    /\ MayCall
    /\ plugins' = IF Present(p) THEN plugins ELSE Append(plugins, p)
    /\ Instance(p)
    /\ SetState(p, "registered")
    /\ errors' = errors \ {p}
    /\ running' = running \ {p}
    /\ UNCHANGED <<callVars, wasActive, faults>>

Call(op, p) ==
    /\ MayCall
    /\ stack' = Append(stack, Frame(op, p, "client"))
    /\ UNCHANGED <<tableVars, raised, running, outdated, wasActive, faults>>

\* The handlers of the last event have returned.
Return ==
    /\ stack # <<>> /\ ~raised
    /\ \/ Top.at = "done" /\ Leave
       \/ Top.at = "failed" /\ Throw
    /\ UnchangedTable

-----------------------------------------------------------------------------
(* load_plugin *)

LoadEnter ==
    LET p == Top.p IN
    /\ In("load", "enter")
    /\ \/ ~Present(p) /\ Throw /\ UNCHANGED <<states, errors>>
       \/ Present(p) /\ StateOf(p) # "registered" /\ Leave /\ UNCHANGED <<states, errors>>
       \/ /\ Present(p) /\ StateOf(p) = "registered" /\ p \notin ValidPlugins
          /\ Fails(p) /\ Continue(At("failed"))
       \/ /\ Present(p) /\ StateOf(p) = "registered" /\ p \in ValidPlugins
          /\ Continue([At("deps") EXCEPT !.todo = deps[p]]) /\ UNCHANGED <<states, errors>>
    /\ UNCHANGED <<plugins, deps, admitted, running, faults, tallyVars>>

\* A dependency that is FAILED or STOPPED counts as loaded.
LoadDependency ==
    /\ In("load", "deps") /\ Top.todo # <<>>
    /\ IF StateOf(Head(Top.todo)) = "registered"
       THEN Invoke(Rest, "load", Head(Top.todo))
       ELSE Continue(Rest)
    /\ UnchangedTable

LoadHooks ==
    LET p == Top.p IN
    /\ In("load", "deps") /\ Top.todo = <<>>
    /\ \/ /\ SetState(p, "loaded") /\ errors' = errors \ {p}
          /\ Continue(At("done")) /\ UNCHANGED faults
       \/ Fault /\ Fails(p) /\ Continue(At("failed"))
    /\ UNCHANGED <<plugins, deps, admitted, running, tallyVars>>

LoadCatches ==
    /\ Caught("load")
    /\ Fails(Top.p) /\ Continue(At("failed"))
    /\ UNCHANGED <<plugins, deps, admitted, running, faults, tallyVars>>

-----------------------------------------------------------------------------
(* start_plugin *)

StartEnter ==
    LET p == Top.p
        inside == [At("deps") EXCEPT !.todo = deps[p]]
    IN
    /\ In("start", "enter")
    /\ \/ ~Present(p) /\ Throw
       \/ Present(p) /\ StateOf(p) = "active" /\ Leave
       \/ Present(p) /\ StateOf(p) = "registered" /\ Invoke(inside, "load", p)
       \/ Present(p) /\ StateOf(p) \in {"loaded", "stopped", "failed"} /\ Continue(inside)
    /\ UnchangedTable

\* Mutant: a dependency that has been loaded is good enough.
StartDependencyLoaded ==
    /\ In("start", "deps") /\ Top.todo # <<>>
    /\ IF StateOf(Head(Top.todo)) \notin {"active", "loaded"}
       THEN Invoke(Rest, "start", Head(Top.todo))
       ELSE Continue(Rest)
    /\ UnchangedTable

StartDependency ==
    /\ In("start", "deps") /\ Top.todo # <<>>
    /\ IF StateOf(Head(Top.todo)) # "active"
       THEN Invoke(Rest, "start", Head(Top.todo))
       ELSE Continue(Rest)
    /\ UnchangedTable

StartHook ==
    LET p == Top.p IN
    /\ In("start", "deps") /\ Top.todo = <<>>
    /\ \/ /\ SetState(p, "active") /\ running' = running \cup {p}
          /\ outdated' = IF ToSet(deps[p]) \cap outdated = {} THEN outdated \ {p}
                         ELSE outdated \cup {p}
          /\ Continue(At("done")) /\ UNCHANGED <<errors, faults>>
       \/ Fault /\ Fails(p) /\ Continue(At("failed")) /\ UNCHANGED <<running, outdated>>
    /\ UNCHANGED <<plugins, deps, admitted, wasActive, calls, nested>>

\* Nothing catches what load_plugin or the start of a dependency raises.
StartThrows == Caught("start") /\ Throw /\ UnchangedTable

-----------------------------------------------------------------------------
(* stop_plugin and unload_plugin *)

\* A stop hook that raises has stopped what it could.
Stop ==
    LET p == Top.p IN
    /\ In("stop", "enter")
    /\ \/ ~Present(p) /\ Throw /\ UNCHANGED <<states, errors, running, faults>>
       \/ /\ Present(p) /\ StateOf(p) # "active"
          /\ Leave /\ UNCHANGED <<states, errors, running, faults>>
       \/ /\ Present(p) /\ StateOf(p) = "active"
          /\ running' = running \ {p}
          /\ \/ /\ SetState(p, "stopped") /\ Continue(At("done"))
                /\ UNCHANGED <<errors, faults>>
             \/ Fault /\ Fails(p) /\ Continue(At("failed"))
    /\ UNCHANGED <<plugins, deps, admitted, tallyVars>>

\* Mutant: an ACTIVE plugin is unloaded without being stopped.
UnloadEnterActive ==
    LET p == Top.p IN
    /\ In("unload", "enter")
    /\ \/ ~Present(p) /\ Throw
       \/ Present(p) /\ StateOf(p) = "registered" /\ Leave
       \/ Present(p) /\ StateOf(p) # "registered" /\ Continue(At("hook"))
    /\ UnchangedTable

UnloadEnter ==
    LET p == Top.p IN
    /\ In("unload", "enter")
    /\ \/ ~Present(p) /\ Throw
       \/ Present(p) /\ StateOf(p) = "registered" /\ Leave
       \/ Present(p) /\ StateOf(p) = "active" /\ Invoke(At("hook"), "stop", p)
       \/ Present(p) /\ StateOf(p) \in {"loaded", "stopped", "failed"} /\ Continue(At("hook"))
    /\ UnchangedTable

UnloadHook ==
    LET p == Top.p IN
    /\ In("unload", "hook")
    /\ \/ SetState(p, "registered") /\ Continue(At("done")) /\ UNCHANGED <<errors, faults>>
       \/ Fault /\ Fails(p) /\ Continue(At("failed"))
    /\ UNCHANGED <<plugins, deps, admitted, running, tallyVars>>

UnloadThrows == Caught("unload") /\ Throw /\ UnchangedTable

-----------------------------------------------------------------------------
(* unregister *)

Dependents(p) == {q \in ToSet(plugins) \ {p} : p \in ToSet(deps[q])}

UnregisterEnter ==
    LET p == Top.p IN
    /\ In("unregister", "enter")
    /\ \/ (~Present(p) \/ Dependents(p) # {}) /\ Throw
       \/ /\ Present(p) /\ Dependents(p) = {}
          /\ \/ states[p] = "active" /\ Invoke(At("unload"), "stop", p)
             \/ states[p] \in {"loaded", "stopped"} /\ Invoke(At("remove"), "unload", p)
             \/ states[p] \in {"registered", "failed", "none"} /\ Continue(At("remove"))
    /\ UnchangedTable

UnregisterUnload ==
    /\ In("unregister", "unload")
    /\ Invoke(At("remove"), "unload", Top.p)
    /\ UnchangedTable

\* A handler may have removed it before; then the deletion raises KeyError.
UnregisterRemove ==
    LET p == Top.p IN
    /\ In("unregister", "remove")
    /\ IF Present(p)
       THEN /\ plugins' = Kept(plugins, Plugins \ {p})
            /\ SetState(p, "none") /\ errors' = errors \ {p}
            /\ running' = running \ {p}
            /\ Leave
       ELSE Throw /\ UNCHANGED <<plugins, states, errors, running>>
    /\ UNCHANGED <<deps, admitted, faults, tallyVars>>

UnregisterCatches == Caught("unregister") /\ Continue(Top) /\ UnchangedTable

-----------------------------------------------------------------------------
(* The service: initialize, shutdown, reload *)

Began(op, list) ==
    /\ In(op, "enter")
    /\ Continue([At("each") EXCEPT !.todo = list])
    /\ UnchangedTable

InitializeEach ==
    LET p == Head(Top.todo) IN
    /\ In("initialize", "each")
    /\ \/ Top.todo = <<>> /\ Leave /\ UNCHANGED <<states, errors>>
       \/ /\ Top.todo # <<>> /\ p \in ValidPlugins
          /\ Invoke([Rest EXCEPT !.p = p], "load", p) /\ UNCHANGED <<states, errors>>
       \/ Top.todo # <<>> /\ p \notin ValidPlugins /\ Fails(p) /\ Continue(Rest)
    /\ UNCHANGED <<plugins, deps, admitted, running, faults, tallyVars>>

\* Mutant: the error text is not kept.
InitializeCatchesUntold ==
    /\ Caught("initialize")
    /\ SetState(Top.p, "failed") /\ errors' = errors \ {Top.p}
    /\ Continue(Top)
    /\ UNCHANGED <<plugins, deps, admitted, running, faults, tallyVars>>

InitializeCatches ==
    /\ Caught("initialize")
    /\ Fails(Top.p) /\ Continue(Top)
    /\ UNCHANGED <<plugins, deps, admitted, running, faults, tallyVars>>

\* Mutant: plugins that are ACTIVE are skipped as if they were down.
ShutdownEachLoaded ==
    LET p == Head(Top.todo) IN
    /\ In("shutdown", "each")
    /\ \/ Top.todo = <<>> /\ Leave
       \/ Top.todo # <<>> /\ states[p] \in {"loaded", "stopped"} /\ Invoke(Rest, "unload", p)
       \/ Top.todo # <<>> /\ states[p] \notin {"loaded", "stopped"} /\ Continue(Rest)
    /\ UnchangedTable

\* One plugin after the other, in reverse order of registration.
ShutdownEach ==
    LET p == Head(Top.todo) IN
    /\ In("shutdown", "each")
    /\ \/ Top.todo = <<>> /\ Leave
       \/ Top.todo # <<>> /\ states[p] = "active" /\ Invoke(At("unload"), "stop", p)
       \/ Top.todo # <<>> /\ states[p] # "active" /\ Continue(At("unload"))
    /\ UnchangedTable

ShutdownUnload ==
    LET p == Head(Top.todo)
        next == [Rest EXCEPT !.at = "each"]
    IN
    /\ In("shutdown", "unload")
    /\ IF states[p] \in {"loaded", "stopped"} THEN Invoke(next, "unload", p)
                                              ELSE Continue(next)
    /\ UnchangedTable

\* An exception skips what is left to do for this plugin.
ShutdownCatches ==
    /\ Caught("shutdown")
    /\ Continue(IF Top.at = "unload" THEN [Rest EXCEPT !.at = "each"] ELSE Top)
    /\ UnchangedTable

ReloadShutdown ==
    /\ In("reload", "enter")
    /\ Invoke([At("init") EXCEPT !.todo = Kept(plugins, ActivePlugins)], "shutdown", NoPlugin)
    /\ wasActive' = ActivePlugins
    /\ UNCHANGED <<tableVars, running, outdated, faults, calls, nested>>

\* Mutant: what has to be started again is listed after the shutdown.
ReloadInitializeLate ==
    /\ In("reload", "init")
    /\ Invoke([At("each") EXCEPT !.todo = Kept(plugins, ActivePlugins)], "initialize", NoPlugin)
    /\ UnchangedTable

ReloadInitialize ==
    /\ In("reload", "init")
    /\ Invoke(At("each"), "initialize", NoPlugin)
    /\ UnchangedTable

ReloadStart ==
    LET p == Head(Top.todo) IN
    /\ In("reload", "each")
    /\ \/ Top.todo = <<>> /\ Leave
       \/ /\ Top.todo # <<>> /\ Present(p) /\ states[p] # "failed"
          /\ Invoke(Rest, "start", p)
       \/ /\ Top.todo # <<>> /\ ~(Present(p) /\ states[p] # "failed")
          /\ Continue(Rest)
    /\ UnchangedTable

ReloadCatches ==
    /\ Caught("reload")
    /\ IF Top.at = "each" THEN Continue(Top) ELSE Throw
    /\ UnchangedTable

-----------------------------------------------------------------------------
(* The specification *)

\* Some plugins have been registered, in some order, and nothing else done.
PluginInit ==
    /\ plugins \in Orders
    /\ deps \in Graphs /\ admitted = Compatible
    /\ states = [p \in Plugins |-> IF Present(p) THEN "registered" ELSE "none"]
    /\ errors = {} /\ stack = <<>> /\ raised = FALSE
    /\ running = {} /\ outdated = {} /\ wasActive = {}
    /\ faults = 0 /\ calls = 0 /\ nested = 0

\* discover registers the classes it finds one after the other, each in a call
\* of its own; what it cannot import or make an instance of it skips.
discover == \E p \in Plugins : Register(p)

Client ==
    \/ discover
    \/ \E p \in Plugins : \E op \in {"load", "start", "stop", "unload", "unregister"} : Call(op, p)
    \/ \E op \in {"initialize", "shutdown", "reload"} : Call(op, NoPlugin)

PluginStep ==
    \/ Return
    \/ LoadEnter \/ LoadDependency \/ LoadHooks \/ LoadCatches
    \/ StartEnter \/ StartDependency \/ StartHook \/ StartThrows
    \/ Stop \/ UnloadEnter \/ UnloadHook \/ UnloadThrows
    \/ UnregisterEnter \/ UnregisterUnload \/ UnregisterRemove \/ UnregisterCatches
    \/ Began("initialize", plugins) \/ InitializeEach \/ InitializeCatches
    \/ Began("shutdown", Reverse(plugins)) \/ ShutdownEach \/ ShutdownUnload \/ ShutdownCatches
    \/ ReloadShutdown \/ ReloadInitialize \/ ReloadStart \/ ReloadCatches

PluginNext == Client \/ PluginStep
PluginSpec == PluginInit /\ [][PluginNext]_pluginVars

-----------------------------------------------------------------------------
(* Properties *)

\* Every variable has its type.
PluginTypeOK ==
    /\ plugins \in Seq(Plugins) /\ IsInjective(plugins)
    /\ deps \in [Plugins -> Seq(Plugins)]
    /\ states \in [Plugins -> PluginState \cup {"none"}]
    /\ {admitted, errors, running, outdated, wasActive} \subseteq SUBSET Plugins
    /\ raised \in BOOLEAN /\ (raised => stack # <<>>)
    /\ {faults, calls, nested} \subseteq Nat

\* health() finds the error of every FAILED plugin (registry.py:385), also for
\* one that handlers unregistered while it was being loaded.
FailuresAreExplained == \A p \in Plugins : states[p] = "failed" => p \in errors

\* As long as no handler calls back, a plugin is started only when everything
\* it depends on is ACTIVE, whatever failed before (registry.py:301-305).
StartsAfterDependencies ==
    [][\A p \in Plugins : states[p] # "active" /\ states'[p] = "active" /\ nested = 0 =>
          \A d \in ToSet(deps[p]) : states[d] = "active"]_pluginVars

\* p and all it depends on admit this version.
AdmitsVersion(p) == RestsOn(p, admitted)

\* The registry knows what runs: as long as no handler calls back, an ACTIVE
\* plugin has been started and not stopped since, through failures of every hook,
\* exceptions of nested calls and the replacement of instances; and everything
\* that runs is ACTIVE, unless the version refuses it or an instance below it has
\* been replaced since it was started (registry.py:310, 332, 349-354, 372).
RunningIsActive ==
    nested = 0 =>
        /\ ActivePlugins \subseteq running
        /\ \A p \in running \ outdated : AdmitsVersion(p) => p \in ActivePlugins

\* The registry tells the truth about its plugins and their failures.
RegistryIsTrue == PluginTypeOK /\ FailuresAreExplained /\ RunningIsActive

\* When shutdown returns, no plugin is left LOADED, ACTIVE or STOPPED, although
\* the exceptions of single plugins are swallowed (registry.py:356-367).
ShutdownBringsAllDown ==
    stack # <<>> /\ Len(stack') < Len(stack) /\ Top.op = "shutdown" /\ nested = 0 =>
        \A p \in Plugins : states[p] \in {"registered", "failed", "none"}

\* Reloading without faults and without handlers that call back restores the
\* ACTIVE plugins that the version admits and below which no instance has been
\* replaced: the frame of reload remembers them, and its last step finds them
\* ACTIVE again (registry.py:369-380).
ReloadRestores ==
    In("reload", "each") /\ Top.todo = <<>> /\ faults = 0 /\ nested = 0 =>
        \A p \in wasActive \ outdated : AdmitsVersion(p) => p \in ActivePlugins

\* The operations on all plugins at once end in the state they promise.
SweepsEndWell == [][ShutdownBringsAllDown /\ ReloadRestores]_pluginVars

-----------------------------------------------------------------------------
(* What the documentation says and the code does not do *)

\* docs/plugins.md:78 "If any circular reference is detected (...), a circular
\* dependency error is raised, preventing deadlocks or infinite loops.": without
\* handlers that call back, no start of a plugin is inside another one.
NoRunawayRecursion ==
    nested = 0 => \A i, k \in DOMAIN stack :
        stack[i].op = "start" /\ stack[k].op = "start" /\ stack[i].p = stack[k].p => i = k
=============================================================================
