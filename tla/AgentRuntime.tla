---------------------------- MODULE AgentRuntime ----------------------------
(***************************************************************************)
(* AgentRuntime (agents/runtime.py) with the TaskExecutor it delegates to  *)
(* (agents/executor.py), the permission checks of SecurityManager          *)
(* (security/manager.py) and the saving of results to memory (sdk/         *)
(* client.py).                                                             *)
(*                                                                         *)
(* Threads execute tasks while others register, replace and remove agents  *)
(* and start and stop them all.  The runtime's lock protects the table;    *)
(* executing a task takes it only for its two lookups, so between the      *)
(* permission check and the execution the table may change.  start_agents  *)
(* and stop_agents hold it for their whole loop, one agent at a step.      *)
(***************************************************************************)
EXTENDS Integers, Sequences, FiniteSetsExt

CONSTANTS Tasks,       \* tasks, each executed by a thread of its own
          Agents,      \* agent objects
          AgentNames,
          NameOf,      \* [Agents -> AgentNames]: several objects may share one
          Needs,       \* [Agents -> Seq(Permissions)]: agent.permissions
          SelfMarking, \* agents whose start() and stop() keep self.running
          Permissions,
          NoAgent,
          MaxAudit,    \* AuditLogger.max_history_size
          MaxManage    \* bound: calls that change agents or roles, or are audited

ASSUME AgentAssumption == /\ NameOf \in [Agents -> AgentNames] /\ AgentNames # {}
                          /\ \A a \in Agents : Needs[a] \in Seq(Permissions)
                          /\ SelfMarking \subseteq Agents
                          /\ NoAgent \notin Agents
                          /\ MaxAudit \in Nat \ {0} /\ MaxManage \in Nat

VARIABLES agents,   \* AgentRuntime._agents: name -> agent
          running,  \* agent.running
          started,  \* whether the agent's start() returned after its last stop()
          sweep,    \* start_agents or stop_agents under way: what and for whom
          roles,    \* permissions that the registered roles give to the subject
          audit,    \* AuditLogger._history
          task,     \* the state of each execution
          managed,  \* the number of those calls so far
          shortMem, \* tasks whose result is in short-term memory
          longMem   \* tasks whose result is in long-term memory

agVars == <<agents, running, started, sweep, roles, audit, task, managed, shortMem, longMem>>

NoSweep == [op |-> "none", todo |-> {}, now |-> NoAgent]
Unlocked == sweep = NoSweep

NewTask(t) == [pc |-> "new", name |-> CHOOSE n \in AgentNames : TRUE, subject |-> FALSE,
               status |-> "pending", checked |-> NoAgent, agent |-> NoAgent,
               next |-> 1, granted |-> {}]

AgInit == /\ agents = [n \in AgentNames |-> NoAgent]
          /\ running = [a \in Agents |-> FALSE] /\ started = [a \in Agents |-> FALSE]
          /\ sweep = NoSweep /\ roles = {} /\ audit = <<>>
          /\ task = [t \in Tasks |-> NewTask(t)]
          /\ managed = 0 /\ shortMem = {} /\ longMem = {}

----------------------------------------------------------------------------
(* SecurityManager                                                         *)

\* Mutant: nothing is dropped.
LoggedAll(h, es) == h \o es

\* log_event for each of es: append, then drop the oldest beyond the limit
Logged(h, es) == SubSeq(h \o es, Max({1, Len(h \o es) - MaxAudit + 1}), Len(h \o es))

\* register_role replaces what the role grants, and is audited itself
register_role(ps) ==
    /\ roles' = ps
    /\ audit' = Logged(audit, <<"SUCCESS">>)
    /\ UNCHANGED <<agents, running, started, sweep, task, shortMem, longMem>>

\* Mutant: the decision is made without the roles.
GrantsAll(p) == p \in Permissions

\* evaluate_all over the roles of the subject
Grants(p) == p \in roles

\* one decision of a validate_ method: GRANTED, or DENIED and an exception
Verdict(p) == IF Grants(p) THEN "GRANTED" ELSE "DENIED"

\* the decisions about a list of permissions, which end at the first denial
Verdicts(ps) == LET denied == {i \in 1..Len(ps) : ~Grants(ps[i])}
                IN  [i \in 1..Min(denied \cup {Len(ps)}) |-> Verdict(ps[i])]

\* validate_service_access, validate_plugin_access, validate_agent_capability
\* and validate_agent_tool, called by a client for its own purposes
validate_access(p) == /\ audit' = Logged(audit, <<Verdict(p)>>)
                      /\ UNCHANGED <<agents, running, started, sweep, roles, task, shortMem, longMem>>

\* validate_api_access: a key that belongs to no subject is denied unseen
validate_api_access(p, known) ==
    /\ audit' = Logged(audit, <<IF known THEN Verdict(p) ELSE "DENIED">>)
    /\ UNCHANGED <<agents, running, started, sweep, roles, task, shortMem, longMem>>

----------------------------------------------------------------------------
(* Registry and lifecycle                                                  *)

\* register_agent: with a subject the permissions are checked before the lock
\* is taken; the agent that had the name is replaced and not stopped
register_agent(a, subject) ==
    /\ Unlocked /\ agents[NameOf[a]] # a
    /\ audit' = IF subject THEN Logged(audit, Verdicts(Needs[a])) ELSE audit
    /\ agents' = IF subject /\ \E i \in DOMAIN Needs[a] : ~Grants(Needs[a][i])
                   THEN agents ELSE [agents EXCEPT ![NameOf[a]] = a]
    /\ UNCHANGED <<running, started, sweep, roles, task, shortMem, longMem>>

remove_agent(n) == /\ Unlocked /\ agents[n] # NoAgent
                   /\ agents' = [agents EXCEPT ![n] = NoAgent]
                   /\ UNCHANGED <<running, started, sweep, roles, audit, task, shortMem, longMem>>

Registered == {agents[n] : n \in AgentNames} \ {NoAgent}

BeginSweep(op) == /\ Unlocked
                  /\ sweep' = [op |-> op, todo |-> Registered, now |-> NoAgent]
                  /\ UNCHANGED <<agents, running, started, roles, audit, task, shortMem, longMem>>

\* the hook of an agent has returned; the flag is set by the step after
Hooked(a) == sweep' = [sweep EXCEPT !.now = a]

\* Mutant: the agent is marked before its start() is known to have returned.
StartOneMarked(a) ==
    \/ Hooked(a) /\ started' = [started EXCEPT ![a] = TRUE] /\ UNCHANGED running
    \/ running' = [running EXCEPT ![a] = TRUE] /\ sweep' = NoSweep /\ UNCHANGED started

\* start_agents for one agent that is not running; an exception of its
\* start() ends the loop
StartOne(a) ==
    \/ Hooked(a) /\ started' = [started EXCEPT ![a] = TRUE] /\ UNCHANGED running
    \/ sweep' = NoSweep /\ UNCHANGED <<running, started>>

\* stop_agents for one agent that is running; an exception of its stop(),
\* raised before anything was undone, ends the loop
StopOne(a) ==
    \/ Hooked(a) /\ started' = [started EXCEPT ![a] = FALSE] /\ UNCHANGED running
    \/ sweep' = NoSweep /\ UNCHANGED <<running, started>>

SweepOne(a) == /\ a \in sweep.todo /\ sweep.now = NoAgent
               /\ CASE sweep.op = "start" /\ ~running[a] -> StartOne(a)
                    [] sweep.op = "stop" /\ running[a]   -> StopOne(a)
                    [] OTHER -> /\ sweep' = [sweep EXCEPT !.todo = @ \ {a}]
                                /\ UNCHANGED <<running, started>>
               /\ UNCHANGED <<agents, roles, audit, task, shortMem, longMem>>

\* agent.running = True or False, after the hook and under the same lock,
\* which the executor does not take
MarkOne(a) == /\ sweep.now = a
              /\ running' = [running EXCEPT ![a] = (sweep.op = "start")]
              /\ sweep' = [sweep EXCEPT !.todo = @ \ {a}, !.now = NoAgent]
              /\ UNCHANGED <<agents, started, roles, audit, task, shortMem, longMem>>

EndSweep == /\ ~Unlocked /\ sweep.todo = {}
            /\ sweep' = NoSweep
            /\ UNCHANGED <<agents, running, started, roles, audit, task, shortMem, longMem>>

----------------------------------------------------------------------------
(* Executing a task                                                        *)

At(t, pc) == task[t].pc = pc
Goes(t, r) == task' = [task EXCEPT ![t] = r]
Fails(t)   == Goes(t, [task[t] EXCEPT !.pc = "return", !.status = "failed"])
Rest       == UNCHANGED <<agents, running, started, sweep, roles, shortMem, longMem>>

\* client.execute_task, by a caller with or without a subject in its context
Submit(t, n, subject) ==
    /\ At(t, "new")
    /\ Goes(t, [task[t] EXCEPT !.pc = "lookup", !.name = n, !.subject = subject])
    /\ UNCHANGED <<audit, managed>> /\ Rest

\* execute_agent_task: the first lookup
Lookup(t) ==
    /\ At(t, "lookup") /\ Unlocked
    /\ LET a == agents[task[t].name]
       IN  IF a = NoAgent THEN Fails(t)
           ELSE Goes(t, [task[t] EXCEPT !.pc = "check", !.checked = a])
    /\ UNCHANGED audit /\ Rest

\* _validate_permission, one permission after the other; without a subject
\* in the context there is nothing to check
Check(t) ==
    LET p == Needs[task[t].checked][task[t].next]
        next == [task[t] EXCEPT !.next = @ + 1,
                                !.granted = IF p \in roles THEN @ \cup {p} ELSE @]
    IN  /\ At(t, "check") /\ task[t].next <= Len(Needs[task[t].checked])
        /\ IF ~task[t].subject
             THEN Goes(t, [task[t] EXCEPT !.next = @ + 1]) /\ UNCHANGED audit
             ELSE /\ audit' = Logged(audit, <<Verdict(p)>>)
                  /\ IF Grants(p) THEN Goes(t, next) ELSE Fails(t)
        /\ Rest

\* TaskExecutor.execute_task: running, planned, and looked up once more
Plan(t) ==
    /\ At(t, "check") /\ task[t].next > Len(Needs[task[t].checked]) /\ Unlocked
    /\ LET a == agents[task[t].name]
       IN  IF a = NoAgent THEN Fails(t)
           ELSE Goes(t, [task[t] EXCEPT !.pc = "start", !.status = "running", !.agent = a])
    /\ UNCHANGED audit /\ Rest

\* the executor looks, without the lock, whether the agent is running
Ensure(t) ==
    /\ At(t, "start")
    /\ Goes(t, [task[t] EXCEPT !.pc = IF running[task[t].agent] THEN "execute" ELSE "starting"])
    /\ UNCHANGED audit /\ Rest

\* and starts one that is not; only the agent itself can set running here
StartAgent(t) ==
    /\ At(t, "starting")
    /\ LET a == task[t].agent
       IN  \/ /\ started' = [started EXCEPT ![a] = TRUE]
              /\ running' = [running EXCEPT ![a] = @ \/ a \in SelfMarking]
              /\ Goes(t, [task[t] EXCEPT !.pc = "execute"])
           \/ Fails(t) /\ UNCHANGED <<running, started>>
    /\ UNCHANGED <<agents, sweep, roles, audit, shortMem, longMem>>

\* agent.execute returns or raises
Execute(t) ==
    /\ At(t, "execute")
    /\ \/ Goes(t, [task[t] EXCEPT !.pc = "save", !.status = "completed"])
       \/ Fails(t)
    /\ UNCHANGED audit /\ Rest

\* Mutant: long-term memory is saved first.
SaveLongFirst(t) ==
    /\ At(t, "save")
    /\ \/ /\ t \notin longMem /\ longMem' = longMem \cup {t} /\ UNCHANGED <<task, shortMem>>
       \/ /\ t \in longMem /\ shortMem' = shortMem \cup {t} /\ UNCHANGED longMem
          /\ Goes(t, [task[t] EXCEPT !.pc = "return"])
       \/ /\ Goes(t, [task[t] EXCEPT !.pc = "return"]) /\ UNCHANGED <<shortMem, longMem>>
    /\ UNCHANGED <<agents, running, started, sweep, roles, audit>>

\* the result goes to short-term memory and then to long-term memory; an
\* exception of either is logged and ends the saving
Save(t) ==
    /\ At(t, "save")
    /\ \/ /\ t \notin shortMem /\ shortMem' = shortMem \cup {t} /\ UNCHANGED <<task, longMem>>
       \/ /\ t \in shortMem /\ longMem' = longMem \cup {t} /\ UNCHANGED shortMem
          /\ Goes(t, [task[t] EXCEPT !.pc = "return"])
       \/ /\ Goes(t, [task[t] EXCEPT !.pc = "return"]) /\ UNCHANGED <<shortMem, longMem>>
    /\ UNCHANGED <<agents, running, started, sweep, roles, audit>>

ExecuteStep(t) == /\ \/ Lookup(t) \/ Check(t) \/ Plan(t) \/ Ensure(t) \/ StartAgent(t)
                     \/ Execute(t) \/ Save(t)
                  /\ UNCHANGED managed

Manage ==
    \/ /\ managed < MaxManage /\ managed' = managed + 1
       /\ \/ \E ps \in SUBSET Permissions : register_role(ps)
          \/ \E p \in Permissions : validate_access(p)
          \/ \E p \in Permissions, known \in BOOLEAN : validate_api_access(p, known)
          \/ \E a \in Agents, subject \in BOOLEAN : register_agent(a, subject)
          \/ \E n \in AgentNames : remove_agent(n)
          \/ \E op \in {"start", "stop"} : BeginSweep(op)
    \/ /\ UNCHANGED managed
       /\ EndSweep \/ \E a \in Agents : SweepOne(a) \/ MarkOne(a)

----------------------------------------------------------------------------
(* Properties                                                              *)

\* An agent marked running has been started and not been stopped since, but
\* for the one whose stop() has just returned, with start_agents, stop_agents
\* and executing threads at work on it together and its start() and stop()
\* raising at any time: a failed start is not hidden from the next
\* start_agents (runtime.py:184-187, 199-202; executor.py:52).
RunningMeansStarted ==
    \A a \in Agents : running[a] => started[a] \/ (sweep.op = "stop" /\ sweep.now = a)

\* A task of a caller with a subject gets past the check only after each
\* permission of the agent that was looked up had been granted by the roles
\* of that moment, however the roles changed meanwhile.
ExecutedWasGranted ==
    \A t \in Tasks : task[t].agent # NoAgent /\ task[t].subject
                       => \A i \in DOMAIN Needs[task[t].checked] :
                            Needs[task[t].checked][i] \in task[t].granted

\* A result is in long-term memory only when it is in short-term memory too,
\* and only of a task that completed: a failed save leaves the caller the
\* copy of the run that is current.
MemoryInOrder == /\ longMem \subseteq shortMem
                 /\ \A t \in shortMem : task[t].status = "completed"

\* runtime.py:287 "Check required agent permissions if any before execution":
\* the agent that executes is the one whose permissions were checked.
CheckedAgentExecutes ==
    \A t \in Tasks : task[t].agent # NoAgent => task[t].agent = task[t].checked
============================================================================
