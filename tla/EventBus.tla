------------------------------ MODULE EventBus ------------------------------
(***************************************************************************)
(* The event bus (events/event_bus.py): subscriptions, the bounded         *)
(* history, publication to synchronous handlers in the publishing thread   *)
(* and to asynchronous ones through the thread pool.                       *)
(*                                                                         *)
(* publish() takes the bus's lock twice, to append to the history and to   *)
(* copy the subscriptions, and calls handlers without it: subscriptions,   *)
(* shutdown and reset by other threads or by handlers come in between.     *)
(* async_publish is the same but for coroutines, which it hands to the     *)
(* running loop; those go through the pool here, as in publish().          *)
(***************************************************************************)
EXTENDS Integers, Sequences, SequencesExt, FiniteSets

CONSTANTS
    Publishers,   \* threads that publish
    Handlers,     \* callbacks
    Observer,     \* the callback that is modelled by its own module
    Async,        \* handlers that are coroutines or subscribed with async_handle
    MayRaise,     \* handlers that may raise
    Names,        \* names of events
    Accepts,      \* the names a handler's filter_func lets through
    Subscribed,   \* the subscriptions made before the model begins
    MaxHistory,   \* EventBus._max_history_size
    MaxPublishes, \* bound: publications
    MaxOps        \* bound: operations by clients

Star == "*"

ASSUME BusAssumption ==
    /\ Async \subseteq Handlers /\ MayRaise \subseteq Handlers /\ Observer \notin Async
    /\ Subscribed \in [Names \cup {Star} -> Seq(Handlers \ {Observer})]
    /\ \A k \in Names \cup {Star} : IsInjective(Subscribed[k])
    /\ Star \notin Names /\ Accepts \in [Handlers -> SUBSET Names]
    /\ MaxHistory \in Nat /\ MaxPublishes \in Nat /\ MaxOps \in Nat

VARIABLES
    subs,       \* EventBus._subscriptions
    listeners,  \* EventBus.listeners
    history,    \* EventBus._history
    pool,       \* EventBus._executor: "live" or "none"
    down,       \* EventBus._is_shutdown
    tasks,      \* handlers and events submitted to a pool and not yet run
    sending,    \* the publishers between the history and the subscriptions
    event,      \* the event it publishes, numbered in the order of the history
    todo,       \* the subscriptions it has still to serve
    delivered,  \* history: how often a handler was called for an event
    expected,   \* history: subscribed without a break since the publication began
    refused,    \* history: handed to a bus that was shut down
    published, ops  \* history

subVars == <<subs, listeners>>
poolVars == <<pool, down, tasks>>
sendVars == <<sending, event, todo>>
recordVars == <<delivered, refused>>
busVars == <<subVars, history, poolVars, sendVars, recordVars, expected, published, ops>>

Busy(t) == t \in sending \/ todo[t] # <<>>
Numbers == 1..MaxPublishes
Keys == Names \cup {Star}
Subscribers(n) == ToSet(subs[n]) \cup ToSet(subs[Star])

-----------------------------------------------------------------------------
(* Subscriptions *)

Op == ops < MaxOps /\ ops' = ops + 1

\* Mutant: a handler may be subscribed twice.
AddTwice(key, h) ==
    /\ subs' = [subs EXCEPT ![key] = Append(@, h)]
    /\ listeners' = [listeners EXCEPT ![key] = Append(@, h)]

\* subscribe: not twice for the same handler.
Add(key, h) ==
    IF h \in ToSet(subs[key]) THEN UNCHANGED subVars
    ELSE /\ subs' = [subs EXCEPT ![key] = Append(@, h)]
         /\ listeners' = [listeners EXCEPT ![key] = Append(@, h)]

\* unsubscribe: every place of the handler goes, and it has one at most (Add).
Drop(key, h) ==
    /\ subs' = [subs EXCEPT ![key] = RemoveFirst(@, h)]
    /\ listeners' = [listeners EXCEPT ![key] = RemoveFirst(@, h)]

\* Who has stayed subscribed, of those a publication under way may expect.
Staying ==
    expected' = [e \in Numbers |->
        {h \in expected[e] :
            \A t \in sending : event[t].n = e =>
                h \in ToSet(subs'[event[t].name]) \cup ToSet(subs'[Star])}]

Subscribe(key, h) ==
    /\ Op /\ Add(key, h)
    /\ UNCHANGED <<history, poolVars, sendVars, recordVars, expected, published>>

Unsubscribe(key, h) ==
    /\ Op /\ Drop(key, h) /\ Staying
    /\ UNCHANGED <<history, poolVars, sendVars, recordVars, published>>

\* Mutant: the dictionary for older clients is not cleared.
ClearSubs ==
    /\ Op
    /\ subs' = [k \in Keys |-> <<>>] /\ Staying
    /\ UNCHANGED <<listeners, history, poolVars, sendVars, recordVars, published>>

Clear ==
    /\ Op
    /\ subs' = [k \in Keys |-> <<>>] /\ listeners' = [k \in Keys |-> <<>>] /\ Staying
    /\ UNCHANGED <<history, poolVars, sendVars, recordVars, published>>

ClearHistory ==
    /\ Op /\ history' = <<>>
    /\ UNCHANGED <<subVars, poolVars, sendVars, recordVars, expected, published>>

-----------------------------------------------------------------------------
(* The pool *)

Reset ==
    /\ Op /\ down' = FALSE /\ pool' = "none"
    /\ UNCHANGED <<subVars, history, tasks, sendVars, recordVars, expected, published>>

\* Tasks already submitted are still run.
Shutdown ==
    /\ Op /\ pool = "live"
    /\ down' = TRUE /\ pool' = "none"
    /\ UNCHANGED <<subVars, history, tasks, sendVars, recordVars, expected, published>>

Called(h, n) == delivered' = [delivered EXCEPT ![h][n] = @ + 1]

\* A thread of the pool runs a task; what it raises is logged.
RunTask(task) ==
    /\ task \in tasks
    /\ tasks' = tasks \ {task}
    /\ Called(task.handler, task.n)
    /\ UNCHANGED <<subVars, history, pool, down, sendVars, refused, expected, published, ops>>

-----------------------------------------------------------------------------
(* publish *)

\* Mutant: the history is cut before the event is added.
RecordedFirst(e) ==
    Append(IF Len(history) > MaxHistory THEN Tail(history) ELSE history, e)

Recorded(e) ==
    LET h == Append(history, e) IN IF Len(h) > MaxHistory THEN Tail(h) ELSE h

Publish(t, name) ==
    LET e == [n |-> published + 1, name |-> name] IN
    /\ ~Busy(t) /\ published < MaxPublishes
    /\ published' = published + 1
    /\ history' = Recorded(e)
    /\ event' = [event EXCEPT ![t] = e]
    /\ sending' = sending \cup {t}
    /\ expected' = [expected EXCEPT ![e.n] = Subscribers(name)]
    /\ UNCHANGED <<subVars, poolVars, todo, recordVars, ops>>

Snapshot(t) ==
    /\ t \in sending
    /\ todo' = [todo EXCEPT ![t] = subs[event[t].name] \o subs[Star]]
    /\ sending' = sending \ {t}
    /\ UNCHANGED <<subVars, history, poolVars, event, recordVars, expected, published, ops>>

Next1(t) == todo' = [todo EXCEPT ![t] = Tail(@)]
Serving(t, h) == todo[t] # <<>> /\ Head(todo[t]) = h
Wanted(t, h) == event[t].name \in Accepts[h]

\* filter_func says no, or raises.
Skip(t, h) ==
    /\ Serving(t, h) /\ ~Wanted(t, h)
    /\ Next1(t)
    /\ UNCHANGED <<subVars, history, poolVars, sending, event, recordVars, expected, published, ops>>

\* Mutant: the exception of a handler ends the publication.
DeliverUnsafe(t, h) ==
    /\ Serving(t, h) /\ Wanted(t, h) /\ h \notin Async \cup {Observer}
    /\ Called(h, event[t].n)
    /\ todo' = [todo EXCEPT ![t] = IF h \in MayRaise THEN <<>> ELSE Tail(@)]
    /\ UNCHANGED <<subVars, history, poolVars, sending, event, refused, expected, published, ops>>

\* _safe_execute_handler: whatever it raises, the next one is served.
Deliver(t, h) ==
    /\ Serving(t, h) /\ Wanted(t, h) /\ h \notin Async \cup {Observer}
    /\ Called(h, event[t].n)
    /\ Next1(t)
    /\ UNCHANGED <<subVars, history, poolVars, sending, event, refused, expected, published, ops>>

\* _get_executor: a pool is made when there is none, unless the bus is down.
Submit(t, h) ==
    LET task == [handler |-> h, n |-> event[t].n] IN
    /\ Serving(t, h) /\ Wanted(t, h) /\ h \in Async
    /\ Next1(t)
    /\ IF down
       THEN refused' = refused \cup {task} /\ UNCHANGED <<pool, tasks>>
       ELSE pool' = "live" /\ tasks' = tasks \cup {task} /\ UNCHANGED refused
    /\ UNCHANGED <<subVars, history, down, sending, event, delivered, expected, published, ops>>

-----------------------------------------------------------------------------
(* The specification *)

BusInit ==
    /\ subs = Subscribed /\ listeners = Subscribed
    /\ history = <<>>
    /\ pool = "live" /\ down = FALSE /\ tasks = {}
    /\ sending = {}
    /\ event = [t \in Publishers |-> [n |-> 0, name |-> Star]]
    /\ todo = [t \in Publishers |-> <<>>]
    /\ delivered = [h \in Handlers |-> [n \in Numbers |-> 0]]
    /\ expected = [n \in Numbers |-> {}]
    /\ refused = {} /\ published = 0 /\ ops = 0

BusClient ==
    \/ \E k \in Keys, h \in Handlers \ {Observer} : Subscribe(k, h) \/ Unsubscribe(k, h)
    \/ Clear \/ ClearHistory \/ Reset \/ Shutdown
    \/ \E t \in Publishers, n \in Names : Publish(t, n)

PublisherStep(t) ==
    \/ Snapshot(t)
    \/ \E h \in Handlers : Skip(t, h) \/ Deliver(t, h) \/ Submit(t, h)

PoolStep == \E task \in tasks : RunTask(task)

-----------------------------------------------------------------------------
(* Properties *)

Events == [n : Numbers, name : Names]

\* Every variable has its type, and the dictionary kept for older clients says
\* the same as the subscriptions (event_bus.py:110-115, 125-137).
BusTypeOK ==
    /\ subs \in [Keys -> Seq(Handlers)] /\ listeners = subs
    /\ history \in Seq(Events)
    /\ pool \in {"live", "none"} /\ down \in BOOLEAN
    /\ tasks \cup refused \subseteq [handler : Async, n : Numbers]
    /\ sending \subseteq Publishers
    /\ \A t \in Publishers : Busy(t) => event[t] \in Events
    /\ \A t \in Publishers : todo[t] \in Seq(Handlers)
    /\ published \in 0..MaxPublishes /\ ops \in Nat

\* The history is bounded, in order and without gaps, and it ends with the last
\* event published unless it has been cleared, although publishers append
\* concurrently (event_bus.py:185-188).
HistoryIsRecent ==
    /\ Len(history) <= MaxHistory
    /\ \A i \in DOMAIN history : history[i].n = published - Len(history) + i

Served(h, n) ==
    \/ delivered[h][n] > 0
    \/ \E x \in tasks \cup refused : x.handler = h /\ x.n = n

\* When a publication is over, every handler that stayed subscribed while it
\* began and lets the event through has been called or handed to the pool once
\* at least, whatever other handlers raised and whoever came and went; only a
\* bus that is shut down refuses (event_bus.py:191-222).
NobodyIsSkipped ==
    \A t \in Publishers : ~Busy(t) /\ event[t].n # 0 =>
        \A h \in expected[event[t].n] : Wanted(t, h) => Served(h, event[t].n)

\* Nobody is called more than once for each of the two lists, the event's and
\* the wildcard's, that a handler can be on (event_bus.py:100-103).
CalledOncePerList ==
    \A h \in Handlers, n \in Numbers : delivered[h][n] <= 2

\* Subscriptions, history and deliveries agree.
BusConsistent == BusTypeOK /\ HistoryIsRecent /\ CalledOncePerList

=============================================================================
