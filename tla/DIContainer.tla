---------------------------- MODULE DIContainer ----------------------------
(***************************************************************************)
(* DIContainer (di/container.py): registration and recursive resolution    *)
(* with singletons, parameters taken from the container, defaults and the  *)
(* detection of cycles by a stack of keys that each thread keeps.  The     *)
(* recursion is explicit: a frame for each resolve under way.  A resolve   *)
(* holds the container's lock from its first call to its last return.      *)
(***************************************************************************)
EXTENDS Integers, Sequences, SequencesExt, FiniteSetsExt, Relation

CONSTANTS Threads, NoThread,
          Keys, NoKey,
          Classes,     \* keys that are classes, which can be autowired
          Subclasses,  \* [Keys -> SUBSET Keys]
          Params,      \* [Keys -> sequence of [type, name, default]]: the parameters
                       \* of the factory or the class that goes with the key; one
                       \* that no class annotates has its name for both
          MaxOps       \* bound: calls from outside

ASSUME DIAssumption ==
    /\ NoThread \notin Threads /\ NoKey \notin Keys
    /\ Classes \subseteq Keys /\ Subclasses \in [Keys -> SUBSET Keys]
    /\ \A k \in Keys : Params[k] \in Seq([type : Keys, name : Keys, default : BOOLEAN])

VARIABLES reg,      \* DIContainer._registrations
          order,    \* its keys in the order of the dictionary
          holder,   \* the thread that holds the lock
          frames,   \* the resolves under way in each thread, outermost first
          resolving,\* _thread_local.resolving
          result,   \* how the last resolve of each thread ended
          built,    \* objects made for a registration so far
          ops

diVars == <<reg, order, holder, frames, resolving, result, built, ops>>

\* life: "none" when not registered; inst: an instance is cached
Unregistered == [life |-> "none", factory |-> FALSE, inst |-> FALSE]

DiInit == /\ reg = [k \in Keys |-> Unregistered] /\ order = <<>> /\ holder = NoThread
          /\ frames = [h \in Threads |-> <<>>] /\ resolving = [h \in Threads |-> <<>>]
          /\ result = [h \in Threads |-> [is |-> "none", key |-> NoKey]]
          /\ built = [k \in Keys |-> 0] /\ ops = 0

OutsideCall == ops < MaxOps /\ ops' = ops + 1

----------------------------------------------------------------------------
(* Registration                                                            *)

Registers(k, r) == /\ OutsideCall /\ holder = NoThread
                   /\ reg' = [reg EXCEPT ![k] = r]
                   /\ order' = IF Contains(order, k) THEN order ELSE Append(order, k)
                   /\ built' = [built EXCEPT ![k] = 0]
                   /\ UNCHANGED <<holder, frames, resolving, result>>

\* the instance may be None
register_instance(k, given) == Registers(k, [life |-> "singleton", factory |-> FALSE, inst |-> given])
register_singleton(k) == Registers(k, [life |-> "singleton", factory |-> TRUE, inst |-> FALSE])
register_transient(k) == Registers(k, [life |-> "transient", factory |-> TRUE, inst |-> FALSE])

\* _find_registration: the key's own, or for a class the first subclass of the
\* dictionary; at most one
Found(k) ==
    LET Fits(i) == k \in Classes /\ order[i] \in Subclasses[k] \cap Classes
        First == {i \in DOMAIN order : Fits(i) /\ \A j \in 1..(i - 1) : ~Fits(j)}
    IN  IF reg[k].life # "none" THEN {k} ELSE {order[i] : i \in First}
has(k) == Found(k) # {}

\* what a parameter is resolved by: its type, and else its name
Wanted(p) == IF has(p.type) THEN p.type ELSE p.name

----------------------------------------------------------------------------
(* Resolution                                                              *)

Top(h) == Last(frames[h])
Rule(f) == IF f.reg = NoKey THEN f.key ELSE f.reg

\* a frame is left with a value: the caller goes on with its next parameter
Returns(h, fs) ==
    IF fs = <<>>
      THEN /\ frames' = [frames EXCEPT ![h] = <<>>] /\ holder' = NoThread
           /\ result' = [result EXCEPT ![h] = [is |-> "value", key |-> NoKey]]
      ELSE /\ frames' = [frames EXCEPT ![h] = [fs EXCEPT ![Len(fs)].next = @ + 1]]
           /\ UNCHANGED <<holder, result>>

\* Mutant: the stack keeps the keys of a resolve that failed.
RaisesUnpopped(h, error, k) ==
    /\ frames' = [frames EXCEPT ![h] = <<>>] /\ holder' = NoThread
    /\ UNCHANGED resolving
    /\ result' = [result EXCEPT ![h] = [is |-> error, key |-> k]]

\* an exception goes through every frame; each finally pops its key
Raises(h, error, k) ==
    /\ frames' = [frames EXCEPT ![h] = <<>>] /\ holder' = NoThread
    /\ resolving' = [resolving EXCEPT ![h] = SubSeq(@, 1, Len(@) - Len(frames[h]))]
    /\ result' = [result EXCEPT ![h] = [is |-> error, key |-> k]]

Cached(f) == f # NoKey /\ reg[f].life = "singleton" /\ reg[f].inst

\* resolve up to its try: a cached instance is returned; a key that this
\* thread is resolving already is a cycle
Enter(h, k, f) ==
    \/ /\ Cached(f) /\ Returns(h, frames[h]) /\ UNCHANGED resolving
    \/ /\ ~Cached(f) /\ Contains(resolving[h], k) /\ Raises(h, "circular", k)
    \/ /\ ~Cached(f) /\ ~Contains(resolving[h], k)
       /\ frames' = [frames EXCEPT ![h] = Append(@, [key |-> k, reg |-> f, next |-> 1])]
       /\ resolving' = [resolving EXCEPT ![h] = Append(@, k)]
       /\ holder' = h /\ UNCHANGED result

\* resolve called from outside; a class without registration is autowired
resolve(h, k) ==
    /\ OutsideCall /\ holder = NoThread
    /\ \E f \in IF has(k) THEN Found(k) ELSE {NoKey} : Enter(h, k, f)
    /\ UNCHANGED <<reg, order, built>>

Working(h) == holder = h /\ frames[h] # <<>>

\* neither a factory nor a class to autowire
Unresolvable(h) ==
    /\ Working(h) /\ Top(h).reg = NoKey /\ Top(h).key \notin Classes
    /\ Raises(h, "unresolved", Top(h).key)
    /\ UNCHANGED <<reg, order, built, ops>>

InstanceOnly(h) == Top(h).reg # NoKey /\ ~reg[Top(h).reg].factory
Injecting(h) == ~InstanceOnly(h) /\ (Top(h).reg # NoKey \/ Top(h).key \in Classes)

\* _inject_callable and _inject_constructor, for one parameter
Inject(h) ==
    /\ Working(h) /\ Injecting(h) /\ Top(h).next <= Len(Params[Rule(Top(h))])
    /\ LET p == Params[Rule(Top(h))][Top(h).next]
           k == Wanted(p)
       IN  \/ has(k) /\ \E f \in Found(k) : Enter(h, k, f)
           \/ ~has(k) /\ p.default /\ Returns(h, frames[h]) /\ UNCHANGED resolving
           \/ ~has(k) /\ ~p.default /\ Raises(h, "unresolved", k)
    /\ UNCHANGED <<reg, order, built, ops>>

Pops(h) == resolving' = [resolving EXCEPT ![h] = Front(@)]

\* Mutant: what a singleton's factory returned is not kept.
KeptNever(r, some) == r

\* a singleton keeps what its factory returned, and None is no instance
Kept(r, some) == IF r.life = "singleton" /\ some THEN [r EXCEPT !.inst = TRUE] ELSE r

\* every parameter has its value: the factory or the class is called
Construct(h) ==
    /\ Working(h) /\ Injecting(h) /\ Top(h).next > Len(Params[Rule(Top(h))])
    /\ \/ \E some \in BOOLEAN :
             /\ reg' = IF Top(h).reg = NoKey THEN reg
                       ELSE [reg EXCEPT ![Top(h).reg] = Kept(@, some)]
             /\ built' = IF Top(h).reg = NoKey \/ ~some THEN built
                         ELSE [built EXCEPT ![Top(h).reg] = @ + 1]
             /\ Returns(h, Front(frames[h])) /\ Pops(h)
       \/ Raises(h, "failed", Top(h).key) /\ UNCHANGED <<reg, built>>
    /\ UNCHANGED <<order, ops>>

\* an instance registered as None
ReturnNone(h) == /\ Working(h) /\ InstanceOnly(h)
                 /\ Returns(h, Front(frames[h])) /\ Pops(h)
                 /\ UNCHANGED <<reg, order, built, ops>>

DiNext == \/ \E k \in Keys : \/ register_singleton(k) \/ register_transient(k)
                             \/ \E given \in BOOLEAN : register_instance(k, given)
                             \/ \E h \in Threads : resolve(h, k)
          \/ \E h \in Threads : Unresolvable(h) \/ Inject(h) \/ Construct(h) \/ ReturnNone(h)

DiSpec == DiInit /\ [][DiNext]_diVars

----------------------------------------------------------------------------
(* Properties                                                              *)

\* A registration as singleton yields one object, whichever thread asks for
\* it, by whichever base class, and however many resolves failed before.
SingletonBuiltOnce == \A k \in Keys : reg[k].life = "singleton" => built[k] <= 1

\* The dependencies that resolving the registered keys follows.
DependsOn == [d \in Keys \X Keys |->
                \E f \in Found(d[1]) : \E i \in DOMAIN Params[f] :
                    reg[f].factory /\ Wanted(Params[f][i]) = d[2] /\ has(d[2])]

\* CircularDependencyError is raised for a key that depends on itself through
\* the registrations, and never because of an earlier resolve of the thread.
CycleIsReal ==
    [][\A h \in Threads : result'[h] # result[h] /\ result'[h].is = "circular" =>
           TransitiveClosure(DependsOn, Keys)[result'[h].key, result'[h].key]]_diVars
============================================================================
