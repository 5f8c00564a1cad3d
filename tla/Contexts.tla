------------------------------ MODULE Contexts ------------------------------
(***************************************************************************)
(* ContextEngine and RuntimeContext (context/engine.py), on the store of   *)
(* module Storage.                                                         *)
(*                                                                         *)
(* The engine keeps a table from context ids to objects.  Callers keep     *)
(* references to the objects it returned and use them without the lock, so *)
(* an object outlives its place in the table; loading a context makes a    *)
(* new object for an id whose old object may still be in a caller's hands. *)
(* The engine lock is held while a context is being saved: the guard Free  *)
(* keeps the other operations of the engine out until the file is written. *)
(* The metadata and the tags of a context are its content val; the stored  *)
(* form refers to them, so that a later update changes what is stored.     *)
(* The variables are left out: the stored form has a copy of them, and of  *)
(* reading and writing them only the expiries they cause remain.           *)
(***************************************************************************)
EXTENDS Storage, FiniteSets, SequencesExt

CONSTANTS Ctxs,      \* context ids, the results of uuid4()
          ParentOf,  \* [Ctxs -> Ctxs \cup {NoCtx}]: the parent_id of each
          NoCtx,
          SlotOf,    \* [Ctxs -> Foreign]: the key "context:" + id
          AllSlot,   \* the key "contexts"
          CtxTtls,   \* lifetimes of contexts
          Blank,     \* the content of a new context
          MaxObjs    \* bound on objects made in one life of the process

ASSUME ContextsAssumption == /\ ParentOf \in [Ctxs -> Ctxs \cup {NoCtx}]
                             /\ NoCtx \notin Ctxs
                             /\ SlotOf \in [Ctxs -> Foreign]
                             /\ AllSlot \in Foreign \ {SlotOf[c] : c \in Ctxs}
                             /\ IsFiniteSet(Ctxs)
                             /\ Blank \in Values
                             /\ CtxTtls \subseteq Nat /\ MaxObjs \in Nat

VARIABLES objs,   \* the RuntimeContext objects, in the order they were made
          table,  \* ContextEngine._contexts: id -> index in objs, 0 for none
          used,   \* ids handed out so far; uuid4 does not repeat one
          off     \* ids of objects whose holder called deactivate

ctxVars == <<objs, table, used, off>>
vars    == <<storageVars, ctxVars>>

CtxCall == Called /\ UNCHANGED <<now, up, fileVars, mem, reply>>

Free == up /\ writer # "contexts"

Listed(t) == {c \in Ctxs : t[c] # 0}

\* RuntimeContext.is_expired, which unlike MemoryEntry's includes the instant
Over(o) == \E t \in o.exp : now >= t

Deactivated(os, gone) == [i \in DOMAIN os |->
                            IF i \in gone THEN [os[i] EXCEPT !.active = FALSE] ELSE os[i]]
Without(t, cs)        == [c \in Ctxs |-> IF c \in cs THEN 0 ELSE t[c]]

\* delete_context, clear and _handle_expiration for a set of ids in the table
Dropped(cs) == /\ objs' = Deactivated(objs, {table[c] : c \in cs})
               /\ table' = Without(table, cs)

OverIds  == {c \in Listed(table) : Over(objs[table[c]])}
Live(c)  == c \in Listed(table) \ OverIds

CtxInit == objs = <<>> /\ table = [c \in Ctxs |-> 0] /\ used = {} /\ off = {}

create_context(c, ttl) ==
    /\ Free /\ c \notin used /\ Len(objs) < MaxObjs
    /\ objs' = Append(objs, [id |-> c, active |-> TRUE, exp |-> Expiry(ttl), val |-> Blank])
    /\ table' = [table EXCEPT ![c] = Len(objs) + 1]
    /\ used' = used \cup {c}
    /\ CtxCall /\ UNCHANGED off

\* RuntimeContext.deactivate by whoever holds the object, listed or not, no lock
deactivate(o) == /\ up /\ o \in DOMAIN objs
                 /\ objs' = Deactivated(objs, {o})
                 /\ off' = off \cup {objs[o].id}
                 /\ CtxCall /\ UNCHANGED <<table, used>>

\* get_context and has_context, and the updates of data, metadata and tags
\* that go through them: the lookup itself drops an expired context
get_context(c) == /\ Free /\ c \in OverIds
                  /\ Dropped({c})
                  /\ UNCHANGED <<used, off, storageVars>>

delete_context(c) == /\ Free /\ c \in Listed(table)
                     /\ Dropped({c})
                     /\ CtxCall /\ UNCHANGED <<used, off>>

clear == /\ Free /\ Listed(table) # {}
         /\ Dropped(Listed(table))
         /\ CtxCall /\ UNCHANGED <<used, off>>

\* list_contexts, get_status and prune_expired_contexts
prune_expired_contexts == /\ Free /\ OverIds # {}
                          /\ Dropped(OverIds)
                          /\ UNCHANGED <<used, off, storageVars>>

\* RuntimeContext.get of a variable that is not found: up the parents for as
\* long as the engine knows them; an expired one is dropped and ends the search
Missed[n \in Nat, c \in Ctxs \cup {NoCtx}] ==
    IF n = 0 \/ ~Live(c) THEN c ELSE Missed[n - 1, ParentOf[c]]

get(o) == /\ Free /\ o \in DOMAIN objs
          /\ LET c == Missed[Cardinality(Ctxs), ParentOf[objs[o].id]]
             IN  c \in OverIds /\ Dropped({c})
          /\ UNCHANGED <<used, off, storageVars>>

----------------------------------------------------------------------------
(* Saving and loading                                                      *)

\* the stored form of object o: metadata and tags are o's own
serialize(o) == [kind |-> "context", id |-> objs[o].id, active |-> objs[o].active,
                 exp |-> objs[o].exp, val |-> objs[o].val, of |-> o]

save_context_to_storage(c) ==
    /\ Free /\ writer = Nobody /\ Live(c)
    /\ SetForeign("contexts", SlotOf[c], serialize(table[c]))
    /\ UNCHANGED ctxVars

\* every context of the table, expired ones included
save_all_contexts_to_storage ==
    /\ Free /\ writer = Nobody
    /\ SetForeign("contexts", AllSlot,
                  [kind |-> "all", cs |-> {serialize(table[c]) : c \in Listed(table)}])
    /\ UNCHANGED ctxVars

\* a dictionary in which the values that share the content of object o have
\* the content val
SharedBy(p, o, val) == IF p.of = o THEN [p EXCEPT !.val = val] ELSE p
Updates(d, o, val) == [s \in Slots |->
    CASE d[s].kind = "all"     -> [d[s] EXCEPT !.cs = {SharedBy(p, o, val) : p \in @}]
      [] d[s].kind = "context" -> SharedBy(d[s], o, val)
      [] OTHER                 -> d[s]]

\* update_context_metadata and add_tags: the object of the table changes, and
\* with it what the store holds of it
update_context_metadata(c, val) ==
    /\ Free /\ Live(c) /\ Called
    /\ objs' = [objs EXCEPT ![table[c]].val = val]
    /\ InPlace(Updates(data, table[c], val), Updates(dumping, table[c], val))
    /\ UNCHANGED <<table, used, off, now, up, mem, reply>>

\* Mutant: loading starts the lifetime again.
deserializeRenewed(p) == [id |-> p.id, active |-> p.active, exp |-> {now + 1 : t \in p.exp}, val |-> p.val]

\* the constructor copies the metadata and the tags
deserialize(p) == [id |-> p.id, active |-> p.active, exp |-> p.exp, val |-> p.val]

\* load_context_from_storage and load_all_contexts_from_storage: a new object
\* for each payload, in the table in place of the one that may be there,
\* which is not deactivated; expired payloads are loaded too
Registered(ps) ==
    LET q == SetToSeq(ps)
        n == Len(objs)
    IN  /\ n + Len(q) <= MaxObjs
        /\ objs' = objs \o [i \in 1..Len(q) |-> deserialize(q[i])]
        /\ table' = [c \in Ctxs |-> IF \E p \in ps : p.id = c
                                    THEN n + CHOOSE i \in 1..Len(q) : q[i].id = c
                                    ELSE table[c]]
        /\ CtxCall /\ UNCHANGED <<used, off>>

load_context_from_storage(c) == /\ Free /\ writer = Nobody /\ data[SlotOf[c]] # Absent
                                /\ Registered({data[SlotOf[c]]})

load_all_contexts_from_storage == /\ Free /\ writer = Nobody /\ data[AllSlot] # Absent
                                  /\ Registered(data[AllSlot].cs)

\* the table is in memory only
LosesTable == /\ Crash
              /\ objs' = <<>> /\ table' = [c \in Ctxs |-> 0]
              /\ UNCHANGED <<used, off>>

----------------------------------------------------------------------------

Init == StorageInit /\ CtxInit

OfOneContext(c) == \/ \E ttl \in {{}} \cup {{t} : t \in CtxTtls} : create_context(c, ttl)
                   \/ get_context(c) \/ delete_context(c)
                   \/ \E val \in Values : update_context_metadata(c, val)
                   \/ save_context_to_storage(c) \/ load_context_from_storage(c)

Next == \/ StorageNext /\ UNCHANGED ctxVars
        \/ LosesTable
        \/ \E c \in Ctxs : OfOneContext(c)
        \/ \E o \in 1..MaxObjs : get(o) \/ deactivate(o)
        \/ clear \/ prune_expired_contexts
        \/ save_all_contexts_to_storage \/ load_all_contexts_from_storage

Spec == Init /\ [][Next]_vars

----------------------------------------------------------------------------
(* Properties                                                              *)

\* the contexts in the store and in a whole file
Payloads(d) == {d[SlotOf[c]] : c \in {x \in Ctxs : d[SlotOf[x]] # Absent}}
                 \cup (IF d[AllSlot] = Absent THEN {} ELSE d[AllSlot].cs)
Stored      == Payloads(data) \cup Payloads(Image(disk))

\* Every context in the table is under its own id, and it is active, and so is
\* every stored one that a load can put there, unless a holder of the context
\* has called deactivate: deleting, clearing and expiring deactivate an object
\* exactly when they take it out, and what is saved comes from the table.  So
\* the active_only filter of list_contexts hides no other context.
TableIsActive == /\ \A c \in Listed(table) : /\ objs[table[c]].id = c
                                             /\ objs[table[c]].active \/ c \in off
                 /\ \A p \in Stored : p.active \/ p.id \in off

\* A context keeps the end of its lifetime through saves, crashes and loads:
\* all objects and stored forms of an id agree on it, so that a context that
\* was found expired once is never found again.
LifetimeIsFixed == \A p, q \in Stored \cup {objs[i] : i \in DOMAIN objs} :
                      p.id = q.id => p.exp = q.exp

\* The table of contexts, its stored forms and the objects callers hold.
ContextsConsistent == TableIsActive /\ LifetimeIsFixed

\* context/engine.py:224 "Delete and deactivate a context by ID": once an id
\* is out of the table no object of it is active.
DeletedIsInactive == \A i \in DOMAIN objs : objs[i].active => table[objs[i].id] # 0
============================================================================
