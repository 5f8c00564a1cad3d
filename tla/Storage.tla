------------------------------ MODULE Storage ------------------------------
(***************************************************************************)
(* JSONFileStorage (storage/json_file.py) and the long-term memory that    *)
(* StorageBackedLongTermMemory keeps in it (memory/persistent.py).         *)
(*                                                                         *)
(* The store is a dictionary in memory, _data, and a JSON file that every  *)
(* change rewrites as a whole.  A rewrite is two steps, because a crash    *)
(* fits between them: open(..., "w") empties the file, json.dump fills it  *)
(* again.  Opening may fail, which leaves the file as it was, and dumping  *)
(* fails on a value JSON cannot express, which leaves the file torn; in    *)
(* both cases _data has already been changed.  A torn file loads as an     *)
(* empty store.                                                            *)
(*                                                                         *)
(* set and get hand values over by reference: who holds one changes it in  *)
(* place, without the lock, while the store holds it and without a save.   *)
(* What a value contains is its field val; JSON keeps it in a normal form  *)
(* (lists for tuples, strings for the keys of dictionaries).               *)
(*                                                                         *)
(* The storage lock is held from the change to the end of the rewrite      *)
(* (variable writer), the memory lock for the whole of a memory operation  *)
(* (variable mem), so one memory operation at a time walks over the store  *)
(* while other users of it change it between two of its steps.             *)
(***************************************************************************)
EXTENDS Naturals

CONSTANTS Keys,        \* keys of long-term memory entries
          Foreign,     \* keys of the same store that others write
          Ttls,        \* lifetimes that callers ask for
          Values,      \* what a value may contain
          Encodable,   \* of those, what json.dump can write
          JsonOf,      \* [Values -> Values]: what json.load reads of it
          Nothing,     \* no content
          MaxTime,     \* bound on the clock
          MaxFaults,   \* bound on crashes and on refusals to open the file
          MaxCalls     \* bound on operations called

ASSUME StorageAssumption == /\ Keys \cap Foreign = {}
                            /\ Ttls \subseteq Nat
                            /\ Encodable \subseteq Values
                            /\ JsonOf \in [Values -> Values]
                            /\ \A v \in Values : JsonOf[JsonOf[v]] = JsonOf[v]
                            /\ MaxTime \in Nat
                            /\ MaxFaults \in Nat /\ MaxCalls \in Nat

VARIABLES now,      \* the clock
          up,       \* whether the process runs
          data,     \* JSONFileStorage._data
          disk,     \* the file
          writer,   \* who holds the storage lock inside save()
          dumping,  \* what json.dump will have written of data, inside save()
          unsaved,  \* whether save() raised since the last load or save
          changed,  \* keys whose value changed in place since the last load or
                    \* the last opening of the file
          mem,      \* the memory operation that holds the memory lock
          reply,    \* what the last completed read of the memory answered
          faults,   \* crashes and refusals so far
          calls     \* operations called so far

fileVars    == <<data, disk, writer, dumping, unsaved, changed, faults>>
storageVars == <<now, up, fileVars, mem, reply, calls>>

Slots  == Keys \cup Foreign
Absent == [kind |-> "absent"]
Empty  == [s \in Slots |-> Absent]
Nobody == "nobody"

\* A stored value has a kind: a MemoryEntry, the serialised form of one context
\* or of several (cs); of is the live context whose metadata and tags the value
\* shares (module Contexts), or 0; exp is the set of expiry instants: none or one.
Entry(val, exp) == [kind |-> "entry", val |-> val, of |-> 0, exp |-> exp]
Expiry(ttl)     == {now + t : t \in ttl}

is_expired(e) == e.kind = "entry" /\ \E t \in e.exp : now > t

\* a value with each content replaced, and bound to no context any more
With(p, val) == [p EXCEPT !.val = val, !.of = 0]

\* what json.load reads of what json.dump wrote of a value
Json(v) == CASE v.kind = "absent" -> v
             [] v.kind = "all"    -> [v EXCEPT !.cs = {With(p, JsonOf[p.val]) : p \in @}]
             [] OTHER             -> With(v, JsonOf[v.val])

\* a value without its content
Bare(v) == CASE v.kind = "absent" -> v
             [] v.kind = "all"    -> [v EXCEPT !.cs = {With(p, Nothing) : p \in @}]
             [] OTHER             -> With(v, Nothing)

\* json.dump raises on one value it cannot express, wherever it is
Serialisable(d) == \A s \in Slots : CASE d[s].kind = "absent" -> TRUE
                                       [] d[s].kind = "all"    -> \A p \in d[s].cs : p.val \in Encodable
                                       [] OTHER                -> d[s].val \in Encodable

Torn     == [kind |-> "torn"]
Whole(d) == [kind |-> "whole", img |-> [s \in Slots |-> Json(d[s])]]

\* load(): a missing file and a file that cannot be parsed are an empty store
Image(f) == IF f.kind = "whole" THEN f.img ELSE Empty

MemIdle == [pc |-> "idle", op |-> "none", key |-> "none", entry |-> Absent,
            todo |-> {}, found |-> {}, failed |-> FALSE]
Present == {s \in Slots : data[s] # Absent}

StorageInit ==
    /\ now = 0 /\ up = TRUE
    /\ data = Empty /\ disk = Absent
    /\ writer = Nobody /\ dumping = Empty /\ unsaved = FALSE /\ changed = {}
    /\ mem = MemIdle /\ reply = [found |-> {}, failed |-> FALSE]
    /\ faults = 0 /\ calls = 0

\* an operation is called
Called == calls < MaxCalls /\ calls' = calls + 1

Tick == /\ now < MaxTime
        /\ now' = now + 1
        /\ UNCHANGED <<up, fileVars, mem, reply, calls>>

----------------------------------------------------------------------------
(* JSONFileStorage                                                         *)

\* set, delete and clear: change _data, then save().  The two outcomes of
\* open(): the file is emptied and the lock kept, or save() raises at once.
Opened(w, d)  == /\ writer = Nobody
                 /\ data' = d /\ disk' = Torn /\ writer' = w /\ dumping' = d /\ changed' = {}
                 /\ UNCHANGED <<unsaved, faults>>
Refused(d)    == /\ writer = Nobody /\ faults < MaxFaults
                 /\ data' = d /\ unsaved' = TRUE /\ faults' = faults + 1
                 /\ UNCHANGED <<disk, writer, dumping, changed>>

\* the end of json.dump: the file is complete, or it stays as far as it got; a
\* dictionary that changes while it is dumped may make json.dump raise
Dumped == /\ writer' = Nobody /\ dumping' = Empty
          /\ \/ /\ Serialisable(dumping)
                /\ disk' = Whole(dumping) /\ unsaved' = FALSE
             \/ /\ ~ Serialisable(dumping) \/ changed # {}
                /\ disk' = disk /\ unsaved' = TRUE
          /\ UNCHANGED <<data, changed, faults>>

\* Values change in place: data becomes d, without the lock.  A dump under way
\* has passed some of the keys already; e is dumping with the same change.
InPlace(d, e) == /\ data' = d
                 /\ changed' = changed \cup {s \in Slots : d[s] # data[s]}
                 /\ \E passed \in SUBSET Slots :
                       dumping' = [s \in Slots |-> IF s \in passed THEN dumping[s] ELSE e[s]]
                 /\ UNCHANGED <<disk, writer, unsaved, faults>>

Put(d, s, v) == [d EXCEPT ![s] = v]

\* load() from initialize() and reload()
Load == /\ up /\ writer = Nobody /\ Called
        /\ data' = Image(disk) /\ unsaved' = FALSE /\ changed' = {}
        /\ UNCHANGED <<now, up, disk, writer, dumping, mem, reply, faults>>

\* shutdown() saves what is in memory
Shutdown == /\ up /\ Called
            /\ \/ Opened("shutdown", data) \/ Refused(data)
            /\ UNCHANGED <<now, up, mem, reply>>

\* another user of the store: its set and the end of its save
SetForeign(w, s, v) == /\ up /\ Called
                       /\ \/ Opened(w, Put(data, s, v)) \/ Refused(Put(data, s, v))
                       /\ UNCHANGED <<now, up, mem, reply>>

EndOther == /\ up /\ writer \notin {Nobody, "memory"}
            /\ Dumped
            /\ UNCHANGED <<now, up, mem, reply, calls>>

\* the process dies at any point, and starts again from the file
Crash == /\ up /\ faults < MaxFaults
         /\ up' = FALSE /\ faults' = faults + 1
         /\ data' = Empty /\ writer' = Nobody /\ dumping' = Empty
         /\ unsaved' = FALSE /\ changed' = {} /\ mem' = MemIdle
         /\ UNCHANGED <<now, disk, reply, calls>>

Start == /\ ~up
         /\ up' = TRUE /\ data' = Image(disk)
         /\ UNCHANGED <<now, disk, writer, dumping, unsaved, changed, mem, reply, faults, calls>>

----------------------------------------------------------------------------
(* StorageBackedLongTermMemory                                             *)

MemStep == up /\ UNCHANGED <<now, up, calls>>
Quiet   == UNCHANGED fileVars

\* set, delete, get and search begin with _cleanup_expired over the present
\* keys; get_entry and clear do not
Begin(op, k, e) ==
    /\ up /\ mem.pc = "idle" /\ writer = Nobody /\ Called
    /\ mem' = [MemIdle EXCEPT !.pc = IF op \in {"get_entry", "clear"} THEN "act" ELSE "scan",
                              !.op = op, !.key = k, !.entry = e, !.todo = Present]
    /\ UNCHANGED <<now, up, reply>> /\ Quiet

MemCall == \E k \in Keys :
             \/ \E op \in {"get", "get_entry", "delete", "search", "clear"} : Begin(op, k, Absent)
             \/ \E val \in Values, ttl \in {{}} \cup {{t} : t \in Ttls} :
                  Begin("set", k, Entry(val, Expiry(ttl)))

\* the caller that handed a value to set, or got it from get, changes it
Mutate(k, val) ==
    /\ up /\ data[k].kind = "entry" /\ Called
    /\ LET Changed(d) == IF d[k].kind = "entry" THEN Put(d, k, [d[k] EXCEPT !.val = val]) ELSE d
       IN  InPlace(Changed(data), Changed(dumping))
    /\ UNCHANGED <<now, up, mem, reply>>

\* an entry handed to the caller, with its expiry and the instant it was read
Handed(e) == IF mem.pc = "collect" /\ e.kind = "entry" /\ e.exp # {}
             THEN mem.found \cup {[exp |-> e.exp, at |-> now]} ELSE mem.found

\* Mutant: the read trusts the clean-up that went before it.
LapsedAtScan(s) == mem.pc = "scan" /\ is_expired(data[s])

\* the check of get_entry
Lapsed(s) == is_expired(data[s])

\* get_entry: an expired entry is deleted from the store, which rewrites the
\* file; if that fails, the except clause hands the raw data out instead
Visit(s) ==
    /\ s \in mem.todo /\ writer = Nobody
    /\ LET rest == [mem EXCEPT !.todo = @ \ {s}]
       IN  IF Lapsed(s)
             THEN \/ /\ Opened("memory", Put(data, s, Absent))
                     /\ mem' = [rest EXCEPT !.entry = IF mem.pc = "collect" THEN data[s] ELSE @]
                  \/ /\ Refused(Put(data, s, Absent))
                     /\ mem' = [rest EXCEPT !.found = Handed(data[s]), !.failed = TRUE]
             ELSE mem' = [rest EXCEPT !.found = Handed(data[s])] /\ Quiet
    /\ UNCHANGED reply

\* _cleanup_expired: the answers of get_entry are not used
ScanKey == \E s \in Slots : MemStep /\ mem.pc = "scan" /\ Visit(s)

\* the end of the clean-up; a key that expired after its own visit is deleted
\* by a call of delete, which begins with a clean-up that deletes it
ScanEnds == /\ MemStep /\ mem.pc = "scan" /\ mem.todo = {} /\ writer = Nobody
            /\ \/ mem' = [mem EXCEPT !.pc = "act"]
               \/ /\ \E s \in Slots : is_expired(data[s])
                  /\ mem' = [mem EXCEPT !.todo = Present]
            /\ UNCHANGED reply /\ Quiet

\* get, get_entry, search and filter go on to read: one key or all of them
Read == /\ MemStep /\ mem.pc = "act" /\ writer = Nobody
        /\ mem.op \in {"get", "get_entry", "search"}
        /\ mem' = [mem EXCEPT !.pc = "collect",
                              !.todo = IF mem.op = "search" THEN Present ELSE {mem.key}]
        /\ UNCHANGED reply /\ Quiet

CollectKey == \E s \in Slots : MemStep /\ mem.pc = "collect" /\ Visit(s)

Answer == /\ MemStep /\ mem.pc = "collect" /\ mem.todo = {} /\ writer = Nobody
          /\ reply' = [found |-> mem.found, failed |-> mem.failed]
          /\ mem' = MemIdle
          /\ Quiet

\* the store after set, delete and clear
Updated(d) == CASE mem.op = "set"    -> Put(d, mem.key, mem.entry)
                [] mem.op = "delete" -> Put(d, mem.key, Absent)
                [] mem.op = "clear"  -> Empty

\* Mutant: delete leaves the file alone.
SavesButDelete == mem.op # "delete"

\* set and clear always save; delete only when the key is there
Saves == mem.op = "delete" => data[mem.key] # Absent

Act == /\ MemStep /\ mem.pc = "act" /\ writer = Nobody
       /\ mem.op \in {"set", "delete", "clear"}
       /\ \/ /\ Saves /\ Opened("memory", Updated(data))
             /\ mem' = [mem EXCEPT !.pc = "written"]
          \/ /\ Saves /\ Refused(Updated(data))
             /\ mem' = MemIdle
          \/ /\ ~Saves /\ data' = Updated(data) /\ mem' = MemIdle
             /\ UNCHANGED <<disk, writer, dumping, unsaved, changed, faults>>
       /\ UNCHANGED reply

\* the end of a rewrite for the memory
EndMemory == /\ MemStep /\ writer = "memory"
             /\ Dumped
             /\ mem' = IF mem.pc = "written" THEN MemIdle
                       ELSE IF unsaved' THEN [mem EXCEPT !.found = Handed(mem.entry), !.failed = TRUE]
                       ELSE mem
             /\ UNCHANGED reply

\* what leaves the users of the store alone: everything but a crash
StorageNext == \/ Tick \/ Load \/ Shutdown \/ EndOther \/ Start
               \/ \E k \in Keys, val \in Values : Mutate(k, val)
               \/ MemCall \/ ScanKey \/ ScanEnds \/ Read \/ CollectKey \/ Answer
               \/ Act \/ EndMemory

----------------------------------------------------------------------------
(* Properties                                                              *)

StorageTypeOK ==
    /\ now \in 0..MaxTime /\ faults \in 0..MaxFaults
    /\ DOMAIN data = Slots
    /\ disk.kind \in {"absent", "torn", "whole"}
    /\ writer # Nobody => up /\ disk = Torn
    /\ mem.pc \in {"idle", "scan", "act", "collect", "written"}
    /\ mem.todo \subseteq Slots /\ changed \subseteq Slots

\* Outside save(), unless a save raised since, a restart gives back what is in
\* memory: the same entries and contexts with the same lifetimes, and with the
\* same contents as JSON writes them, but for the values that were changed in
\* place since.  Every operation that changes _data rewrites the file, so a
\* crash between two operations loses nothing else.
RestartGivesMemory ==
    up /\ writer = Nobody /\ ~unsaved =>
        \A s \in Slots : /\ Bare(Image(disk)[s]) = Bare(data[s])
                         /\ s \notin changed => Image(disk)[s] = Json(data[s])

\* The store and its file.
StoreConsistent == StorageTypeOK /\ RestartGivesMemory

\* get, get_entry, search and filter hand out an entry past its expiry only
\* when deleting it failed to reach the file (the except clause of
\* get_entry), although the clock moves between their clean-up and their read.
StaleOnlyAfterFailure ==
    \A r \in reply.found : (\E t \in r.exp : r.at > t) => reply.failed

\* docs/storage.md:53 "transaction-like file updates": between two operations
\* the file is a completed save.
UpdatesAreTransactional == writer = Nobody => disk.kind # "torn"

============================================================================
