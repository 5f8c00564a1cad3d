--------------------------- MODULE ContextsProofs ---------------------------
(***************************************************************************)
(* Proofs about the file storage, the memory on it and the context engine. *)
(***************************************************************************)
EXTENDS Contexts, SequenceTheorems, FiniteSetTheorems, TLAPS

-----------------------------------------------------------------------------
(* The inductive invariant *)

Expiries    == SUBSET Nat
Entries     == [kind : {"entry"}, val : Values, of : {0}, exp : Expiries]
Serialised  == [kind : {"context"}, id : Ctxs, active : BOOLEAN, exp : Expiries,
                val : Values, of : Nat]
Collections == [kind : {"all"}, cs : {ps \in SUBSET Serialised : IsFiniteSet(ps)}]
Objects     == [id : Ctxs, active : BOOLEAN, exp : Expiries, val : Values]
Kept        == {Absent} \cup Entries \cup Serialised \cup Collections

\* A dictionary the storage may hold: entries of the memory under its keys,
\* contexts under theirs.
Store(d) == /\ d \in [Slots -> Kept]
            /\ \A s \in Keys : d[s] \in {Absent} \cup Entries
            /\ \A c \in Ctxs : d[SlotOf[c]] \in {Absent} \cup Serialised
            /\ d[AllSlot] \in {Absent} \cup Collections

ClockOK == /\ now \in 0..MaxTime /\ faults \in 0..MaxFaults
           /\ up \in BOOLEAN /\ unsaved \in BOOLEAN

\* Two dictionaries with the same values but for their contents.
SameBare(d, e) == \A s \in Slots : Bare(d[s]) = Bare(e[s])

\* What json.dump is writing differs from the dictionary by contents only, and
\* those have changed since the file was opened.
DumpOK == /\ Store(dumping) /\ SameBare(dumping, data)
          /\ \A s \in Slots \ changed : dumping[s] = data[s]

\* What the file holds went through JSON already.
Normal(d) == \A s \in Slots : Json(d[s]) = d[s]

\* The file lags behind the dictionary only while the lock is held, since a
\* save raised, or in the contents that changed in place.
FileOK == /\ Store(data) /\ Store(Image(disk)) /\ Normal(Image(disk))
          /\ disk.kind \in {"absent", "torn", "whole"}
          /\ writer # Nobody => up /\ disk = Torn /\ DumpOK
          /\ changed \subseteq Slots
          /\ RestartGivesMemory

\* What the memory operation has gathered past its expiry it has gathered
\* because a deletion failed.
Confessed(found, failed) == \A r \in found : (\E t \in r.exp : r.at > t) => failed

MemOK == /\ DOMAIN mem = {"pc", "op", "key", "entry", "todo", "found", "failed"}
         /\ mem.pc \in {"idle", "scan", "act", "collect", "written"}
         /\ mem.pc # "idle" => mem.key \in Keys
         /\ mem.todo \subseteq Slots
         /\ mem.entry \in {Absent} \cup Entries
         /\ mem.failed \in BOOLEAN
         /\ Confessed(mem.found, mem.failed)

ReplyOK == Confessed(reply.found, reply.failed)

StorageInv == ClockOK /\ FileOK /\ MemOK /\ ReplyOK

Known == Stored \cup {objs[i] : i \in DOMAIN objs}

TableOK == /\ objs \in Seq(Objects)
           /\ table \in [Ctxs -> 0..Len(objs)]
           /\ used \subseteq Ctxs

\* An id that is stored or held has been handed out, so the next one is new.
IdsAreUsed == \A p \in Known : p.id \in used

ContextsInv == StorageInv /\ TableOK /\ TableIsActive /\ LifetimeIsFixed /\ IdsAreUsed

-----------------------------------------------------------------------------
(* Values and their contents *)

\* The kinds of values are told apart by their field.
LEMMA Kinds ==
    /\ Absent.kind = "absent" /\ Torn.kind = "torn"
    /\ \A e \in Entries : e.kind = "entry" /\ e.val \in Values /\ e.of = 0 /\ e.exp \in Expiries
    /\ \A p \in Serialised : /\ p.kind = "context" /\ p.id \in Ctxs /\ p.val \in Values
                             /\ p.active \in BOOLEAN /\ p.exp \in Expiries
    /\ \A a \in Collections : /\ a.kind = "all" /\ a.cs \subseteq Serialised
                              /\ IsFiniteSet(a.cs)
BY DEF Absent, Torn, Entries, Serialised, Collections

\* Replacing the content of a value replaces nothing else.
LEMMA WithOf ==
    ASSUME NEW val, NEW w
    PROVE  /\ \A p \in Entries : /\ val \in Values => With(p, val) \in Entries
                                 /\ With(With(p, val), w) = With(p, w)
           /\ \A p \in Serialised : /\ val \in Values => With(p, val) \in Serialised
                                    /\ With(p, val).id = p.id /\ With(p, val).exp = p.exp
                                    /\ With(p, val).active = p.active
                                    /\ With(p, val).kind = "context" /\ With(p, val).val = val
                                    /\ With(With(p, val), w) = With(p, w)
BY DEF With, Entries, Serialised

\* The contexts of a collection, each replaced by another form of it.
LEMMA Remade ==
    ASSUME NEW a \in Collections, NEW f \in [a.cs -> Serialised]
    PROVE  [a EXCEPT !.cs = {f[p] : p \in a.cs}] \in Collections
<1>1. PICK T : T = {f[p] : p \in a.cs}
  OBVIOUS
<1>2. f \in Surjection(a.cs, T)
  BY <1>1, Zenon DEF Surjection
<1>3. IsFiniteSet(T)
  BY <1>2, Kinds, FS_Surjection
<1>4. T \subseteq Serialised
  BY <1>1
<1>5. [a EXCEPT !.cs = T] \in Collections
  BY <1>3, <1>4 DEF Collections
<1> QED
  BY <1>1, <1>5, Zenon

\* JSON keeps what a value is and changes its content only; it changes nothing
\* the second time.
LEMMA JsonOfOne ==
    ASSUME NEW p \in Entries \cup Serialised
    PROVE  /\ Json(p) = With(p, JsonOf[p.val]) /\ Bare(p) = With(p, Nothing)
           /\ p \in Entries => Json(p) \in Entries
           /\ p \in Serialised => Json(p) \in Serialised
           /\ Bare(Json(p)) = Bare(p) /\ Json(Json(p)) = Json(p)
<1>1. p.kind \in {"entry", "context"} /\ p.val \in Values
  BY Kinds
<1>2. Json(p) = With(p, JsonOf[p.val]) /\ Bare(p) = With(p, Nothing)
  BY <1>1 DEF Json, Bare
<1>3. PICK v \in Values : v = JsonOf[p.val] /\ JsonOf[v] = v
  BY <1>1, StorageAssumption
<1>4. PICK q : q = Json(p)
  OBVIOUS
<1>5. q = With(p, v) /\ q.val = v /\ q.kind = p.kind
  BY <1>2, <1>3, <1>4 DEF With, Entries, Serialised
<1>6. (p \in Entries => q \in Entries) /\ (p \in Serialised => q \in Serialised)
  BY <1>5, WithOf
<1>7. Bare(q) = With(q, Nothing) /\ Json(q) = With(q, v)
  BY <1>1, <1>3, <1>5 DEF Json, Bare
<1>8. With(q, Nothing) = With(p, Nothing) /\ With(q, v) = With(p, v)
  BY <1>5, WithOf
<1> QED
  BY <1>2, <1>4, <1>5, <1>6, <1>7, <1>8, Zenon

\* The same for a collection of contexts.
LEMMA JsonOfAll ==
    ASSUME NEW a \in Collections
    PROVE  /\ Json(a) \in Collections
           /\ Bare(Json(a)) = Bare(a) /\ Json(Json(a)) = Json(a)
<1>1. a.kind = "all" /\ a.cs \subseteq Serialised
  BY Kinds
<1>2. PICK f : f = [p \in a.cs |-> With(p, JsonOf[p.val])]
  OBVIOUS
<1>3. \A p \in a.cs : /\ f[p] \in Serialised /\ With(f[p], Nothing) = With(p, Nothing)
                      /\ With(f[p], JsonOf[f[p].val]) = f[p]
  <2> TAKE p \in a.cs
  <2>1. f[p] = Json(p) /\ p \in Serialised
    BY <1>1, <1>2, JsonOfOne
  <2> QED
    BY <2>1, JsonOfOne
<1>4. f \in [a.cs -> Serialised]
  BY <1>2, <1>3, Zenon
<1>5. PICK T : T = {f[p] : p \in a.cs}
  OBVIOUS
<1>6. T = {With(p, JsonOf[p.val]) : p \in a.cs}
  BY <1>2, <1>5, Zenon
<1>7. Json(a) = [a EXCEPT !.cs = T]
  BY <1>1, <1>6 DEF Json
<1>8. Json(a) \in Collections
  BY <1>4, <1>5, <1>7, Remade
<1>9. Json(a).kind = "all" /\ Json(a).cs = T
  BY <1>7 DEF Collections
<1>10. {With(q, Nothing) : q \in T} = {With(p, Nothing) : p \in a.cs}
  BY <1>3, <1>5
<1>11. {With(q, JsonOf[q.val]) : q \in T} = T
  BY <1>3, <1>5
<1>12. PICK j : j = Json(a)
  OBVIOUS
<1>13. Bare(j) = [j EXCEPT !.cs = {With(q, Nothing) : q \in T}]
  BY <1>9, <1>12 DEF Bare
<1>14. Bare(a) = [a EXCEPT !.cs = {With(p, Nothing) : p \in a.cs}]
  BY <1>1 DEF Bare
<1>15. Bare(j) = Bare(a)
  <2>1. PICK U : U = {With(p, Nothing) : p \in a.cs}
    OBVIOUS
  <2>2. Bare(j) = [j EXCEPT !.cs = U] /\ Bare(a) = [a EXCEPT !.cs = U]
    BY <1>10, <1>13, <1>14, <2>1, Zenon
  <2>3. [j EXCEPT !.cs = U] = [a EXCEPT !.cs = U]
    BY <1>7, <1>12 DEF Collections
  <2> QED
    BY <2>2, <2>3
<1>16. Json(j) = j
  <2>1. Json(j) = [j EXCEPT !.cs = {With(q, JsonOf[q.val]) : q \in j.cs}]
    BY <1>9, <1>12 DEF Json
  <2>2. Json(j) = [j EXCEPT !.cs = T]
    BY <1>9, <1>11, <1>12, <2>1, Zenon
  <2> QED
    BY <1>8, <1>9, <1>12, <2>2 DEF Collections
<1> QED
  BY <1>8, <1>12, <1>15, <1>16

\* The same for whatever the storage may hold.
LEMMA JsonOfKept ==
    ASSUME NEW v \in Kept
    PROVE  /\ Json(v) \in Kept /\ Bare(Json(v)) = Bare(v) /\ Json(Json(v)) = Json(v)
           /\ v \in {Absent} \cup Entries => Json(v) \in {Absent} \cup Entries
           /\ v \in {Absent} \cup Serialised => Json(v) \in {Absent} \cup Serialised
           /\ v \in {Absent} \cup Collections => Json(v) \in {Absent} \cup Collections
<1>1. CASE v = Absent
  <2>1. Json(Absent) = Absent
    BY Kinds DEF Json
  <2> QED
    BY <1>1, <2>1
<1>2. CASE v \in Entries
  BY <1>2, JsonOfOne, Kinds DEF Kept
<1>3. CASE v \in Serialised
  BY <1>3, JsonOfOne, Kinds DEF Kept
<1>4. CASE v \in Collections
  BY <1>4, JsonOfAll, Kinds DEF Kept
<1> QED
  BY <1>1, <1>2, <1>3, <1>4 DEF Kept

-----------------------------------------------------------------------------
(* Dictionaries *)

\* The keys of the contexts are no keys of the memory.
LEMMA KeysApart ==
    /\ Keys \subseteq Slots /\ AllSlot \in Slots /\ AllSlot \notin Keys
    /\ \A c \in Ctxs : SlotOf[c] \in Slots \ Keys /\ SlotOf[c] # AllSlot
BY StorageAssumption, ContextsAssumption DEF Slots

\* The payloads of a dictionary, one by one.
LEMMA InPayloads ==
    ASSUME NEW d, Store(d)
    PROVE  \A p : p \in Payloads(d) <=>
                    \/ \E c \in Ctxs : d[SlotOf[c]] # Absent /\ p = d[SlotOf[c]]
                    \/ d[AllSlot] # Absent /\ p \in d[AllSlot].cs
<1>1. CASE d[AllSlot] = Absent
  BY <1>1, Zenon DEF Payloads
<1>2. CASE d[AllSlot] # Absent
  BY <1>2, Zenon DEF Payloads
<1> QED
  BY <1>1, <1>2

\* What is stored of contexts has the shape of contexts.
LEMMA PayloadsAreSerialised ==
    ASSUME NEW d, Store(d)
    PROVE  Payloads(d) \subseteq Serialised
<1> SUFFICES ASSUME NEW p \in Payloads(d)  PROVE p \in Serialised
  OBVIOUS
<1>1. CASE \E c \in Ctxs : d[SlotOf[c]] # Absent /\ p = d[SlotOf[c]]
  BY <1>1 DEF Store
<1>2. CASE d[AllSlot] # Absent /\ p \in d[AllSlot].cs
  <2>1. d[AllSlot] \in Collections
    BY <1>2 DEF Store
  <2> QED
    BY <1>2, <2>1, Kinds
<1> QED
  BY <1>1, <1>2, InPayloads

\* The empty store has no contexts.
LEMMA EmptyStore == Store(Empty) /\ Payloads(Empty) = {}
<1>1. Store(Empty)
  BY KeysApart DEF Store, Empty, Kept
<1>2. (\A c \in Ctxs : Empty[SlotOf[c]] = Absent) /\ Empty[AllSlot] = Absent
  BY KeysApart DEF Empty
<1> QED
  BY <1>1, <1>2, InPayloads, Zenon

\* Writing a value where it belongs leaves the other contexts alone.
LEMMA PutInStore ==
    ASSUME NEW d, Store(d), NEW s \in Slots, NEW v \in Kept,
           s \in Keys => v \in {Absent} \cup Entries,
           \A c \in Ctxs : s = SlotOf[c] => v \in {Absent} \cup Serialised,
           s = AllSlot => v \in {Absent} \cup Collections
    PROVE  Store(Put(d, s, v))
<1>1. PICK e : e = Put(d, s, v)
  OBVIOUS
<1>2. /\ e \in [Slots -> Kept]
      /\ \A x \in Slots : e[x] = IF x = s THEN v ELSE d[x]
  BY <1>1 DEF Store, Put
<1>3. Store(e)
  BY <1>2, KeysApart DEF Store
<1> QED
  BY <1>1, <1>3

\* Deleting a key and writing a memory entry bring no context into the store.
LEMMA PutOfMemory ==
    ASSUME NEW d, Store(d), NEW s \in Slots, NEW v,
           v = Absent \/ (s \in Keys /\ v \in Entries)
    PROVE  Store(Put(d, s, v)) /\ Payloads(Put(d, s, v)) \subseteq Payloads(d)
<1>1. PICK e : e = Put(d, s, v)
  OBVIOUS
<1>2. \A x \in Slots : e[x] = IF x = s THEN v ELSE d[x]
  BY <1>1 DEF Store, Put
<1>3. Store(e)
  BY <1>1, PutInStore, KeysApart DEF Kept
<1>4. /\ \A c \in Ctxs : e[SlotOf[c]] \in {Absent, d[SlotOf[c]]}
      /\ e[AllSlot] \in {Absent, d[AllSlot]}
  BY <1>2, KeysApart
<1>5. Payloads(e) \subseteq Payloads(d)
  <2> SUFFICES ASSUME NEW p \in Payloads(e)  PROVE p \in Payloads(d)
    OBVIOUS
  <2>1. CASE \E b \in Ctxs : e[SlotOf[b]] # Absent /\ p = e[SlotOf[b]]
    <3>1. \E b \in Ctxs : d[SlotOf[b]] # Absent /\ p = d[SlotOf[b]]
      BY <1>4, <2>1
    <3> QED
      BY <3>1, InPayloads, Zenon
  <2>2. CASE e[AllSlot] # Absent /\ p \in e[AllSlot].cs
    <3>1. d[AllSlot] # Absent /\ p \in d[AllSlot].cs
      BY <1>4, <2>2
    <3> QED
      BY <3>1, InPayloads, Zenon
  <2> QED
    BY <1>3, <2>1, <2>2, InPayloads, Zenon
<1> QED
  BY <1>1, <1>3, <1>5

\* Saving one context adds that context.
LEMMA PutOfContext ==
    ASSUME NEW d, Store(d), NEW c \in Ctxs, NEW v \in Serialised
    PROVE  /\ Store(Put(d, SlotOf[c], v))
           /\ Payloads(Put(d, SlotOf[c], v)) \subseteq Payloads(d) \cup {v}
<1>1. PICK e : e = Put(d, SlotOf[c], v)
  OBVIOUS
<1>2. \A x \in Slots : e[x] = IF x = SlotOf[c] THEN v ELSE d[x]
  BY <1>1 DEF Store, Put
<1>3. Store(e)
  BY <1>1, PutInStore, KeysApart DEF Kept
<1>4. /\ \A b \in Ctxs : e[SlotOf[b]] \in {v, d[SlotOf[b]]}
      /\ e[AllSlot] = d[AllSlot]
  BY <1>2, KeysApart
<1>5. Payloads(e) \subseteq Payloads(d) \cup {v}
  <2> SUFFICES ASSUME NEW p \in Payloads(e), p # v  PROVE p \in Payloads(d)
    OBVIOUS
  <2>1. CASE \E b \in Ctxs : e[SlotOf[b]] # Absent /\ p = e[SlotOf[b]]
    <3>1. \E b \in Ctxs : d[SlotOf[b]] # Absent /\ p = d[SlotOf[b]]
      BY <1>4, <2>1
    <3> QED
      BY <3>1, InPayloads, Zenon
  <2>2. CASE e[AllSlot] # Absent /\ p \in e[AllSlot].cs
    <3>1. d[AllSlot] # Absent /\ p \in d[AllSlot].cs
      BY <1>4, <2>2
    <3> QED
      BY <3>1, InPayloads, Zenon
  <2> QED
    BY <1>3, <2>1, <2>2, InPayloads, Zenon
<1> QED
  BY <1>1, <1>3, <1>5

\* Saving all contexts adds those.
LEMMA PutOfAll ==
    ASSUME NEW d, Store(d), NEW v \in Collections
    PROVE  /\ Store(Put(d, AllSlot, v))
           /\ Payloads(Put(d, AllSlot, v)) \subseteq Payloads(d) \cup v.cs
<1>1. PICK e : e = Put(d, AllSlot, v)
  OBVIOUS
<1>2. \A x \in Slots : e[x] = IF x = AllSlot THEN v ELSE d[x]
  BY <1>1 DEF Store, Put
<1>3. Store(e)
  BY <1>1, PutInStore, KeysApart DEF Kept
<1>4. /\ \A b \in Ctxs : e[SlotOf[b]] = d[SlotOf[b]]
      /\ e[AllSlot] = v
  BY <1>2, KeysApart
<1>5. Payloads(e) \subseteq Payloads(d) \cup v.cs
  BY <1>3, <1>4, InPayloads, Zenon
<1> QED
  BY <1>1, <1>3, <1>5

\* A context in another form: the same id with the same end.
Copy(p, q) == p.id = q.id /\ p.exp = q.exp

\* The same stored context but for its content.
Alike(p, q) == Copy(p, q) /\ p.active = q.active

\* Contexts that are all among others but for their contents.
Within(P, Q) == \A p \in P : \E q \in Q : Alike(p, q)

\* A set of contexts is within whatever contains it, and so is what is within it.
LEMMA WithinLarger ==
    ASSUME NEW P, NEW Q, NEW R, Within(P, Q), Q \subseteq R
    PROVE  Within(P, R)
BY DEF Within

\* A set of contexts is within each larger set.
LEMMA WithinItself == ASSUME NEW P, NEW Q, P \subseteq Q  PROVE Within(P, Q)
BY DEF Within, Alike, Copy

\* Dictionaries that differ by contents only hold the same contexts.
LEMMA BareAlike ==
    ASSUME NEW d, Store(d), NEW e, Store(e), SameBare(d, e)
    PROVE  Within(Payloads(d), Payloads(e))
<1> SUFFICES ASSUME NEW p \in Payloads(d)  PROVE \E q \in Payloads(e) : Alike(p, q)
  BY DEF Within
<1>1. CASE \E c \in Ctxs : d[SlotOf[c]] # Absent /\ p = d[SlotOf[c]]
  <2>1. PICK c \in Ctxs : d[SlotOf[c]] # Absent /\ p = d[SlotOf[c]]
    BY <1>1
  <2>2. PICK q : q = e[SlotOf[c]]
    OBVIOUS
  <2>3. p \in Serialised /\ q \in {Absent} \cup Serialised /\ Bare(p) = Bare(q)
    BY <2>1, <2>2, KeysApart DEF Store, SameBare
  <2>4. Bare(p) = With(p, Nothing) /\ Bare(p).kind = "context" /\ Bare(Absent).kind = "absent"
    BY <2>3, JsonOfOne, WithOf, Kinds DEF Bare
  <2>5. q \in Serialised /\ Bare(q) = With(q, Nothing)
    BY <2>3, <2>4, JsonOfOne
  <2>6. Alike(p, q)
    <3>1. With(p, Nothing) = With(q, Nothing)
      BY <2>3, <2>4, <2>5
    <3> QED
      BY <2>3, <2>5, <3>1, WithOf DEF Alike, Copy
  <2>7. q \in Payloads(e)
    BY <2>2, <2>5, Kinds, InPayloads
  <2> QED
    BY <2>6, <2>7
<1>2. CASE d[AllSlot] # Absent /\ p \in d[AllSlot].cs
  <2>1. PICK a, b : a = d[AllSlot] /\ b = e[AllSlot]
    OBVIOUS
  <2>2. a \in Collections /\ b \in {Absent} \cup Collections /\ Bare(a) = Bare(b)
    BY <1>2, <2>1, KeysApart DEF Store, SameBare
  <2>3. Bare(a) = [a EXCEPT !.cs = {With(x, Nothing) : x \in a.cs}]
    BY <2>2, Kinds DEF Bare
  <2>4. Bare(a).kind = "all" /\ Bare(a).cs = {With(x, Nothing) : x \in a.cs}
    BY <2>2, <2>3 DEF Collections
  <2>5. b \in Collections
    BY <2>2, <2>4, Kinds DEF Bare
  <2>6. Bare(b) = [b EXCEPT !.cs = {With(x, Nothing) : x \in b.cs}]
    BY <2>5, Kinds DEF Bare
  <2>7. Bare(b).cs = {With(x, Nothing) : x \in b.cs}
    BY <2>5, <2>6 DEF Collections
  <2>8. PICK q \in b.cs : With(p, Nothing) = With(q, Nothing)
    BY <1>2, <2>1, <2>2, <2>4, <2>7
  <2>9. p \in Serialised /\ q \in Serialised
    BY <1>2, <2>1, <2>2, <2>5, Kinds
  <2>10. Alike(p, q)
    BY <2>8, <2>9, WithOf DEF Alike, Copy
  <2>11. q \in Payloads(e)
    BY <2>1, <2>5, <2>8, Kinds, InPayloads
  <2> QED
    BY <2>10, <2>11
<1> QED
  BY <1>1, <1>2, InPayloads

-----------------------------------------------------------------------------
(* The store and its file *)

\* The file, as one value.
LEMMA Images == /\ Image(Torn) = Empty /\ Image(Absent) = Empty
                /\ \A d : Image(Whole(d)) = [s \in Slots |-> Json(d[s])] /\ Whole(d).kind = "whole"
                /\ Torn # Absent /\ Normal(Empty)
<1>1. Json(Absent) = Absent
  BY DEF Json, Absent
<1>2. Normal(Empty)
  BY <1>1 DEF Normal, Empty
<1> QED
  BY <1>2 DEF Image, Torn, Absent, Whole

\* A whole dictionary, as the file gives it back.
LEMMA JsonOfStore ==
    ASSUME NEW d, Store(d)
    PROVE  /\ Store(Image(Whole(d))) /\ Normal(Image(Whole(d)))
           /\ SameBare(Image(Whole(d)), d)
           /\ \A s \in Slots : Image(Whole(d))[s] = Json(d[s])
<1>1. PICK e : e = [s \in Slots |-> Json(d[s])]
  OBVIOUS
<1>2. \A s \in Slots : e[s] = Json(d[s]) /\ d[s] \in Kept
  BY <1>1 DEF Store
<1>3. e \in [Slots -> Kept]
  BY <1>1, <1>2, JsonOfKept, Zenon
<1>4. Store(e)
  <2>1. \A s \in Keys : e[s] \in {Absent} \cup Entries
    BY <1>2, JsonOfKept, KeysApart DEF Store
  <2>2. \A c \in Ctxs : e[SlotOf[c]] \in {Absent} \cup Serialised
    BY <1>2, JsonOfKept, KeysApart DEF Store
  <2>3. e[AllSlot] \in {Absent} \cup Collections
    BY <1>2, JsonOfKept, KeysApart DEF Store
  <2> QED
    BY <1>3, <2>1, <2>2, <2>3 DEF Store
<1>5. Normal(e) /\ SameBare(e, d)
  BY <1>2, JsonOfKept DEF Normal, SameBare
<1> QED
  BY <1>1, <1>2, <1>4, <1>5, Images

\* set, delete, clear and shutdown, from the change to the opened or the
\* refused file: the contexts that are stored afterwards were stored before or
\* are in the new dictionary.
LEMMA Writes ==
    ASSUME ClockOK, FileOK, up, up' = up, now' = now, NEW d, Store(d), NEW w, w # Nobody,
           Opened(w, d) \/ Refused(d)
    PROVE  ClockOK' /\ FileOK' /\ Stored' \subseteq Payloads(d) \cup Stored
<1>1. CASE Opened(w, d)
  <2>1. /\ data' = d /\ disk' = Torn /\ writer' = w /\ unsaved' = unsaved /\ faults' = faults
        /\ dumping' = d /\ changed' = {}
    BY <1>1 DEF Opened
  <2>2. Image(disk') = Empty /\ disk'.kind = "torn" /\ Normal(Image(disk'))
    BY <2>1, Images DEF Torn
  <2>3. DumpOK'
    BY <2>1 DEF DumpOK, SameBare
  <2>4. FileOK'
    BY <2>1, <2>2, <2>3, EmptyStore DEF FileOK, RestartGivesMemory
  <2>5. Stored' = Payloads(d) \cup Payloads(Empty)
    BY <2>1, <2>2, Zenon DEF Stored
  <2> QED
    BY <2>1, <2>4, <2>5, EmptyStore DEF ClockOK
<1>2. CASE Refused(d)
  <2>1. /\ data' = d /\ disk' = disk /\ writer' = writer /\ unsaved' = TRUE
        /\ faults < MaxFaults /\ faults' = faults + 1 /\ writer = Nobody /\ changed' = changed
    BY <1>2 DEF Refused
  <2>2. FileOK'
    BY <2>1 DEF FileOK, RestartGivesMemory
  <2>3. Stored' = Payloads(d) \cup Payloads(Image(disk))
    BY <2>1, Zenon DEF Stored
  <2>4. ClockOK'
    BY <2>1, StorageAssumption DEF ClockOK
  <2> QED
    BY <2>2, <2>3, <2>4 DEF Stored
<1> QED
  BY <1>1, <1>2

\* The end of a rewrite.
LEMMA Dumps ==
    ASSUME ClockOK, FileOK, writer # Nobody, up' = up, now' = now, Dumped
    PROVE  ClockOK' /\ FileOK' /\ Within(Stored', Stored)
<1>1. data' = data /\ faults' = faults /\ writer' = Nobody /\ changed' = changed
  BY DEF Dumped
<1>2. Store(data) /\ DumpOK /\ changed \subseteq Slots
  BY DEF FileOK
<1>3. CASE disk' = Whole(dumping) /\ unsaved' = FALSE
  <2>1. PICK e : e = Image(disk')
    OBVIOUS
  <2>2. /\ Store(e) /\ Normal(e) /\ SameBare(e, dumping) /\ disk'.kind = "whole"
        /\ \A s \in Slots : e[s] = Json(dumping[s])
    BY <1>2, <1>3, <2>1, JsonOfStore, Images DEF DumpOK
  <2>3. SameBare(e, data)
    BY <1>2, <2>2 DEF DumpOK, SameBare
  <2>4. \A s \in Slots \ changed : e[s] = Json(data[s])
    BY <1>2, <2>2 DEF DumpOK
  <2>5. RestartGivesMemory'
    BY <1>1, <2>1, <2>3, <2>4 DEF RestartGivesMemory, SameBare
  <2>6. FileOK'
    BY <1>1, <1>2, <2>1, <2>2, <2>5 DEF FileOK
  <2>7. Stored' = Payloads(data) \cup Payloads(e)
    BY <1>1, <2>1, Zenon DEF Stored
  <2>8. Within(Payloads(e), Payloads(data))
    BY <1>2, <2>2, <2>3, BareAlike
  <2>9. Within(Stored', Stored)
    BY <2>7, <2>8 DEF Within, Stored, Alike, Copy
  <2> QED
    BY <1>1, <1>3, <2>6, <2>9 DEF ClockOK
<1>4. CASE disk' = disk /\ unsaved' = TRUE
  <2>1. FileOK'
    BY <1>1, <1>4 DEF FileOK, RestartGivesMemory
  <2>2. Stored' = Stored
    BY <1>1, <1>4, Zenon DEF Stored
  <2> QED
    BY <1>1, <1>4, <2>1, <2>2, WithinItself DEF ClockOK
<1> QED
  BY <1>3, <1>4, Zenon DEF Dumped

\* Nothing happens to the store.
LEMMA LeavesStore ==
    ASSUME ClockOK, FileOK, Quiet, up' = up, now' \in 0..MaxTime
    PROVE  ClockOK' /\ FileOK' /\ Stored' = Stored
<1>1. /\ data' = data /\ disk' = disk /\ writer' = writer /\ unsaved' = unsaved /\ faults' = faults
      /\ dumping' = dumping /\ changed' = changed
  BY DEF Quiet, fileVars
<1>2. DumpOK => DumpOK'
  BY <1>1 DEF DumpOK
<1>3. FileOK'
  BY <1>1, <1>2 DEF FileOK, RestartGivesMemory
<1>4. Stored' = Stored
  BY <1>1, Zenon DEF Stored
<1> QED
  BY <1>1, <1>3, <1>4 DEF ClockOK

\* Contents change in place, in the dictionary and in what is still to be
\* written of it.
LEMMA ChangesInPlace ==
    ASSUME ClockOK, FileOK, up' = up, now' = now, NEW d, NEW e, InPlace(d, e),
           Store(d), SameBare(d, data),
           DumpOK => /\ Store(e) /\ SameBare(e, dumping)
                     /\ \A s \in Slots : dumping[s] = data[s] => e[s] = d[s]
    PROVE  ClockOK' /\ FileOK' /\ Within(Stored', Stored)
<1>1. /\ data' = d /\ disk' = disk /\ writer' = writer /\ unsaved' = unsaved /\ faults' = faults
      /\ changed' = changed \cup {s \in Slots : d[s] # data[s]}
  BY DEF InPlace
<1>2. PICK passed \in SUBSET Slots :
        dumping' = [s \in Slots |-> IF s \in passed THEN dumping[s] ELSE e[s]]
  BY Zenon DEF InPlace
<1>3. PICK g : g = [s \in Slots |-> IF s \in passed THEN dumping[s] ELSE e[s]]
  OBVIOUS
<1>4. ASSUME DumpOK  PROVE DumpOK'
  <2>1. \A s \in Slots : g[s] \in {dumping[s], e[s]}
    BY <1>3
  <2>2. Store(e) /\ Store(dumping)
    BY <1>4 DEF DumpOK
  <2>3. Store(g)
    <3>1. g \in [Slots -> Kept]
      BY <1>3, <2>2, Zenon DEF Store
    <3> QED
      BY <2>1, <2>2, <3>1, KeysApart DEF Store
  <2>4. SameBare(g, d)
    BY <1>4, <2>1 DEF DumpOK, SameBare
  <2>5. \A s \in Slots \ changed' : g[s] = d[s]
    <3> TAKE s \in Slots \ changed'
    <3>1. s \notin changed /\ d[s] = data[s]
      BY <1>1
    <3>2. dumping[s] = data[s] /\ e[s] = d[s]
      BY <1>4, <3>1 DEF DumpOK
    <3> QED
      BY <2>1, <3>1, <3>2
  <2> QED
    BY <1>1, <1>2, <1>3, <2>3, <2>4, <2>5 DEF DumpOK
<1>5. RestartGivesMemory'
  BY <1>1 DEF FileOK, RestartGivesMemory, SameBare
<1>6. FileOK'
  BY <1>1, <1>4, <1>5 DEF FileOK
<1>7. Stored' = Payloads(d) \cup Payloads(Image(disk))
  BY <1>1, Zenon DEF Stored
<1>8. Within(Payloads(d), Payloads(data))
  BY BareAlike DEF FileOK
<1>9. Within(Stored', Stored)
  BY <1>7, <1>8 DEF Within, Stored, Alike, Copy
<1> QED
  BY <1>1, <1>6, <1>9 DEF ClockOK

-----------------------------------------------------------------------------
(* The memory on the store *)

\* What is handed out before its expiry needs no confession; after a failure
\* anything may be handed out.
LEMMA HandedConfessed ==
    ASSUME MemOK, NEW e
    PROVE  /\ ~is_expired(e) => Confessed(Handed(e), mem.failed)
           /\ Confessed(Handed(e), TRUE)
<1>1. ASSUME NEW r \in Handed(e), ~is_expired(e), NEW t \in r.exp, r.at > t
      PROVE  mem.failed
  <2>1. CASE r \in mem.found
    BY <1>1, <2>1 DEF MemOK, Confessed
  <2>2. CASE r = [exp |-> e.exp, at |-> now] /\ e.kind = "entry"
    <3>1. r.exp = e.exp /\ r.at = now
      BY <2>2
    <3> QED
      BY <1>1, <2>2, <3>1 DEF is_expired
  <2> QED
    BY <1>1, <2>1, <2>2 DEF Handed
<1>2. ~is_expired(e) => Confessed(Handed(e), mem.failed)
  BY <1>1, Zenon DEF Confessed
<1> QED
  BY <1>2 DEF Confessed

\* The idle memory.
LEMMA IdleOK == ASSUME mem' = MemIdle  PROVE MemOK'
BY DEF MemOK, MemIdle, Confessed

\* An operation that is called for a key and an entry.
LEMMA BeginOK ==
    ASSUME StorageInv, NEW op, NEW k \in Keys, NEW e \in {Absent} \cup Entries, Begin(op, k, e)
    PROVE  StorageInv' /\ Stored' = Stored
<1>1. ClockOK' /\ FileOK' /\ Stored' = Stored
  BY LeavesStore DEF Begin, StorageInv, ClockOK
<1>2. PICK pc \in {"act", "scan"} :
        mem' = [MemIdle EXCEPT !.pc = pc, !.op = op, !.key = k, !.entry = e, !.todo = Present]
  BY DEF Begin
<1>3. mem' = [pc |-> pc, op |-> op, key |-> k, entry |-> e, todo |-> Present,
              found |-> {}, failed |-> FALSE]
  BY <1>2 DEF MemIdle
<1>4. MemOK'
  <2>1. /\ DOMAIN mem' = {"pc", "op", "key", "entry", "todo", "found", "failed"}
        /\ mem'.pc = pc /\ mem'.key = k /\ mem'.entry = e /\ mem'.todo = Present
        /\ mem'.found = {} /\ mem'.failed = FALSE
    BY <1>3
  <2>2. Present \subseteq Slots
    BY DEF Present
  <2> QED
    BY <1>2, <2>1, <2>2 DEF MemOK, Confessed
<1> QED
  BY <1>1, <1>4 DEF StorageInv, Begin, ReplyOK

\* The instants of a lifetime.
LEMMA ExpiryIsASet == ASSUME ClockOK, NEW ttl \in SUBSET Nat  PROVE Expiry(ttl) \in Expiries
BY StorageAssumption DEF ClockOK, Expiry, Expiries

\* The calls of the memory.
LEMMA MemCallOK == ASSUME StorageInv, MemCall  PROVE StorageInv' /\ Stored' = Stored
<1>1. PICK k \in Keys :
        \/ \E op \in {"get", "get_entry", "delete", "search", "clear"} : Begin(op, k, Absent)
        \/ \E val \in Values, ttl \in {{}} \cup {{t} : t \in Ttls} :
              Begin("set", k, Entry(val, Expiry(ttl)))
  BY Zenon DEF MemCall
<1>2. CASE \E op \in {"get", "get_entry", "delete", "search", "clear"} : Begin(op, k, Absent)
  BY <1>2, BeginOK
<1>3. ASSUME NEW val \in Values, NEW ttl \in {{}} \cup {{t} : t \in Ttls},
             Begin("set", k, Entry(val, Expiry(ttl)))
      PROVE  StorageInv' /\ Stored' = Stored
  <2>1. ttl \in SUBSET Nat
    BY StorageAssumption
  <2>2. Expiry(ttl) \in Expiries
    BY <2>1, ExpiryIsASet DEF StorageInv
  <2>3. Entry(val, Expiry(ttl)) \in Entries
    BY <2>2 DEF Entry, Entries
  <2> QED
    BY <1>3, <2>3, BeginOK
<1> QED
  BY <1>1, <1>2, <1>3

\* get_entry of one key, in the clean-up and in the read.
LEMMA VisitOK ==
    ASSUME StorageInv, NEW s \in Slots, MemStep, mem.pc \in {"scan", "collect"}, Visit(s)
    PROVE  StorageInv' /\ Stored' \subseteq Stored
<1> DEFINE rest == [mem EXCEPT !.todo = @ \ {s}]
<1>1. /\ DOMAIN rest = {"pc", "op", "key", "entry", "todo", "found", "failed"}
      /\ rest.pc = mem.pc /\ rest.key = mem.key /\ rest.todo \subseteq Slots
      /\ rest.entry = mem.entry /\ rest.found = mem.found /\ rest.failed = mem.failed
  BY DEF StorageInv, MemOK
<1>2. /\ mem.pc # "idle" => mem.key \in Keys
      /\ mem.entry \in {Absent} \cup Entries /\ mem.failed \in BOOLEAN
      /\ Confessed(mem.found, mem.failed)
  BY DEF StorageInv, MemOK
<1>3. ClockOK /\ FileOK /\ up /\ up' = up /\ now' = now /\ reply' = reply
  BY DEF StorageInv, MemStep, Visit
<1>4. ReplyOK'
  BY <1>3 DEF StorageInv, ReplyOK
<1>5. \/ Lapsed(s) /\ Opened("memory", Put(data, s, Absent))
         /\ mem' = [rest EXCEPT !.entry = IF mem.pc = "collect" THEN data[s] ELSE @]
      \/ Lapsed(s) /\ Refused(Put(data, s, Absent))
         /\ mem' = [rest EXCEPT !.found = Handed(data[s]), !.failed = TRUE]
      \/ ~Lapsed(s) /\ mem' = [rest EXCEPT !.found = Handed(data[s])] /\ Quiet
  BY Zenon DEF Visit
<1> HIDE DEF rest
<1>6. Store(Put(data, s, Absent)) /\ Payloads(Put(data, s, Absent)) \subseteq Stored
  BY <1>3, PutOfMemory DEF FileOK, Stored
<1>7. CASE /\ Lapsed(s) /\ Opened("memory", Put(data, s, Absent))
           /\ mem' = [rest EXCEPT !.entry = IF mem.pc = "collect" THEN data[s] ELSE @]
  <2>1. ClockOK' /\ FileOK' /\ Stored' \subseteq Stored
    BY <1>3, <1>6, <1>7, Writes DEF Nobody
  <2>2. data[s] \in Entries
    <3>1. data[s] \in Kept /\ data[s].kind = "entry"
      BY <1>3, <1>7 DEF Lapsed, is_expired, FileOK, Store
    <3> QED
      BY <3>1, Kinds DEF Kept
  <2>3. PICK e \in {Absent} \cup Entries : mem' = [rest EXCEPT !.entry = e]
    BY <1>1, <1>2, <1>7, <2>2
  <2>4. MemOK'
    BY <1>1, <1>2, <2>3 DEF MemOK
  <2> QED
    BY <1>4, <2>1, <2>4 DEF StorageInv
<1>8. CASE /\ Lapsed(s) /\ Refused(Put(data, s, Absent))
           /\ mem' = [rest EXCEPT !.found = Handed(data[s]), !.failed = TRUE]
  <2>1. ClockOK' /\ FileOK' /\ Stored' \subseteq Stored
    BY <1>3, <1>6, <1>8, Writes DEF Nobody
  <2>2. Confessed(Handed(data[s]), TRUE)
    BY HandedConfessed DEF StorageInv
  <2>3. MemOK'
    BY <1>1, <1>2, <1>8, <2>2 DEF MemOK
  <2> QED
    BY <1>4, <2>1, <2>3 DEF StorageInv
<1>9. CASE ~Lapsed(s) /\ mem' = [rest EXCEPT !.found = Handed(data[s])] /\ Quiet
  <2>1. ClockOK' /\ FileOK' /\ Stored' = Stored
    BY <1>3, <1>9, LeavesStore DEF ClockOK
  <2>2. Confessed(Handed(data[s]), mem.failed)
    BY <1>9, HandedConfessed DEF StorageInv, Lapsed
  <2>3. MemOK'
    BY <1>1, <1>2, <1>9, <2>2 DEF MemOK
  <2> QED
    BY <1>4, <2>1, <2>3 DEF StorageInv
<1> QED
  BY <1>5, <1>7, <1>8, <1>9
\* The steps of an operation that leave the store alone.
LEMMA QuietStepsOK ==
    ASSUME StorageInv, ScanEnds \/ Read \/ Answer
    PROVE  StorageInv' /\ Stored' = Stored
<1>1. Quiet /\ MemStep
  BY DEF ScanEnds, Read, Answer
<1>2. ClockOK' /\ FileOK' /\ Stored' = Stored
  BY <1>1, LeavesStore DEF StorageInv, MemStep, ClockOK
<1>3. CASE ScanEnds
  <2>1. /\ reply' = reply /\ mem.pc = "scan"
        /\ mem' = [mem EXCEPT !.pc = "act"] \/ mem' = [mem EXCEPT !.todo = Present]
    BY <1>3, Zenon DEF ScanEnds
  <2>2. Present \subseteq Slots
    BY DEF Present
  <2>3. MemOK' /\ ReplyOK'
    BY <2>1, <2>2 DEF StorageInv, MemOK, ReplyOK
  <2> QED
    BY <1>2, <2>3 DEF StorageInv
<1>4. CASE Read
  <2>1. /\ mem' = [mem EXCEPT !.pc = "collect",
                              !.todo = IF mem.op = "search" THEN Present ELSE {mem.key}]
        /\ reply' = reply /\ mem.pc = "act"
    BY <1>4 DEF Read
  <2>2. mem.key \in Keys /\ Present \subseteq Slots /\ {mem.key} \subseteq Slots
    BY <2>1, KeysApart DEF StorageInv, MemOK, Present
  <2>3. PICK todo \in SUBSET Slots : mem' = [mem EXCEPT !.pc = "collect", !.todo = todo]
    BY <2>1, <2>2
  <2>4. MemOK' /\ ReplyOK'
    BY <2>1, <2>2, <2>3 DEF StorageInv, MemOK, ReplyOK
  <2> QED
    BY <1>2, <2>4 DEF StorageInv
<1>5. CASE Answer
  <2>1. reply' = [found |-> mem.found, failed |-> mem.failed] /\ mem' = MemIdle
    BY <1>5 DEF Answer
  <2>2. ReplyOK'
    BY <2>1 DEF StorageInv, MemOK, ReplyOK
  <2> QED
    BY <1>2, <2>1, <2>2, IdleOK DEF StorageInv
<1> QED
  BY <1>3, <1>4, <1>5

\* set, delete and clear of the memory.
LEMMA ActOK == ASSUME StorageInv, Act  PROVE StorageInv' /\ Stored' \subseteq Stored
<1>1. /\ ClockOK /\ FileOK /\ up /\ up' = up /\ now' = now /\ reply' = reply
      /\ mem.pc = "act" /\ writer = Nobody /\ mem.op \in {"set", "delete", "clear"}
      /\ mem.key \in Keys /\ mem.entry \in {Absent} \cup Entries
  BY DEF StorageInv, Act, MemStep, MemOK
<1>2. ReplyOK'
  BY <1>1 DEF StorageInv, ReplyOK
<1>3. Store(Updated(data)) /\ Payloads(Updated(data)) \subseteq Stored
  <2>1. CASE mem.op = "set"
    <3>1. Updated(data) = Put(data, mem.key, mem.entry)
      BY <2>1 DEF Updated
    <3> QED
      BY <1>1, <3>1, PutOfMemory, KeysApart DEF FileOK, Stored
  <2>2. CASE mem.op = "delete"
    <3>1. Updated(data) = Put(data, mem.key, Absent)
      BY <2>2 DEF Updated
    <3> QED
      BY <1>1, <3>1, PutOfMemory, KeysApart DEF FileOK, Stored
  <2>3. CASE mem.op = "clear"
    <3>1. Updated(data) = Empty
      BY <2>3 DEF Updated
    <3> QED
      BY <3>1, EmptyStore
  <2> QED
    BY <1>1, <2>1, <2>2, <2>3
<1>4. CASE Opened("memory", Updated(data)) /\ mem' = [mem EXCEPT !.pc = "written"]
  <2>1. ClockOK' /\ FileOK' /\ Stored' \subseteq Stored
    BY <1>1, <1>3, <1>4, Writes DEF Nobody
  <2>2. MemOK'
    BY <1>1, <1>4 DEF StorageInv, MemOK
  <2> QED
    BY <1>2, <2>1, <2>2 DEF StorageInv
<1>5. CASE Refused(Updated(data)) /\ mem' = MemIdle
  <2>1. ClockOK' /\ FileOK' /\ Stored' \subseteq Stored
    BY <1>1, <1>3, <1>5, Writes DEF Nobody
  <2> QED
    BY <1>2, <1>5, <2>1, IdleOK DEF StorageInv
<1>6. CASE /\ ~Saves /\ data' = Updated(data) /\ mem' = MemIdle
           /\ UNCHANGED <<disk, writer, dumping, unsaved, changed, faults>>
  <2>1. mem.op = "delete" /\ data[mem.key] = Absent
    BY <1>6 DEF Saves
  <2>2. Updated(data) = Put(data, mem.key, Absent)
    BY <2>1 DEF Updated
  <2>3. Updated(data) = data
    BY <1>1, <2>1, <2>2 DEF Put, FileOK, Store
  <2>4. ClockOK' /\ FileOK' /\ Stored' = Stored
    BY <1>1, <1>6, <2>3, LeavesStore DEF Quiet, fileVars, ClockOK
  <2> QED
    BY <1>2, <1>6, <2>4, IdleOK DEF StorageInv
<1> QED
  BY <1>4, <1>5, <1>6, Zenon DEF Act

\* The end of a rewrite for the memory.
LEMMA EndMemoryOK == ASSUME StorageInv, EndMemory  PROVE StorageInv' /\ Within(Stored', Stored)
<1>1. /\ ClockOK /\ FileOK /\ up /\ up' = up /\ now' = now /\ reply' = reply /\ Dumped
      /\ writer = "memory"
  BY DEF StorageInv, EndMemory, MemStep
<1>2. ClockOK' /\ FileOK' /\ Within(Stored', Stored)
  BY <1>1, Dumps DEF Nobody
<1>3. ReplyOK'
  BY <1>1 DEF StorageInv, ReplyOK
<1>4. \/ mem' = MemIdle
      \/ mem' = mem
      \/ mem' = [mem EXCEPT !.found = Handed(mem.entry), !.failed = TRUE]
  BY Zenon DEF EndMemory
<1>5. MemOK'
  <2>1. CASE mem' = MemIdle
    BY <2>1, IdleOK
  <2>2. CASE mem' = mem
    BY <2>2 DEF StorageInv, MemOK
  <2>3. CASE mem' = [mem EXCEPT !.found = Handed(mem.entry), !.failed = TRUE]
    <3>1. Confessed(Handed(mem.entry), TRUE)
      BY HandedConfessed DEF StorageInv
    <3> QED
      BY <2>3, <3>1 DEF StorageInv, MemOK
  <2> QED
    BY <1>4, <2>1, <2>2, <2>3
<1> QED
  BY <1>2, <1>3, <1>5 DEF StorageInv

\* Nothing happens to the memory.
LEMMA LeavesMemory ==
    ASSUME StorageInv, mem' = mem, reply' = reply
    PROVE  MemOK' /\ ReplyOK'
BY DEF StorageInv, MemOK, ReplyOK

\* The users of the store beside the memory, and the clock.
LEMMA OthersOK ==
    ASSUME StorageInv, Tick \/ Load \/ Shutdown \/ EndOther \/ Start
    PROVE  StorageInv' /\ Within(Stored', Stored)
<1>1. ClockOK /\ FileOK /\ MemOK' /\ ReplyOK'
  BY LeavesMemory DEF StorageInv, Tick, Load, Shutdown, EndOther, Start
<1>2. CASE Tick
  <2>1. Quiet /\ up' = up /\ now' \in 0..MaxTime
    BY <1>1, <1>2, StorageAssumption DEF Tick, Quiet, ClockOK
  <2> QED
    BY <1>1, <2>1, LeavesStore, WithinItself DEF StorageInv
<1>3. CASE Load \/ Start
  <2>1. /\ data' = Image(disk) /\ disk' = disk /\ writer' = writer /\ now' = now
        /\ faults' = faults /\ up' = TRUE /\ changed' \subseteq Slots
        /\ unsaved' \in BOOLEAN /\ writer = Nobody
    BY <1>1, <1>3 DEF Load, Start, ClockOK, FileOK
  <2>2. FileOK'
    BY <1>1, <2>1 DEF FileOK, RestartGivesMemory, Normal
  <2>3. Stored' = Payloads(Image(disk)) \cup Payloads(Image(disk))
    BY <2>1, Zenon DEF Stored
  <2>4. Stored' \subseteq Stored
    BY <2>3 DEF Stored
  <2> QED
    BY <1>1, <2>1, <2>2, <2>4, WithinItself DEF StorageInv, ClockOK
<1>4. CASE Shutdown
  <2>1. ClockOK' /\ FileOK' /\ Stored' \subseteq Payloads(data) \cup Stored
    BY <1>1, <1>4, Writes DEF Shutdown, FileOK, Nobody
  <2>2. Stored' \subseteq Stored
    BY <2>1 DEF Stored
  <2> QED
    BY <1>1, <2>1, <2>2, WithinItself DEF StorageInv
<1>5. CASE EndOther
  BY <1>1, <1>5, Dumps DEF EndOther, StorageInv
<1> QED
  BY <1>2, <1>3, <1>4, <1>5

\* A caller changes the content of an entry that the store holds.
LEMMA MutateOK ==
    ASSUME StorageInv, NEW k \in Keys, NEW val \in Values, Mutate(k, val)
    PROVE  StorageInv' /\ Within(Stored', Stored)
<1> DEFINE Edited(d) == IF d[k].kind = "entry" THEN Put(d, k, [d[k] EXCEPT !.val = val]) ELSE d
<1>1. /\ ClockOK /\ FileOK /\ up' = up /\ now' = now /\ mem' = mem /\ reply' = reply
      /\ InPlace(Edited(data), Edited(dumping))
  BY DEF StorageInv, Mutate
<1>2. ASSUME NEW d, Store(d)
      PROVE  Store(Edited(d)) /\ SameBare(Edited(d), d)
  <2>1. CASE d[k].kind = "entry"
    <3>1. PICK p : p = d[k]
      OBVIOUS
    <3>2. p \in Entries
      BY <1>2, <2>1, <3>1, Kinds DEF Store
    <3>3. PICK q : q = [p EXCEPT !.val = val]
      OBVIOUS
    <3>4. q \in Entries /\ With(q, Nothing) = With(p, Nothing)
      BY <3>2, <3>3 DEF Entries, With
    <3>5. Edited(d) = Put(d, k, q)
      BY <2>1, <3>1, <3>3
    <3>6. Store(Put(d, k, q))
      BY <1>2, <3>4, PutOfMemory, KeysApart
    <3>7. SameBare(Put(d, k, q), d)
      <4>1. Bare(q) = Bare(p)
        BY <3>2, <3>4, JsonOfOne
      <4>2. \A s \in Slots : Put(d, k, q)[s] = IF s = k THEN q ELSE d[s]
        BY <1>2 DEF Store, Put
      <4> QED
        BY <3>1, <4>1, <4>2 DEF SameBare
    <3> QED
      BY <3>5, <3>6, <3>7, Zenon
  <2>2. CASE d[k].kind # "entry"
    BY <1>2, <2>2 DEF SameBare
  <2> QED
    BY <2>1, <2>2
<1>3. ASSUME NEW d, Store(d), NEW s \in Slots
      PROVE  Edited(d)[s] = IF s = k /\ d[s].kind = "entry" THEN [d[s] EXCEPT !.val = val] ELSE d[s]
  BY <1>3 DEF Store, Put
<1>4. Store(data) /\ (DumpOK => Store(dumping))
  BY <1>1 DEF FileOK, DumpOK
<1>5. ASSUME Store(dumping), NEW s \in Slots, dumping[s] = data[s]
      PROVE  Edited(dumping)[s] = Edited(data)[s]
  <2> HIDE DEF Edited
  <2>1. Edited(dumping)[s] = IF s = k /\ dumping[s].kind = "entry"
                             THEN [dumping[s] EXCEPT !.val = val] ELSE dumping[s]
    BY <1>3, <1>5
  <2>2. Edited(data)[s] = IF s = k /\ data[s].kind = "entry"
                          THEN [data[s] EXCEPT !.val = val] ELSE data[s]
    BY <1>3, <1>4
  <2> QED
    BY <1>5, <2>1, <2>2, Zenon
<1>6. PICK d, e : d = Edited(data) /\ e = Edited(dumping)
  OBVIOUS
<1> HIDE DEF Edited
<1>7. /\ Store(d) /\ SameBare(d, data) /\ InPlace(d, e)
      /\ DumpOK => /\ Store(e) /\ SameBare(e, dumping)
                   /\ \A s \in Slots : dumping[s] = data[s] => e[s] = d[s]
  BY <1>1, <1>2, <1>4, <1>5, <1>6
<1>8. ClockOK' /\ FileOK' /\ Within(Stored', Stored)
  BY <1>1, <1>7, ChangesInPlace
<1> QED
  BY <1>1, <1>8, LeavesMemory DEF StorageInv

\* A step of the storage and the memory brings no context into the store.
LEMMA StorageStepOK ==
    ASSUME StorageInv, StorageNext
    PROVE  StorageInv' /\ Within(Stored', Stored)
<1>1. CASE ScanKey \/ CollectKey
  BY <1>1, VisitOK, WithinItself DEF ScanKey, CollectKey
<1>2. CASE Tick \/ Load \/ Shutdown \/ EndOther \/ Start
  BY <1>2, OthersOK
<1>3. CASE ScanEnds \/ Read \/ Answer
  BY <1>3, QuietStepsOK, WithinItself
<1>4. CASE \E k \in Keys, val \in Values : Mutate(k, val)
  BY <1>4, MutateOK
<1>5. CASE MemCall \/ Act
  BY <1>5, MemCallOK, ActOK, WithinItself
<1> QED
  BY <1>1, <1>2, <1>3, <1>4, <1>5, EndMemoryOK DEF StorageNext

\* A crash leaves the file.
LEMMA CrashOK == ASSUME StorageInv, Crash  PROVE StorageInv' /\ Stored' \subseteq Stored
<1>1. /\ data' = Empty /\ writer' = Nobody /\ unsaved' = FALSE /\ mem' = MemIdle
      /\ changed' = {}
      /\ up' = FALSE /\ now' = now /\ disk' = disk /\ reply' = reply
      /\ faults < MaxFaults /\ faults' = faults + 1
  BY DEF Crash
<1>2. FileOK'
  BY <1>1, EmptyStore DEF StorageInv, FileOK, RestartGivesMemory
<1>3. Stored' = Payloads(Empty) \cup Payloads(Image(disk))
  BY <1>1, Zenon DEF Stored
<1>4. ClockOK'
  <2>1. now' \in 0..MaxTime /\ faults' \in 0..MaxFaults
    BY <1>1, StorageAssumption DEF StorageInv, ClockOK
  <2>2. up' \in BOOLEAN /\ unsaved' \in BOOLEAN
    BY <1>1, Zenon
  <2> QED
    BY <2>1, <2>2 DEF ClockOK
<1>5. ReplyOK'
  BY <1>1 DEF StorageInv, ReplyOK
<1> QED
  BY <1>1, <1>2, <1>3, <1>4, <1>5, EmptyStore, IdleOK DEF StorageInv, Stored

\* The initial state.
LEMMA StorageInitOK == ASSUME StorageInit  PROVE StorageInv /\ Stored = {}
<1>1. /\ data = Empty /\ disk = Absent /\ writer = Nobody /\ unsaved = FALSE /\ up = TRUE
      /\ changed = {}
      /\ now = 0 /\ faults = 0 /\ reply = [found |-> {}, failed |-> FALSE] /\ mem = MemIdle
  BY DEF StorageInit
<1>2. FileOK
  BY <1>1, EmptyStore, Images, Kinds DEF FileOK, RestartGivesMemory, Normal
<1>3. Stored = Payloads(Empty) \cup Payloads(Empty)
  BY <1>1, Images, Zenon DEF Stored
<1>4. ClockOK
  <2>1. now \in 0..MaxTime /\ faults \in 0..MaxFaults
    BY <1>1, StorageAssumption
  <2>2. up \in BOOLEAN /\ unsaved \in BOOLEAN
    BY <1>1, Zenon
  <2> QED
    BY <2>1, <2>2 DEF ClockOK
<1>5. ReplyOK
  BY <1>1 DEF ReplyOK, Confessed
<1>6. MemOK
  BY <1>1 DEF MemOK, MemIdle, Confessed
<1> QED
  BY <1>2, <1>3, <1>4, <1>5, <1>6, EmptyStore DEF StorageInv

-----------------------------------------------------------------------------
(* The context engine *)

\* As long as all that is known are copies of what was known, a lifetime stays
\* fixed and a new id stays new.
LEMMA CopiesKeep ==
    ASSUME LifetimeIsFixed, IdsAreUsed, used \subseteq used',
           \A p \in Known' : \E q \in Known : Copy(p, q)
    PROVE  LifetimeIsFixed' /\ IdsAreUsed'
<1>1. \A p, q \in Known : p.id = q.id => p.exp = q.exp
  BY DEF LifetimeIsFixed, Known
<1>2. \A p, q \in Known' : p.id = q.id => p.exp = q.exp
  <2> SUFFICES ASSUME NEW p \in Known', NEW q \in Known', p.id = q.id
               PROVE  p.exp = q.exp
    OBVIOUS
  <2>1. PICK p1 \in Known : Copy(p, p1)
    OBVIOUS
  <2>2. PICK q1 \in Known : Copy(q, q1)
    OBVIOUS
  <2> QED
    BY <1>1, <2>1, <2>2 DEF Copy
<1>3. \A p \in Known' : p.id \in used'
  BY DEF Copy, IdsAreUsed
<1> QED
  BY <1>2, <1>3 DEF LifetimeIsFixed, Known, IdsAreUsed

\* The storage moves and the engine does not.
LEMMA EngineStays ==
    ASSUME ContextsInv, StorageInv', Within(Stored', Stored), UNCHANGED ctxVars
    PROVE  ContextsInv'
<1>1. objs' = objs /\ table' = table /\ used' = used /\ off' = off
  BY DEF ctxVars
<1>2. TableOK'
  BY <1>1 DEF ContextsInv, TableOK
<1>3. TableIsActive'
  <2>1. \A p \in Stored' : p.active \/ p.id \in off
    BY DEF Within, Alike, Copy, ContextsInv, TableIsActive
  <2> QED
    BY <1>1, <2>1 DEF ContextsInv, TableIsActive, Listed
<1>4. \A p \in Known' : \E q \in Known : Copy(p, q)
  <2> TAKE p \in Known'
  <2>1. CASE p \in Stored'
    BY <2>1 DEF Within, Alike, Known
  <2>2. CASE p \in Known
    BY <2>2 DEF Copy
  <2> QED
    BY <1>1, <2>1, <2>2 DEF Known
<1>5. LifetimeIsFixed' /\ IdsAreUsed'
  BY <1>1, <1>4, CopiesKeep DEF ContextsInv
<1> QED
  BY <1>2, <1>3, <1>5 DEF ContextsInv

\* The engine moves and the storage does not: the number of calls is nothing
\* the storage depends on.
LEMMA StorageStays ==
    ASSUME ContextsInv, UNCHANGED <<now, up, fileVars, mem, reply>>
    PROVE  StorageInv' /\ Stored' = Stored
<1>1. Quiet /\ up' = up /\ now' \in 0..MaxTime
  BY DEF Quiet, ContextsInv, StorageInv, ClockOK
<1>2. ClockOK' /\ FileOK' /\ Stored' = Stored
  BY <1>1, LeavesStore DEF ContextsInv, StorageInv
<1> QED
  BY <1>2, LeavesMemory DEF ContextsInv, StorageInv

\* The ids of a table stand for different objects.
LEMMA TableIsInjective ==
    ASSUME ContextsInv, NEW b \in Listed(table), NEW c \in Listed(table), table[b] = table[c]
    PROVE  b = c
BY DEF ContextsInv, TableIsActive

\* Objects change, but neither their ids nor their lifetimes, and contexts may
\* leave the table: the invariant is kept if only what has left the table or
\* what a holder has deactivated becomes inactive.
LEMMA ReworkedOK ==
    ASSUME ContextsInv, StorageInv', Within(Stored', Stored),
           used' = used, off \subseteq off',
           NEW n \in Nat, DOMAIN objs = 1..n,
           NEW o \in [1..n -> Objects], objs' = o,
           \A i \in 1..n : o[i].id = objs[i].id /\ o[i].exp = objs[i].exp,
           table' \in [Ctxs -> 0..n], \A c \in Ctxs : table'[c] \in {0, table[c]},
           \A c \in Listed(table') :
              o[table[c]].active = objs[table[c]].active \/ c \in off'
    PROVE  ContextsInv'
<1>1. o \in Seq(Objects) /\ Len(o) = n /\ DOMAIN o = 1..n
  <2>1. o \in Seq(Objects)
    BY SeqDef, Zenon
  <2> QED
    BY <2>1
<1>2. TableOK'
  BY <1>1 DEF ContextsInv, TableOK
<1>3. TableIsActive'
  <2>1. \A c \in Listed(table') : /\ objs'[table'[c]].id = c
                                  /\ objs'[table'[c]].active \/ c \in off'
    <3> TAKE c \in Listed(table')
    <3>1. c \in Ctxs /\ table'[c] = table[c] /\ table[c] # 0 /\ c \in Listed(table)
      BY DEF Listed
    <3>2. table[c] \in 1..n
      BY <3>1
    <3>3. objs[table[c]].id = c /\ (objs[table[c]].active \/ c \in off)
      BY <3>1 DEF ContextsInv, TableIsActive
    <3> QED
      BY <3>1, <3>2, <3>3
  <2>2. \A p \in Stored' : p.active \/ p.id \in off'
    BY DEF Within, Alike, Copy, ContextsInv, TableIsActive
  <2> QED
    BY <2>1, <2>2, Zenon DEF TableIsActive
<1>4. \A p \in Known' : \E q \in Known : Copy(p, q)
  <2> TAKE p \in Known'
  <2>1. CASE p \in Stored'
    BY <2>1 DEF Within, Alike, Known
  <2>2. CASE \E i \in 1..n : p = o[i]
    <3>1. PICK i \in 1..n : p = o[i]
      BY <2>2
    <3>2. objs[i] \in Known /\ Copy(p, objs[i])
      BY <3>1 DEF Known, Copy
    <3> QED
      BY <3>2
  <2> QED
    BY <1>1, <2>1, <2>2 DEF Known
<1> QED
  BY <1>2, <1>3, <1>4, CopiesKeep DEF ContextsInv

\* Objects that are deactivated.
LEMMA DeactivatedOK ==
    ASSUME NEW n \in Nat, objs \in [1..n -> Objects], NEW gone
    PROVE  /\ Deactivated(objs, gone) \in [1..n -> Objects]
           /\ \A i \in 1..n : /\ Deactivated(objs, gone)[i].id = objs[i].id
                              /\ Deactivated(objs, gone)[i].exp = objs[i].exp
                              /\ i \notin gone => Deactivated(objs, gone)[i] = objs[i]
<1>1. PICK o : o = [i \in 1..n |->
                      IF i \in gone THEN [objs[i] EXCEPT !.active = FALSE] ELSE objs[i]]
  OBVIOUS
<1>2. Deactivated(objs, gone) = o
  BY <1>1 DEF Deactivated
<1>3. \A i \in 1..n : /\ o[i] \in Objects /\ o[i].id = objs[i].id /\ o[i].exp = objs[i].exp
                      /\ i \notin gone => o[i] = objs[i]
  <2> TAKE i \in 1..n
  <2>1. PICK r \in Objects : r = objs[i]
    OBVIOUS
  <2>2. o[i] = r \/ o[i] = [r EXCEPT !.active = FALSE]
    BY <1>1, <2>1
  <2>3. i \notin gone => o[i] = r
    BY <1>1, <2>1
  <2>4. [r EXCEPT !.active = FALSE] \in Objects
        /\ [r EXCEPT !.active = FALSE].id = r.id /\ [r EXCEPT !.active = FALSE].exp = r.exp
    BY DEF Objects
  <2> QED
    BY <2>1, <2>2, <2>3, <2>4
<1>4. o \in [1..n -> Objects]
  BY <1>1, <1>3, Zenon
<1> QED
  BY <1>2, <1>3, <1>4

\* The objects, by their indices.
LEMMA ObjsByIndex ==
    ASSUME ContextsInv
    PROVE  \E n \in Nat : /\ n = Len(objs) /\ objs \in Seq(Objects) /\ DOMAIN objs = 1..n
                          /\ objs \in [1..n -> Objects] /\ table \in [Ctxs -> 0..n]
<1>1. PICK n \in Nat : n = Len(objs) /\ objs \in Seq(Objects) /\ DOMAIN objs = 1..n
  BY DEF ContextsInv, TableOK
<1>2. objs \in [1..n -> Objects]
  BY <1>1
<1> QED
  BY <1>1, <1>2 DEF ContextsInv, TableOK

\* Contexts that leave the table, in whichever operation.
LEMMA DroppedOK ==
    ASSUME ContextsInv, NEW cs \in SUBSET Listed(table), Dropped(cs), used' = used, off' = off,
           UNCHANGED <<now, up, fileVars, mem, reply>>
    PROVE  ContextsInv'
<1>1. PICK n \in Nat : /\ DOMAIN objs = 1..n /\ objs \in [1..n -> Objects]
                       /\ table \in [Ctxs -> 0..n]
  BY ObjsByIndex
<1>2. PICK gone : gone = {table[c] : c \in cs}
  OBVIOUS
<1>3. PICK o : o = Deactivated(objs, gone)
  OBVIOUS
<1>4. /\ o \in [1..n -> Objects]
      /\ \A i \in 1..n : /\ o[i].id = objs[i].id /\ o[i].exp = objs[i].exp
                         /\ i \notin gone => o[i] = objs[i]
  BY <1>1, <1>3, DeactivatedOK
<1>5. objs' = o
  BY <1>2, <1>3 DEF Dropped
<1>6. /\ table' \in [Ctxs -> 0..n]
      /\ \A c \in Ctxs : table'[c] = IF c \in cs THEN 0 ELSE table[c]
  BY <1>1 DEF Dropped, Without
<1>7. StorageInv' /\ Within(Stored', Stored)
  BY StorageStays, WithinItself
<1>8. \A c \in Listed(table') : o[table[c]].active = objs[table[c]].active
  <2> TAKE c \in Listed(table')
  <2>1. c \in Ctxs /\ table[c] # 0 /\ c \notin cs /\ c \in Listed(table)
    BY <1>6 DEF Listed
  <2>2. table[c] \in 1..n
    BY <1>1, <2>1
  <2>3. table[c] \notin gone
    BY <1>2, <2>1, TableIsInjective
  <2> QED
    BY <1>4, <2>2, <2>3
<1>9. \A c \in Ctxs : table'[c] \in {0, table[c]}
  BY <1>6
<1> QED
  BY <1>1, <1>4, <1>5, <1>6, <1>7, <1>8, <1>9, ReworkedOK

\* A holder deactivates a context.
LEMMA HolderDeactivatesOK ==
    ASSUME ContextsInv, NEW i, deactivate(i)
    PROVE  ContextsInv'
<1>1. PICK n \in Nat : /\ DOMAIN objs = 1..n /\ objs \in [1..n -> Objects]
                       /\ table \in [Ctxs -> 0..n]
  BY ObjsByIndex
<1>2. PICK o : o = Deactivated(objs, {i})
  OBVIOUS
<1>3. /\ o \in [1..n -> Objects]
      /\ \A j \in 1..n : /\ o[j].id = objs[j].id /\ o[j].exp = objs[j].exp
                         /\ j # i => o[j] = objs[j]
  BY <1>1, <1>2, DeactivatedOK
<1>4. /\ objs' = o /\ table' = table /\ used' = used /\ off' = off \cup {objs[i].id}
      /\ UNCHANGED <<now, up, fileVars, mem, reply>>
  BY <1>2 DEF deactivate, CtxCall
<1>5. StorageInv' /\ Within(Stored', Stored)
  BY <1>4, StorageStays, WithinItself
<1>6. \A c \in Listed(table') : o[table[c]].active = objs[table[c]].active \/ c \in off'
  <2> TAKE c \in Listed(table')
  <2>1. c \in Listed(table) /\ table[c] \in 1..n
    BY <1>1, <1>4 DEF Listed
  <2>2. objs[table[c]].id = c
    BY <2>1 DEF ContextsInv, TableIsActive
  <2> QED
    BY <1>3, <1>4, <2>1, <2>2
<1>7. /\ table' \in [Ctxs -> 0..n] /\ \A c \in Ctxs : table'[c] \in {0, table[c]}
      /\ off \subseteq off'
  BY <1>1, <1>4
<1> QED
  BY <1>1, <1>3, <1>4, <1>5, <1>6, <1>7, ReworkedOK

\* An update of a context, as the storage sees it.
LEMMA UpdatesKeepStore ==
    ASSUME NEW d, Store(d), NEW o, NEW val \in Values
    PROVE  Store(Updates(d, o, val)) /\ SameBare(Updates(d, o, val), d)
<1>1. PICK e : e = Updates(d, o, val)
  OBVIOUS
<1>2. ASSUME NEW p \in Serialised
      PROVE  SharedBy(p, o, val) \in Serialised
             /\ With(SharedBy(p, o, val), Nothing) = With(p, Nothing)
  <2>1. CASE p.of = o
    <3>1. SharedBy(p, o, val) = [p EXCEPT !.val = val]
      BY <2>1 DEF SharedBy
    <3> QED
      BY <3>1 DEF Serialised, With
  <2>2. CASE p.of # o
    BY <2>2 DEF SharedBy
  <2> QED
    BY <2>1, <2>2
<1>3. ASSUME NEW s \in Slots, d[s] \in Serialised
      PROVE  e[s] \in Serialised /\ Bare(e[s]) = Bare(d[s])
  <2>1. PICK p \in Serialised : p = d[s]
    BY <1>3
  <2>2. e[s] = SharedBy(p, o, val)
    BY <1>1, <2>1, Kinds DEF Updates
  <2> QED
    BY <1>2, <2>1, <2>2, JsonOfOne
<1>4. ASSUME NEW s \in Slots, d[s] \in Collections
      PROVE  e[s] \in Collections /\ Bare(e[s]) = Bare(d[s])
  <2>1. PICK a \in Collections : a = d[s]
    BY <1>4
  <2>2. a.kind = "all" /\ a.cs \subseteq Serialised
    BY Kinds
  <2>3. PICK f : f = [p \in a.cs |-> SharedBy(p, o, val)]
    OBVIOUS
  <2>4. \A p \in a.cs : f[p] \in Serialised /\ With(f[p], Nothing) = With(p, Nothing)
    BY <1>2, <2>2, <2>3
  <2>5. f \in [a.cs -> Serialised]
    BY <2>3, <2>4, Zenon
  <2>6. PICK T : T = {f[p] : p \in a.cs}
    OBVIOUS
  <2>7. T = {SharedBy(p, o, val) : p \in a.cs}
    BY <2>3, <2>6, Zenon
  <2>8. e[s] = [a EXCEPT !.cs = T]
    BY <1>1, <2>1, <2>2, <2>7 DEF Updates
  <2>9. e[s] \in Collections
    BY <2>5, <2>6, <2>8, Remade
  <2>10. e[s].kind = "all" /\ e[s].cs = T
    BY <2>8 DEF Collections
  <2>11. {With(q, Nothing) : q \in T} = {With(p, Nothing) : p \in a.cs}
    BY <2>4, <2>6
  <2>12. PICK j : j = e[s]
    OBVIOUS
  <2>13. Bare(j) = [j EXCEPT !.cs = {With(q, Nothing) : q \in T}]
    BY <2>10, <2>12 DEF Bare
  <2>14. Bare(a) = [a EXCEPT !.cs = {With(p, Nothing) : p \in a.cs}]
    BY <2>2 DEF Bare
  <2>15. PICK U : U = {With(p, Nothing) : p \in a.cs}
    OBVIOUS
  <2>16. Bare(j) = [j EXCEPT !.cs = U] /\ Bare(a) = [a EXCEPT !.cs = U]
    BY <2>11, <2>13, <2>14, <2>15, Zenon
  <2>17. [j EXCEPT !.cs = U] = [a EXCEPT !.cs = U]
    BY <2>8, <2>12 DEF Collections
  <2> QED
    BY <2>1, <2>9, <2>12, <2>16, <2>17
<1>5. ASSUME NEW s \in Slots, d[s] \in {Absent} \cup Entries
      PROVE  e[s] = d[s]
  <2>1. d[s].kind \in {"absent", "entry"}
    BY <1>5, Kinds
  <2> QED
    BY <1>1, <2>1 DEF Updates
<1>6. \A s \in Slots : e[s] \in Kept /\ Bare(e[s]) = Bare(d[s])
  <2> TAKE s \in Slots
  <2>1. d[s] \in Kept
    BY DEF Store
  <2> QED
    BY <1>3, <1>4, <1>5, <2>1 DEF Kept
<1>7. e \in [Slots -> Kept]
  <2>1. e = [s \in Slots |-> e[s]]
    BY <1>1 DEF Updates
  <2> QED
    BY <1>6, <2>1, Zenon
<1>8. \A s \in Keys : e[s] \in {Absent} \cup Entries
  BY <1>5, KeysApart DEF Store
<1>9. \A c \in Ctxs : e[SlotOf[c]] \in {Absent} \cup Serialised
  BY <1>3, <1>5, KeysApart DEF Store
<1>10. e[AllSlot] \in {Absent} \cup Collections
  BY <1>4, <1>5, KeysApart DEF Store
<1>11. Store(e) /\ SameBare(e, d)
  BY <1>6, <1>7, <1>8, <1>9, <1>10 DEF Store, SameBare
<1> QED
  BY <1>1, <1>11

\* update_context_metadata and add_tags change the object of the table and what
\* the store shares with it.
LEMMA UpdateOK ==
    ASSUME ContextsInv, NEW c \in Ctxs, NEW val \in Values, update_context_metadata(c, val)
    PROVE  ContextsInv'
<1>1. PICK n \in Nat : /\ DOMAIN objs = 1..n /\ objs \in [1..n -> Objects]
                       /\ table \in [Ctxs -> 0..n]
  BY ObjsByIndex
<1>2. PICK i : i = table[c]
  OBVIOUS
<1>3. /\ i \in 1..n /\ objs' = [objs EXCEPT ![i].val = val] /\ table' = table /\ used' = used
      /\ off' = off /\ up' = up /\ now' = now /\ mem' = mem /\ reply' = reply
      /\ InPlace(Updates(data, i, val), Updates(dumping, i, val))
  BY <1>1, <1>2 DEF update_context_metadata, Live, Listed
<1>4. PICK o : o = [objs EXCEPT ![i].val = val]
  OBVIOUS
<1>5. o \in [1..n -> Objects]
      /\ \A j \in 1..n : /\ o[j].id = objs[j].id /\ o[j].exp = objs[j].exp
                         /\ o[j].active = objs[j].active
  <2>1. PICK r \in Objects : r = objs[i]
    BY <1>1, <1>3
  <2>2. PICK w : w = [r EXCEPT !.val = val]
    OBVIOUS
  <2>3. w \in Objects /\ w.id = r.id /\ w.exp = r.exp /\ w.active = r.active
    BY <2>2 DEF Objects
  <2>4. o = [objs EXCEPT ![i] = w]
    BY <1>4, <2>1, <2>2
  <2> QED
    BY <1>1, <1>3, <2>1, <2>3, <2>4
<1>6. PICK d, e : d = Updates(data, i, val) /\ e = Updates(dumping, i, val)
  OBVIOUS
<1>7. Store(d) /\ SameBare(d, data) /\ ClockOK /\ FileOK
  BY <1>6, UpdatesKeepStore DEF ContextsInv, StorageInv, FileOK
<1>8. ASSUME DumpOK
      PROVE  Store(e) /\ SameBare(e, dumping) /\ \A s \in Slots : dumping[s] = data[s] => e[s] = d[s]
  <2>1. Store(e) /\ SameBare(e, dumping)
    BY <1>6, <1>8, UpdatesKeepStore DEF DumpOK
  <2>2. ASSUME NEW s \in Slots, dumping[s] = data[s]  PROVE e[s] = d[s]
    BY <1>6, <2>2, Zenon DEF Updates
  <2> QED
    BY <2>1, <2>2
<1>9. InPlace(d, e)
  BY <1>3, <1>6
<1>10. ClockOK' /\ FileOK' /\ Within(Stored', Stored)
  BY <1>3, <1>7, <1>8, <1>9, ChangesInPlace
<1>11. StorageInv'
  BY <1>3, <1>10, LeavesMemory DEF ContextsInv, StorageInv
<1>12. /\ \A b \in Listed(table') : o[table[b]].active = objs[table[b]].active
       /\ \A b \in Ctxs : table'[b] \in {0, table[b]}
  BY <1>1, <1>3, <1>5 DEF Listed
<1>13. objs' = o
  BY <1>3, <1>4, Zenon
<1>14. used' = used /\ off \subseteq off' /\ table' \in [Ctxs -> 0..n]
  BY <1>1, <1>3
<1> QED
  BY <1>1, <1>5, <1>10, <1>11, <1>12, <1>13, <1>14, ReworkedOK

\* A new context.
LEMMA CreateOK ==
    ASSUME ContextsInv, NEW c \in Ctxs, NEW ttl \in SUBSET Nat, create_context(c, ttl)
    PROVE  ContextsInv'
<1>1. PICK n \in Nat : n = Len(objs) /\ objs \in Seq(Objects) /\ DOMAIN objs = 1..n
  BY DEF ContextsInv, TableOK
<1>2. PICK e : e = [id |-> c, active |-> TRUE, exp |-> Expiry(ttl), val |-> Blank]
  OBVIOUS
<1>3. e \in Objects /\ e.id = c /\ e.active
  <2>1. Expiry(ttl) \in Expiries
    BY ExpiryIsASet DEF ContextsInv, StorageInv
  <2> QED
    BY <1>2, <2>1, ContextsAssumption DEF Objects
<1>4. PICK o : o = Append(objs, e)
  OBVIOUS
<1>5. /\ o \in Seq(Objects) /\ Len(o) = n + 1 /\ DOMAIN o = 1..(n + 1)
      /\ o[n + 1] = e /\ \A i \in 1..n : o[i] = objs[i]
  BY <1>1, <1>3, <1>4, AppendProperties
<1>6. /\ objs' = o /\ table' = [table EXCEPT ![c] = n + 1] /\ used' = used \cup {c}
      /\ c \notin used /\ off' = off
      /\ UNCHANGED <<now, up, fileVars, mem, reply>>
  BY <1>1, <1>2, <1>4 DEF create_context, CtxCall
<1>7. StorageInv' /\ Stored' = Stored
  BY <1>6, StorageStays
<1>8. /\ table' \in [Ctxs -> 0..(n + 1)]
      /\ \A b \in Ctxs : table'[b] = IF b = c THEN n + 1 ELSE table[b]
  BY <1>1, <1>6 DEF ContextsInv, TableOK
<1>9. TableOK'
  BY <1>5, <1>6, <1>8 DEF ContextsInv, TableOK
<1>10. TableIsActive'
  <2>1. \A b \in Listed(table') : /\ objs'[table'[b]].active \/ b \in off
                                  /\ objs'[table'[b]].id = b
    <3> TAKE b \in Listed(table')
    <3>1. CASE b = c
      BY <1>3, <1>5, <1>6, <1>8, <3>1
    <3>2. CASE b # c
      <4>1. table'[b] = table[b] /\ b \in Listed(table) /\ table[b] \in 1..n
        BY <1>1, <1>8, <3>2 DEF Listed, ContextsInv, TableOK
      <4> QED
        BY <1>5, <1>6, <4>1 DEF ContextsInv, TableIsActive
    <3> QED
      BY <3>1, <3>2
  <2> QED
    BY <1>6, <1>7, <2>1 DEF ContextsInv, TableIsActive
<1>11. \A p \in Known' : p = e \/ p \in Known
  <2> TAKE p \in Known'
  <2>1. CASE p \in Stored
    BY <2>1 DEF Known
  <2>2. CASE \E i \in 1..(n + 1) : p = o[i]
    BY <1>1, <1>5, <2>2 DEF Known
  <2> QED
    BY <1>5, <1>6, <1>7, <2>1, <2>2 DEF Known
<1>12. \A p \in Known : p.id \in used /\ p.id # c
  BY <1>6 DEF ContextsInv, IdsAreUsed
<1>13. IdsAreUsed'
  BY <1>3, <1>6, <1>11, <1>12 DEF IdsAreUsed
<1>14. \A p, q \in Known' : p.id = q.id => p.exp = q.exp
  BY <1>3, <1>11, <1>12 DEF ContextsInv, LifetimeIsFixed, Known
<1>15. LifetimeIsFixed'
  BY <1>14 DEF LifetimeIsFixed, Known
<1> QED
  BY <1>7, <1>9, <1>10, <1>13, <1>15 DEF ContextsInv

\* A save of payloads that are copies of the objects in the table.
LEMMA SaveOK ==
    ASSUME ContextsInv, NEW s, NEW v, NEW ps, SetForeign("contexts", s, v), UNCHANGED ctxVars,
           Store(Put(data, s, v)), Payloads(Put(data, s, v)) \subseteq Payloads(data) \cup ps,
           \A p \in ps : (p.active \/ p.id \in off) /\ \E q \in Known : Copy(p, q)
    PROVE  ContextsInv'
<1>1. /\ ClockOK /\ FileOK /\ up /\ up' = up /\ now' = now /\ mem' = mem /\ reply' = reply
      /\ objs' = objs /\ table' = table /\ used' = used /\ off' = off
  BY DEF ContextsInv, StorageInv, SetForeign, ctxVars
<1>2. ClockOK' /\ FileOK' /\ Stored' \subseteq Payloads(Put(data, s, v)) \cup Stored
  BY <1>1, Writes DEF SetForeign, Nobody
<1>3. StorageInv'
  BY <1>1, <1>2, LeavesMemory DEF ContextsInv, StorageInv
<1>4. Stored' \subseteq Stored \cup ps
  BY <1>2 DEF Stored
<1>5. TableOK'
  BY <1>1 DEF ContextsInv, TableOK
<1>6. TableIsActive'
  BY <1>1, <1>4 DEF ContextsInv, TableIsActive, Listed
<1>7. \A p \in Known' : \E q \in Known : Copy(p, q)
  <2>1. \A p \in Known : Copy(p, p)
    BY DEF Copy
  <2>2. Known' \subseteq Known \cup ps
    BY <1>1, <1>4 DEF Known
  <2> QED
    BY <2>1, <2>2
<1> QED
  BY <1>1, <1>3, <1>5, <1>6, <1>7, CopiesKeep DEF ContextsInv

\* What is saved of a context in the table.
LEMMA SerializeOK ==
    ASSUME ContextsInv, NEW c \in Listed(table)
    PROVE  /\ serialize(table[c]) \in Serialised
           /\ serialize(table[c]).active \/ serialize(table[c]).id \in off
           /\ \E q \in Known : Copy(serialize(table[c]), q)
<1>1. PICK i, o, p : i = table[c] /\ o = objs[i] /\ p = serialize(i)
  OBVIOUS
<1>2. i \in DOMAIN objs /\ o \in Objects /\ i \in Nat
  BY <1>1 DEF ContextsInv, TableOK, Listed
<1>3. (o.active \/ c \in off) /\ o.id = c
  BY <1>1 DEF ContextsInv, TableIsActive
<1>4. p = [kind |-> "context", id |-> o.id, active |-> o.active, exp |-> o.exp,
           val |-> o.val, of |-> i]
  BY <1>1, Zenon DEF serialize
<1>5. p \in Serialised /\ p.active = o.active /\ p.id = o.id /\ p.exp = o.exp
  BY <1>2, <1>4 DEF Serialised, Objects
<1>6. o \in Known /\ Copy(p, o)
  BY <1>1, <1>2, <1>5 DEF Known, Copy
<1> QED
  BY <1>1, <1>3, <1>5, <1>6

\* Saving one context puts a copy of its object under its key, or fails.
LEMMA SaveOneOK ==
    ASSUME ContextsInv, NEW c \in Ctxs, save_context_to_storage(c)
    PROVE  ContextsInv'
<1>1. c \in Listed(table)
  BY DEF save_context_to_storage, Live
<1>2. PICK v : v = serialize(table[c])
  OBVIOUS
<1>3. v \in Serialised /\ (v.active \/ v.id \in off) /\ \E q \in Known : Copy(v, q)
  BY <1>1, <1>2, SerializeOK
<1>4. SetForeign("contexts", SlotOf[c], v) /\ UNCHANGED ctxVars
  BY <1>2 DEF save_context_to_storage
<1>5. /\ Store(Put(data, SlotOf[c], v))
      /\ Payloads(Put(data, SlotOf[c], v)) \subseteq Payloads(data) \cup {v}
  BY <1>3, PutOfContext DEF ContextsInv, StorageInv, FileOK
<1>6. PICK s : s = SlotOf[c]
  OBVIOUS
<1>7. PICK ps : ps = {v}
  OBVIOUS
<1>8. /\ SetForeign("contexts", s, v) /\ Store(Put(data, s, v))
      /\ Payloads(Put(data, s, v)) \subseteq Payloads(data) \cup ps
  BY <1>4, <1>5, <1>6, <1>7
<1>9. \A p \in ps : (p.active \/ p.id \in off) /\ \E q \in Known : Copy(p, q)
  BY <1>3, <1>7
<1> QED
  BY <1>4, <1>8, <1>9, SaveOK

\* Saving the table writes the copies of all its contexts, or fails.
LEMMA SaveAllOK == ASSUME ContextsInv, save_all_contexts_to_storage  PROVE ContextsInv'
<1>1. PICK ps : ps = {serialize(table[c]) : c \in Listed(table)}
  OBVIOUS
<1>2. /\ ps \subseteq Serialised
      /\ \A p \in ps : (p.active \/ p.id \in off) /\ \E q \in Known : Copy(p, q)
  BY <1>1, SerializeOK
<1>3. IsFiniteSet(ps)
  <2>1. IsFiniteSet(Listed(table))
    BY ContextsAssumption, FS_Subset DEF Listed
  <2>2. PICK f : f = [c \in Listed(table) |-> serialize(table[c])]
    OBVIOUS
  <2>3. f \in Surjection(Listed(table), ps)
    BY <1>1, <2>2, Zenon DEF Surjection
  <2> QED
    BY <2>1, <2>3, FS_Surjection
<1>4. PICK v : v = [kind |-> "all", cs |-> ps]
  OBVIOUS
<1>5. v \in Collections /\ v.cs = ps
  BY <1>2, <1>3, <1>4 DEF Collections
<1>6. SetForeign("contexts", AllSlot, v) /\ UNCHANGED ctxVars
  BY <1>1, <1>4 DEF save_all_contexts_to_storage
<1>7. /\ Store(Put(data, AllSlot, v))
      /\ Payloads(Put(data, AllSlot, v)) \subseteq Payloads(data) \cup ps
  BY <1>5, PutOfAll DEF ContextsInv, StorageInv, FileOK
<1> QED
  BY <1>2, <1>6, <1>7, SaveOK
\* The sequence of a set has each of its elements.
LEMMA SetToSeqOK ==
    ASSUME NEW S, IsFiniteSet(S)
    PROVE  \E n \in Nat : /\ SetToSeq(S) \in [1..n -> S] /\ n = Cardinality(S)
                          /\ \A x \in S : \E i \in 1..n : SetToSeq(S)[i] = x
<1>1. PICK n : n = Cardinality(S)
  OBVIOUS
<1>2. n \in Nat /\ ExistsBijection(1..n, S)
  BY <1>1, FS_CardinalityType
<1>3. PICK f \in [1..n -> S] : IsInjective(f)
  BY <1>2 DEF ExistsBijection, Bijection, Injection
<1>4. PICK q : q = SetToSeq(S)
  OBVIOUS
<1>5. q \in [1..n -> S] /\ IsInjective(q)
  BY <1>1, <1>3, <1>4 DEF SetToSeq
<1>6. q \in Injection(1..n, S)
  BY <1>5 DEF Injection
<1>7. IsFiniteSet(1..n) /\ Cardinality(1..n) = n
  BY <1>2, FS_Interval
<1>8. PICK T : T = {q[i] : i \in 1..n}
  OBVIOUS
<1>9. T \subseteq S
  BY <1>5, <1>8
<1>10. q \in Injection(1..n, T) /\ q \in Surjection(1..n, T)
  BY <1>5, <1>8 DEF Injection, Surjection
<1>11. Cardinality(T) = n
  BY <1>7, <1>10, FS_Surjection
<1>12. T = S
  BY <1>1, <1>9, <1>11, FS_Subset
<1>13. \A x \in S : \E i \in 1..n : q[i] = x
  BY <1>8, <1>12, Zenon
<1> QED
  BY <1>1, <1>2, <1>4, <1>5, <1>13
\* Contexts that are loaded, one or all: new objects, copies of what is stored.
LEMMA RegisteredOK ==
    ASSUME ContextsInv, NEW ps \in SUBSET Serialised, IsFiniteSet(ps), ps \subseteq Stored,
           Registered(ps)
    PROVE  ContextsInv'
<1>1. PICK n \in Nat : n = Len(objs) /\ objs \in Seq(Objects) /\ DOMAIN objs = 1..n
  BY DEF ContextsInv, TableOK
<1>2. PICK q : q = SetToSeq(ps)
  OBVIOUS
<1>3. PICK m \in Nat : q \in [1..m -> ps] /\ \A p \in ps : \E i \in 1..m : q[i] = p
  BY <1>2, SetToSeqOK
<1>4. q \in Seq(ps) /\ Len(q) = m
  <2>1. q \in Seq(ps)
    BY <1>3, SeqDef, Zenon
  <2> QED
    BY <1>3, <2>1
<1>5. PICK r : r = [i \in 1..m |-> deserialize(q[i])]
  OBVIOUS
<1>6. \A i \in 1..m : r[i] \in Objects /\ Copy(r[i], q[i]) /\ r[i].active = q[i].active
  <2> TAKE i \in 1..m
  <2>1. PICK p \in ps : p = q[i]
    BY <1>3
  <2>2. r[i] = deserialize(p)
    BY <1>5, <2>1
  <2>3. p.id \in Ctxs /\ p.active \in BOOLEAN /\ p.exp \in Expiries /\ p.val \in Values
    BY Kinds
  <2> QED
    BY <2>1, <2>2, <2>3 DEF deserialize, Objects, Copy
<1>7. r \in Seq(Objects) /\ Len(r) = m
  <2>1. r \in [1..m -> Objects]
    BY <1>5, <1>6, Zenon
  <2>2. r \in Seq(Objects)
    BY <2>1, SeqDef
  <2> QED
    BY <2>1, <2>2
<1>8. PICK o : o = objs \o r
  OBVIOUS
<1>9. /\ o \in Seq(Objects) /\ Len(o) = n + m /\ DOMAIN o = 1..(n + m)
      /\ \A i \in 1..n : o[i] = objs[i]
      /\ \A i \in 1..m : o[n + i] = r[i]
  <2>1. o \in Seq(Objects) /\ Len(o) = n + m
    BY <1>1, <1>7, <1>8, ConcatProperties
  <2>2. \A i \in 1..(n + m) : o[i] = IF i <= n THEN objs[i] ELSE r[i - n]
    BY <1>1, <1>7, <1>8, ConcatProperties
  <2>3. \A i \in 1..m : n + i \in 1..(n + m) /\ ~(n + i <= n) /\ (n + i) - n = i
    OBVIOUS
  <2> QED
    BY <2>1, <2>2, <2>3
<1>10. objs' = o
  BY <1>1, <1>2, <1>4, <1>5, <1>8 DEF Registered
<1>11. \A c \in Ctxs : \/ table'[c] = table[c]
                       \/ \E i \in 1..m : table'[c] = n + i /\ q[i].id = c
  <2> TAKE c \in Ctxs
  <2>1. Len(SetToSeq(ps)) = m /\ Len(objs) = n /\ SetToSeq(ps) = q
    BY <1>1, <1>2, <1>4
  <2>2. PICK j : j = CHOOSE i \in 1..Len(SetToSeq(ps)) : SetToSeq(ps)[i].id = c
    OBVIOUS
  <2>3. table'[c] = IF \E p \in ps : p.id = c THEN Len(objs) + j ELSE table[c]
    <3>1. table' = [b \in Ctxs |-> IF \E p \in ps : p.id = b
                                   THEN Len(objs) + CHOOSE i \in 1..Len(SetToSeq(ps)) :
                                                           SetToSeq(ps)[i].id = b
                                   ELSE table[b]]
      BY Zenon DEF Registered
    <3>2. table'[c] = IF \E p \in ps : p.id = c
                      THEN Len(objs) + CHOOSE i \in 1..Len(SetToSeq(ps)) :
                                              SetToSeq(ps)[i].id = c
                      ELSE table[c]
      BY <3>1, Zenon
    <3> QED
      BY <2>2, <3>2, Zenon
  <2>4. CASE \E p \in ps : p.id = c
    <3>1. \E i \in 1..Len(SetToSeq(ps)) : SetToSeq(ps)[i].id = c
      BY <1>3, <2>1, <2>4
    <3>2. j \in 1..Len(SetToSeq(ps)) /\ SetToSeq(ps)[j].id = c
      BY <2>2, <3>1, Zenon
    <3> QED
      BY <2>1, <2>3, <2>4, <3>2
  <2> QED
    BY <2>3, <2>4
<1>12. /\ UNCHANGED <<now, up, fileVars, mem, reply>>
       /\ used' = used /\ off' = off
       /\ DOMAIN table' = Ctxs /\ table' = [c \in Ctxs |-> table'[c]]
  BY DEF Registered, CtxCall
<1>13. StorageInv' /\ Stored' = Stored
  BY <1>12, StorageStays
<1>14. TableOK'
  <2>1. table \in [Ctxs -> 0..n] /\ used \subseteq Ctxs
    BY <1>1 DEF ContextsInv, TableOK
  <2>2. \A c \in Ctxs : table'[c] \in 0..(n + m)
    BY <1>11, <2>1
  <2>3. table' \in [Ctxs -> 0..(n + m)]
    BY <1>12, <2>2, Zenon
  <2> QED
    BY <1>9, <1>10, <1>12, <2>1, <2>3 DEF TableOK
<1>15. TableIsActive'
  <2>1. \A c \in Listed(table') : /\ objs'[table'[c]].active \/ c \in off
                                  /\ objs'[table'[c]].id = c
    <3> TAKE c \in Listed(table')
    <3>1. c \in Ctxs
      BY DEF Listed
    <3>2. CASE table'[c] = table[c]
      <4>1. c \in Listed(table) /\ table[c] \in 1..n
        BY <1>1, <3>2 DEF Listed, ContextsInv, TableOK
      <4> QED
        BY <1>9, <1>10, <3>2, <4>1 DEF ContextsInv, TableIsActive
    <3>3. ASSUME NEW i \in 1..m, table'[c] = n + i, q[i].id = c
          PROVE  (objs'[table'[c]].active \/ c \in off) /\ objs'[table'[c]].id = c
      <4>1. objs'[table'[c]] = r[i]
        BY <1>9, <1>10, <3>3
      <4>2. q[i] \in Stored
        BY <1>3
      <4>3. q[i].active \/ c \in off
        BY <3>3, <4>2 DEF ContextsInv, TableIsActive
      <4> QED
        BY <1>6, <3>3, <4>1, <4>3 DEF Copy
    <3> QED
      BY <1>11, <3>1, <3>2, <3>3
  <2> QED
    BY <1>12, <1>13, <2>1 DEF ContextsInv, TableIsActive
<1>16. \A p \in Known' : \E p1 \in Known : Copy(p, p1)
  <2> TAKE p \in Known'
  <2>1. CASE p \in Stored
    BY <2>1 DEF Known, Copy
  <2>2. ASSUME NEW i \in 1..(n + m), p = o[i]
        PROVE  \E p1 \in Known : Copy(p, p1)
    <3>1. CASE i \in 1..n
      <4>1. p \in Known
        BY <1>1, <1>9, <2>2, <3>1 DEF Known
      <4> QED
        BY <4>1 DEF Copy
    <3>2. CASE i \notin 1..n
      <4>1. PICK j \in 1..m : i = n + j
        BY <3>2
      <4>2. q[j] \in Known /\ Copy(p, q[j])
        BY <1>3, <1>6, <1>9, <2>2, <4>1 DEF Known
      <4> QED
        BY <4>2
    <3> QED
      BY <3>1, <3>2
  <2> QED
    BY <1>9, <1>10, <1>13, <2>1, <2>2 DEF Known
<1> QED
  BY <1>12, <1>13, <1>14, <1>15, <1>16, CopiesKeep DEF ContextsInv

\* Loading puts new objects into the table, copies of stored forms.
LEMMA LoadsOK ==
    ASSUME ContextsInv,
           load_all_contexts_from_storage \/ \E c \in Ctxs : load_context_from_storage(c)
    PROVE  ContextsInv'
<1>1. Store(data)
  BY DEF ContextsInv, StorageInv, FileOK
<1>2. ASSUME NEW c \in Ctxs, load_context_from_storage(c)
      PROVE  ContextsInv'
  <2>1. PICK p : p = data[SlotOf[c]]
    OBVIOUS
  <2>2. p # Absent /\ Registered({p})
    BY <1>2, <2>1 DEF load_context_from_storage
  <2>3. p \in Serialised /\ p \in Stored
    BY <1>1, <2>1, <2>2, InPayloads DEF Stored, Store
  <2>4. IsFiniteSet({p})
    BY FS_Singleton
  <2>5. PICK ps : ps = {p}
    OBVIOUS
  <2> QED
    BY <2>2, <2>3, <2>4, <2>5, RegisteredOK
<1>3. CASE load_all_contexts_from_storage
  <2>1. PICK a : a = data[AllSlot]
    OBVIOUS
  <2>2. a # Absent /\ Registered(a.cs)
    BY <1>3, <2>1 DEF load_all_contexts_from_storage
  <2>3. a \in Collections
    BY <1>1, <2>1, <2>2 DEF Store
  <2>4. a.cs \subseteq Serialised /\ IsFiniteSet(a.cs)
    BY <2>3, Kinds
  <2>5. a.cs \subseteq Stored
    BY <1>1, <2>1, <2>2, InPayloads DEF Stored
  <2> QED
    BY <2>2, <2>4, <2>5, RegisteredOK
<1> QED
  BY <1>2, <1>3

\* A crash empties the table and leaves what the file holds.
LEMMA LosesTableOK == ASSUME ContextsInv, LosesTable  PROVE ContextsInv'
<1>1. StorageInv' /\ Stored' \subseteq Stored
  BY CrashOK DEF ContextsInv, LosesTable
<1>2. objs' = <<>> /\ table' = [c \in Ctxs |-> 0] /\ used' = used /\ off' = off
  BY DEF LosesTable
<1>3. TableOK'
  BY <1>2 DEF ContextsInv, TableOK
<1>4. Listed(table') = {}
  BY <1>2 DEF Listed
<1>5. TableIsActive'
  BY <1>1, <1>2, <1>4 DEF ContextsInv, TableIsActive
<1>6. \A p \in Known' : p \in Known /\ Copy(p, p)
  BY <1>1, <1>2 DEF Known, Copy
<1> QED
  BY <1>1, <1>2, <1>3, <1>5, <1>6, CopiesKeep DEF ContextsInv
\* Every step keeps the invariant.
LEMMA ContextsInvKept == ContextsInv /\ [Next]_vars => ContextsInv'
<1> SUFFICES ASSUME ContextsInv, [Next]_vars  PROVE ContextsInv'
  OBVIOUS
<1>1. CASE StorageNext /\ UNCHANGED ctxVars
  BY <1>1, StorageStepOK, EngineStays DEF ContextsInv
<1>2. CASE LosesTable
  BY <1>2, LosesTableOK
<1>3. ASSUME NEW c \in Ctxs, OfOneContext(c)
      PROVE  ContextsInv'
  <2>1. ASSUME NEW ttl \in {{}} \cup {{t} : t \in CtxTtls}, create_context(c, ttl)
        PROVE  ContextsInv'
    <3>1. ttl \in SUBSET Nat
      BY ContextsAssumption
    <3> QED
      BY <2>1, <3>1, CreateOK
  <2>2. CASE get_context(c)
    <3>1. {c} \in SUBSET Listed(table)
      BY <2>2 DEF get_context, OverIds
    <3>2. /\ Dropped({c}) /\ used' = used /\ off' = off
          /\ UNCHANGED <<now, up, fileVars, mem, reply>>
      BY <2>2 DEF get_context, storageVars
    <3> QED
      BY <3>1, <3>2, DroppedOK
  <2>3. CASE delete_context(c)
    <3>1. {c} \in SUBSET Listed(table)
      BY <2>3 DEF delete_context
    <3>2. /\ Dropped({c}) /\ used' = used /\ off' = off
          /\ UNCHANGED <<now, up, fileVars, mem, reply>>
      BY <2>3 DEF delete_context, CtxCall
    <3> QED
      BY <3>1, <3>2, DroppedOK
  <2>4. ASSUME NEW val \in Values, update_context_metadata(c, val)
        PROVE  ContextsInv'
    BY <2>4, UpdateOK
  <2> QED
    BY <1>3, <2>1, <2>2, <2>3, <2>4, SaveOneOK, LoadsOK DEF OfOneContext
<1>4. ASSUME NEW o \in 1..MaxObjs, get(o)
      PROVE  ContextsInv'
  <2>1. PICK c : c \in OverIds /\ Dropped({c})
    BY <1>4 DEF get
  <2>2. {c} \in SUBSET Listed(table)
    BY <2>1 DEF OverIds
  <2>3. /\ used' = used /\ off' = off
        /\ UNCHANGED <<now, up, fileVars, mem, reply>>
    BY <1>4 DEF get, storageVars
  <2> QED
    BY <2>1, <2>2, <2>3, DroppedOK
<1>5. CASE clear
  BY <1>5, DroppedOK DEF clear, CtxCall
<1>8. ASSUME NEW o \in 1..MaxObjs, deactivate(o)
      PROVE  ContextsInv'
  BY <1>8, HolderDeactivatesOK
<1>6. CASE prune_expired_contexts
  <2>1. OverIds \in SUBSET Listed(table)
    BY DEF OverIds
  <2>2. /\ Dropped(OverIds) /\ used' = used /\ off' = off
        /\ UNCHANGED <<now, up, fileVars, mem, reply>>
    BY <1>6 DEF prune_expired_contexts, storageVars
  <2> QED
    BY <2>1, <2>2, DroppedOK
<1>7. CASE UNCHANGED vars
  <2>1. UNCHANGED ctxVars /\ UNCHANGED <<now, up, fileVars, mem, reply>>
    BY <1>7 DEF vars, storageVars
  <2> QED
    BY <2>1, StorageStays, WithinItself, EngineStays
<1> QED
  BY <1>1, <1>2, <1>3, <1>4, <1>5, <1>6, <1>7, <1>8, SaveAllOK, LoadsOK DEF Next

\* Every reachable state of store and contexts satisfies the invariant.
LEMMA ContextsAlwaysInv == Spec => []ContextsInv
<1>1. Init => ContextsInv
  <2> SUFFICES ASSUME Init  PROVE ContextsInv
    OBVIOUS
  <2>1. StorageInv /\ Stored = {}
    BY StorageInitOK DEF Init
  <2>2. objs = <<>> /\ table = [c \in Ctxs |-> 0] /\ used = {}
    BY DEF Init, CtxInit
  <2>3. TableOK
    BY <2>2 DEF TableOK
  <2>4. Known = {} /\ Listed(table) = {}
    BY <2>1, <2>2 DEF Known, Listed
  <2>5. TableIsActive
    BY <2>1, <2>4, Zenon DEF TableIsActive
  <2>6. LifetimeIsFixed /\ IdsAreUsed
    BY <2>4, Zenon DEF LifetimeIsFixed, IdsAreUsed, Known
  <2> QED
    BY <2>1, <2>3, <2>5, <2>6 DEF ContextsInv
<1> QED
  BY <1>1, ContextsInvKept, PTL DEF Spec

-----------------------------------------------------------------------------
(* The theorems *)

\* Between two operations of the storage, with crashes at any point and files
\* that refuse to open, a restart gives back what is in memory unless a save
\* raised (json_file.py: every change of _data ends with save()): the contents as
\* JSON writes them, but for the values a holder has changed in place since, of
\* which everything else comes back.
THEOREM StorageStaysConsistent == Spec => []StoreConsistent
<1>1. ContextsInv => StoreConsistent
  BY DEF ContextsInv, StorageInv, ClockOK, FileOK, MemOK, Store, StoreConsistent, StorageTypeOK
<1> QED
  BY <1>1, ContextsAlwaysInv, PTL

\* The long-term memory hands out an entry past its expiry only when deleting
\* it failed (persistent.py: the except clause of get_entry).
THEOREM StaleAnswersConfess == Spec => []StaleOnlyAfterFailure
<1>1. ContextsInv => StaleOnlyAfterFailure
  BY DEF ContextsInv, StorageInv, ReplyOK, Confessed, StaleOnlyAfterFailure
<1> QED
  BY <1>1, ContextsAlwaysInv, PTL

\* The table of the context engine, what is stored of it and the objects that
\* callers hold agree: what is listed or stored is active unless a holder called
\* RuntimeContext.deactivate, and a lifetime survives updates in place, saves,
\* crashes and loads (context/engine.py).
THEOREM ContextsStayConsistent == Spec => []ContextsConsistent
<1>1. ContextsInv => ContextsConsistent
  BY DEF ContextsInv, ContextsConsistent
<1> QED
  BY <1>1, ContextsAlwaysInv, PTL
=============================================================================
