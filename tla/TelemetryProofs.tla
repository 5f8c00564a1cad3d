---------------------------- MODULE TelemetryProofs ----------------------------
(***************************************************************************)
(* Proofs about the event bus and the observability service on it.         *)
(***************************************************************************)
EXTENDS Observability, SequenceTheorems, TLAPS

-----------------------------------------------------------------------------
(* Lists of subscriptions *)

\* A list of handlers on which nobody is twice.
IsList(s) == s \in Seq(Handlers) /\ IsInjective(s)

\* A handler that is not on the list is put at its end.
LEMMA AppendToList ==
    ASSUME NEW s, IsList(s), NEW h \in Handlers, h \notin ToSet(s)
    PROVE  IsList(Append(s, h)) /\ ToSet(Append(s, h)) = ToSet(s) \cup {h}
<1>1. s \in Seq(Handlers) /\ Len(s) \in Nat /\ DOMAIN s = 1..Len(s)
  BY DEF IsList
<1>2. PICK t \in Seq(Handlers) : t = Append(s, h)
  BY <1>1, AppendProperties
<1>3. /\ Len(t) = Len(s) + 1 /\ DOMAIN t = 1..(Len(s) + 1)
      /\ \A i \in 1..Len(s) : t[i] = s[i]
      /\ t[Len(s) + 1] = h
  BY <1>1, <1>2
<1>4. \A i \in 1..Len(s) : s[i] # h
  BY <1>1 DEF ToSet
<1>5. IsInjective(t)
  BY <1>1, <1>3, <1>4 DEF IsInjective, IsList
<1>6. ToSet(t) = ToSet(s) \cup {h}
  BY <1>1, <1>3 DEF ToSet
<1> QED
  BY <1>2, <1>5, <1>6 DEF IsList

\* A handler is taken from the list.
LEMMA RemoveFromList ==
    ASSUME NEW s, IsList(s), NEW h
    PROVE  IsList(RemoveFirst(s, h)) /\ ToSet(RemoveFirst(s, h)) = ToSet(s) \ {h}
<1>1. PICK n \in Nat : s \in Seq(Handlers) /\ Len(s) = n /\ DOMAIN s = 1..n
  BY DEF IsList
<1>2. CASE ~ \E i \in 1..n : s[i] = h
  <2>1. RemoveFirst(s, h) = s
    BY <1>1, <1>2 DEF RemoveFirst
  <2> QED
    BY <1>1, <1>2, <2>1 DEF ToSet
<1>3. CASE \E i \in 1..n : s[i] = h
  <2> DEFINE I == {i \in 1..n : s[i] = h}
             k == SelectInSeq(s, LAMBDA v : v = h)
  <2>1. k = Min(I)
    BY <1>1, <1>3 DEF SelectInSeq
  <2>2. PICK i \in I : I = {i}
    BY <1>1, <1>3 DEF IsList, IsInjective
  <2>3. i \in Nat /\ Min(I) = i
    BY <2>2 DEF Min
  <2>4. k = i /\ i \in 1..n /\ s[i] = h
    BY <2>1, <2>2, <2>3
  <2> HIDE DEF k, I
  <2>5. RemoveFirst(s, h) = SubSeq(s, 1, i - 1) \o SubSeq(s, i + 1, n)
    BY <1>1, <1>3, <2>4 DEF RemoveFirst, RemoveAt, k
  <2>6. PICK a : a = SubSeq(s, 1, i - 1)
    OBVIOUS
  <2>7. PICK b : b = SubSeq(s, i + 1, n)
    OBVIOUS
  <2>8. /\ a \in Seq(Handlers) /\ Len(a) = i - 1 /\ \A j \in 1..(i - 1) : a[j] = s[j]
        /\ b \in Seq(Handlers) /\ Len(b) = n - i /\ \A j \in 1..(n - i) : b[j] = s[i + j]
    <3>1. \A j \in 1..n : s[j] \in Handlers
      BY <1>1
    <3>2. /\ a \in Seq(Handlers) /\ Len(a) = IF 1 <= i - 1 THEN i - 1 - 1 + 1 ELSE 0
          /\ \A j \in 1..(i - 1 - 1 + 1) : a[j] = s[1 + j - 1]
      <4>1. i - 1 \in Int /\ 1 \in Int /\ \A j \in 1..(i - 1) : s[j] \in Handlers
        BY <2>4, <3>1
      <4> QED
        BY <1>1, <2>6, <4>1, SubSeqProperties
    <3>3. /\ b \in Seq(Handlers) /\ Len(b) = IF i + 1 <= n THEN n - (i + 1) + 1 ELSE 0
          /\ \A j \in 1..(n - (i + 1) + 1) : b[j] = s[i + 1 + j - 1]
      <4>1. i + 1 \in Int /\ n \in Int /\ \A j \in (i + 1)..n : s[j] \in Handlers
        BY <2>4, <3>1
      <4> QED
        BY <1>1, <2>7, <4>1, SubSeqProperties
    <3>4. \A j \in 1..n : 1 + j - 1 = j /\ i + 1 + j - 1 = i + j
      BY <2>4
    <3>5. i - 1 - 1 + 1 = i - 1 /\ n - (i + 1) + 1 = n - i
      BY <2>4
    <3> QED
      BY <2>4, <3>2, <3>3, <3>4, <3>5
  <2>9. PICK t : t = a \o b
    OBVIOUS
  <2>12. /\ t \in Seq(Handlers) /\ Len(t) = n - 1 /\ DOMAIN t = 1..(n - 1)
         /\ \A j \in 1..(i - 1) : t[j] = s[j]
         /\ \A j \in i..(n - 1) : t[j] = s[j + 1]
    <3>1. /\ t \in Seq(Handlers) /\ Len(t) = Len(a) + Len(b)
          /\ \A j \in 1..(Len(a) + Len(b)) : t[j] = IF j <= Len(a) THEN a[j] ELSE b[j - Len(a)]
      BY <2>8, <2>9, ConcatProperties
    <3>2. /\ Len(t) = n - 1 /\ DOMAIN t = 1..(n - 1)
          /\ \A j \in 1..(n - 1) : t[j] = IF j <= i - 1 THEN a[j] ELSE b[j - (i - 1)]
      BY SMTT(30), <2>4, <2>8, <3>1
    <3>3. \A j \in i..(n - 1) : t[j] = s[j + 1]
      <4> TAKE j \in i..(n - 1)
      <4>1. j - (i - 1) \in 1..(n - i) /\ i + (j - (i - 1)) = j + 1 /\ j \in 1..(n - 1) /\ ~ (j <= i - 1)
        BY <2>4
      <4> QED
        BY <2>8, <3>2, <4>1
    <3>4. \A j \in 1..(i - 1) : t[j] = s[j]
      BY <2>4, <2>8, <3>2
    <3> QED
      BY <3>1, <3>2, <3>3, <3>4
  <2> DEFINE Was(j) == IF j <= i - 1 THEN j ELSE j + 1
  <2>13. ASSUME NEW j \in 1..(n - 1) PROVE Was(j) \in 1..n /\ Was(j) # i /\ t[j] = s[Was(j)]
    BY <2>4, <2>12
  <2>14. \A j, l \in 1..(n - 1) : Was(j) = Was(l) => j = l
    BY <2>4
  <2>15. ASSUME NEW l \in 1..n, l # i PROVE \E j \in 1..(n - 1) : l = Was(j)
    <3>1. CASE l < i
      BY <2>4, <3>1
    <3>2. CASE l > i
      <4>1. l - 1 \in 1..(n - 1) /\ l = Was(l - 1)
        BY <2>4, <3>2
      <4> QED
        BY <4>1
    <3> QED
      BY <2>4, <2>15, <3>1, <3>2
  <2> HIDE DEF Was
  <2>16. \A j, l \in 1..n : s[j] = s[l] => j = l
    BY <1>1 DEF IsList, IsInjective
  <2>10. IsInjective(t)
    BY <2>12, <2>13, <2>14, <2>16 DEF IsInjective
  <2>11. ToSet(t) = ToSet(s) \ {h}
    <3>1. ASSUME NEW j \in 1..(n - 1) PROVE t[j] \in ToSet(s) \ {h}
      BY <1>1, <2>4, <2>13, <2>16 DEF ToSet
    <3>2. ASSUME NEW l \in 1..n, s[l] # h PROVE s[l] \in ToSet(t)
      <4>1. PICK j \in 1..(n - 1) : l = Was(j)
        BY <2>4, <2>15, <3>2
      <4> QED
        BY <2>12, <2>13, <4>1 DEF ToSet
    <3> QED
      BY <1>1, <2>12, <3>1, <3>2 DEF ToSet
  <2> QED
    BY <2>5, <2>6, <2>7, <2>9, <2>10, <2>11, <2>12 DEF IsList
<1> QED
  BY <1>2, <1>3

-----------------------------------------------------------------------------
(* The invariant *)

\* Nobody is twice on a list of subscriptions, the lists for older clients are
\* the same, and only a service that is up is on one, the wildcard's.
ListsOK ==
    /\ subs \in [Keys -> Seq(Handlers)] /\ listeners = subs
    /\ \A k \in Keys :
          IsList(subs[k]) /\ (k # Star \/ ~initialized => Observer \notin ToSet(subs[k]))

HistoryOK == history \in Seq(Events) /\ published \in 0..MaxPublishes /\ HistoryIsRecent

PoolOK == /\ pool \in {"live", "none"} /\ down \in BOOLEAN /\ ops \in Nat
          /\ tasks \cup refused \subseteq [handler : Async, n : Numbers]

\* No two publishers have the same event, and one without an event is idle.
PublishersOK ==
    /\ sending \subseteq Publishers /\ todo \in [Publishers -> Seq(Handlers)]
    /\ event \in [Publishers -> [n : Nat, name : Keys]]
    /\ \A t \in Publishers :
          /\ event[t].n <= published
          /\ event[t].n = 0 => ~Busy(t)
          /\ event[t].n # 0 => event[t].name \in Names
          /\ t \in sending => todo[t] = <<>>
    /\ \A t, u \in Publishers : event[t].n = event[u].n /\ event[t].n # 0 => t = u

\* How often a handler has been called for an event, a call that waits in the
\* pool included.
Given(h, n) == delivered[h][n] + (IF [handler |-> h, n |-> n] \in tasks THEN 1 ELSE 0)

Places(s, h) == {i \in DOMAIN s : s[i] = h}

\* The calls given and the places left on the list s make two at most.
TwoAtMost(h, n, s) ==
    /\ Given(h, n) = 2 => Places(s, h) = {}
    /\ Given(h, n) = 1 => \A i, j \in Places(s, h) : i = j
    /\ \A i, j, l \in Places(s, h) : i = j \/ i = l \/ j = l

\* An event that is not published, or that waits for the subscriptions, has
\* been given to nobody.
CallsOK ==
    /\ delivered \in [Handlers -> [Numbers -> Nat]]
    /\ \A h \in Handlers, n \in Numbers :
          /\ Given(h, n) <= 2
          /\ n > published => Given(h, n) = 0
    /\ \A t \in Publishers, h \in Handlers : event[t].n # 0 =>
          IF t \in sending THEN Given(h, event[t].n) = 0
                          ELSE TwoAtMost(h, event[t].n, todo[t])

\* Who is expected to get an event is subscribed to it as long as the list is
\* not copied; then he is on the list or has been served.
ExpectedOK ==
    /\ expected \in [Numbers -> SUBSET Handlers]
    /\ \A t \in Publishers : event[t].n # 0 => \A h \in expected[event[t].n] :
          IF t \in sending THEN h \in Subscribers(event[t].name)
          ELSE Wanted(t, h) => h \in ToSet(todo[t]) \/ Served(h, event[t].n)

\* The observer's handler runs for the subscription being served, and the
\* counter it holds is in the registry unless that was cleared.
ObserverOK ==
    /\ counters \in [Names -> Nat \cup {None}] /\ counted \in [Names -> Nat]
    /\ object \in [Publishers -> Nat] /\ epoch \in Nat
    /\ hat \in [Publishers -> {"idle", "inc", "record"}]
    /\ \A t \in Publishers :
          /\ object[t] <= epoch
          /\ hat[t] # "idle" => Serving(t, Observer) /\ Wanted(t, Observer)
          /\ hat[t] = "inc" /\ object[t] = epoch => counters[event[t].name] # None
    /\ CountersAreExact

TelemetryInv == /\ ListsOK /\ HistoryOK /\ PoolOK /\ PublishersOK
                /\ CallsOK /\ ExpectedOK /\ ObserverOK

-----------------------------------------------------------------------------
(* The steps that change subscriptions *)

\* A publisher with an event has one that was published.
LEMMA EventIsPublished ==
    ASSUME PublishersOK, HistoryOK, NEW t \in Publishers, event[t].n # 0
    PROVE  event[t].n \in Numbers /\ event[t].n <= published /\ event[t].name \in Names
           /\ event[t] \in Events
<1>1. /\ event[t] \in [n : Nat, name : Keys] /\ event[t].n <= published /\ event[t].name \in Names
      /\ published \in 0..MaxPublishes
  BY DEF PublishersOK, HistoryOK
<1>2. event[t].n \in Numbers
  BY <1>1, BusAssumption DEF Numbers
<1> QED
  BY <1>1, <1>2 DEF Events

\* Who stays subscribed is still expected, and nobody else.
LEMMA SubscriptionsChange ==
    ASSUME TelemetryInv, UNCHANGED <<sending, event, todo, delivered, refused, tasks>>,
           \/ Staying
           \/ expected' = expected /\ \A k \in Keys : ToSet(subs[k]) \subseteq ToSet(subs'[k])
    PROVE  ExpectedOK'
<1>1. /\ expected' \in [Numbers -> SUBSET Handlers]
      /\ \A e \in Numbers : expected'[e] \subseteq expected[e]
  BY DEF Staying, TelemetryInv, ExpectedOK
<1>2. ASSUME NEW t \in Publishers, event[t].n # 0, NEW h \in expected'[event[t].n]
      PROVE  IF t \in sending THEN h \in Subscribers(event[t].name)'
             ELSE Wanted(t, h) => h \in ToSet(todo[t]) \/ Served(h, event[t].n)
  <2>1. event[t].n \in Numbers /\ event[t].name \in Keys
    BY <1>2, EventIsPublished DEF TelemetryInv, Keys
  <2>2. h \in expected[event[t].n] /\ Star \in Keys
    BY <1>1, <1>2, <2>1 DEF Keys
  <2>3. CASE t \in sending
    <3>1. CASE Staying
      <4>1. expected'[event[t].n] =
              {g \in expected[event[t].n] : \A u \in sending : event[u].n = event[t].n =>
                 g \in ToSet(subs'[event[u].name]) \cup ToSet(subs'[Star])}
        BY <2>1, <3>1 DEF Staying
      <4> QED
        BY <1>2, <2>3, <4>1 DEF Subscribers
    <3>2. CASE \A k \in Keys : ToSet(subs[k]) \subseteq ToSet(subs'[k])
      <4>1. h \in Subscribers(event[t].name)
        BY <1>2, <2>2, <2>3 DEF TelemetryInv, ExpectedOK
      <4> QED
        BY <2>1, <2>2, <2>3, <3>2, <4>1 DEF Subscribers
    <3> QED
      BY <3>1, <3>2
  <2>4. CASE t \notin sending
    BY <1>2, <2>2, <2>4 DEF TelemetryInv, ExpectedOK
  <2> QED
    BY <2>3, <2>4
<1>3. \A t \in Publishers : \A h : Wanted(t, h)' = Wanted(t, h) /\ Served(h, event[t].n)' = Served(h, event[t].n)
  BY DEF Wanted, Served
<1> QED
  BY <1>1, <1>2, <1>3 DEF ExpectedOK

\* A handler is put on a list, unless it is there.
LEMMA AddKeepsLists ==
    ASSUME ListsOK, NEW k \in Keys, NEW h \in Handlers, Add(k, h),
           h = Observer => initialized' /\ k = Star, initialized' \/ ~initialized
    PROVE  ListsOK' /\ \A key \in Keys : ToSet(subs[key]) \subseteq ToSet(subs'[key])
<1>1. CASE h \in ToSet(subs[k])
  BY <1>1 DEF Add, ListsOK, subVars
<1>2. CASE h \notin ToSet(subs[k])
  <2>1. PICK s : s = Append(subs[k], h)
    OBVIOUS
  <2>2. IsList(s) /\ ToSet(s) = ToSet(subs[k]) \cup {h}
    BY <1>2, <2>1, AppendToList DEF ListsOK
  <2>3. subs' = [subs EXCEPT ![k] = s] /\ listeners' = [listeners EXCEPT ![k] = s]
    BY <1>2, <2>1 DEF Add, ListsOK
  <2>4. /\ subs' \in [Keys -> Seq(Handlers)] /\ listeners' = subs' /\ subs'[k] = s
        /\ \A key \in Keys \ {k} : subs'[key] = subs[key]
    BY <2>2, <2>3 DEF ListsOK, IsList
  <2> QED
    BY <2>2, <2>4 DEF ListsOK, IsList
<1> QED
  BY <1>1, <1>2

\* A handler is taken from a list: the observer when its service goes down.
LEMMA DropKeepsLists ==
    ASSUME ListsOK, NEW k \in Keys, NEW h \in Handlers, Drop(k, h),
           \/ initialized' = initialized
           \/ h = Observer /\ k = Star
    PROVE  ListsOK'
<1>1. PICK s : s = RemoveFirst(subs[k], h)
  OBVIOUS
<1>2. IsList(s) /\ ToSet(s) = ToSet(subs[k]) \ {h}
  BY <1>1, RemoveFromList DEF ListsOK
<1>3. subs' = [subs EXCEPT ![k] = s] /\ listeners' = [listeners EXCEPT ![k] = s]
  BY <1>1 DEF Drop, ListsOK
<1>4. /\ subs' \in [Keys -> Seq(Handlers)] /\ listeners' = subs' /\ subs'[k] = s
      /\ \A key \in Keys \ {k} : subs'[key] = subs[key]
  BY <1>2, <1>3 DEF ListsOK, IsList
<1>5. ASSUME NEW key \in Keys, key # Star \/ ~initialized'
      PROVE  Observer \notin ToSet(subs'[key])
  <2>1. ToSet(subs'[key]) \subseteq ToSet(subs[key])
    BY <1>2, <1>4
  <2>2. CASE h = Observer /\ k = Star /\ key = Star
    BY <1>2, <1>4, <2>2
  <2>3. CASE key # Star \/ ~initialized
    BY <2>1, <2>3 DEF ListsOK
  <2> QED
    BY <1>5, <2>2, <2>3
<1> QED
  BY <1>2, <1>4, <1>5 DEF ListsOK, IsList

\* The lists are emptied.
LEMMA EmptyKeepsLists ==
    ASSUME subs' = [k \in Keys |-> <<>>], listeners' = [k \in Keys |-> <<>>]
    PROVE  ListsOK'
<1>1. IsList(<<>>) /\ \A h : h \notin ToSet(<<>>)
  <2>1. <<>> \in Seq(Handlers) /\ DOMAIN <<>> = {}
    OBVIOUS
  <2> QED
    BY <2>1 DEF IsList, IsInjective, ToSet
<1>2. <<>> \in Seq(Handlers)
  OBVIOUS
<1>3. subs' \in [Keys -> Seq(Handlers)] /\ \A k \in Keys : subs'[k] = <<>>
  BY <1>2
<1> QED
  BY <1>1, <1>3 DEF ListsOK, IsList

-----------------------------------------------------------------------------
(* The steps of a publication *)

\* Nothing but the subscriptions and who is expected changes.
LEMMA SubscribedKeeps ==
    ASSUME TelemetryInv, ListsOK', ExpectedOK', UNCHANGED <<history, poolVars, sendVars, recordVars,
           published, metricVars>>, ops' \in Nat
    PROVE  TelemetryInv'
<1>1. HistoryOK' /\ PoolOK'
  BY DEF TelemetryInv, HistoryOK, HistoryIsRecent, PoolOK, poolVars, recordVars
<1>2. PublishersOK'
  BY DEF TelemetryInv, PublishersOK, sendVars, Busy
<1>3. CallsOK'
  BY DEF TelemetryInv, CallsOK, TwoAtMost, Given, Places, poolVars, recordVars, sendVars
<1>4. ObserverOK'
  BY DEF TelemetryInv, ObserverOK, CountersAreExact, metricVars, sendVars, Serving, Wanted
<1> QED
  BY <1>1, <1>2, <1>3, <1>4 DEF TelemetryInv

\* The history ends with the new event.
LEMMA PublishKeepsHistory ==
    ASSUME HistoryOK, NEW e \in Events, e.n = published + 1, published < MaxPublishes,
           history' = Recorded(e), published' = published + 1
    PROVE  HistoryOK'
<1>1. PICK n \in Nat : n = Len(history) /\ n <= MaxHistory /\ history \in Seq(Events)
                       /\ \A i \in 1..n : history[i].n = published - n + i
  BY DEF HistoryOK, HistoryIsRecent
<1>2. PICK h : h = Append(history, e)
  OBVIOUS
<1>3. /\ h \in Seq(Events) /\ Len(h) = n + 1 /\ h[n + 1] = e
      /\ \A i \in 1..n : h[i] = history[i]
  BY <1>1, <1>2, AppendProperties
<1>4. published \in Nat /\ MaxHistory \in Nat /\ published' \in 0..MaxPublishes
  BY BusAssumption DEF HistoryOK
<1>5. \A i \in 1..(n + 1) : h[i].n = published - n + i
  <2> TAKE i \in 1..(n + 1)
  <2>1. CASE i = n + 1
    BY <1>3, <1>4, <2>1
  <2>2. CASE i <= n
    BY <1>1, <1>3, <2>2
  <2> QED
    BY <2>1, <2>2
<1>6. CASE n + 1 > MaxHistory
  <2>1. history' = Tail(h)
    BY <1>2, <1>3, <1>6 DEF Recorded
  <2>2. PICK t : t = Tail(h)
    OBVIOUS
  <2>3. t \in Seq(Events) /\ Len(t) = n /\ \A i \in 1..n : t[i] = h[i + 1]
    <3>1. h # <<>>
      BY <1>3
    <3> QED
      BY <1>3, <2>2, <3>1, HeadTailProperties
  <2>4. \A i \in 1..n : t[i].n = published + 1 - n + i
    <3> TAKE i \in 1..n
    <3>1. i + 1 \in 1..(n + 1) /\ t[i] = h[i + 1]
      BY <2>3
    <3>2. t[i].n = published - n + (i + 1)
      BY <1>5, <3>1
    <3>3. published - n + (i + 1) = published + 1 - n + i
      BY <1>4
    <3> QED
      BY <3>2, <3>3
  <2>5. DOMAIN t = 1..n
    BY <2>3
  <2>7. history' = t
    BY <2>1, <2>2
  <2>8. Len(history') = n /\ DOMAIN history' = 1..n
    BY <2>3, <2>5, <2>7
  <2>9. \A i \in 1..n : history'[i].n = published' - n + i
    <3> TAKE i \in 1..n
    <3>1. t[i].n = published + 1 - n + i
      BY <2>4
    <3>2. history'[i].n = t[i].n
      BY Zenon, <2>7
    <3>3. published' - n + i = published + 1 - n + i
      BY <1>4
    <3> QED
      BY Zenon, <3>1, <3>2, <3>3
  <2>6. HistoryIsRecent'
    BY <1>1, <1>4, <2>8, <2>9 DEF HistoryIsRecent
  <2> QED
    BY <1>4, <2>3, <2>6, <2>7 DEF HistoryOK
<1>7. CASE n + 1 <= MaxHistory
  <2>1. history' = h
    BY <1>2, <1>3, <1>4, <1>7 DEF Recorded
  <2>2. DOMAIN h = 1..(n + 1) /\ \A i \in 1..(n + 1) : h[i].n = published + 1 - (n + 1) + i
    <3>1. \A i \in 1..(n + 1) : published - n + i = published + 1 - (n + 1) + i
      BY <1>4
    <3>2. DOMAIN h = 1..(n + 1)
      BY <1>3
    <3> QED
      BY <1>5, <3>1, <3>2
  <2>3. HistoryIsRecent'
    BY <1>3, <1>4, <1>7, <2>1, <2>2 DEF HistoryIsRecent
  <2> QED
    BY <1>3, <1>4, <2>1, <2>3 DEF HistoryOK
<1> QED
  BY <1>1, <1>4, <1>6, <1>7

\* The calls that a step adds: one, of h for the event of t, or none.
Gives(h, n) ==
    /\ delivered' \in [Handlers -> [Numbers -> Nat]]
    /\ \A g \in Handlers, m \in Numbers :
          /\ Given(g, m)' <= Given(g, m) + (IF g = h /\ m = n THEN 1 ELSE 0)
          /\ Given(g, m)' \in Nat
          /\ Served(g, m) => Served(g, m)'

\* The subscription at the head of a list is served: what is left of it.
LEMMA TailOfTodo ==
    ASSUME NEW s \in Seq(Handlers), s # <<>>
    PROVE  /\ Tail(s) \in Seq(Handlers) /\ Head(s) \in Handlers
           /\ \A h : Places(Tail(s), h) = {i \in 1..(Len(s) - 1) : s[i + 1] = h}
           /\ ToSet(s) = ToSet(Tail(s)) \cup {Head(s)}
<1>1. PICK n \in Nat : n = Len(s) /\ n >= 1 /\ DOMAIN s = 1..n
  OBVIOUS
<1>2. PICK t : t = Tail(s)
  OBVIOUS
<1>3. /\ t \in Seq(Handlers) /\ Len(t) = n - 1 /\ DOMAIN t = 1..(n - 1)
      /\ \A i \in 1..(n - 1) : t[i] = s[i + 1]
  BY <1>1, <1>2
<1>4. Head(s) = s[1] /\ s[1] \in Handlers
  BY <1>1
<1>5. ToSet(s) = ToSet(t) \cup {s[1]}
  <2>1. \A i \in 1..n : i = 1 \/ (i - 1 \in 1..(n - 1) /\ (i - 1) + 1 = i)
    OBVIOUS
  <2>2. \A i \in 1..n : s[i] \in ToSet(t) \cup {s[1]}
    <3> TAKE i \in 1..n
    <3>1. CASE i = 1
      BY <3>1
    <3>2. CASE i # 1
      <4>1. i - 1 \in 1..(n - 1) /\ t[i - 1] = s[i]
        BY <1>3, <2>1, <3>2
      <4> QED
        BY <1>3, <4>1 DEF ToSet
    <3> QED
      BY <3>1, <3>2
  <2>3. \A i \in 1..(n - 1) : t[i] \in ToSet(s)
    <3> TAKE i \in 1..(n - 1)
    <3>1. i + 1 \in 1..n
      BY <1>1
    <3> QED
      BY <1>1, <1>3, <3>1 DEF ToSet
  <2>4. s[1] \in ToSet(s)
    BY <1>1 DEF ToSet
  <2>5. ToSet(s) = {s[i] : i \in 1..n} /\ ToSet(t) = {t[i] : i \in 1..(n - 1)}
    BY <1>1, <1>3 DEF ToSet
  <2> QED
    BY <2>2, <2>3, <2>4, <2>5
<1> QED
  BY <1>1, <1>2, <1>3, <1>4, <1>5 DEF Places

\* A call of h uses up one of the places h has on the list.
LEMMA TwoAtMostOf ==
    ASSUME NEW s \in Seq(Handlers), s # <<>>, NEW h, NEW n, TwoAtMost(h, n, s),
           Given(h, n) \in Nat, Given(h, n) <= 2, Given(h, n)' \in Nat,
           Given(h, n)' <= Given(h, n) + (IF h = Head(s) THEN 1 ELSE 0)
    PROVE  Given(h, n)' <= 2 /\ TwoAtMost(h, n, Tail(s))'
<1> DEFINE P == {i \in 1..(Len(s) - 1) : s[i + 1] = h}
<1>20. PICK g \in Nat : g = Given(h, n)
  OBVIOUS
<1>21. PICK d \in Nat : d = Given(h, n)'
  OBVIOUS
<1>22. PICK k : k = Head(s)
  OBVIOUS
<1>1. \A i \in P : i \in Nat /\ i + 1 \in Places(s, h)
  BY DEF Places
<1>2. k = h => 1 \in Places(s, h)
  BY <1>22 DEF Places
<1>3. Places(Tail(s), h) = P
  BY TailOfTodo
<1>4. g = 2 => Places(s, h) = {}
  BY <1>20 DEF TwoAtMost
<1>5. g = 1 => \A i, j \in Places(s, h) : i = j
  BY <1>20 DEF TwoAtMost
<1>6. \A i, j, l \in Places(s, h) : i = j \/ i = l \/ j = l
  BY <1>20 DEF TwoAtMost
<1>7. g <= 2 /\ (h = k => d <= g + 1) /\ (h # k => d <= g)
  BY <1>20, <1>21, <1>22
<1>8. \A i \in P : i + 1 # 1
  BY <1>1
<1> HIDE DEF P
<1>9. d <= 2
  BY <1>2, <1>4, <1>7
<1>10. d = 2 => P = {}
  <2> SUFFICES ASSUME d = 2, NEW i \in P PROVE FALSE
    OBVIOUS
  <2>1. g = 2 \/ (g = 1 /\ h = k)
    BY <1>7
  <2> QED
    BY <1>1, <1>2, <1>4, <1>5, <1>8, <2>1
<1>11. d = 1 => \A i, j \in P : i = j
  <2> SUFFICES ASSUME d = 1, NEW i \in P, NEW j \in P PROVE i = j
    OBVIOUS
  <2>1. g = 2 \/ g = 1 \/ (g = 0 /\ h = k)
    BY <1>7
  <2>2. i + 1 \in Places(s, h) /\ j + 1 \in Places(s, h) /\ i \in Nat /\ j \in Nat
    BY <1>1
  <2> QED
    BY <1>2, <1>4, <1>5, <1>6, <1>8, <2>1, <2>2
<1>12. \A i, j, l \in P : i = j \/ i = l \/ j = l
  <2> SUFFICES ASSUME NEW i \in P, NEW j \in P, NEW l \in P PROVE i = j \/ i = l \/ j = l
    OBVIOUS
  <2>1. /\ i + 1 \in Places(s, h) /\ j + 1 \in Places(s, h) /\ l + 1 \in Places(s, h)
        /\ i \in Nat /\ j \in Nat /\ l \in Nat
    BY <1>1
  <2> QED
    BY <1>6, <2>1
<1> QED
  BY <1>3, <1>9, <1>10, <1>11, <1>12, <1>21 DEF TwoAtMost

\* The calls given do not become more.
LEMMA TwoAtMostStays ==
    ASSUME NEW s \in Seq(Handlers), NEW h, NEW n, TwoAtMost(h, n, s),
           Given(h, n) \in Nat, Given(h, n) <= 2, Given(h, n)' \in Nat, Given(h, n)' <= Given(h, n)
    PROVE  Given(h, n)' <= 2 /\ TwoAtMost(h, n, s)'
<1>1. PICK P : P = Places(s, h)
  OBVIOUS
<1>2. PICK g \in Nat : g = Given(h, n) /\ g <= 2
  OBVIOUS
<1>3. PICK d \in Nat : d = Given(h, n)' /\ d <= g
  BY <1>2
<1>4. /\ g = 2 => P = {}
      /\ g = 1 => \A i, j \in P : i = j
      /\ \A i, j, l \in P : i = j \/ i = l \/ j = l
  BY <1>1, <1>2 DEF TwoAtMost
<1>5. /\ d = 2 => P = {}
      /\ d = 1 => \A i, j \in P : i = j
  BY <1>2, <1>3, <1>4
<1> QED
  BY <1>1, <1>2, <1>3, <1>4, <1>5 DEF TwoAtMost

\* The calls given are numbers.
LEMMA GivenIsNumber ==
    ASSUME CallsOK, NEW h \in Handlers, NEW n \in Numbers
    PROVE  Given(h, n) \in Nat /\ Given(h, n) <= 2
  BY DEF CallsOK, Given

\* A publisher serves the subscription at the head of its list.
LEMMA ServeKeeps ==
    ASSUME TelemetryInv, NEW t \in Publishers, NEW h \in Handlers, Serving(t, h), Next1(t),
           UNCHANGED <<subs, sending, event, expected, published>>, Gives(h, event[t].n),
           Wanted(t, h) => Served(h, event[t].n)'
    PROVE  PublishersOK' /\ CallsOK' /\ ExpectedOK'
<1>1. /\ PublishersOK /\ HistoryOK /\ CallsOK /\ ExpectedOK
  BY DEF TelemetryInv
<1>2. PICK s : s = todo[t]
  OBVIOUS
<1>3. s \in Seq(Handlers) /\ s # <<>> /\ Head(s) = h /\ t \notin sending /\ event[t].n # 0
  BY <1>1, <1>2 DEF PublishersOK, Serving, Busy
<1>4. /\ Tail(s) \in Seq(Handlers) /\ ToSet(s) = ToSet(Tail(s)) \cup {h}
  BY <1>3, TailOfTodo
<1>5. /\ todo' \in [Publishers -> Seq(Handlers)] /\ todo'[t] = Tail(s)
      /\ \A u \in Publishers \ {t} : todo'[u] = todo[u]
  BY <1>1, <1>2, <1>4 DEF Next1, PublishersOK
<1>6. PublishersOK'
  BY <1>1, <1>3, <1>5 DEF PublishersOK, Busy
<1>7. PICK n : n = event[t].n
  OBVIOUS
<1>8. n \in Numbers /\ n <= published
  BY <1>1, <1>3, <1>7, EventIsPublished
<1>9. ASSUME NEW g \in Handlers, NEW m \in Numbers
      PROVE  /\ Given(g, m) \in Nat /\ Given(g, m) <= 2 /\ Given(g, m)' \in Nat
             /\ Given(g, m)' <= Given(g, m) + (IF g = h /\ m = n THEN 1 ELSE 0)
  BY <1>1, <1>7, GivenIsNumber DEF Gives
<1>10. ASSUME NEW g \in Handlers PROVE Given(g, n)' <= 2 /\ TwoAtMost(g, n, Tail(s))'
  <2>1. TwoAtMost(g, n, s)
    BY <1>1, <1>2, <1>3, <1>7 DEF CallsOK
  <2>2. Given(g, n)' <= Given(g, n) + (IF g = Head(s) THEN 1 ELSE 0)
    BY <1>3, <1>8, <1>9
  <2> QED
    BY <1>3, <1>8, <1>9, <2>1, <2>2, TwoAtMostOf
<1>11. ASSUME NEW g \in Handlers, NEW m \in Numbers, m # n PROVE Given(g, m)' <= Given(g, m)
  BY <1>9, <1>11
<1>12. ASSUME NEW g \in Handlers, NEW m \in Numbers
       PROVE  Given(g, m)' <= 2 /\ (m > published' => Given(g, m)' = 0)
  <2>1. CASE m = n
    <3>1. published \in Nat /\ n \in Nat
      BY <1>1, <1>8 DEF HistoryOK, Numbers
    <3> QED
      BY <1>8, <1>10, <2>1, <3>1
  <2>2. CASE m # n
    <3>1. m > published => Given(g, m) = 0
      BY <1>1 DEF CallsOK
    <3> QED
      BY <1>9, <1>11, <2>2, <3>1
  <2> QED
    BY <2>1, <2>2
<1>13. ASSUME NEW u \in Publishers, NEW g \in Handlers, event[u].n # 0
       PROVE  IF u \in sending THEN Given(g, event[u].n)' = 0
                               ELSE TwoAtMost(g, event[u].n, todo[u])'
  <2>1. CASE u = t
    <3>1. TwoAtMost(g, n, Tail(s))'
      BY <1>10
    <3>2. TwoAtMost(g, event[t].n, todo[t])'
      BY <1>5, <1>7, <3>1
    <3> QED
      BY <1>3, <2>1, <3>2
  <2>2. CASE u # t
    <3>1. PICK m : m = event[u].n
      OBVIOUS
    <3>2. m \in Numbers /\ m # n
      BY <1>1, <1>3, <1>7, <1>13, <2>2, <3>1, EventIsPublished DEF PublishersOK
    <3>3. Given(g, m)' <= Given(g, m) /\ Given(g, m) \in Nat /\ Given(g, m)' \in Nat /\ Given(g, m) <= 2
      BY <1>9, <1>11, <3>2
    <3>4. CASE u \in sending
      <4>1. Given(g, m) = 0
        BY <1>1, <1>13, <3>1, <3>4 DEF CallsOK
      <4>2. Given(g, m)' = 0
        BY <3>3, <4>1
      <4> QED
        BY <3>1, <3>4, <4>2
    <3>5. CASE u \notin sending
      <4>1. PICK q : q = todo[u]
        OBVIOUS
      <4>2. q \in Seq(Handlers) /\ TwoAtMost(g, m, q)
        BY <1>1, <1>13, <3>1, <3>5, <4>1 DEF CallsOK, PublishersOK
      <4>3. TwoAtMost(g, m, q)'
        BY <3>3, <4>2, TwoAtMostStays
      <4>4. TwoAtMost(g, event[u].n, todo[u])'
        BY <1>5, <2>2, <3>1, <4>1, <4>3
      <4> QED
        BY <3>5, <4>4
    <3> QED
      BY <3>4, <3>5
  <2> QED
    BY <2>1, <2>2
<1>14. CallsOK'
  BY <1>12, <1>13 DEF CallsOK, Gives
<1>15. ASSUME NEW u \in Publishers, event[u].n # 0, NEW g \in expected[event[u].n]
       PROVE  IF u \in sending THEN g \in Subscribers(event[u].name)
              ELSE Wanted(u, g) => g \in ToSet(todo'[u]) \/ Served(g, event[u].n)'
  <2>1. CASE u \in sending
    BY <1>1, <1>15, <2>1 DEF ExpectedOK
  <2>2. CASE u \notin sending
    <3>1. event[u].n \in Numbers /\ g \in Handlers
      BY <1>1, <1>15, EventIsPublished DEF ExpectedOK
    <3>2. Served(g, event[u].n) => Served(g, event[u].n)'
      BY <3>1 DEF Gives
    <3>3. Wanted(u, g) => g \in ToSet(todo[u]) \/ Served(g, event[u].n)
      BY <1>1, <1>15, <2>2 DEF ExpectedOK
    <3>4. CASE u = t
      BY <1>2, <1>4, <1>5, <2>2, <3>2, <3>3, <3>4
    <3>5. CASE u # t
      BY <1>5, <2>2, <3>2, <3>3, <3>5
    <3> QED
      BY <3>4, <3>5
  <2> QED
    BY <2>1, <2>2
<1>16. ExpectedOK'
  BY <1>1, <1>15 DEF ExpectedOK, Subscribers, Wanted
<1> QED
  BY <1>6, <1>14, <1>16

\* A handler is called.
LEMMA CallGives ==
    ASSUME CallsOK, NEW h \in Handlers, NEW n \in Numbers, Called(h, n), UNCHANGED <<tasks, refused>>
    PROVE  Gives(h, n) /\ Served(h, n)'
<1>1. /\ delivered' = [delivered EXCEPT ![h] = [delivered[h] EXCEPT ![n] = @ + 1]]
      /\ delivered \in [Handlers -> [Numbers -> Nat]]
  BY DEF Called, CallsOK
<1>2. PICK f : f = [delivered[h] EXCEPT ![n] = @ + 1]
  OBVIOUS
<1>3. /\ f \in [Numbers -> Nat] /\ f[n] = delivered[h][n] + 1
      /\ \A m \in Numbers \ {n} : f[m] = delivered[h][m]
  BY <1>1, <1>2
<1>4. /\ delivered' \in [Handlers -> [Numbers -> Nat]] /\ delivered'[h] = f
      /\ \A g \in Handlers \ {h} : delivered'[g] = delivered[g]
  BY <1>1, <1>2, <1>3
<1>5. ASSUME NEW g \in Handlers, NEW m \in Numbers
      PROVE  delivered'[g][m] = delivered[g][m] + (IF g = h /\ m = n THEN 1 ELSE 0)
  <2>1. delivered[g][m] \in Nat
    BY <1>1
  <2> QED
    BY <1>3, <1>4, <2>1
<1>6. \A g \in Handlers, m \in Numbers : delivered[g][m] \in Nat /\ delivered'[g][m] \in Nat
  BY <1>1, <1>4
<1>7. Gives(h, n)
  <2>1. ASSUME NEW g \in Handlers, NEW m \in Numbers
        PROVE  /\ Given(g, m)' <= Given(g, m) + (IF g = h /\ m = n THEN 1 ELSE 0)
               /\ Given(g, m)' \in Nat
    BY <1>5, <1>6 DEF Given
  <2>2. ASSUME NEW g \in Handlers, NEW m \in Numbers, Served(g, m) PROVE Served(g, m)'
    BY <1>5, <1>6, <2>2 DEF Served
  <2> QED
    BY <1>4, <2>1, <2>2 DEF Gives
<1>8. Served(h, n)'
  BY <1>5, <1>6 DEF Served
<1> QED
  BY <1>7, <1>8

\* A task is handed to the pool, or refused.
LEMMA SubmitGives ==
    ASSUME CallsOK, NEW h \in Handlers, NEW n \in Numbers, delivered' = delivered,
           LET task == [handler |-> h, n |-> n] IN
              \/ tasks' = tasks \cup {task} /\ refused' = refused
              \/ refused' = refused \cup {task} /\ tasks' = tasks
    PROVE  Gives(h, n) /\ Served(h, n)'
<1>1. PICK task : task = [handler |-> h, n |-> n]
  OBVIOUS
<1>2. /\ task \in tasks' \cup refused' /\ tasks \subseteq tasks' /\ tasks' \subseteq tasks \cup {task}
      /\ refused \subseteq refused'
  BY <1>1
<1>3. \A g, m : [handler |-> g, n |-> m] = task => g = h /\ m = n
  BY <1>1
<1>4. \A g \in Handlers, m \in Numbers : delivered[g][m] \in Nat
  BY DEF CallsOK
<1>5. ASSUME NEW g \in Handlers, NEW m \in Numbers
      PROVE  /\ Given(g, m)' <= Given(g, m) + (IF g = h /\ m = n THEN 1 ELSE 0)
             /\ Given(g, m)' \in Nat
  <2>1. PICK x : x = [handler |-> g, n |-> m]
    OBVIOUS
  <2>2. /\ Given(g, m) = delivered[g][m] + (IF x \in tasks THEN 1 ELSE 0)
        /\ Given(g, m)' = delivered[g][m] + (IF x \in tasks' THEN 1 ELSE 0)
    BY <2>1 DEF Given
  <2>3. x \in tasks' => x \in tasks \/ (g = h /\ m = n)
    BY <1>2, <1>3, <2>1
  <2> QED
    BY <1>4, <2>2, <2>3
<1>6. ASSUME NEW g \in Handlers, NEW m \in Numbers, Served(g, m) PROVE Served(g, m)'
  BY <1>2, <1>6 DEF Served
<1>7. Served(h, n)'
  <2>1. task.handler = h /\ task.n = n
    BY <1>1
  <2> QED
    BY <1>2, <2>1 DEF Served
<1> QED
  BY <1>5, <1>6, <1>7 DEF Gives, CallsOK

\* Nothing of the publications changes, and no call is added.
LEMMA NoCallKeeps ==
    ASSUME TelemetryInv, UNCHANGED <<subs, sendVars, expected, published>>,
           delivered' \in [Handlers -> [Numbers -> Nat]],
           \A g \in Handlers, m \in Numbers :
              Given(g, m)' <= Given(g, m) /\ Given(g, m)' \in Nat /\ (Served(g, m) => Served(g, m)')
    PROVE  PublishersOK' /\ CallsOK' /\ ExpectedOK'
<1>1. PublishersOK /\ HistoryOK /\ CallsOK /\ ExpectedOK
  BY DEF TelemetryInv
<1>2. PublishersOK'
  BY <1>1 DEF PublishersOK, sendVars, Busy
<1>3. ASSUME NEW g \in Handlers, NEW m \in Numbers
      PROVE  Given(g, m)' <= 2 /\ (m > published' => Given(g, m)' = 0)
  <2>1. /\ Given(g, m)' <= Given(g, m) /\ Given(g, m)' \in Nat
        /\ Given(g, m) \in Nat /\ Given(g, m) <= 2 /\ (m > published => Given(g, m) = 0)
    BY <1>1, GivenIsNumber DEF CallsOK
  <2> QED
    BY <2>1
<1>4. ASSUME NEW u \in Publishers, NEW g \in Handlers, event[u].n # 0
      PROVE  IF u \in sending THEN Given(g, event[u].n)' = 0
                              ELSE TwoAtMost(g, event[u].n, todo[u])'
  <2>1. PICK m : m = event[u].n
    OBVIOUS
  <2>2. m \in Numbers
    BY <1>1, <1>4, <2>1, EventIsPublished
  <2>3. Given(g, m)' <= Given(g, m) /\ Given(g, m) \in Nat /\ Given(g, m)' \in Nat /\ Given(g, m) <= 2
    BY <1>1, <2>2, GivenIsNumber
  <2>4. CASE u \in sending
    <3>1. Given(g, m) = 0
      BY <1>1, <1>4, <2>1, <2>4 DEF CallsOK
    <3>2. Given(g, m)' = 0
      BY <2>3, <3>1
    <3> QED
      BY <2>1, <2>4, <3>2 DEF sendVars
  <2>5. CASE u \notin sending
    <3>1. PICK q : q = todo[u]
      OBVIOUS
    <3>2. q \in Seq(Handlers) /\ TwoAtMost(g, m, q)
      BY <1>1, <1>4, <2>1, <2>5, <3>1 DEF CallsOK, PublishersOK
    <3>3. TwoAtMost(g, m, q)'
      BY <2>3, <3>2, TwoAtMostStays
    <3>4. event'[u].n = m /\ todo'[u] = q
      BY <2>1, <3>1 DEF sendVars
    <3>5. TwoAtMost(g, event[u].n, todo[u])'
      BY <3>3, <3>4, <2>1
    <3>6. sending' = sending
      BY DEF sendVars
    <3> QED
      BY <2>5, <3>5, <3>6
  <2> QED
    BY <2>4, <2>5
<1>5. CallsOK'
  BY <1>3, <1>4 DEF CallsOK, sendVars
<1>6. ASSUME NEW u \in Publishers, event[u].n # 0, NEW g \in expected[event[u].n]
      PROVE  IF u \in sending THEN g \in Subscribers(event[u].name)
             ELSE Wanted(u, g) => g \in ToSet(todo[u]) \/ Served(g, event[u].n)'
  <2>1. event[u].n \in Numbers /\ g \in Handlers
    BY <1>1, <1>6, EventIsPublished DEF ExpectedOK
  <2>2. IF u \in sending THEN g \in Subscribers(event[u].name)
        ELSE Wanted(u, g) => g \in ToSet(todo[u]) \/ Served(g, event[u].n)
    BY <1>1, <1>6 DEF ExpectedOK
  <2>3. Served(g, event[u].n) => Served(g, event[u].n)'
    <3>1. PICK m : m = event[u].n
      OBVIOUS
    <3>2. Served(g, m) => Served(g, m)'
      BY <2>1, <3>1
    <3>3. event'[u].n = m
      BY <3>1 DEF sendVars
    <3> QED
      BY <3>1, <3>2, <3>3
  <2> QED
    BY <2>2, <2>3
<1>7. ExpectedOK'
  BY <1>1, <1>6 DEF ExpectedOK, Subscribers, Wanted, sendVars
<1> QED
  BY <1>2, <1>5, <1>7

\* A new event: nobody has been called for it, and everyone on the lists is
\* expected.
LEMMA PublishKeeps ==
    ASSUME TelemetryInv, NEW t \in Publishers, NEW name \in Names, Publish(t, name),
           UNCHANGED initialized
    PROVE  PublishersOK' /\ CallsOK' /\ ExpectedOK' /\ HistoryOK'
<1>1. /\ PublishersOK /\ HistoryOK /\ CallsOK /\ ExpectedOK /\ published \in Nat
      /\ ~Busy(t) /\ published < MaxPublishes
  BY DEF TelemetryInv, HistoryOK, Publish
<1>2. PICK n : n = published + 1
  OBVIOUS
<1>3. PICK e : e = [n |-> n, name |-> name]
  OBVIOUS
<1>4. /\ n \in Numbers /\ n \in Nat \ {0} /\ e \in Events /\ e.n = n /\ e.name = name
      /\ e \in [n : Nat, name : Keys]
  BY <1>1, <1>2, <1>3, BusAssumption DEF Events, Numbers, Keys
<1>5. /\ published' = n /\ history' = Recorded(e) /\ event' = [event EXCEPT ![t] = e]
      /\ sending' = sending \cup {t} /\ expected' = [expected EXCEPT ![n] = Subscribers(name)]
      /\ UNCHANGED <<subs, listeners, pool, down, tasks, todo, delivered, refused, ops>>
  BY <1>2, <1>3 DEF Publish, subVars, poolVars, recordVars
<1>6. HistoryOK'
  BY <1>1, <1>2, <1>4, <1>5, PublishKeepsHistory
<1>7. /\ event' \in [Publishers -> [n : Nat, name : Keys]] /\ event'[t] = e
      /\ \A u \in Publishers \ {t} : event'[u] = event[u] /\ event[u].n <= published
      /\ \A u \in Publishers \ {t} : event[u].n # n /\ event[u].n \in Nat
  <2>1. /\ event' \in [Publishers -> [n : Nat, name : Keys]] /\ event'[t] = e
        /\ \A u \in Publishers \ {t} : event'[u] = event[u]
    BY <1>1, <1>4, <1>5 DEF PublishersOK
  <2>2. \A u \in Publishers \ {t} : event[u].n <= published /\ event[u].n \in Nat
    BY <1>1 DEF PublishersOK
  <2> QED
    BY <1>1, <1>2, <2>1, <2>2
<1>8. PublishersOK'
  <2>1. ASSUME NEW u \in Publishers
        PROVE  /\ event'[u].n <= published' /\ (event'[u].n = 0 => ~Busy(u)')
               /\ (event'[u].n # 0 => event'[u].name \in Names)
               /\ (u \in sending' => todo'[u] = <<>>)
    <3>1. CASE u = t
      BY <1>1, <1>4, <1>5, <1>7, <3>1 DEF Busy
    <3>2. CASE u # t
      <4>1. event[u].n <= n
        BY <1>1, <1>2, <1>7, <3>2
      <4> QED
        BY <1>1, <1>5, <1>7, <3>2, <4>1 DEF PublishersOK, Busy
    <3> QED
      BY <3>1, <3>2
  <2>2. \A u, v \in Publishers : event'[u].n = event'[v].n /\ event'[u].n # 0 => u = v
    BY <1>1, <1>4, <1>7 DEF PublishersOK
  <2> QED
    BY <1>1, <1>5, <1>7, <2>1, <2>2 DEF PublishersOK
<1>9. \A h : \A m : Given(h, m)' = Given(h, m)
  BY <1>5 DEF Given
<1>10. CallsOK'
  <2>1. ASSUME NEW h \in Handlers, NEW m \in Numbers
        PROVE  Given(h, m) <= 2 /\ (m > published' => Given(h, m) = 0)
    BY <1>1, <1>2, <1>5 DEF CallsOK, Numbers
  <2>2. ASSUME NEW u \in Publishers, NEW h \in Handlers, event'[u].n # 0
        PROVE  IF u \in sending' THEN Given(h, event[u].n)' = 0
                                 ELSE TwoAtMost(h, event[u].n, todo[u])'
    <3>1. CASE u = t
      <4>1. Given(h, n) = 0
        BY <1>1, <1>2, <1>4 DEF CallsOK
      <4> QED
        BY <1>4, <1>5, <1>7, <1>9, <3>1, <4>1
    <3>2. CASE u # t
      <4>1. IF u \in sending THEN Given(h, event[u].n) = 0
                             ELSE TwoAtMost(h, event[u].n, todo[u])
        BY <1>1, <1>7, <2>2, <3>2 DEF CallsOK
      <4>2. event'[u] = event[u] /\ todo'[u] = todo[u] /\ (u \in sending' <=> u \in sending)
        BY <1>5, <1>7, <3>2
      <4> QED
        BY <1>9, <4>1, <4>2 DEF TwoAtMost
    <3> QED
      BY <3>1, <3>2
  <2> QED
    BY <1>1, <1>5, <1>9, <2>1, <2>2 DEF CallsOK
<1>11. ExpectedOK'
  <2>1. Subscribers(name) \subseteq Handlers
    <3>1. subs[name] \in Seq(Handlers) /\ subs[Star] \in Seq(Handlers)
      BY DEF TelemetryInv, ListsOK, Keys
    <3> QED
      BY <3>1 DEF Subscribers, ToSet
  <2>2. /\ expected' \in [Numbers -> SUBSET Handlers] /\ expected'[n] = Subscribers(name)
        /\ \A m \in Numbers \ {n} : expected'[m] = expected[m]
    BY <1>1, <1>4, <1>5, <2>1 DEF ExpectedOK
  <2>3. ASSUME NEW u \in Publishers, event'[u].n # 0, NEW h \in expected'[event'[u].n]
        PROVE  IF u \in sending' THEN h \in Subscribers(event[u].name)'
               ELSE Wanted(u, h)' => h \in ToSet(todo'[u]) \/ Served(h, event[u].n)'
    <3>1. CASE u = t
      <4>1. u \in sending' /\ event'[u].name = name /\ h \in Subscribers(name)
        BY <1>4, <1>5, <1>7, <2>2, <2>3, <3>1
      <4> QED
        BY <1>5, <4>1 DEF Subscribers
    <3>2. CASE u # t
      <4>1. /\ event'[u] = event[u] /\ todo'[u] = todo[u] /\ (u \in sending' <=> u \in sending)
            /\ event[u].n # n /\ event[u].n # 0
        BY <1>5, <1>7, <2>3, <3>2
      <4>2. event[u].n \in Numbers
        BY <1>1, <4>1, EventIsPublished
      <4>3. h \in expected[event[u].n]
        BY <2>2, <2>3, <4>1, <4>2
      <4>4. IF u \in sending THEN h \in Subscribers(event[u].name)
            ELSE Wanted(u, h) => h \in ToSet(todo[u]) \/ Served(h, event[u].n)
        BY <1>1, <4>1, <4>3 DEF ExpectedOK
      <4>5. \A m : Served(h, m)' = Served(h, m) /\ Subscribers(m)' = Subscribers(m)
        BY <1>5 DEF Served, Subscribers
      <4>6. Wanted(u, h)' = Wanted(u, h)
        BY <4>1 DEF Wanted
      <4> QED
        BY <4>1, <4>4, <4>5, <4>6
    <3> QED
      BY <3>1, <3>2
  <2> QED
    BY <2>2, <2>3 DEF ExpectedOK
<1> QED
  BY <1>6, <1>8, <1>10, <1>11

\* The lists are copied: a handler is on each of them once, and who has stayed
\* subscribed is there.
LEMMA SnapshotKeeps ==
    ASSUME TelemetryInv, NEW t \in Publishers, Snapshot(t)
    PROVE  PublishersOK' /\ CallsOK' /\ ExpectedOK'
<1>1. /\ PublishersOK /\ HistoryOK /\ CallsOK /\ ExpectedOK /\ ListsOK /\ t \in sending
  BY DEF TelemetryInv, Snapshot
<1>2. PICK n : n = event[t].n
  OBVIOUS
<1>3. n # 0 /\ n \in Numbers /\ event[t].name \in Keys /\ Star \in Keys
  BY <1>1, <1>2, EventIsPublished DEF PublishersOK, Busy, Keys
<1>4. PICK a \in Seq(Handlers) : a = subs[event[t].name] /\ IsInjective(a)
  BY <1>1, <1>3 DEF ListsOK, IsList
<1>5. PICK b \in Seq(Handlers) : b = subs[Star] /\ IsInjective(b)
  BY <1>1, <1>3 DEF ListsOK, IsList
<1>6. PICK s : s = a \o b
  OBVIOUS
<1>7. /\ s \in Seq(Handlers) /\ Len(s) = Len(a) + Len(b)
      /\ \A i \in 1..(Len(a) + Len(b)) : s[i] = IF i <= Len(a) THEN a[i] ELSE b[i - Len(a)]
  BY <1>6, ConcatProperties
<1>8. ToSet(s) = ToSet(a) \cup ToSet(b)
  <2>1. \A i \in 1..Len(a) : i \in 1..Len(s) /\ s[i] = a[i]
    BY <1>7
  <2>2. \A i \in 1..Len(b) : i + Len(a) \in 1..Len(s) /\ s[i + Len(a)] = b[i]
    <3> TAKE i \in 1..Len(b)
    <3>1. Len(a) \in Nat /\ Len(b) \in Nat
      OBVIOUS
    <3>2. i + Len(a) \in 1..(Len(a) + Len(b)) /\ ~ (i + Len(a) <= Len(a)) /\ (i + Len(a)) - Len(a) = i
      BY <3>1
    <3> QED
      BY <1>7, <3>2
  <2>3. \A i \in 1..Len(s) : s[i] \in ToSet(a) \cup ToSet(b)
    <3> TAKE i \in 1..Len(s)
    <3>1. CASE i <= Len(a)
      BY <1>7, <3>1 DEF ToSet
    <3>2. CASE i > Len(a)
      <4>1. i - Len(a) \in 1..Len(b) /\ s[i] = b[i - Len(a)]
        BY <1>7, <3>2
      <4> QED
        BY <4>1 DEF ToSet
    <3> QED
      BY <1>7, <3>1, <3>2
  <2>4. /\ ToSet(s) = {s[i] : i \in 1..Len(s)} /\ ToSet(a) = {a[i] : i \in 1..Len(a)}
        /\ ToSet(b) = {b[i] : i \in 1..Len(b)}
    <3>1. DOMAIN s = 1..Len(s) /\ DOMAIN a = 1..Len(a) /\ DOMAIN b = 1..Len(b)
      BY <1>7
    <3> QED
      BY Zenon, <3>1 DEF ToSet
  <2> QED
    BY <2>1, <2>2, <2>3, <2>4
<1>9. \A h : \A i, j, l \in Places(s, h) : i = j \/ i = l \/ j = l
  <2> SUFFICES ASSUME NEW h, NEW i \in Places(s, h), NEW j \in Places(s, h), NEW l \in Places(s, h)
               PROVE  i = j \/ i = l \/ j = l
    OBVIOUS
  <2>1. /\ i \in 1..Len(s) /\ j \in 1..Len(s) /\ l \in 1..Len(s) /\ s[i] = h /\ s[j] = h /\ s[l] = h
        /\ Len(a) \in Nat /\ Len(b) \in Nat
    BY <1>7 DEF Places
  <2>2. \A x, y \in 1..Len(a) : a[x] = a[y] => x = y
    BY <1>4 DEF IsInjective
  <2>3. \A x, y \in 1..Len(b) : b[x] = b[y] => x = y
    BY <1>5 DEF IsInjective
  <2>4. ASSUME NEW x \in 1..Len(s), NEW y \in 1..Len(s), s[x] = h, s[y] = h,
               (x <= Len(a)) <=> (y <= Len(a))
        PROVE  x = y
    <3>1. CASE x <= Len(a)
      <4>1. x \in 1..Len(a) /\ y \in 1..Len(a) /\ s[x] = a[x] /\ s[y] = a[y]
        BY <1>7, <2>1, <2>4, <3>1
      <4> QED
        BY <2>2, <2>4, <4>1
    <3>2. CASE ~ (x <= Len(a))
      <4>1. /\ x - Len(a) \in 1..Len(b) /\ y - Len(a) \in 1..Len(b)
            /\ s[x] = b[x - Len(a)] /\ s[y] = b[y - Len(a)]
        BY <1>7, <2>1, <2>4, <3>2
      <4>2. x - Len(a) = y - Len(a)
        BY <2>3, <2>4, <4>1
      <4> QED
        BY <2>1, <4>2
    <3> QED
      BY <3>1, <3>2
  <2> QED
    BY <2>1, <2>4
<1>10. /\ todo' = [todo EXCEPT ![t] = s] /\ sending' = sending \ {t}
       /\ UNCHANGED <<event, subs, delivered, tasks, refused, expected, published>>
  BY <1>4, <1>5, <1>6 DEF Snapshot, subVars, poolVars, recordVars
<1>11. /\ todo' \in [Publishers -> Seq(Handlers)] /\ todo'[t] = s
       /\ \A u \in Publishers \ {t} : todo'[u] = todo[u] /\ (u \in sending' <=> u \in sending)
       /\ t \notin sending'
  BY <1>1, <1>7, <1>10 DEF PublishersOK
<1>12. PublishersOK'
  BY <1>1, <1>2, <1>3, <1>10, <1>11 DEF PublishersOK, Busy
<1>13. \A h : \A m : Given(h, m)' = Given(h, m) /\ Served(h, m)' = Served(h, m)
  BY <1>10 DEF Given, Served
<1>14. CallsOK'
  <2>1. ASSUME NEW u \in Publishers, NEW h \in Handlers, event[u].n # 0
        PROVE  IF u \in sending' THEN Given(h, event[u].n) = 0
                                 ELSE TwoAtMost(h, event[u].n, todo[u])'
    <3>1. CASE u = t
      <4>1. Given(h, n) = 0
        BY <1>1, <1>2, <1>3 DEF CallsOK
      <4>2. TwoAtMost(h, n, s)'
        BY <1>9, <1>13, <4>1 DEF TwoAtMost
      <4>3. TwoAtMost(h, event[u].n, todo[u])'
        BY <1>2, <1>10, <1>11, <3>1, <4>2
      <4> QED
        BY <1>11, <3>1, <4>3
    <3>2. CASE u # t
      <4>1. IF u \in sending THEN Given(h, event[u].n) = 0
                             ELSE TwoAtMost(h, event[u].n, todo[u])
        BY <1>1, <2>1 DEF CallsOK
      <4>2. TwoAtMost(h, event[u].n, todo[u])' = TwoAtMost(h, event[u].n, todo[u])
        BY <1>10, <1>11, <1>13, <3>2 DEF TwoAtMost
      <4> QED
        BY <1>11, <3>2, <4>1, <4>2
    <3> QED
      BY <3>1, <3>2
  <2> QED
    BY <1>1, <1>10, <1>13, <2>1 DEF CallsOK
<1>15. ExpectedOK'
  <2>1. ASSUME NEW u \in Publishers, event[u].n # 0, NEW h \in expected[event[u].n]
        PROVE  IF u \in sending' THEN h \in Subscribers(event[u].name)
               ELSE Wanted(u, h) => h \in ToSet(todo'[u]) \/ Served(h, event[u].n)
    <3>1. CASE u = t
      <4>1. h \in Subscribers(event[t].name)
        BY <1>1, <2>1, <3>1 DEF ExpectedOK
      <4> QED
        BY <1>4, <1>5, <1>8, <1>11, <3>1, <4>1 DEF Subscribers
    <3>2. CASE u # t
      BY <1>1, <1>11, <2>1, <3>2 DEF ExpectedOK
    <3> QED
      BY <3>1, <3>2
  <2>2. \A u \in Publishers : \A h : Wanted(u, h)' = Wanted(u, h)
    BY <1>10 DEF Wanted
  <2>3. \A k : Subscribers(k)' = Subscribers(k)
    BY <1>10 DEF Subscribers
  <2> QED
    BY <1>1, <1>10, <1>13, <2>1, <2>2, <2>3 DEF ExpectedOK
<1> QED
  BY <1>12, <1>14, <1>15

-----------------------------------------------------------------------------
(* The observer's handler *)

\* A publisher in whom the handler does not run goes on.
LEMMA ObserverStays ==
    ASSUME TelemetryInv, NEW t \in Publishers, hat[t] = "idle", UNCHANGED metricVars,
           \A u \in Publishers \ {t} : todo'[u] = todo[u] /\ event'[u] = event[u]
    PROVE  ObserverOK'
<1>1. ObserverOK /\ UNCHANGED <<counters, object, epoch, hat, errors, counted>>
  BY DEF TelemetryInv, metricVars
<1>2. \A u \in Publishers : hat[u] # "idle" =>
         /\ Serving(u, Observer)' = Serving(u, Observer) /\ Wanted(u, Observer)' = Wanted(u, Observer)
         /\ event'[u] = event[u]
  BY DEF Serving, Wanted
<1> QED
  BY <1>1, <1>2 DEF ObserverOK, CountersAreExact

\* Where the handler runs, there is an event, and no other handler is served.
LEMMA HandlerRuns ==
    ASSUME TelemetryInv, NEW t \in Publishers, hat[t] # "idle"
    PROVE  /\ Serving(t, Observer) /\ Wanted(t, Observer) /\ Busy(t) /\ t \notin sending
           /\ event[t].n # 0 /\ event[t].n \in Numbers /\ event[t].name \in Names
<1>1. Serving(t, Observer) /\ Wanted(t, Observer)
  BY DEF TelemetryInv, ObserverOK
<1>2. Busy(t) /\ t \notin sending /\ event[t].n # 0
  BY <1>1 DEF TelemetryInv, PublishersOK, Busy, Serving
<1> QED
  BY <1>1, <1>2, EventIsPublished DEF TelemetryInv

\* Where a subscription is served there is an event.
LEMMA ServedHasEvent ==
    ASSUME TelemetryInv, NEW t \in Publishers, NEW h, Serving(t, h)
    PROVE  event[t].n \in Numbers /\ event[t].name \in Names /\ h \in Handlers
<1>1. Busy(t) /\ event[t].n # 0
  BY DEF TelemetryInv, PublishersOK, Busy, Serving
<1>2. h \in Handlers
  <2>1. PICK s \in Seq(Handlers) : s = todo[t]
    BY DEF TelemetryInv, PublishersOK
  <2>2. s # <<>> /\ h = Head(s)
    BY <2>1 DEF Serving
  <2> QED
    BY <2>1, <2>2
<1> QED
  BY <1>1, <1>2, EventIsPublished DEF TelemetryInv

\* Nothing of the bus changes, nor whether the service is up.
LEMMA BusStays ==
    ASSUME TelemetryInv, UNCHANGED <<busVars, initialized>>
    PROVE  ListsOK' /\ HistoryOK' /\ PoolOK' /\ PublishersOK' /\ CallsOK' /\ ExpectedOK'
<1>1. /\ UNCHANGED <<subs, listeners, initialized, history, pool, down, tasks, sending, event, todo>>
      /\ UNCHANGED <<delivered, refused, expected, published, ops>>
  BY DEF busVars, subVars, poolVars, sendVars, recordVars
<1>2. ListsOK' /\ HistoryOK' /\ PoolOK'
  BY <1>1 DEF TelemetryInv, ListsOK, HistoryOK, HistoryIsRecent, PoolOK
<1>3. PublishersOK'
  BY <1>1 DEF TelemetryInv, PublishersOK, Busy
<1>4. CallsOK'
  BY <1>1 DEF TelemetryInv, CallsOK, TwoAtMost, Given
<1>5. ExpectedOK'
  BY <1>1 DEF TelemetryInv, ExpectedOK, Subscribers, Wanted, Served
<1> QED
  BY <1>2, <1>3, <1>4, <1>5

\* The counter is looked up, or created.
LEMMA GetCounterKeeps ==
    ASSUME TelemetryInv, NEW t \in Publishers, GetCounter(t)
    PROVE  TelemetryInv'
<1>1. ListsOK' /\ HistoryOK' /\ PoolOK' /\ PublishersOK' /\ CallsOK' /\ ExpectedOK'
  BY BusStays DEF GetCounter, serviceVars
<1>2. PICK n \in Names : n = event[t].name
  BY ServedHasEvent DEF GetCounter
<1>3. PICK c : c = IF counters[n] = None THEN 0 ELSE counters[n]
  OBVIOUS
<1>4. c \in Nat /\ c # None
  BY <1>3 DEF TelemetryInv, ObserverOK, None
<1>5. /\ counters' = [counters EXCEPT ![n] = c] /\ object' = [object EXCEPT ![t] = epoch]
      /\ hat' = [hat EXCEPT ![t] = "inc"] /\ UNCHANGED <<epoch, counted>>
      /\ UNCHANGED <<event, todo>> /\ Serving(t, Observer) /\ Wanted(t, Observer)
  BY <1>2, <1>3 DEF GetCounter, busVars, sendVars
<1>6. /\ counters' \in [Names -> Nat \cup {None}] /\ counters'[n] = c
      /\ \A m \in Names \ {n} : counters'[m] = counters[m]
  BY <1>4, <1>5 DEF TelemetryInv, ObserverOK
<1>7. /\ object' \in [Publishers -> Nat] /\ object'[t] = epoch /\ epoch \in Nat
      /\ \A u \in Publishers \ {t} : object'[u] = object[u]
  BY <1>5 DEF TelemetryInv, ObserverOK
<1>8. /\ hat' \in [Publishers -> {"idle", "inc", "record"}] /\ hat'[t] = "inc"
      /\ \A u \in Publishers \ {t} : hat'[u] = hat[u]
  BY <1>5 DEF TelemetryInv, ObserverOK
<1>9. ASSUME NEW u \in Publishers
      PROVE  /\ object'[u] <= epoch'
             /\ hat'[u] # "idle" => Serving(u, Observer) /\ Wanted(u, Observer)
             /\ hat'[u] = "inc" /\ object'[u] = epoch => counters'[event[u].name] # None
  <2>1. CASE u = t
    BY <1>2, <1>4, <1>5, <1>6, <1>7, <2>1
  <2>2. CASE u # t
    <3>1. hat[u] # "idle" => event[u].name \in Names
      BY HandlerRuns
    <3> QED
      BY <1>4, <1>5, <1>6, <1>7, <1>8, <2>2, <3>1 DEF TelemetryInv, ObserverOK
  <2> QED
    BY <2>1, <2>2
<1>10. CountersAreExact'
  <2>1. counted[n] = c
    BY <1>3 DEF TelemetryInv, ObserverOK, CountersAreExact
  <2> QED
    BY <1>4, <1>5, <1>6, <2>1 DEF TelemetryInv, ObserverOK, CountersAreExact
<1>11. ObserverOK'
  BY <1>5, <1>6, <1>7, <1>8, <1>9, <1>10 DEF TelemetryInv, ObserverOK, Serving, Wanted
<1> QED
  BY <1>1, <1>11 DEF TelemetryInv

\* The handler is done: the bus serves the next subscription.
LEMMA HandledKeepsBus ==
    ASSUME TelemetryInv, NEW t \in Publishers, hat[t] # "idle", Handled(t), initialized' = initialized
    PROVE  ListsOK' /\ HistoryOK' /\ PoolOK' /\ PublishersOK' /\ CallsOK' /\ ExpectedOK'
<1>1. /\ Serving(t, Observer) /\ event[t].n \in Numbers /\ Observer \in Handlers
  BY HandlerRuns, ObservabilityAssumption
<1>2. /\ Called(Observer, event[t].n) /\ Next1(t)
      /\ UNCHANGED <<subs, listeners, history, pool, down, tasks, sending, event, refused,
                     expected, published, ops>>
  BY DEF Handled, subVars, poolVars
<1>3. Gives(Observer, event[t].n) /\ Served(Observer, event[t].n)'
  <2>1. PICK n \in Numbers : n = event[t].n
    BY <1>1
  <2>2. Gives(Observer, n) /\ Served(Observer, n)'
    BY <1>1, <1>2, <2>1, CallGives DEF TelemetryInv
  <2>3. event'[t].n = n
    BY <1>2, <2>1
  <2> QED
    BY <2>1, <2>2, <2>3
<1>4. PublishersOK' /\ CallsOK' /\ ExpectedOK'
  BY <1>1, <1>2, <1>3, ServeKeeps
<1>5. ListsOK' /\ HistoryOK' /\ PoolOK'
  BY <1>2 DEF TelemetryInv, ListsOK, HistoryOK, HistoryIsRecent, PoolOK
<1> QED
  BY <1>4, <1>5

\* The handler goes on, or is done.
LEMMA HatMoves ==
    ASSUME TelemetryInv, NEW t \in Publishers, hat[t] # "idle",
           \/ Handled(t)
           \/ hat' = [hat EXCEPT ![t] = "record"] /\ UNCHANGED busVars
    PROVE  /\ hat' \in [Publishers -> {"idle", "inc", "record"}]
           /\ \A u \in Publishers :
                /\ hat'[u] # "idle" => Serving(u, Observer)' /\ Wanted(u, Observer)'
                /\ hat'[u] = "inc" => u # t /\ hat[u] = "inc"
           /\ event' = event
<1>1. ObserverOK /\ PublishersOK
  BY DEF TelemetryInv
<1>2. CASE Handled(t)
  <2>1. hat' = [hat EXCEPT ![t] = "idle"] /\ todo' = [todo EXCEPT ![t] = Tail(@)] /\ event' = event
    BY <1>2 DEF Handled, Next1
  <2>2. /\ hat' \in [Publishers -> {"idle", "inc", "record"}] /\ hat'[t] = "idle"
        /\ \A u \in Publishers \ {t} : hat'[u] = hat[u] /\ todo'[u] = todo[u]
    BY <1>1, <2>1 DEF ObserverOK, PublishersOK
  <2> QED
    BY <1>1, <2>1, <2>2 DEF ObserverOK, Serving, Wanted
<1>3. CASE hat' = [hat EXCEPT ![t] = "record"] /\ UNCHANGED busVars
  <2>1. UNCHANGED <<todo, event>>
    BY <1>3 DEF busVars, sendVars
  <2>2. /\ hat' \in [Publishers -> {"idle", "inc", "record"}] /\ hat'[t] = "record"
        /\ \A u \in Publishers \ {t} : hat'[u] = hat[u]
    BY <1>1, <1>3 DEF ObserverOK
  <2>3. Serving(t, Observer) /\ Wanted(t, Observer)
    BY HandlerRuns
  <2> QED
    BY <1>1, <2>1, <2>2, <2>3 DEF ObserverOK, Serving, Wanted
<1> QED
  BY <1>2, <1>3

\* The counter in hand is incremented; if it is in the registry, it exists.
LEMMA IncrementKeeps ==
    ASSUME TelemetryInv, NEW t \in Publishers, Increment(t)
    PROVE  TelemetryInv'
<1>1. hat[t] = "inc" /\ (Handled(t) \/ (hat' = [hat EXCEPT ![t] = "record"] /\ UNCHANGED busVars))
      /\ UNCHANGED <<initialized, object, epoch>>
  BY DEF Increment, serviceVars
<1>2. ListsOK' /\ HistoryOK' /\ PoolOK' /\ PublishersOK' /\ CallsOK' /\ ExpectedOK'
  BY <1>1, BusStays, HandledKeepsBus
<1>3. /\ hat' \in [Publishers -> {"idle", "inc", "record"}]
      /\ \A u \in Publishers :
           /\ hat'[u] # "idle" => Serving(u, Observer)' /\ Wanted(u, Observer)'
           /\ hat'[u] = "inc" => u # t /\ hat[u] = "inc"
      /\ event' = event
  BY <1>1, HatMoves
<1>4. PICK n \in Names : n = event[t].name
  BY <1>1, HandlerRuns
<1>5. /\ counters' \in [Names -> Nat \cup {None}] /\ counted' \in [Names -> Nat] /\ CountersAreExact'
      /\ \A m \in Names : counters[m] # None => counters'[m] # None
  <2>1. CASE object[t] = epoch
    <3>1. PICK c \in Nat : c = counters[n] /\ counted[n] = c
      BY <1>1, <1>4, <2>1 DEF TelemetryInv, ObserverOK, CountersAreExact
    <3>2. counters' = [counters EXCEPT ![n] = c + 1] /\ counted' = [counted EXCEPT ![n] = c + 1]
      BY <1>4, <2>1, <3>1 DEF Increment
    <3>3. /\ counters' \in [Names -> Nat \cup {None}] /\ counted' \in [Names -> Nat]
          /\ counters'[n] = c + 1 /\ counted'[n] = c + 1 /\ c + 1 # None
          /\ \A m \in Names \ {n} : counters'[m] = counters[m] /\ counted'[m] = counted[m]
      BY <3>2 DEF TelemetryInv, ObserverOK, None
    <3> QED
      BY <3>3 DEF TelemetryInv, ObserverOK, CountersAreExact
  <2>2. CASE object[t] # epoch
    <3>1. counters' = counters /\ counted' = counted
      BY <2>2 DEF Increment
    <3> QED
      BY <3>1 DEF TelemetryInv, ObserverOK, CountersAreExact
  <2> QED
    BY <2>1, <2>2
<1>6. ASSUME NEW u \in Publishers, hat'[u] = "inc", object[u] = epoch
      PROVE  counters'[event[u].name] # None
  <2>1. hat[u] = "inc" /\ event[u].name \in Names
    BY <1>3, <1>6, HandlerRuns
  <2> QED
    BY <1>5, <1>6, <2>1 DEF TelemetryInv, ObserverOK
<1>7. ObserverOK'
  BY <1>1, <1>3, <1>5, <1>6 DEF TelemetryInv, ObserverOK
<1> QED
  BY <1>2, <1>7 DEF TelemetryInv

\* An error is recorded.
LEMMA RecordErrorKeeps ==
    ASSUME TelemetryInv, NEW t \in Publishers, RecordError(t)
    PROVE  TelemetryInv'
<1>1. hat[t] = "record" /\ Handled(t) /\ UNCHANGED <<initialized, counters, object, epoch, counted>>
  BY DEF RecordError, serviceVars
<1>2. ListsOK' /\ HistoryOK' /\ PoolOK' /\ PublishersOK' /\ CallsOK' /\ ExpectedOK'
  BY <1>1, HandledKeepsBus
<1>3. /\ hat' \in [Publishers -> {"idle", "inc", "record"}]
      /\ \A u \in Publishers :
           /\ hat'[u] # "idle" => Serving(u, Observer)' /\ Wanted(u, Observer)'
           /\ hat'[u] = "inc" => u # t /\ hat[u] = "inc"
      /\ event' = event
  BY <1>1, HatMoves
<1>4. ObserverOK'
  BY <1>1, <1>3 DEF TelemetryInv, ObserverOK, CountersAreExact
<1> QED
  BY <1>2, <1>4 DEF TelemetryInv

-----------------------------------------------------------------------------
(* The theorems *)

\* The bus's own clients: subscriptions, the history, the pool, publications.
LEMMA ClientKeeps == ASSUME TelemetryInv, BusClient, UNCHANGED obsVars PROVE TelemetryInv'
<1>1. UNCHANGED <<initialized, metricVars>> /\ ListsOK /\ ObserverOK /\ PoolOK
  BY DEF obsVars, serviceVars, TelemetryInv
<1>2. ops' = ops + 1 => ops' \in Nat
  BY <1>1 DEF PoolOK
<1>3. ASSUME NEW k \in Keys, NEW h \in Handlers \ {Observer}, Subscribe(k, h) PROVE TelemetryInv'
  <2>1. ListsOK' /\ \A key \in Keys : ToSet(subs[key]) \subseteq ToSet(subs'[key])
    BY <1>1, <1>3, AddKeepsLists DEF Subscribe
  <2>2. ExpectedOK'
    BY <1>3, <2>1, SubscriptionsChange DEF Subscribe, poolVars, sendVars, recordVars
  <2> QED
    BY <1>1, <1>2, <1>3, <2>1, <2>2, SubscribedKeeps DEF Subscribe, Op
<1>4. ASSUME NEW k \in Keys, NEW h \in Handlers \ {Observer}, Unsubscribe(k, h) PROVE TelemetryInv'
  <2>1. ListsOK'
    BY <1>1, <1>4, DropKeepsLists DEF Unsubscribe
  <2>2. ExpectedOK'
    BY <1>4, SubscriptionsChange DEF Unsubscribe, poolVars, sendVars, recordVars
  <2> QED
    BY <1>1, <1>2, <1>4, <2>1, <2>2, SubscribedKeeps DEF Unsubscribe, Op
<1>5. CASE Clear
  <2>1. ListsOK'
    BY <1>5, EmptyKeepsLists DEF Clear
  <2>2. ExpectedOK'
    BY <1>5, SubscriptionsChange DEF Clear, poolVars, sendVars, recordVars
  <2> QED
    BY <1>1, <1>2, <1>5, <2>1, <2>2, SubscribedKeeps DEF Clear, Op
<1>6. CASE ClearHistory
  <2>1. /\ history' = <<>> /\ ops' \in Nat
        /\ UNCHANGED <<subs, listeners, pool, down, tasks, sending, event, todo, delivered, refused,
                       expected, published>>
    BY <1>2, <1>6 DEF ClearHistory, Op, subVars, poolVars, sendVars, recordVars
  <2>2. HistoryOK'
    <3>1. <<>> \in Seq(Events) /\ Len(<<>>) = 0 /\ DOMAIN <<>> = {}
      OBVIOUS
    <3> QED
      BY <2>1, <3>1, BusAssumption DEF TelemetryInv, HistoryOK, HistoryIsRecent
  <2>3. PublishersOK' /\ CallsOK' /\ ExpectedOK'
    BY <2>1 DEF TelemetryInv, PublishersOK, Busy, CallsOK, TwoAtMost, Given, ExpectedOK, Subscribers,
                Wanted, Served
  <2>4. ListsOK' /\ PoolOK' /\ ObserverOK'
    BY <1>1, <2>1 DEF TelemetryInv, ListsOK, PoolOK, ObserverOK, CountersAreExact, metricVars, Serving,
                      Wanted
  <2> QED
    BY <2>2, <2>3, <2>4 DEF TelemetryInv
<1>7. CASE Reset \/ Shutdown
  <2>1. /\ pool' \in {"live", "none"} /\ down' \in BOOLEAN /\ ops' \in Nat
        /\ UNCHANGED <<subs, listeners, history, tasks, sending, event, todo, delivered, refused,
                       expected, published>>
    BY <1>2, <1>7 DEF Reset, Shutdown, Op, subVars, sendVars, recordVars
  <2>2. HistoryOK' /\ PublishersOK' /\ CallsOK' /\ ExpectedOK'
    BY <2>1 DEF TelemetryInv, HistoryOK, HistoryIsRecent, PublishersOK, Busy, CallsOK, TwoAtMost, Given,
                ExpectedOK, Subscribers, Wanted, Served
  <2>3. ListsOK' /\ PoolOK' /\ ObserverOK'
    BY <1>1, <2>1 DEF TelemetryInv, ListsOK, PoolOK, ObserverOK, CountersAreExact, metricVars, Serving,
                      Wanted
  <2> QED
    BY <2>2, <2>3 DEF TelemetryInv
<1>8. ASSUME NEW t \in Publishers, NEW n \in Names, Publish(t, n) PROVE TelemetryInv'
  <2>1. PublishersOK' /\ CallsOK' /\ ExpectedOK' /\ HistoryOK'
    BY <1>1, <1>8, PublishKeeps
  <2>2. hat[t] = "idle"
    BY <1>8, HandlerRuns DEF Publish
  <2>3. \A u \in Publishers \ {t} : todo'[u] = todo[u] /\ event'[u] = event[u]
    BY <1>8 DEF Publish, TelemetryInv, PublishersOK
  <2>4. ObserverOK'
    BY <1>1, <2>2, <2>3, ObserverStays
  <2>5. ListsOK' /\ PoolOK'
    BY <1>1, <1>8 DEF Publish, subVars, poolVars, recordVars, ListsOK, PoolOK
  <2> QED
    BY <2>1, <2>4, <2>5 DEF TelemetryInv
<1> QED
  BY <1>3, <1>4, <1>5, <1>6, <1>7, <1>8 DEF BusClient

\* A publisher copies the lists and serves one subscription after the other.
LEMMA PublisherKeeps ==
    ASSUME TelemetryInv, NEW t \in Publishers, PublisherStep(t), UNCHANGED obsVars
    PROVE  TelemetryInv'
<1>1. UNCHANGED <<initialized, metricVars>> /\ ListsOK /\ PoolOK /\ HistoryOK
  BY DEF obsVars, serviceVars, TelemetryInv
<1>2. CASE Snapshot(t)
  <2>1. PublishersOK' /\ CallsOK' /\ ExpectedOK'
    BY <1>2, SnapshotKeeps
  <2>2. hat[t] = "idle"
    BY <1>2, HandlerRuns DEF Snapshot
  <2>3. \A u \in Publishers \ {t} : todo'[u] = todo[u] /\ event'[u] = event[u]
    BY <1>2 DEF Snapshot, TelemetryInv, PublishersOK
  <2>4. ObserverOK'
    BY <1>1, <2>2, <2>3, ObserverStays
  <2>5. ListsOK' /\ PoolOK' /\ HistoryOK'
    BY <1>1, <1>2 DEF Snapshot, subVars, poolVars, recordVars, ListsOK, PoolOK, HistoryOK,
                      HistoryIsRecent
  <2> QED
    BY <2>1, <2>4, <2>5 DEF TelemetryInv
<1>3. ASSUME NEW h \in Handlers, Skip(t, h) \/ Deliver(t, h) \/ Submit(t, h) PROVE TelemetryInv'
  <2>1. /\ Serving(t, h) /\ Next1(t) /\ event[t].n \in Numbers
        /\ UNCHANGED <<subs, listeners, history, sending, event, expected, published, ops, down>>
    BY <1>3, ServedHasEvent DEF Skip, Deliver, Submit, subVars, poolVars
  <2>2. PICK n \in Numbers : n = event[t].n
    BY <2>1
  <2>3. hat[t] = "idle"
    <3>1. h = Observer => Skip(t, h)
      BY <1>3, BusAssumption DEF Deliver, Submit
    <3>2. Skip(t, h) => ~Wanted(t, h)
      BY DEF Skip
    <3> QED
      BY <2>1, <3>1, <3>2, HandlerRuns DEF Serving
  <2>4. CASE Skip(t, h)
    <3>1. UNCHANGED <<delivered, tasks, refused, pool>> /\ ~Wanted(t, h)
      BY <2>4 DEF Skip, poolVars, recordVars
    <3>2. Gives(h, n)
      <4>1. /\ delivered \in [Handlers -> [Numbers -> Nat]]
            /\ \A g \in Handlers, m \in Numbers : Given(g, m) \in Nat
        BY GivenIsNumber DEF TelemetryInv, CallsOK
      <4>2. \A g, m : Given(g, m)' = Given(g, m) /\ Served(g, m)' = Served(g, m)
        BY <3>1 DEF Given, Served
      <4> QED
        BY <3>1, <4>1, <4>2 DEF Gives
    <3>3. PublishersOK' /\ CallsOK' /\ ExpectedOK'
      BY <2>1, <2>2, <3>1, <3>2, ServeKeeps
    <3>4. PoolOK'
      BY <1>1, <2>1, <3>1 DEF PoolOK
    <3> QED
      BY <3>3, <3>4, <2>1, <2>3, <1>1, ObserverStays
      DEF TelemetryInv, ListsOK, HistoryOK, HistoryIsRecent, PublishersOK, Next1
  <2>5. CASE Deliver(t, h)
    <3>1. UNCHANGED <<tasks, refused, pool>> /\ Called(h, n)
      BY <2>2, <2>5 DEF Deliver, poolVars
    <3>2. Gives(h, n) /\ Served(h, n)'
      BY <2>2, <3>1, CallGives DEF TelemetryInv
    <3>3. PublishersOK' /\ CallsOK' /\ ExpectedOK'
      <4>1. event'[t].n = n
        BY <2>1, <2>2
      <4> QED
        BY <2>1, <2>2, <3>2, <4>1, ServeKeeps
    <3>4. PoolOK'
      BY <1>1, <2>1, <3>1 DEF PoolOK
    <3> QED
      BY <3>3, <3>4, <2>1, <2>3, <1>1, ObserverStays
      DEF TelemetryInv, ListsOK, HistoryOK, HistoryIsRecent, PublishersOK, Next1
  <2>6. CASE Submit(t, h)
    <3>1. PICK task : task = [handler |-> h, n |-> n]
      OBVIOUS
    <3>2. /\ delivered' = delivered /\ pool' \in {"live", "none"}
          /\ \/ tasks' = tasks \cup {task} /\ refused' = refused
             \/ refused' = refused \cup {task} /\ tasks' = tasks
      BY <1>1, <2>2, <2>6, <3>1 DEF Submit, PoolOK
    <3>3. Gives(h, n) /\ Served(h, n)'
      BY <2>2, <3>1, <3>2, SubmitGives DEF TelemetryInv
    <3>4. PublishersOK' /\ CallsOK' /\ ExpectedOK'
      <4>1. event'[t].n = n
        BY <2>1, <2>2
      <4> QED
        BY <2>1, <2>2, <3>3, <4>1, ServeKeeps
    <3>5. PoolOK'
      <4>1. task \in [handler : Async, n : Numbers]
        BY <2>2, <2>6, <3>1 DEF Submit
      <4> QED
        BY <1>1, <2>1, <3>2, <4>1 DEF PoolOK
    <3> QED
      BY <3>4, <3>5, <2>1, <2>3, <1>1, ObserverStays
      DEF TelemetryInv, ListsOK, HistoryOK, HistoryIsRecent, PublishersOK, Next1
  <2> QED
    BY <1>3, <2>4, <2>5, <2>6
<1> QED
  BY <1>2, <1>3 DEF PublisherStep

\* A task of the pool is run: a call that was given is made.
LEMMA RunTaskKeeps ==
    ASSUME TelemetryInv, NEW task \in tasks, RunTask(task), UNCHANGED obsVars
    PROVE  TelemetryInv'
<1>1. UNCHANGED <<initialized, metricVars>> /\ ListsOK /\ PoolOK /\ HistoryOK /\ CallsOK
  BY DEF obsVars, serviceVars, TelemetryInv
<1>2. PICK h \in Async, n \in Numbers : task = [handler |-> h, n |-> n]
  BY <1>1 DEF PoolOK
<1>3. h \in Handlers /\ task.handler = h /\ task.n = n
  BY <1>2, BusAssumption
<1>4. /\ tasks' = tasks \ {task} /\ Called(h, n)
      /\ UNCHANGED <<subs, listeners, history, pool, down, sendVars, refused, expected, published, ops>>
  BY <1>3 DEF RunTask, subVars
<1>5. /\ delivered' = [delivered EXCEPT ![h] = [delivered[h] EXCEPT ![n] = @ + 1]]
      /\ delivered \in [Handlers -> [Numbers -> Nat]]
  BY <1>1, <1>4 DEF Called, CallsOK
<1>6. PICK f : f = [delivered[h] EXCEPT ![n] = @ + 1]
  OBVIOUS
<1>7. /\ f \in [Numbers -> Nat] /\ f[n] = delivered[h][n] + 1
      /\ \A m \in Numbers \ {n} : f[m] = delivered[h][m]
  BY <1>3, <1>5, <1>6
<1>8. /\ delivered' \in [Handlers -> [Numbers -> Nat]] /\ delivered'[h] = f
      /\ \A g \in Handlers \ {h} : delivered'[g] = delivered[g]
  BY <1>3, <1>5, <1>6, <1>7
<1>9. ASSUME NEW g \in Handlers, NEW m \in Numbers
      PROVE  Given(g, m)' <= Given(g, m) /\ Given(g, m)' \in Nat /\ (Served(g, m) => Served(g, m)')
  <2>1. PICK x : x = [handler |-> g, n |-> m]
    OBVIOUS
  <2>2. /\ Given(g, m) = delivered[g][m] + (IF x \in tasks THEN 1 ELSE 0)
        /\ Given(g, m)' = delivered'[g][m] + (IF x \in tasks' THEN 1 ELSE 0)
    BY <2>1 DEF Given
  <2>3. delivered[g][m] \in Nat /\ delivered'[g][m] \in Nat
    BY <1>5, <1>8
  <2>4. CASE g = h /\ m = n
    <3>1. x = task /\ x \in tasks /\ x \notin tasks'
      BY <1>2, <1>4, <2>1, <2>4
    <3>2. delivered'[g][m] = delivered[g][m] + 1
      BY <1>7, <1>8, <2>4
    <3>3. Served(g, m)'
      BY <2>3, <3>2 DEF Served
    <3> QED
      BY <2>2, <2>3, <3>1, <3>2, <3>3
  <2>5. CASE ~ (g = h /\ m = n)
    <3>1. x # task /\ (x \in tasks' <=> x \in tasks)
      BY <1>2, <1>4, <2>1, <2>5
    <3>2. delivered'[g][m] = delivered[g][m]
      BY <1>7, <1>8, <2>5
    <3>3. ASSUME Served(g, m) PROVE Served(g, m)'
      <4>1. CASE delivered[g][m] > 0
        BY <3>2, <4>1 DEF Served
      <4>2. CASE \E y \in tasks \cup refused : y.handler = g /\ y.n = m
        <5>1. PICK y \in tasks \cup refused : y.handler = g /\ y.n = m
          BY <4>2
        <5>2. y \in tasks' \cup refused'
          BY <1>3, <1>4, <2>5, <5>1
        <5> QED
          BY <5>1, <5>2 DEF Served
      <4> QED
        BY <3>3, <4>1, <4>2 DEF Served
    <3> QED
      BY <2>2, <2>3, <3>1, <3>2, <3>3
  <2> QED
    BY <2>4, <2>5
<1>10. PublishersOK' /\ CallsOK' /\ ExpectedOK'
  BY <1>4, <1>8, <1>9, NoCallKeeps
<1>11. ObserverOK'
  BY <1>1, <1>4 DEF TelemetryInv, ObserverOK, CountersAreExact, metricVars, sendVars, Serving, Wanted
<1>12. ListsOK' /\ PoolOK' /\ HistoryOK'
  BY <1>1, <1>4 DEF ListsOK, PoolOK, HistoryOK, HistoryIsRecent
<1> QED
  BY <1>10, <1>11, <1>12 DEF TelemetryInv

\* The service comes up, goes down or is reloaded.
LEMMA ServiceKeeps ==
    ASSUME TelemetryInv, Initialize \/ ShutdownService \/ Reload
    PROVE  TelemetryInv'
<1>1. ListsOK /\ ObserverOK /\ PoolOK /\ Observer \in Handlers /\ Star \in Keys
  BY ObservabilityAssumption DEF TelemetryInv, Keys
<1>2. CASE Initialize
  <2>1. ListsOK' /\ \A key \in Keys : ToSet(subs[key]) \subseteq ToSet(subs'[key])
    BY <1>1, <1>2, AddKeepsLists DEF Initialize
  <2>2. ExpectedOK'
    BY <1>2, <2>1, SubscriptionsChange DEF Initialize, poolVars, sendVars, recordVars
  <2> QED
    BY <1>1, <1>2, <2>1, <2>2, SubscribedKeeps DEF Initialize, PoolOK
<1>3. CASE ShutdownService
  <2>1. ListsOK'
    BY <1>1, <1>3, DropKeepsLists DEF ShutdownService
  <2>2. ExpectedOK'
    BY <1>3, SubscriptionsChange DEF ShutdownService, poolVars, sendVars, recordVars
  <2> QED
    BY <1>1, <1>3, <2>1, <2>2, SubscribedKeeps DEF ShutdownService, PoolOK
<1>4. CASE Reload
  <2>1. /\ UNCHANGED <<initialized, object, hat, busVars>> /\ epoch' = epoch + 1
        /\ counters' = [n \in Names |-> None] /\ counted' = [n \in Names |-> 0]
    BY <1>4 DEF Reload
  <2>2. ListsOK' /\ HistoryOK' /\ PoolOK' /\ PublishersOK' /\ CallsOK' /\ ExpectedOK'
    BY <2>1, BusStays
  <2>3. UNCHANGED <<todo, event>>
    BY <2>1 DEF busVars, sendVars
  <2>4. \A t \in Publishers : object[t] <= epoch' /\ object[t] # epoch'
    <3>1. epoch \in Nat /\ \A t \in Publishers : object[t] \in Nat /\ object[t] <= epoch
      BY <1>1 DEF ObserverOK
    <3> QED
      BY <2>1, <3>1
  <2>5. /\ counters' \in [Names -> Nat \cup {None}] /\ counted' \in [Names -> Nat] /\ epoch' \in Nat
        /\ CountersAreExact'
    BY <1>1, <2>1 DEF ObserverOK, CountersAreExact, None
  <2>6. ObserverOK'
    BY <1>1, <2>1, <2>3, <2>4, <2>5 DEF ObserverOK, Serving, Wanted
  <2> QED
    BY <2>2, <2>6 DEF TelemetryInv
<1> QED
  BY <1>2, <1>3, <1>4

\* The initial states satisfy the invariant.
LEMMA TelemetryInitInv == TelemetryInit => TelemetryInv
<1> SUFFICES ASSUME TelemetryInit PROVE TelemetryInv
  OBVIOUS
<1> USE BusAssumption, ObservabilityAssumption
<1>0. BusInit
  BY DEF TelemetryInit
<1>1. ListsOK
  <2>1. subs = Subscribed /\ listeners = Subscribed
    BY <1>0 DEF BusInit
  <2>2. ASSUME NEW k \in Keys
        PROVE  subs[k] \in Seq(Handlers) /\ IsInjective(subs[k]) /\ Observer \notin ToSet(subs[k])
    <3>1. PICK s \in Seq(Handlers \ {Observer}) : s = subs[k] /\ IsInjective(s)
      BY <2>1 DEF Keys
    <3>2. s \in Seq(Handlers) /\ \A i \in DOMAIN s : s[i] # Observer
      BY <3>1
    <3> QED
      BY <3>1, <3>2 DEF ToSet
  <2>3. subs \in [Keys -> Seq(Handlers)]
    BY <2>1, <2>2 DEF Keys
  <2> QED
    BY <2>1, <2>2, <2>3 DEF ListsOK, IsList
<1>2. HistoryOK
  <2>1. <<>> \in Seq(Events) /\ Len(<<>>) = 0 /\ DOMAIN <<>> = {}
    OBVIOUS
  <2>2. history = <<>> /\ published = 0
    BY <1>0 DEF BusInit
  <2> QED
    BY <2>1, <2>2 DEF HistoryOK, HistoryIsRecent
<1>3. PoolOK
  BY <1>0 DEF BusInit, PoolOK
<1>4. PublishersOK
  <2>1. <<>> \in Seq(Handlers) /\ [n |-> 0, name |-> Star] \in [n : Nat, name : Keys]
    BY DEF Keys
  <2>2. /\ sending = {} /\ todo = [t \in Publishers |-> <<>>]
        /\ event = [t \in Publishers |-> [n |-> 0, name |-> Star]] /\ published = 0
    BY <1>0 DEF BusInit
  <2>3. \A t \in Publishers : event[t].n = 0 /\ ~Busy(t)
    BY <2>2 DEF Busy
  <2> QED
    BY <2>1, <2>2, <2>3 DEF PublishersOK
<1>5. /\ delivered = [h \in Handlers |-> [n \in Numbers |-> 0]] /\ tasks = {}
      /\ expected = [n \in Numbers |-> {}] /\ \A t \in Publishers : event[t].n = 0
  BY <1>0 DEF BusInit
<1>6. CallsOK
  <2>1. \A h \in Handlers, n \in Numbers : Given(h, n) = 0
    BY <1>5 DEF Given
  <2>2. delivered \in [Handlers -> [Numbers -> Nat]]
    BY <1>5
  <2> QED
    BY <1>5, <2>1, <2>2 DEF CallsOK
<1>7. ExpectedOK
  BY <1>5 DEF ExpectedOK
<1>8. ObserverOK
  <2>1. 0 \in Nat /\ None \in Nat \cup {None}
    OBVIOUS
  <2> QED
    BY <2>1 DEF TelemetryInit, ObserverOK, CountersAreExact
<1> QED
  BY <1>1, <1>2, <1>3, <1>4, <1>6, <1>7, <1>8 DEF TelemetryInv

\* Every step keeps the invariant.
LEMMA TelemetryNextInv == TelemetryInv /\ [TelemetryNext]_telemetryVars => TelemetryInv'
<1> SUFFICES ASSUME TelemetryInv, [TelemetryNext]_telemetryVars PROVE TelemetryInv'
  OBVIOUS
<1>1. CASE UNCHANGED telemetryVars
  <2>1. UNCHANGED <<busVars, initialized, metricVars>>
    BY <1>1 DEF telemetryVars, obsVars, serviceVars
  <2>2. UNCHANGED <<counters, object, epoch, hat, counted, event, todo>>
    BY <2>1 DEF metricVars, busVars, sendVars
  <2>3. ObserverOK'
    BY <2>2 DEF TelemetryInv, ObserverOK, CountersAreExact, Serving, Wanted
  <2> QED
    BY <2>1, <2>3, BusStays DEF TelemetryInv
<1>2. CASE PoolStep /\ UNCHANGED obsVars
  BY <1>2, RunTaskKeeps DEF PoolStep
<1> QED
  BY <1>1, <1>2, ClientKeeps, PublisherKeeps, ServiceKeeps, GetCounterKeeps, IncrementKeeps,
     RecordErrorKeeps DEF TelemetryNext, ObserverStep

\* TelemetryInv holds in every state.
LEMMA TelemetryAlwaysInv == TelemetrySpec => []TelemetryInv
  BY TelemetryInitInv, TelemetryNextInv, PTL DEF TelemetrySpec

\* The two dictionaries of subscriptions agree, the history is recent and
\* without gaps, and nobody is called more than twice, for any publishers,
\* handlers, events and bounds (event_bus.py:78-222).
THEOREM BusStaysConsistent == TelemetrySpec => []BusConsistent
<1>1. TelemetryInv => BusConsistent
  <2> SUFFICES ASSUME TelemetryInv PROVE BusConsistent
    OBVIOUS
  <2>1. \A t \in Publishers : Busy(t) => event[t] \in Events
    BY EventIsPublished DEF TelemetryInv, PublishersOK
  <2>2. BusTypeOK
    BY <2>1 DEF TelemetryInv, BusTypeOK, ListsOK, HistoryOK, PoolOK, PublishersOK
  <2>3. CalledOncePerList
    <3>1. ASSUME NEW h \in Handlers, NEW n \in Numbers PROVE delivered[h][n] <= 2
      <4>1. Given(h, n) <= 2 /\ delivered[h][n] \in Nat
        BY DEF TelemetryInv, CallsOK
      <4> QED
        BY <4>1 DEF Given
    <3> QED
      BY <3>1 DEF CalledOncePerList
  <2> QED
    BY <2>2, <2>3 DEF BusConsistent, TelemetryInv, HistoryOK
<1> QED
  BY <1>1, TelemetryAlwaysInv, PTL

\* Whoever stays subscribed while a publication begins has been served when it
\* is over, whatever other handlers raise and whoever comes and goes
\* (event_bus.py:185-222).
THEOREM NobodyIsEverSkipped == TelemetrySpec => []NobodyIsSkipped
<1>1. TelemetryInv => NobodyIsSkipped
  <2> SUFFICES ASSUME TelemetryInv, NEW t \in Publishers, ~Busy(t), event[t].n # 0,
                      NEW h \in expected[event[t].n], Wanted(t, h)
               PROVE  Served(h, event[t].n)
    BY DEF NobodyIsSkipped
  <2>1. t \notin sending /\ todo[t] = <<>>
    BY DEF Busy
  <2>2. h \notin ToSet(todo[t])
    BY <2>1 DEF ToSet
  <2> QED
    BY <2>1, <2>2 DEF TelemetryInv, ExpectedOK
<1> QED
  BY <1>1, TelemetryAlwaysInv, PTL

\* The registry's counters count every handled event since the last reload,
\* although publishers hold counters while the registry is cleared
\* (metrics.py:257-266, service.py:157-161).
THEOREM CountersStayExact == TelemetrySpec => []CountersAreExact
<1>1. TelemetryInv => CountersAreExact
  BY DEF TelemetryInv, ObserverOK
<1> QED
  BY <1>1, TelemetryAlwaysInv, PTL

\* The lists that a publication copies while the service is down do not hold
\* its handler (service.py:75-88).
THEOREM DownStaysSilent == TelemetrySpec => DownMeansSilent
<1> DEFINE Silent == \A t \in Publishers : t \in sending /\ t \notin sending' /\ ~initialized =>
                        Observer \notin ToSet(todo'[t])
<1>1. TelemetryInv /\ [TelemetryNext]_telemetryVars => [Silent]_telemetryVars
  <2> SUFFICES ASSUME TelemetryInv, TelemetryNext, NEW t \in Publishers, t \in sending,
                      t \notin sending', ~initialized
               PROVE  Observer \notin ToSet(todo'[t])
    OBVIOUS
  <2>1. Snapshot(t)
    BY DEF TelemetryNext, BusClient, Subscribe, Unsubscribe, Clear, ClearHistory, Reset, Shutdown,
           Publish, PublisherStep, Snapshot, Skip, Deliver, Submit, PoolStep, RunTask, ObserverStep,
           GetCounter, Increment, RecordError, Handled, Initialize, ShutdownService, Reload,
           busVars, sendVars
  <2>2. event[t].name \in Keys /\ Star \in Keys /\ todo \in [Publishers -> Seq(Handlers)]
    BY DEF TelemetryInv, PublishersOK, Keys
  <2>3. PICK a \in Seq(Handlers) : a = subs[event[t].name] /\ Observer \notin ToSet(a)
    BY <2>2 DEF TelemetryInv, ListsOK
  <2>4. PICK b \in Seq(Handlers) : b = subs[Star] /\ Observer \notin ToSet(b)
    BY <2>2 DEF TelemetryInv, ListsOK
  <2>5. PICK s : s = a \o b
    OBVIOUS
  <2>6. todo'[t] = s
    BY <2>1, <2>2, <2>3, <2>4, <2>5 DEF Snapshot
  <2>7. /\ s \in Seq(Handlers) /\ Len(s) = Len(a) + Len(b)
        /\ \A i \in 1..(Len(a) + Len(b)) : s[i] = IF i <= Len(a) THEN a[i] ELSE b[i - Len(a)]
    BY <2>5, ConcatProperties
  <2>8. \A i \in 1..Len(s) : s[i] # Observer
    <3> TAKE i \in 1..Len(s)
    <3>1. CASE i <= Len(a)
      <4>1. i \in 1..Len(a) /\ DOMAIN a = 1..Len(a)
        BY <3>1
      <4>2. s[i] = a[i]
        BY <2>7, <3>1
      <4> QED
        BY <2>3, <4>1, <4>2, Zenon DEF ToSet
    <3>2. CASE i > Len(a)
      <4>1. i - Len(a) \in 1..Len(b) /\ s[i] = b[i - Len(a)]
        BY <2>7, <3>2
      <4> QED
        BY <2>4, <4>1 DEF ToSet
    <3> QED
      BY <2>7, <3>1, <3>2
  <2>9. DOMAIN s = 1..Len(s)
    BY <2>7
  <2> QED
    BY <2>6, <2>8, <2>9 DEF ToSet
<1>2. TelemetrySpec => [][Silent]_telemetryVars
  BY <1>1, TelemetryAlwaysInv, PTL DEF TelemetrySpec
<1> QED
  BY <1>2 DEF DownMeansSilent
=============================================================================
