----------------------- MODULE ServiceLifecycleProofs -----------------------
(***************************************************************************)
(* Proofs about the life cycle of services: the startup order, the order   *)
(* in which services come up and go down, and the states that are shown.   *)
(***************************************************************************)
EXTENDS ServiceLifecycle, SequenceTheorems, FiniteSetTheorems, NaturalsInduction, TLAPS

-----------------------------------------------------------------------------
(* Numbers and lists *)

\* A set of naturals has a least element: induction over naturals, without a
\* predicate for a parameter.
LEMMA LeastNatural ==
    ASSUME NEW S, S \subseteq Nat, S # {}
    PROVE  \E m \in S : \A n \in S : m <= n
<1>1. \E m \in S : \A n \in S : ~ (<<n, m>> \in OpToRel(<, Nat))
  BY NatLessThanWellFounded, WFMin
<1>2. \A m, n \in S : n < m => <<n, m>> \in OpToRel(<, Nat)
  BY DEF OpToRel
<1>3. \E m \in S : \A n \in S : ~ (n < m)
  BY <1>1, <1>2, Zenon
<1> QED
  BY <1>3

\* A list of services on which nobody is twice.
IsList(s) == s \in Seq(Services) /\ IsInjective(s)

\* A service that is not on the list is put at its end.
LEMMA AppendToList ==
    ASSUME NEW q, IsList(q), NEW s \in Services, s \notin ToSet(q)
    PROVE  IsList(Append(q, s)) /\ ToSet(Append(q, s)) = ToSet(q) \cup {s}
<1>1. q \in Seq(Services) /\ Len(q) \in Nat /\ DOMAIN q = 1..Len(q)
  BY DEF IsList
<1>2. PICK t \in Seq(Services) : t = Append(q, s)
  BY <1>1, AppendProperties
<1>3. /\ Len(t) = Len(q) + 1 /\ DOMAIN t = 1..(Len(q) + 1)
      /\ \A i \in 1..Len(q) : t[i] = q[i]
      /\ t[Len(q) + 1] = s
  BY <1>1, <1>2
<1>4. \A i \in 1..Len(q) : q[i] # s
  BY <1>1 DEF ToSet
<1>5. IsInjective(t)
  BY <1>1, <1>3, <1>4 DEF IsInjective, IsList
<1>6. ToSet(t) = ToSet(q) \cup {s}
  BY <1>1, <1>3 DEF ToSet
<1> QED
  BY <1>2, <1>5, <1>6 DEF IsList

\* A service is taken from the list.
LEMMA RemoveFromList ==
    ASSUME NEW s, IsList(s), NEW h
    PROVE  IsList(RemoveFirst(s, h)) /\ ToSet(RemoveFirst(s, h)) = ToSet(s) \ {h}
<1>1. PICK n \in Nat : s \in Seq(Services) /\ Len(s) = n /\ DOMAIN s = 1..n
  BY DEF IsList
<1>2. CASE ~ \E i \in 1..n : s[i] = h
  <2>1. RemoveFirst(s, h) = s
    BY <1>1, <1>2 DEF RemoveFirst
  <2> QED
    BY <1>1, <1>2, <2>1 DEF ToSet
<1>3. CASE \E i \in 1..n : s[i] = h
  <2> DEFINE I == {i \in 1..n : s[i] = h}
             k == SelectInSeq(s, LAMBDA v : v = h)
  <2>1. k = Min(I)
    BY <1>1, <1>3 DEF SelectInSeq
  <2>2. PICK i \in I : I = {i}
    BY <1>1, <1>3 DEF IsList, IsInjective
  <2>3. i \in Nat /\ Min(I) = i
    BY <2>2 DEF Min
  <2>4. k = i /\ i \in 1..n /\ s[i] = h
    BY <2>1, <2>2, <2>3
  <2> HIDE DEF k, I
  <2>5. RemoveFirst(s, h) = SubSeq(s, 1, i - 1) \o SubSeq(s, i + 1, n)
    BY <1>1, <1>3, <2>4 DEF RemoveFirst, RemoveAt, k
  <2>6. PICK a : a = SubSeq(s, 1, i - 1)
    OBVIOUS
  <2>7. PICK b : b = SubSeq(s, i + 1, n)
    OBVIOUS
  <2>8. /\ a \in Seq(Services) /\ Len(a) = i - 1 /\ \A j \in 1..(i - 1) : a[j] = s[j]
        /\ b \in Seq(Services) /\ Len(b) = n - i /\ \A j \in 1..(n - i) : b[j] = s[i + j]
    <3>1. \A j \in 1..n : s[j] \in Services
      BY <1>1
    <3>2. /\ a \in Seq(Services) /\ Len(a) = IF 1 <= i - 1 THEN i - 1 - 1 + 1 ELSE 0
          /\ \A j \in 1..(i - 1 - 1 + 1) : a[j] = s[1 + j - 1]
      <4>1. i - 1 \in Int /\ 1 \in Int /\ \A j \in 1..(i - 1) : s[j] \in Services
        BY <2>4, <3>1
      <4> QED
        BY <1>1, <2>6, <4>1, SubSeqProperties
    <3>3. /\ b \in Seq(Services) /\ Len(b) = IF i + 1 <= n THEN n - (i + 1) + 1 ELSE 0
          /\ \A j \in 1..(n - (i + 1) + 1) : b[j] = s[i + 1 + j - 1]
      <4>1. i + 1 \in Int /\ n \in Int /\ \A j \in (i + 1)..n : s[j] \in Services
        BY <2>4, <3>1
      <4> QED
        BY <1>1, <2>7, <4>1, SubSeqProperties
    <3>4. \A j \in 1..n : 1 + j - 1 = j /\ i + 1 + j - 1 = i + j
      BY <2>4
    <3>5. i - 1 - 1 + 1 = i - 1 /\ n - (i + 1) + 1 = n - i
      BY <2>4
    <3> QED
      BY <2>4, <3>2, <3>3, <3>4, <3>5
  <2>9. PICK t : t = a \o b
    OBVIOUS
  <2>12. /\ t \in Seq(Services) /\ Len(t) = n - 1 /\ DOMAIN t = 1..(n - 1)
         /\ \A j \in 1..(i - 1) : t[j] = s[j]
         /\ \A j \in i..(n - 1) : t[j] = s[j + 1]
    <3>1. /\ t \in Seq(Services) /\ Len(t) = Len(a) + Len(b)
          /\ \A j \in 1..(Len(a) + Len(b)) : t[j] = IF j <= Len(a) THEN a[j] ELSE b[j - Len(a)]
      BY <2>8, <2>9, ConcatProperties
    <3>2. /\ Len(t) = n - 1 /\ DOMAIN t = 1..(n - 1)
          /\ \A j \in 1..(n - 1) : t[j] = IF j <= i - 1 THEN a[j] ELSE b[j - (i - 1)]
      BY <2>4, <2>8, <3>1
    <3>3. \A j \in i..(n - 1) : t[j] = s[j + 1]
      <4> TAKE j \in i..(n - 1)
      <4>1. j - (i - 1) \in 1..(n - i) /\ i + (j - (i - 1)) = j + 1 /\ j \in 1..(n - 1) /\ ~ (j <= i - 1)
        BY <2>4
      <4> QED
        BY <2>8, <3>2, <4>1
    <3>4. \A j \in 1..(i - 1) : t[j] = s[j]
      BY <2>4, <2>8, <3>2
    <3> QED
      BY <3>1, <3>2, <3>3, <3>4
  <2> DEFINE Was(j) == IF j <= i - 1 THEN j ELSE j + 1
  <2>13. ASSUME NEW j \in 1..(n - 1) PROVE Was(j) \in 1..n /\ Was(j) # i /\ t[j] = s[Was(j)]
    BY <2>4, <2>12
  <2>14. \A j, l \in 1..(n - 1) : Was(j) = Was(l) => j = l
    BY <2>4
  <2>15. ASSUME NEW l \in 1..n, l # i PROVE \E j \in 1..(n - 1) : l = Was(j)
    <3>1. CASE l < i
      BY <2>4, <3>1
    <3>2. CASE l > i
      <4>1. l - 1 \in 1..(n - 1) /\ l = Was(l - 1)
        BY <2>4, <3>2
      <4> QED
        BY <4>1
    <3> QED
      BY <2>4, <2>15, <3>1, <3>2
  <2> HIDE DEF Was
  <2>16. \A j, l \in 1..n : s[j] = s[l] => j = l
    BY <1>1 DEF IsList, IsInjective
  <2>10. IsInjective(t)
    BY <2>12, <2>13, <2>14, <2>16 DEF IsInjective
  <2>11. ToSet(t) = ToSet(s) \ {h}
    <3>1. ASSUME NEW j \in 1..(n - 1) PROVE t[j] \in ToSet(s) \ {h}
      BY <1>1, <2>4, <2>13, <2>16 DEF ToSet
    <3>2. ASSUME NEW l \in 1..n, s[l] # h PROVE s[l] \in ToSet(t)
      <4>1. PICK j \in 1..(n - 1) : l = Was(j)
        BY <2>4, <2>15, <3>2
      <4> QED
        BY <2>12, <2>13, <4>1 DEF ToSet
    <3> QED
      BY <1>1, <2>12, <3>1, <3>2 DEF ToSet
  <2> QED
    BY <2>5, <2>6, <2>7, <2>9, <2>10, <2>11, <2>12 DEF IsList
<1> QED
  BY <1>2, <1>3
-----------------------------------------------------------------------------
(* The startup order *)

\* What the tables must be for the order to be reckoned.
TablesOK == IsList(registered) /\ deps \in [Services -> SUBSET Services]

\* A list of registered services in which every service comes after all that
\* it depends on.
IsOrder(q) ==
    /\ IsList(q) /\ ToSet(q) \subseteq Registered
    /\ \A k \in 1..Len(q) : \A d \in deps[q[k]] : \E i \in 1..(k - 1) : q[i] = d

\* The first of some services in alphabetical order is one of them.
LEMMA FirstIsOne ==
    ASSUME NEW S \in SUBSET Services, S # {}
    PROVE  First(S) \in S
<1>1. PICK N : N = {Rank[s] : s \in S}
  OBVIOUS
<1>2. N \subseteq Nat /\ N # {}
  BY <1>1, RankAssumption
<1>3. PICK m \in N : \A n \in N : m <= n
  BY <1>2, LeastNatural
<1>4. \E s \in S : \A r \in S : Rank[s] <= Rank[r]
  BY <1>1, <1>3
<1> QED
  BY <1>4, Zenon DEF First

\* A round keeps the order; it adds a service unless nobody is ready.
LEMMA RoundOK ==
    ASSUME TablesOK, NEW q, IsOrder(q)
    PROVE  /\ IsOrder(Round(q))
           /\ Len(Round(q)) = Len(q) + 1 \/ (Ready(ToSet(q)) = {} /\ Round(q) = q)
<1>1. CASE Ready(ToSet(q)) = {}
  BY <1>1 DEF Round
<1>2. CASE Ready(ToSet(q)) # {}
  <2>1. Ready(ToSet(q)) \in SUBSET Services
    BY DEF Ready, Registered, TablesOK, IsList, ToSet
  <2>2. PICK s \in Ready(ToSet(q)) : s = First(Ready(ToSet(q)))
    BY <1>2, <2>1, FirstIsOne
  <2>3. s \in Registered /\ s \notin ToSet(q) /\ deps[s] \subseteq ToSet(q) /\ s \in Services
    BY <2>1, <2>2 DEF Ready
  <2>4. PICK t : t = Append(q, s)
    OBVIOUS
  <2>5. Round(q) = t
    BY <1>2, <2>2, <2>4 DEF Round
  <2>6. IsList(t) /\ ToSet(t) = ToSet(q) \cup {s}
    BY <2>3, <2>4, AppendToList DEF IsOrder
  <2>7. PICK n \in Nat : n = Len(q) /\ DOMAIN q = 1..n
    BY DEF IsOrder, IsList
  <2>8. Len(t) = n + 1 /\ t[n + 1] = s /\ \A i \in 1..n : t[i] = q[i]
    BY <2>4, <2>7, AppendProperties DEF IsOrder, IsList
  <2>9. \A k \in 1..(n + 1) : \A d \in deps[t[k]] : \E i \in 1..(k - 1) : t[i] = d
    <3> TAKE k \in 1..(n + 1)
    <3>1. CASE k \in 1..n
      <4>1. \A i \in 1..(k - 1) : i \in 1..n
        BY <3>1
      <4>2. \A d \in deps[q[k]] : \E i \in 1..(k - 1) : q[i] = d
        BY <2>7, <3>1 DEF IsOrder
      <4> QED
        BY <2>8, <3>1, <4>1, <4>2
    <3>2. CASE k = n + 1
      <4>1. k - 1 = n
        BY <3>2
      <4>2. \A d \in deps[s] : \E i \in 1..n : q[i] = d
        BY <2>3, <2>7 DEF ToSet
      <4> QED
        BY <2>8, <3>2, <4>1, <4>2
    <3> QED
      BY <3>1, <3>2
  <2> QED
    BY <2>3, <2>5, <2>6, <2>7, <2>8, <2>9 DEF IsOrder
<1> QED
  BY <1>1, <1>2

\* The recursive function in Sorted exists: there is one for every number of
\* rounds.
LEMMA RoundsExist ==
    ASSUME NEW n \in Nat
    PROVE  \E f : f = [i \in 0..n |-> IF i = 0 THEN <<>> ELSE Round(f[i - 1])]
<1> DEFINE Has(k) == \E f : f = [i \in 0..k |-> IF i = 0 THEN <<>> ELSE Round(f[i - 1])]
           N == {k \in Nat : ~ Has(k)}
<1>1. Has(0)
  <2>1. PICK f : f = [i \in 0..0 |-> <<>>]
    OBVIOUS
  <2>2. \A i \in 0..0 : i = 0
    OBVIOUS
  <2>3. f = [i \in 0..0 |-> IF i = 0 THEN <<>> ELSE Round(f[i - 1])]
    BY <2>1, <2>2, Zenon
  <2> QED
    BY <2>3, Zenon
<1>2. ASSUME NEW k \in Nat \ {0}, Has(k - 1)
      PROVE  Has(k)
  <2>1. PICK f : f = [i \in 0..(k - 1) |-> IF i = 0 THEN <<>> ELSE Round(f[i - 1])]
    BY <1>2, Zenon
  <2>2. PICK g : g = [i \in 0..k |-> IF i = k THEN Round(f[k - 1]) ELSE f[i]]
    OBVIOUS
  <2>3. ASSUME NEW i \in 0..k
        PROVE  g[i] = IF i = 0 THEN <<>> ELSE Round(g[i - 1])
    <3>1. CASE i = 0
      <4>1. i \in 0..(k - 1) /\ i # k
        BY <3>1
      <4>2. f[i] = <<>>
        BY <2>1, <3>1, <4>1, Zenon
      <4> QED
        BY <2>2, <3>1, <4>1, <4>2, Zenon
    <3>2. CASE i # 0 /\ i # k
      <4>1. i \in 0..(k - 1) /\ i - 1 \in 0..k /\ i - 1 # k
        BY <3>2
      <4>2. f[i] = Round(f[i - 1])
        BY <2>1, <3>2, <4>1, Zenon
      <4>3. g[i] = f[i] /\ g[i - 1] = f[i - 1]
        BY <2>2, <3>2, <4>1, Zenon
      <4> QED
        BY <3>2, <4>2, <4>3, Zenon
    <3>3. CASE i # 0 /\ i = k
      <4>1. k - 1 \in 0..k /\ k - 1 # k
        OBVIOUS
      <4>2. g[k - 1] = f[k - 1] /\ g[k] = Round(f[k - 1])
        BY <2>2, <3>3, <4>1, Zenon
      <4> QED
        BY <3>3, <4>2, Zenon
    <3> QED
      BY <3>1, <3>2, <3>3
  <2>4. g = [i \in 0..k |-> g[i]]
    BY <2>2, Zenon
  <2>5. g = [i \in 0..k |-> IF i = 0 THEN <<>> ELSE Round(g[i - 1])]
    BY <2>3, <2>4, Zenon
  <2> QED
    BY <2>5, Zenon
<1> HIDE DEF Has
<1>3. N = {}
  <2> SUFFICES ASSUME N # {}  PROVE FALSE
    OBVIOUS
  <2>1. PICK k \in N : \A i \in N : k <= i
    BY LeastNatural
  <2>2. k \in Nat \ {0}
    BY <1>1, <2>1
  <2>3. k - 1 \notin N /\ k - 1 \in Nat
    BY <2>1, <2>2
  <2> QED
    BY <1>2, <2>1, <2>2, <2>3
<1>4. Has(n)
  BY <1>3
<1> QED
  BY <1>4 DEF Has
\* The rounds of Sorted, one after the other.
LEMMA SortedRounds ==
    ASSUME TablesOK
    PROVE  \E f : /\ f[0] = <<>> /\ Sorted = f[Len(registered)]
                  /\ \A i \in 1..Len(registered) : f[i] = Round(f[i - 1])
<1>1. PICK n \in Nat : n = Len(registered)
  BY DEF TablesOK, IsList
<1>2. PICK f : f = CHOOSE g : g = [i \in 0..Len(registered) |->
                                     IF i = 0 THEN <<>> ELSE Round(g[i - 1])]
  OBVIOUS
<1>3. f = [i \in 0..Len(registered) |-> IF i = 0 THEN <<>> ELSE Round(f[i - 1])]
  <2>1. \E g : g = [i \in 0..Len(registered) |-> IF i = 0 THEN <<>> ELSE Round(g[i - 1])]
    BY <1>1, RoundsExist
  <2> QED
    BY <1>2, <2>1, Zenon
<1>4. Sorted = f[Len(registered)]
  BY <1>2, Zenon DEF Sorted
<1>5. f[0] = <<>>
  <2>1. 0 \in 0..Len(registered)
    BY <1>1
  <2> QED
    BY <1>3, <2>1, Zenon
<1>6. ASSUME NEW i \in 1..Len(registered)  PROVE f[i] = Round(f[i - 1])
  <2>1. i \in 0..Len(registered) /\ i # 0
    BY <1>1
  <2> QED
    BY <1>3, <2>1, Zenon
<1> QED
  BY <1>4, <1>5, <1>6

\* The empty list is an order.
LEMMA EmptyIsOrder == IsOrder(<<>>)
<1>1. <<>> \in Seq(Services) /\ DOMAIN <<>> = {} /\ Len(<<>>) = 0
  OBVIOUS
<1>2. ToSet(<<>>) = {}
  BY <1>1, Zenon DEF ToSet
<1> QED
  BY <1>1, <1>2 DEF IsOrder, IsList, IsInjective

\* Sorted is an order, and it stops growing only when nobody is ready.
LEMMA SortedIsOrder ==
    ASSUME TablesOK
    PROVE  /\ IsOrder(Sorted)
           /\ Len(Sorted) = Len(registered) \/ Ready(ToSet(Sorted)) = {}
<1>1. PICK n \in Nat : n = Len(registered)
  BY DEF TablesOK, IsList
<1>2. PICK f : /\ f[0] = <<>> /\ Sorted = f[n]
               /\ \A i \in 1..n : f[i] = Round(f[i - 1])
  BY <1>1, SortedRounds
<1> DEFINE Fine(i) == IsOrder(f[i]) /\ (Len(f[i]) = i \/ Ready(ToSet(f[i])) = {})
           N == {i \in 0..n : ~ Fine(i)}
<1>3. Fine(0)
  BY <1>2, EmptyIsOrder
<1>4. ASSUME NEW i \in 1..n, Fine(i - 1)
      PROVE  Fine(i)
  <2>1. PICK q : q = f[i - 1]
    OBVIOUS
  <2>2. IsOrder(q) /\ (Len(q) = i - 1 \/ Ready(ToSet(q)) = {}) /\ f[i] = Round(q)
    BY <1>2, <1>4, <2>1
  <2>3. PICK t : t = Round(q)
    OBVIOUS
  <2>4. IsOrder(t) /\ (Len(t) = Len(q) + 1 \/ (Ready(ToSet(q)) = {} /\ t = q))
    BY <2>2, <2>3, RoundOK
  <2>5. Ready(ToSet(q)) = {} => t = q
    BY <2>3 DEF Round
  <2> QED
    BY <2>2, <2>3, <2>4, <2>5
<1> HIDE DEF Fine
<1>5. N = {}
  <2> SUFFICES ASSUME N # {}  PROVE FALSE
    OBVIOUS
  <2>1. PICK i \in N : \A k \in N : i <= k
    <3>1. N \subseteq Nat
      OBVIOUS
    <3> HIDE DEF N
    <3> QED
      BY <3>1, LeastNatural
  <2>2. i \in 1..n
    BY <1>3, <2>1
  <2>3. i - 1 \notin N /\ i - 1 \in 0..n
    BY <2>1, <2>2
  <2> QED
    BY <1>4, <2>1, <2>2, <2>3
<1>6. Fine(n)
  BY <1>5
<1> QED
  BY <1>1, <1>2, <1>6 DEF Fine

\* As many different services as there are: all of them.
LEMMA FullOrder ==
    ASSUME TablesOK, NEW q, IsList(q), ToSet(q) \subseteq Registered
    PROVE  Len(q) = Len(registered) <=> ToSet(q) = Registered
<1>1. PICK n \in Nat : n = Len(registered) /\ DOMAIN registered = 1..n
  BY DEF TablesOK, IsList
<1>2. PICK m \in Nat : m = Len(q) /\ DOMAIN q = 1..m
  BY DEF IsList
<1>3. Cardinality(Registered) = n /\ IsFiniteSet(Registered)
  <2>1. Registered = {registered[i] : i \in 1..n}
    BY <1>1, Zenon DEF Registered, ToSet
  <2>2. registered \in [1..n -> Registered] /\ IsInjective(registered)
    BY <1>1, <2>1 DEF TablesOK, IsList
  <2>3. registered \in Injection(1..n, Registered) /\ registered \in Surjection(1..n, Registered)
    BY <2>1, <2>2 DEF Injection, Surjection
  <2>4. IsFiniteSet(1..n) /\ Cardinality(1..n) = n
    BY FS_Interval
  <2> QED
    BY <2>3, <2>4, FS_Surjection
<1>4. Cardinality(ToSet(q)) = m /\ IsFiniteSet(ToSet(q))
  <2>1. ToSet(q) = {q[i] : i \in 1..m}
    BY <1>2, Zenon DEF ToSet
  <2>2. q \in [1..m -> ToSet(q)] /\ IsInjective(q)
    BY <1>2, <2>1 DEF IsList
  <2>3. q \in Injection(1..m, ToSet(q)) /\ q \in Surjection(1..m, ToSet(q))
    BY <2>1, <2>2 DEF Injection, Surjection
  <2>4. IsFiniteSet(1..m) /\ Cardinality(1..m) = m
    BY FS_Interval
  <2> QED
    BY <2>3, <2>4, FS_Surjection
<1> QED
  BY <1>1, <1>2, <1>3, <1>4, FS_Subset

\* The order is topological, and there is one exactly when nobody blocks
\* himself.
LEMMA OrderRight == ASSUME TablesOK  PROVE OrderIsTopological
<1>1. PICK q : q = Sorted
  OBVIOUS
<1>2. IsOrder(q) /\ (Len(q) = Len(registered) \/ Ready(ToSet(q)) = {})
  BY <1>1, SortedIsOrder
<1>3. PICK n \in Nat : n = Len(q) /\ DOMAIN q = 1..n
  BY <1>2 DEF IsOrder, IsList
<1>4. HasOrder <=> (\A s \in Registered : deps[s] \subseteq Registered) /\ ToSet(q) = Registered
  BY <1>1, <1>2, FullOrder DEF HasOrder, IsOrder
<1>5. Registered \subseteq Services
  BY DEF TablesOK, IsList, Registered, ToSet
<1>6. ASSUME HasOrder, NEW S \in SUBSET Registered, Blocked(S)
      PROVE  FALSE
  <2>1. PICK I : I = {i \in 1..n : q[i] \in S}
    OBVIOUS
  <2>2. I # {}
    <3>1. PICK s \in S : s \in ToSet(q)
      BY <1>4, <1>6 DEF Blocked
    <3> QED
      BY <1>3, <2>1, <3>1 DEF ToSet
  <2>3. PICK k \in I : \A i \in I : k <= i
    BY <2>1, <2>2, LeastNatural
  <2>4. k \in 1..n /\ q[k] \in S
    BY <2>1
  <2>5. PICK d \in deps[q[k]] : d \in S \/ d \notin Registered
    BY <1>6, <2>4 DEF Blocked
  <2>6. d \in S
    BY <1>4, <1>6, <2>4, <2>5
  <2>7. PICK i \in 1..(k - 1) : q[i] = d
    BY <1>2, <1>3, <2>4 DEF IsOrder
  <2>8. i \in I /\ i < k
    BY <2>1, <2>4, <2>6, <2>7
  <2> QED
    BY <2>3, <2>4, <2>7, <2>8
<1>7. ASSUME \A S \in SUBSET Registered : ~Blocked(S)
      PROVE  HasOrder
  <2>1. \A s \in Registered : deps[s] \subseteq Registered
    <3> SUFFICES ASSUME NEW s \in Registered, NEW d \in deps[s], d \notin Registered  PROVE FALSE
      BY <1>5 DEF TablesOK
    <3>1. Blocked({s})
      BY DEF Blocked
    <3> QED
      BY <1>7, <3>1
  <2>2. ToSet(q) = Registered
    <3>1. CASE Len(q) = Len(registered)
      BY <1>2, <3>1, FullOrder DEF IsOrder
    <3>2. CASE Ready(ToSet(q)) = {}
      <4>1. PICK S : S = Registered \ ToSet(q)
        OBVIOUS
      <4>2. \A s \in S : ~(deps[s] \subseteq ToSet(q))
        BY <3>2, <4>1 DEF Ready
      <4>3. \A s \in S : \E d \in deps[s] : d \notin ToSet(q)
        BY <4>2
      <4>4. S # {} => Blocked(S)
        BY <4>1, <4>3 DEF Blocked
      <4> QED
        BY <1>2, <1>7, <4>1, <4>4 DEF IsOrder
    <3> QED
      BY <1>2, <3>1, <3>2
  <2> QED
    BY <1>4, <2>1, <2>2
<1>8. \A i, k \in DOMAIN q : q[i] \in deps[q[k]] => i < k
  <2> TAKE i, k \in DOMAIN q
  <2> HAVE q[i] \in deps[q[k]]
  <2>1. PICK j \in 1..(k - 1) : q[j] = q[i]
    BY <1>2, <1>3 DEF IsOrder
  <2>2. j \in DOMAIN q /\ j < k
    BY <1>3, <2>1
  <2>3. j = i
    BY <1>2, <2>1, <2>2 DEF IsOrder, IsList, IsInjective
  <2> QED
    BY <2>2, <2>3
<1> QED
  BY <1>1, <1>4, <1>6, <1>7, <1>8 DEF OrderIsTopological
-----------------------------------------------------------------------------
(* The inductive invariant *)

Ats    == {"published", "init", "shutdown", "hook", "check", "returning"}
Frames == [op : {"start", "stop", "unregister"}, at : Ats, todo : Seq(Services),
           sorted : BOOLEAN, crossed : BOOLEAN]

\* The calls under way.
Frs == ToSet(stack)

TypesOK ==
    /\ TablesOK
    /\ state \in [Services -> ServiceState \cup {"none"}]
    /\ \A s \in Registered : state[s] # "none"
    /\ initialized \in BOOLEAN
    /\ orch \in RuntimeState
    /\ executor \in {"live", "none"} /\ busDown \in BOOLEAN
    /\ late \subseteq Registered /\ stuck \subseteq Services /\ crossed \in BOOLEAN
    /\ calls \in Nat /\ registers \in Nat

\* A call in the middle of the loop of start(), of stop(), or of either.
Starting(f) == f.op = "start" /\ f.at \in {"init", "hook"}
Stopping(f) == f.op = "stop" /\ f.at \in {"shutdown", "hook"}
Looping(f)  == Starting(f) \/ Stopping(f)

\* The service whose entries a call of unregister_service will delete is needed
\* by nobody in the startup order.
Unneeded(f) == \A r \in Registered \ late : Head(f.todo) \notin deps[r]

\* Others run only within three kinds of call, and only unregister_service
\* within a loop that is not crossed.
StackOK ==
    /\ stack \in Seq(Frames)
    /\ \A i \in 1..(Len(stack) - 1) : stack[i].at \in {"published", "hook", "returning"}
    /\ \A i, j \in 1..Len(stack) : i < j /\ Looping(stack[i]) /\ ~stack[i].crossed =>
          stack[j].op = "unregister" /\ Unneeded(stack[j])

\* The loop of start(): what it has behind it is active, and what is before it
\* depends on what is behind it or comes first.
StartingOK(f) ==
    /\ ~initialized
    /\ \A s \in Registered \ late : s \in ToSet(f.todo) \/ state[s] = "active"
    /\ \A k \in 1..Len(f.todo) : f.todo[k] \in Registered \ late =>
          \A d \in deps[f.todo[k]] :
              /\ d \in Registered \ late
              /\ d \notin ToSet(f.todo) \/ \E i \in 1..(k - 1) : f.todo[i] = d

\* The loop of stop(): the active services that depend on what is before it
\* come first, or would not stop.
StoppingOK(f) ==
    \A k \in 1..Len(f.todo) : \A r \in Registered :
        f.todo[k] \in deps[r] /\ state[r] = "active" =>
            r \in stuck \/ \E i \in 1..(k - 1) : f.todo[i] = r

CallOK(f) ==
    /\ IsList(f.todo)
    /\ f.at = "hook" => f.todo # <<>>
    /\ Starting(f) /\ ~f.crossed => StartingOK(f)
    /\ Stopping(f) /\ ~f.crossed /\ f.sorted => StoppingOK(f)

\* A loop that may leave the services in another state than the manager says.
Unsettled(f) == Stopping(f) \/ (Starting(f) /\ f.crossed)

\* What the manager and the orchestrator show belongs to a call under way, or
\* is true.
TruthOK ==
    /\ initialized /\ ~crossed => Registered \ late \subseteq Active \/ \E f \in Frs : Unsettled(f)
    /\ orch = "running" =>
          initialized \/ \E f \in Frs : f.op = "stop" /\ f.at \in {"shutdown", "hook", "check"}
    /\ orch = "stopped" => Active = {} \/ \E f \in Frs : Starting(f)

LifecycleInv == TypesOK /\ StackOK /\ (\A f \in Frs : CallOK(f)) /\ TruthOK
-----------------------------------------------------------------------------
(* Loops over lists, and the stack of calls *)

\* The list without its first service.
LEMMA TailOfList ==
    ASSUME NEW q, IsList(q), q # <<>>
    PROVE  /\ Head(q) \in Services /\ Head(q) \in ToSet(q) /\ Head(q) = q[1]
           /\ IsList(Tail(q)) /\ ToSet(Tail(q)) = ToSet(q) \ {Head(q)}
           /\ Len(q) \in Nat \ {0} /\ Len(Tail(q)) = Len(q) - 1
           /\ \A k \in 1..(Len(q) - 1) : Tail(q)[k] = q[k + 1]
<1>1. PICK n \in Nat \ {0} : n = Len(q) /\ DOMAIN q = 1..n /\ q \in Seq(Services)
  BY DEF IsList
<1>2. PICK t : t = Tail(q)
  OBVIOUS
<1>3. PICK h : h = Head(q)
  OBVIOUS
<1>4. /\ t \in Seq(Services) /\ Len(t) = n - 1 /\ DOMAIN t = 1..(n - 1)
      /\ h = q[1] /\ h \in Services
      /\ \A k \in 1..(n - 1) : t[k] = q[k + 1]
  BY <1>1, <1>2, <1>3
<1>5. \A i, k \in 1..n : q[i] = q[k] => i = k
  BY <1>1 DEF IsList, IsInjective
<1>6. IsInjective(t)
  <2>1. \A k \in 1..(n - 1) : k + 1 \in 1..n
    OBVIOUS
  <2> QED
    BY <1>4, <1>5, <2>1 DEF IsInjective
<1>7. ToSet(t) = ToSet(q) \ {h}
  <2>1. ASSUME NEW k \in 1..(n - 1)  PROVE t[k] \in ToSet(q) \ {h}
    <3>1. k + 1 \in 1..n /\ 1 \in 1..n /\ k + 1 # 1
      OBVIOUS
    <3> QED
      BY <1>1, <1>4, <1>5, <3>1 DEF ToSet
  <2>2. ASSUME NEW i \in 1..n, q[i] # h  PROVE q[i] \in ToSet(t)
    <3>1. i - 1 \in 1..(n - 1) /\ (i - 1) + 1 = i
      BY <1>4, <2>2
    <3>2. t[i - 1] = q[i]
      BY <1>4, <3>1
    <3> QED
      BY <1>4, <3>1, <3>2 DEF ToSet
  <2> QED
    BY <1>1, <1>4, <2>1, <2>2 DEF ToSet
<1>8. h \in ToSet(q)
  BY <1>1, <1>4 DEF ToSet
<1> QED
  BY <1>1, <1>2, <1>3, <1>4, <1>6, <1>7, <1>8 DEF IsList

\* The list from its end.
LEMMA ReverseOfList ==
    ASSUME NEW q, IsList(q)
    PROVE  /\ IsList(Reverse(q)) /\ ToSet(Reverse(q)) = ToSet(q)
           /\ Len(q) \in Nat /\ Len(Reverse(q)) = Len(q)
           /\ \A k \in 1..Len(q) : Reverse(q)[k] = q[Len(q) - k + 1]
<1>1. PICK n \in Nat : n = Len(q) /\ DOMAIN q = 1..n /\ q \in Seq(Services)
  BY DEF IsList
<1>2. PICK t : t = Reverse(q)
  OBVIOUS
<1>3. t = [k \in 1..n |-> q[(n - k) + 1]]
  BY <1>1, <1>2 DEF Reverse
<1>4. DOMAIN t = 1..n /\ \A k \in 1..n : t[k] = q[(n - k) + 1] /\ (n - k) + 1 \in 1..n
  BY <1>3
<1>5. \A i \in 1..n : q[i] \in Services
  BY <1>1
<1>6. t \in Seq(Services) /\ Len(t) = n
  <2>1. t \in [1..n -> Services]
    BY <1>3, <1>4, <1>5
  <2>2. t \in Seq(Services)
    BY <2>1, SeqDef, Zenon
  <2> QED
    BY <1>4, <2>2
<1>7. IsInjective(t)
  <2>1. \A i, k \in 1..n : q[i] = q[k] => i = k
    BY <1>1 DEF IsList, IsInjective
  <2> QED
    BY <1>4, <2>1 DEF IsInjective
<1>8. ToSet(t) = ToSet(q)
  <2>1. \A i \in 1..n : (n - i) + 1 \in 1..n /\ t[(n - i) + 1] = q[i]
    BY <1>4
  <2>2. ToSet(q) \subseteq ToSet(t)
    BY <1>1, <1>4, <2>1 DEF ToSet
  <2>3. ToSet(t) \subseteq ToSet(q)
    BY <1>1, <1>4 DEF ToSet
  <2> QED
    BY <2>2, <2>3
<1> QED
  BY <1>1, <1>2, <1>4, <1>6, <1>7, <1>8 DEF IsList
\* The innermost call.
LEMMA TopIsLast ==
    ASSUME StackOK
    PROVE  /\ stack # <<>> => Top = stack[Len(stack)] /\ Top \in Frames /\ Top \in Frs
                              /\ Len(stack) \in Nat \ {0}
           /\ stack = <<>> => Top.at = "idle" /\ Top.op = "none"
<1>1. stack # <<>> => Top = stack[Len(stack)] /\ Top \in Frames /\ Len(stack) \in Nat \ {0}
                      /\ Len(stack) \in DOMAIN stack
  BY DEF StackOK, Top, Last
<1>2. stack # <<>> => Top \in Frs
  BY <1>1 DEF Frs, ToSet
<1>3. stack = <<>> => Top.at = "idle" /\ Top.op = "none"
  BY DEF Top, Call
<1> QED
  BY <1>1, <1>2, <1>3

\* Every call on the stack is a call.
LEMMA FrsAreFrames == ASSUME StackOK  PROVE Frs \subseteq Frames
BY DEF StackOK, Frs, ToSet

\* The calls of a list of calls.
LEMMA FrsOf ==
    ASSUME NEW q, q \in Seq(Frames)
    PROVE  ToSet(q) = {q[i] : i \in 1..Len(q)} /\ Len(q) \in Nat /\ \A i \in 1..Len(q) : q[i] \in Frames
<1>1. DOMAIN q = 1..Len(q) /\ Len(q) \in Nat /\ \A i \in 1..Len(q) : q[i] \in Frames
  OBVIOUS
<1> QED
  BY <1>1, Zenon DEF ToSet

\* The innermost call of start() or stop() goes on: no call below it is in a
\* loop that is not crossed.
LEMMA BecomesOK ==
    ASSUME StackOK, stack # <<>>, Top.op # "unregister", NEW g \in Frames, Becomes(g)
    PROVE  /\ StackOK' /\ stack' # <<>> /\ Top' = g
           /\ g \in Frs' /\ \A f \in Frs : f = Top \/ f \in Frs'
           /\ \A f \in Frs' : f = g \/ (f \in Frs /\ (Looping(f) => f.crossed))
<1>1. PICK n \in Nat \ {0} : n = Len(stack) /\ DOMAIN stack = 1..n /\ stack \in Seq(Frames) /\ Top = stack[n]
  BY TopIsLast DEF StackOK
<1>2. stack' = [stack EXCEPT ![n] = g]
  BY <1>1 DEF Becomes
<1>3. /\ stack' \in Seq(Frames) /\ Len(stack') = n /\ stack'[n] = g
      /\ \A i \in 1..(n - 1) : stack'[i] = stack[i]
  <2>1. stack \in [1..n -> Frames]
    BY <1>1
  <2>2. stack' \in [1..n -> Frames] /\ stack'[n] = g /\ \A i \in 1..(n - 1) : stack'[i] = stack[i]
    BY <1>1, <1>2, <2>1
  <2>3. stack' \in Seq(Frames)
    BY <2>2, SeqDef, Zenon
  <2> QED
    BY <2>2, <2>3
<1>4. \A i \in 1..(n - 1) : Looping(stack[i]) => stack[i].crossed
  <2> SUFFICES ASSUME NEW i \in 1..(n - 1), Looping(stack[i]), ~stack[i].crossed  PROVE FALSE
    OBVIOUS
  <2>1. i \in 1..n /\ n \in 1..n /\ i < n
    BY <1>1
  <2> QED
    BY <1>1, <2>1 DEF StackOK
<1>5. StackOK'
  <2>1. ASSUME NEW i \in 1..n, NEW j \in 1..n, i < j, Looping(stack'[i]), ~stack'[i].crossed
        PROVE  FALSE
    <3>1. i \in 1..(n - 1)
      BY <2>1
    <3> QED
      BY <1>3, <1>4, <2>1, <3>1
  <2> QED
    BY <1>1, <1>3, <2>1 DEF StackOK
<1>6. stack' # <<>> /\ Top' = g
  BY <1>1, <1>3 DEF Top, Last
<1>7. Frs = {stack[i] : i \in 1..n} /\ Frs' = {stack'[i] : i \in 1..n}
  BY <1>1, <1>3, FrsOf DEF Frs
<1>8. \A i \in 1..n : i = n \/ i \in 1..(n - 1)
  BY <1>1
<1>9. n \in 1..n /\ \A i \in 1..(n - 1) : i \in 1..n
  BY <1>1
<1>10. g \in Frs' /\ \A f \in Frs : f = Top \/ f \in Frs'
  BY <1>1, <1>3, <1>7, <1>8, <1>9
<1>11. \A f \in Frs' : f = g \/ (f \in Frs /\ (Looping(f) => f.crossed))
  <2> TAKE f \in Frs'
  <2>1. PICK i \in 1..n : f = stack'[i]
    BY <1>7
  <2>2. CASE i = n
    BY <1>3, <2>1, <2>2
  <2>3. CASE i \in 1..(n - 1)
    <3>1. f = stack[i] /\ f \in Frs
      BY <1>3, <1>7, <1>9, <2>1, <2>3
    <3> QED
      BY <1>4, <2>3, <3>1
  <2> QED
    BY <1>8, <2>2, <2>3
<1> QED
  BY <1>5, <1>6, <1>10, <1>11

\* A call that goes on is the call it was.
LEMMA GoesOK ==
    ASSUME StackOK, stack # <<>>, NEW at \in Ats, NEW q \in Seq(Services), Goes(at, q)
    PROVE  \E g \in Frames : /\ Becomes(g) /\ g.op = Top.op /\ g.at = at /\ g.todo = q
                             /\ g.sorted = Top.sorted /\ g.crossed = Top.crossed
<1>1. PICK t \in Frames : t = Top
  BY TopIsLast
<1>2. PICK g : g = [t EXCEPT !.at = at, !.todo = q]
  OBVIOUS
<1>3. /\ g \in Frames /\ g.op = t.op /\ g.at = at /\ g.todo = q
      /\ g.sorted = t.sorted /\ g.crossed = t.crossed
  BY <1>2 DEF Frames
<1>4. Becomes(g)
  BY <1>1, <1>2, Zenon DEF Goes
<1> QED
  BY <1>1, <1>3, <1>4

\* The other calls are as good as they were.
LEMMA OwnCallsOK ==
    ASSUME StackOK, \A f \in Frs : CallOK(f), stack # <<>>, Top.op # "unregister",
           NEW g \in Frames, Becomes(g), CallOK(g)'
    PROVE  (\A f \in Frs : CallOK(f))'
<1>1. \A f \in Frs' : f = g \/ (f \in Frs /\ (Looping(f) => f.crossed))
  BY BecomesOK
<1>2. ASSUME NEW f \in Frs, Looping(f) => f.crossed  PROVE CallOK(f)'
  BY <1>2 DEF CallOK, Looping
<1> QED
  BY <1>1, <1>2

\* A new call of start() or stop() crosses all others.
LEMMA EnterOK ==
    ASSUME StackOK, NEW op \in {"start", "stop"}, NEW s, Enter(op, s)
    PROVE  /\ StackOK'
           /\ \A f \in Frs' : \/ f.at = "published" /\ f.todo = <<>>
                              \/ f.crossed /\ \E h \in Frs : f.at = h.at /\ f.todo = h.todo
           /\ \A h \in Frs : \E f \in Frs' : f.op = h.op /\ f.at = h.at /\ f.crossed
<1>1. PICK n \in Nat : n = Len(stack) /\ DOMAIN stack = 1..n /\ stack \in Seq(Frames)
  BY DEF StackOK
<1>2. PICK u : u = Call(op, "published", <<>>)
  OBVIOUS
<1>3. u \in Frames /\ u.at = "published" /\ u.todo = <<>>
  BY <1>2 DEF Frames, Ats, Call
<1>4. PICK c : c = [i \in 1..n |-> [stack[i] EXCEPT !.crossed = TRUE]]
  OBVIOUS
<1>5. stack' = Append(c, u) /\ Top.at \in {"idle", "published", "hook", "returning"}
  BY <1>1, <1>2, <1>4 DEF Enter, MayCall, CallsOut
<1>6. /\ \A i \in 1..n : /\ c[i] \in Frames /\ c[i].crossed /\ c[i].op = stack[i].op
                         /\ c[i].at = stack[i].at /\ c[i].todo = stack[i].todo
      /\ DOMAIN c = 1..n
  <2>1. \A i \in 1..n : stack[i] \in Frames
    BY <1>1
  <2>2. \A f \in Frames : LET d == [f EXCEPT !.crossed = TRUE] IN
            d \in Frames /\ d.crossed /\ d.op = f.op /\ d.at = f.at /\ d.todo = f.todo
    BY DEF Frames
  <2>3. \A i \in 1..n : c[i] = [stack[i] EXCEPT !.crossed = TRUE]
    BY <1>4
  <2> QED
    BY <1>4, <2>1, <2>2, <2>3
<1>7. c \in Seq(Frames) /\ Len(c) = n
  <2>1. c \in [1..n -> Frames]
    BY <1>4, <1>6
  <2> QED
    BY <1>6, <2>1, SeqDef
<1>8. /\ stack' \in Seq(Frames) /\ Len(stack') = n + 1 /\ stack'[n + 1] = u
      /\ \A i \in 1..n : stack'[i] = c[i]
  BY <1>3, <1>5, <1>7, AppendProperties
<1>9. \A i \in 1..n : stack[i].at \in {"published", "hook", "returning"}
  <2> TAKE i \in 1..n
  <2>1. CASE i = n
    <3>1. stack # <<>> /\ Top = stack[i] /\ Top \in Frames
      BY <1>1, <2>1, TopIsLast
    <3> QED
      BY <1>5, <3>1 DEF Frames, Ats
  <2>2. CASE i # n
    BY <1>1, <2>2 DEF StackOK
  <2> QED
    BY <2>1, <2>2
<1>10. StackOK'
  <2>1. \A i \in 1..((n + 1) - 1) : stack'[i].at \in {"published", "hook", "returning"}
    BY <1>6, <1>8, <1>9
  <2>2. ASSUME NEW i \in 1..(n + 1), NEW j \in 1..(n + 1), i < j, Looping(stack'[i]), ~stack'[i].crossed
        PROVE  FALSE
    <3>1. i \in 1..n
      BY <2>2
    <3> QED
      BY <1>6, <1>8, <2>2, <3>1
  <2> QED
    BY <1>8, <2>1, <2>2 DEF StackOK
<1>11. Frs = {stack[i] : i \in 1..n} /\ Frs' = {stack'[i] : i \in 1..(n + 1)}
  BY <1>1, <1>8, FrsOf DEF Frs
<1>12. \A f \in Frs' : \/ f.at = "published" /\ f.todo = <<>>
                       \/ f.crossed /\ \E h \in Frs : f.at = h.at /\ f.todo = h.todo
  <2> TAKE f \in Frs'
  <2>1. PICK i \in 1..(n + 1) : f = stack'[i]
    BY <1>11
  <2>2. CASE i = n + 1
    BY <1>3, <1>8, <2>1, <2>2
  <2>3. CASE i \in 1..n
    <3>1. f = c[i] /\ stack[i] \in Frs
      BY <1>8, <1>11, <2>1, <2>3
    <3> QED
      BY <1>6, <2>3, <3>1
  <2> QED
    BY <2>2, <2>3
<1>13. \A h \in Frs : \E f \in Frs' : f.op = h.op /\ f.at = h.at /\ f.crossed
  <2> TAKE h \in Frs
  <2>1. PICK i \in 1..n : h = stack[i]
    BY <1>11
  <2>2. i \in 1..(n + 1) /\ stack'[i] = c[i]
    BY <1>8
  <2>3. stack'[i] \in Frs'
    BY <1>11, <2>2
  <2> QED
    BY <1>6, <2>1, <2>2, <2>3
<1> QED
  BY <1>10, <1>12, <1>13

\* The innermost call leaves the stack.
LEMMA PopOK ==
    ASSUME StackOK, stack # <<>>, stack' = Front(stack), \A f \in Frames : Unneeded(f) => Unneeded(f)'
    PROVE  /\ StackOK'
           /\ Frs' \subseteq Frs /\ \A f \in Frs : f = Top \/ f \in Frs'
           /\ \A f \in Frs' : Looping(f) /\ ~f.crossed => Unneeded(Top)
<1>1. PICK n \in Nat \ {0} : n = Len(stack) /\ stack \in Seq(Frames) /\ Top = stack[n]
  BY TopIsLast DEF StackOK
<1>2. PICK t : t = SubSeq(stack, 1, n - 1)
  OBVIOUS
<1>3. stack' = t
  BY <1>1, <1>2 DEF Front
<1>4. t \in Seq(Frames) /\ Len(t) = n - 1 /\ \A i \in 1..(n - 1) : t[i] = stack[i]
  BY <1>1, <1>2, SubSeqProperties
<1>5. \A i \in 1..n : stack[i] \in Frames
  BY <1>1
<1>6. \A i \in 1..(n - 1) : i \in 1..n /\ i < n
  BY <1>1
<1>7. StackOK'
  <2>1. \A i \in 1..((n - 1) - 1) : t[i].at \in {"published", "hook", "returning"}
    <3>1. \A i \in 1..((n - 1) - 1) : i \in 1..(n - 1)
      OBVIOUS
    <3> QED
      BY <1>1, <1>4, <3>1 DEF StackOK
  <2>2. ASSUME NEW i \in 1..(n - 1), NEW j \in 1..(n - 1), i < j, Looping(t[i]), ~t[i].crossed
        PROVE  t[j].op = "unregister" /\ Unneeded(t[j])'
    <3>1. t[j].op = "unregister" /\ Unneeded(stack[j]) /\ t[j] = stack[j] /\ stack[j] \in Frames
      BY <1>1, <1>4, <1>5, <1>6, <2>2 DEF StackOK
    <3>2. PICK f \in Frames : f = t[j]
      BY <3>1
    <3>3. Unneeded(f)'
      BY <3>1, <3>2
    <3> QED
      BY <3>1, <3>2, <3>3 DEF Unneeded
  <2> QED
    BY <1>3, <1>4, <2>1, <2>2 DEF StackOK
<1>8. Frs = {stack[i] : i \in 1..n} /\ Frs' = {t[i] : i \in 1..(n - 1)}
  BY <1>1, <1>3, <1>4, FrsOf DEF Frs
<1>9. Frs' \subseteq Frs
  BY <1>4, <1>6, <1>8
<1>10. \A f \in Frs : f = Top \/ f \in Frs'
  <2>1. \A i \in 1..n : i = n \/ i \in 1..(n - 1)
    BY <1>1
  <2> QED
    BY <1>1, <1>4, <1>8, <2>1
<1>11. \A f \in Frs' : Looping(f) /\ ~f.crossed => Unneeded(Top)
  <2> SUFFICES ASSUME NEW f \in Frs', Looping(f), ~f.crossed  PROVE Unneeded(Top)
    OBVIOUS
  <2>1. PICK i \in 1..(n - 1) : f = stack[i]
    BY <1>4, <1>8
  <2>2. i \in 1..n /\ n \in 1..n /\ i < n
    BY <1>1
  <2> QED
    BY <1>1, <2>1, <2>2 DEF StackOK
<1> QED
  BY <1>7, <1>9, <1>10, <1>11
-----------------------------------------------------------------------------
(* Registrations *)

\* The tables do not move.
LEMMA SameTables == ASSUME TypesOK, UNCHANGED <<registered, deps>>  PROVE TablesOK' /\ Registered' = Registered
BY DEF TypesOK, TablesOK, Registered

\* Neither the services nor the calls move.
LEMMA SameServices ==
    ASSUME TypesOK, UNCHANGED <<serviceVars, initialized, late, stuck>>
    PROVE  /\ TablesOK' /\ Registered' = Registered /\ Active' = Active
           /\ \A f \in Frames : (Unneeded(f) => Unneeded(f)') /\ (CallOK(f) => CallOK(f)')
<1>1. /\ registered' = registered /\ deps' = deps /\ state' = state
      /\ initialized' = initialized /\ late' = late /\ stuck' = stuck
  BY DEF serviceVars
<1>2. TablesOK' /\ Registered' = Registered
  BY <1>1, SameTables
<1>3. Active' = Active
  BY <1>1, <1>2 DEF Active
<1>4. ASSUME NEW f \in Frames  PROVE (Unneeded(f) => Unneeded(f)') /\ (CallOK(f) => CallOK(f)')
  BY <1>1, <1>2 DEF Unneeded, CallOK, StartingOK, StoppingOK
<1> QED
  BY <1>2, <1>3, <1>4

\* A new entry is none of those in the startup order.
LEMMA RegisterTables ==
    ASSUME TypesOK, NEW s \in Services, NEW D \in SUBSET Dependencies, RegisterService(s, D)
    PROVE  /\ TypesOK' /\ Active' = Active /\ Registered' \ late' = Registered \ late
           /\ \A f \in Frames : (Unneeded(f) => Unneeded(f)') /\ (CallOK(f) => CallOK(f)')
<1>1. /\ s \notin Registered /\ registered' = Append(registered, s)
      /\ deps' = [deps EXCEPT ![s] = D] /\ state' = [state EXCEPT ![s] = "uninitialized"]
      /\ registers' = registers + 1 /\ late' = late \cup {s} /\ stuck' = stuck \ {s}
      /\ UNCHANGED <<initialized, orch, stack, busVars, crossed, calls>>
  BY DEF RegisterService
<1>2. IsList(registered') /\ Registered' = Registered \cup {s}
  BY <1>1, AppendToList DEF TypesOK, TablesOK, Registered
<1>3. D \in SUBSET Services
  BY DependenciesAssumption
<1>4. deps' \in [Services -> SUBSET Services]
      /\ \A r \in Services : deps'[r] = IF r = s THEN D ELSE deps[r]
  BY <1>1, <1>3 DEF TypesOK, TablesOK
<1>5. state' \in [Services -> ServiceState \cup {"none"}]
      /\ \A r \in Services : state'[r] = IF r = s THEN "uninitialized" ELSE state[r]
  BY <1>1 DEF TypesOK, ServiceState
<1>6. Registered \subseteq Services
  BY DEF TypesOK, TablesOK, IsList, Registered, ToSet
<1>7. TypesOK'
  BY <1>1, <1>2, <1>4, <1>5, <1>6 DEF TypesOK, TablesOK, busVars
<1>8. Active' = Active
  BY <1>1, <1>2, <1>5, <1>6 DEF Active
<1>9. Registered' \ late' = Registered \ late
  BY <1>1, <1>2
<1>10. \A r \in Registered : r \in Services /\ r # s /\ deps'[r] = deps[r] /\ state'[r] = state[r]
  BY <1>1, <1>4, <1>5, <1>6
<1>11. ASSUME NEW f \in Frames  PROVE Unneeded(f) => Unneeded(f)'
  BY <1>9, <1>10 DEF Unneeded
<1>12. ASSUME NEW f \in Frames, StartingOK(f)  PROVE StartingOK(f)'
  BY <1>1, <1>9, <1>10, <1>12 DEF StartingOK
<1>13. ASSUME NEW f \in Frames, StoppingOK(f)  PROVE StoppingOK(f)'
  <2> SUFFICES ASSUME NEW k \in 1..Len(f.todo), NEW r \in Registered',
                      f.todo[k] \in deps'[r], state'[r] = "active"
               PROVE  r \in stuck' \/ \E i \in 1..(k - 1) : f.todo[i] = r
    BY DEF StoppingOK
  <2>1. r \in Registered
    BY <1>2, <1>5
  <2>2. r \in stuck \/ \E i \in 1..(k - 1) : f.todo[i] = r
    BY <1>10, <1>13, <2>1 DEF StoppingOK
  <2> QED
    BY <1>1, <1>10, <2>1, <2>2
<1>14. ASSUME NEW f \in Frames, CallOK(f)  PROVE CallOK(f)'
  BY <1>12, <1>13, <1>14 DEF CallOK
<1> QED
  BY <1>7, <1>8, <1>9, <1>11, <1>14

\* An entry goes that nobody in the startup order needs.
LEMMA DeleteTables ==
    ASSUME TypesOK, NEW s \in Services, s \in Registered, Delete(s)
    PROVE  /\ TypesOK' /\ Active' = Active \ {s} /\ Registered' \ late' = (Registered \ late) \ {s}
           /\ \A f \in Frames : Unneeded(f) => Unneeded(f)'
           /\ \A f \in Frames :
                 CallOK(f) /\ (Looping(f) /\ ~f.crossed => \A r \in Registered \ late : s \notin deps[r]) => CallOK(f)'
<1>1. /\ registered' = RemoveFirst(registered, s)
      /\ deps' = [deps EXCEPT ![s] = {}] /\ state' = [state EXCEPT ![s] = "none"]
      /\ late' = late \ {s} /\ stuck' = stuck \ {s}
      /\ UNCHANGED <<initialized, orch, busVars, crossed, boundVars>>
  BY DEF Delete
<1>2. IsList(registered') /\ Registered' = Registered \ {s}
  BY <1>1, RemoveFromList DEF TypesOK, TablesOK, Registered
<1>3. deps' \in [Services -> SUBSET Services]
      /\ \A r \in Services : r # s => deps'[r] = deps[r]
  BY <1>1 DEF TypesOK, TablesOK
<1>4. state' \in [Services -> ServiceState \cup {"none"}]
      /\ \A r \in Services : state'[r] = IF r = s THEN "none" ELSE state[r]
  BY <1>1 DEF TypesOK, ServiceState
<1>5. Registered \subseteq Services
  BY DEF TypesOK, TablesOK, IsList, Registered, ToSet
<1>6. TypesOK'
  BY <1>1, <1>2, <1>3, <1>4, <1>5 DEF TypesOK, TablesOK, busVars, boundVars
<1>7. Active' = Active \ {s}
  BY <1>2, <1>4, <1>5 DEF Active
<1>8. Registered' \ late' = (Registered \ late) \ {s}
  BY <1>1, <1>2
<1>9. \A r \in Registered' : r \in Registered /\ r # s /\ deps'[r] = deps[r] /\ state'[r] = state[r]
                             /\ (r \in stuck => r \in stuck')
  BY <1>1, <1>2, <1>3, <1>4, <1>5
<1>10. ASSUME NEW f \in Frames  PROVE Unneeded(f) => Unneeded(f)'
  BY <1>8, <1>9 DEF Unneeded
<1>11. ASSUME NEW f \in Frames, StartingOK(f), \A r \in Registered \ late : s \notin deps[r]
       PROVE  StartingOK(f)'
  <2>1. \A r \in Registered' \ late' : r \in Registered \ late /\ r # s /\ deps'[r] = deps[r] /\ state'[r] = state[r]
    BY <1>8, <1>9
  <2>2. \A r \in Registered' \ late' : r \in ToSet(f.todo) \/ state'[r] = "active"
    BY <1>11, <2>1 DEF StartingOK
  <2>3. ASSUME NEW k \in 1..Len(f.todo), f.todo[k] \in Registered' \ late', NEW d \in deps'[f.todo[k]]
        PROVE  /\ d \in Registered' \ late'
               /\ d \notin ToSet(f.todo) \/ \E i \in 1..(k - 1) : f.todo[i] = d
    <3>1. PICK r \in Registered \ late : r = f.todo[k] /\ d \in deps[r] /\ s \notin deps[r]
      BY <1>11, <2>1, <2>3
    <3>2. /\ d \in Registered \ late /\ d # s
          /\ d \notin ToSet(f.todo) \/ \E i \in 1..(k - 1) : f.todo[i] = d
      BY <1>11, <3>1 DEF StartingOK
    <3> QED
      BY <1>8, <3>2
  <2>4. ~initialized'
    BY <1>1, <1>11 DEF StartingOK
  <2> QED
    BY <2>2, <2>3, <2>4 DEF StartingOK
<1>12. ASSUME NEW f \in Frames, StoppingOK(f)  PROVE StoppingOK(f)'
  <2> SUFFICES ASSUME NEW k \in 1..Len(f.todo), NEW r \in Registered',
                      f.todo[k] \in deps'[r], state'[r] = "active"
               PROVE  r \in stuck' \/ \E i \in 1..(k - 1) : f.todo[i] = r
    BY DEF StoppingOK
  <2>1. r \in stuck \/ \E i \in 1..(k - 1) : f.todo[i] = r
    BY <1>9, <1>12 DEF StoppingOK
  <2> QED
    BY <1>9, <2>1
<1>13. ASSUME NEW f \in Frames, CallOK(f),
              Looping(f) /\ ~f.crossed => \A r \in Registered \ late : s \notin deps[r]
       PROVE  CallOK(f)'
  BY <1>11, <1>12, <1>13 DEF CallOK, Looping
<1> QED
  BY <1>6, <1>7, <1>8, <1>10, <1>13

\* A step that leaves the stack alone keeps its shape.
LEMMA SameStack ==
    ASSUME StackOK, stack' = stack, \A f \in Frames : Unneeded(f) => Unneeded(f)'
    PROVE  StackOK' /\ Top' = Top /\ Frs' = Frs
<1>1. Top' = Top /\ Frs' = Frs
  BY DEF Top, Frs
<1>2. PICK q : q = stack
  OBVIOUS
<1>3. q \in Seq(Frames) /\ \A j \in 1..Len(q) : q[j] \in Frames
  BY <1>2 DEF StackOK
<1>4. ASSUME NEW i \in 1..Len(q), NEW j \in 1..Len(q), i < j, Looping(q[i]), ~q[i].crossed
      PROVE  q[j].op = "unregister" /\ Unneeded(q[j])'
  <2>1. q[j].op = "unregister" /\ Unneeded(q[j])
    BY <1>2, <1>4 DEF StackOK
  <2>2. PICK f \in Frames : f = q[j]
    BY <1>3
  <2>3. Unneeded(f)'
    BY <2>1, <2>2
  <2> QED
    BY <2>1, <2>2, <2>3 DEF Unneeded
<1>5. StackOK'
  BY <1>2, <1>3, <1>4 DEF StackOK
<1> QED
  BY <1>1, <1>5

\* Registering keeps the invariant.
LEMMA RegisterOK ==
    ASSUME LifecycleInv, NEW s \in Services, NEW D \in SUBSET Dependencies, RegisterService(s, D)
    PROVE  LifecycleInv'
<1>1. TypesOK /\ StackOK /\ (\A f \in Frs : CallOK(f)) /\ TruthOK
  BY DEF LifecycleInv
<1>2. initialized' = initialized /\ orch' = orch /\ stack' = stack /\ crossed' = crossed
  BY DEF RegisterService
<1>3. /\ TypesOK' /\ Active' = Active /\ Registered' \ late' = Registered \ late
      /\ \A f \in Frames : (Unneeded(f) => Unneeded(f)') /\ (CallOK(f) => CallOK(f)')
  BY <1>1, RegisterTables
<1>4. StackOK' /\ Frs' = Frs
  BY <1>1, <1>2, <1>3, SameStack
<1>5. (\A f \in Frs : CallOK(f))'
  BY <1>1, <1>3, <1>4, FrsAreFrames
<1>6. TruthOK'
  BY <1>1, <1>2, <1>3, <1>4 DEF TruthOK
<1> QED
  BY <1>3, <1>4, <1>5, <1>6 DEF LifecycleInv

\* Unregistering at once keeps the invariant.
LEMMA UnregisterOK ==
    ASSUME LifecycleInv, NEW s \in Services, UnregisterService(s)
    PROVE  LifecycleInv'
<1>1. TypesOK /\ StackOK /\ (\A f \in Frs : CallOK(f)) /\ TruthOK
  BY DEF LifecycleInv
<1>2. /\ s \in Registered /\ (\A r \in Registered : s \notin deps[r]) /\ Delete(s)
      /\ initialized' = initialized /\ orch' = orch /\ stack' = stack /\ crossed' = crossed
  BY DEF UnregisterService, MayUnregister, Delete
<1>3. /\ TypesOK' /\ Active' = Active \ {s} /\ Registered' \ late' = (Registered \ late) \ {s}
      /\ \A f \in Frames : Unneeded(f) => Unneeded(f)'
      /\ \A f \in Frames : CallOK(f) => CallOK(f)'
  BY <1>1, <1>2, DeleteTables
<1>4. StackOK' /\ Frs' = Frs
  BY <1>1, <1>2, <1>3, SameStack
<1>5. (\A f \in Frs : CallOK(f))'
  BY <1>1, <1>3, <1>4, FrsAreFrames
<1>6. TruthOK'
  BY <1>1, <1>2, <1>3, <1>4 DEF TruthOK
<1> QED
  BY <1>3, <1>4, <1>5, <1>6 DEF LifecycleInv

\* A call of unregister_service may begin within any loop.
LEMMA UnregisterBeginOK ==
    ASSUME LifecycleInv, NEW s \in Services, UnregisterBegin(s)
    PROVE  LifecycleInv'
<1>1. TypesOK /\ StackOK /\ (\A f \in Frs : CallOK(f)) /\ TruthOK
  BY DEF LifecycleInv
<1>2. PICK u : u = Call("unregister", "hook", <<s>>)
  OBVIOUS
<1>3. /\ stack' = Append(stack, u) /\ Top.at \in {"idle", "published", "hook", "returning"}
      /\ \A r \in Registered : s \notin deps[r]
      /\ UNCHANGED <<serviceVars, initialized, orch, busVars, late, stuck, crossed, boundVars>>
  BY <1>2 DEF UnregisterBegin, MayCall, CallsOut, MayUnregister
<1>4. u \in Frames /\ u.op = "unregister" /\ u.at = "hook" /\ u.todo = <<s>>
  BY <1>2 DEF Frames, Ats, Call
<1>5. /\ TablesOK' /\ Registered' = Registered /\ Active' = Active
      /\ \A f \in Frames : (Unneeded(f) => Unneeded(f)') /\ (CallOK(f) => CallOK(f)')
  BY <1>1, <1>3, SameServices
<1>6. Unneeded(u)
  <2>1. Head(u.todo) = s
    BY <1>4
  <2> QED
    BY <1>3, <2>1 DEF Unneeded
<1>7. CallOK(u)'
  <2>1. IsList(<<s>>)
    BY DEF IsList, IsInjective
  <2> QED
    BY <1>4, <2>1 DEF CallOK, Starting, Stopping
<1>8. PICK n \in Nat : n = Len(stack) /\ DOMAIN stack = 1..n /\ stack \in Seq(Frames)
  BY <1>1 DEF StackOK
<1>9. /\ stack' \in Seq(Frames) /\ Len(stack') = n + 1 /\ stack'[n + 1] = u
      /\ \A i \in 1..n : stack'[i] = stack[i] /\ stack[i] \in Frames
  BY <1>3, <1>4, <1>8, AppendProperties
<1>10. StackOK'
  <2>1. ASSUME NEW i \in 1..((n + 1) - 1)  PROVE stack'[i].at \in {"published", "hook", "returning"}
    <3>1. CASE i = n
      <4>1. stack # <<>> /\ Top = stack[i] /\ Top \in Frames
        BY <1>1, <1>8, <3>1, TopIsLast
      <4> QED
        BY <1>3, <1>9, <4>1 DEF Frames, Ats
    <3>2. CASE i # n
      BY <1>1, <1>8, <1>9, <3>2 DEF StackOK
    <3> QED
      BY <3>1, <3>2
  <2>2. ASSUME NEW i \in 1..(n + 1), NEW j \in 1..(n + 1), i < j, Looping(stack'[i]), ~stack'[i].crossed
        PROVE  (stack[j].op = "unregister" /\ Unneeded(stack[j]))'
    <3>1. PICK f \in Frames : f = stack'[j]
      BY <1>4, <1>9
    <3>2. f.op = "unregister" /\ Unneeded(f)
      <4>1. CASE j = n + 1
        BY <1>4, <1>6, <1>9, <3>1, <4>1
      <4>2. CASE j # n + 1
        <5>1. i \in 1..n /\ j \in 1..n
          BY <2>2, <4>2
        <5> QED
          BY <1>1, <1>8, <1>9, <2>2, <3>1, <5>1 DEF StackOK
      <4> QED
        BY <4>1, <4>2
    <3>3. Unneeded(f)'
      BY <1>5, <3>2
    <3> QED
      BY <3>1, <3>2, <3>3 DEF Unneeded
  <2> QED
    BY <1>9, <2>1, <2>2 DEF StackOK
<1>11. Frs' = Frs \cup {u}
  <2>1. Frs = {stack[i] : i \in 1..n} /\ Frs' = {stack'[i] : i \in 1..(n + 1)}
    BY <1>8, <1>9, FrsOf DEF Frs
  <2>2. \A i \in 1..(n + 1) : i \in 1..n \/ i = n + 1
    OBVIOUS
  <2>3. \A i \in 1..n : i \in 1..(n + 1)
    OBVIOUS
  <2>4. n + 1 \in 1..(n + 1)
    OBVIOUS
  <2> QED
    BY <1>9, <2>1, <2>2, <2>3, <2>4
<1>12. (\A f \in Frs : CallOK(f))'
  BY <1>1, <1>5, <1>7, <1>11, FrsAreFrames
<1>13. TruthOK'
  BY <1>1, <1>3, <1>5, <1>11 DEF TruthOK
<1>14. TypesOK'
  BY <1>1, <1>3, <1>5 DEF TypesOK, serviceVars, busVars, boundVars
<1> QED
  BY <1>10, <1>12, <1>13, <1>14 DEF LifecycleInv

\* The end of a call of unregister_service: nobody in a startup order that is
\* being worked off needs the service.
LEMMA UnregisterEndOK == ASSUME LifecycleInv, UnregisterEnd  PROVE LifecycleInv'
<1>1. TypesOK /\ StackOK /\ (\A f \in Frs : CallOK(f)) /\ TruthOK
  BY DEF LifecycleInv
<1>2. PICK s : s = Current
  OBVIOUS
<1>3. /\ Top.op = "unregister" /\ Top.at = "hook" /\ stack' = Front(stack)
      /\ \/ s \in Registered /\ Delete(s)
         \/ UNCHANGED <<serviceVars, initialized, orch, busVars, late, stuck, crossed, boundVars>>
      /\ initialized' = initialized /\ orch' = orch /\ crossed' = crossed
  BY <1>2 DEF UnregisterEnd, InCall, Delete
<1>4. stack # <<>> /\ Top \in Frs
  BY <1>1, <1>3, TopIsLast
<1>5. ~Unsettled(Top) /\ ~Starting(Top) /\ Top.op # "stop"
  BY <1>3 DEF Unsettled, Stopping, Starting
<1>6. CASE s \in Registered /\ Delete(s)
  <2>1. s \in Services
    BY <1>1, <1>6 DEF TypesOK, TablesOK, IsList, Registered, ToSet
  <2>2. /\ TypesOK' /\ Active' = Active \ {s} /\ Registered' \ late' = (Registered \ late) \ {s}
        /\ \A f \in Frames : Unneeded(f) => Unneeded(f)'
        /\ \A f \in Frames :
              CallOK(f) /\ (Looping(f) /\ ~f.crossed => \A r \in Registered \ late : s \notin deps[r]) => CallOK(f)'
    BY <1>1, <1>6, <2>1, DeleteTables
  <2>3. /\ StackOK' /\ Frs' \subseteq Frs /\ \A f \in Frs : f = Top \/ f \in Frs'
        /\ \A f \in Frs' : Looping(f) /\ ~f.crossed => Unneeded(Top)
    BY <1>1, <1>3, <1>4, <2>2, PopOK
  <2>4. Unneeded(Top) => \A r \in Registered \ late : s \notin deps[r]
    BY <1>2 DEF Unneeded, Current
  <2>5. (\A f \in Frs : CallOK(f))'
    BY <1>1, <2>2, <2>3, <2>4, FrsAreFrames
  <2>6. TruthOK'
    BY <1>1, <1>3, <1>5, <2>2, <2>3 DEF TruthOK
  <2> QED
    BY <2>2, <2>3, <2>5, <2>6 DEF LifecycleInv
<1>7. CASE UNCHANGED <<serviceVars, initialized, orch, busVars, late, stuck, crossed, boundVars>>
  <2>1. /\ TablesOK' /\ Registered' = Registered /\ Active' = Active
        /\ \A f \in Frames : (Unneeded(f) => Unneeded(f)') /\ (CallOK(f) => CallOK(f)')
    BY <1>1, <1>7, SameServices
  <2>2. StackOK' /\ Frs' \subseteq Frs /\ \A f \in Frs : f = Top \/ f \in Frs'
    BY <1>1, <1>3, <1>4, <2>1, PopOK
  <2>3. (\A f \in Frs : CallOK(f))'
    BY <1>1, <2>1, <2>2, FrsAreFrames
  <2>4. TruthOK'
    BY <1>1, <1>3, <1>5, <1>7, <2>1, <2>2 DEF TruthOK
  <2>5. TypesOK'
    BY <1>1, <1>7, <2>1 DEF TypesOK, serviceVars, busVars, boundVars
  <2> QED
    BY <2>2, <2>3, <2>4, <2>5 DEF LifecycleInv
<1> QED
  BY <1>3, <1>6, <1>7
-----------------------------------------------------------------------------
(* The steps of start() and stop() *)

\* The calls that begin.
LEMMA CallsOK == ASSUME LifecycleInv, CallStart \/ CallStop  PROVE LifecycleInv'
<1>1. TypesOK /\ StackOK /\ (\A f \in Frs : CallOK(f)) /\ TruthOK
  BY DEF LifecycleInv
<1>2. /\ orch' \in {"initializing", "shutting_down"} /\ calls' = calls + 1
      /\ UNCHANGED <<serviceVars, initialized, busVars, late, stuck, crossed, registers>>
  BY DEF CallStart, CallStop, Enter
<1>3. /\ StackOK'
      /\ \A f \in Frs' : \/ f.at = "published" /\ f.todo = <<>>
                         \/ f.crossed /\ \E h \in Frs : f.at = h.at /\ f.todo = h.todo
      /\ \A h \in Frs : \E f \in Frs' : f.op = h.op /\ f.at = h.at /\ f.crossed
  <2>1. CASE CallStart
    <3>1. Enter("start", "initializing")
      BY <2>1 DEF CallStart
    <3> QED
      BY <1>1, <3>1, EnterOK
  <2>2. CASE CallStop
    <3>1. Enter("stop", "shutting_down")
      BY <2>2 DEF CallStop
    <3> QED
      BY <1>1, <3>1, EnterOK
  <2> QED
    BY <2>1, <2>2
<1>4. TablesOK' /\ Registered' = Registered /\ Active' = Active
  BY <1>1, <1>2, SameServices
<1>5. IsList(<<>>)
  BY EmptyIsOrder DEF IsOrder
<1>6. ASSUME NEW f \in Frs'  PROVE CallOK(f)'
  <2>1. CASE f.at = "published" /\ f.todo = <<>>
    BY <1>5, <2>1 DEF CallOK, Starting, Stopping
  <2>2. CASE f.crossed /\ \E h \in Frs : f.at = h.at /\ f.todo = h.todo
    BY <1>1, <2>2 DEF CallOK
  <2> QED
    BY <1>3, <2>1, <2>2
<1>7. \A h \in Frs : Unsettled(h) => \E f \in Frs' : Unsettled(f)
  BY <1>3 DEF Unsettled, Starting, Stopping
<1>8. TruthOK'
  BY <1>1, <1>2, <1>4, <1>7 DEF TruthOK
<1>9. TypesOK'
  BY <1>1, <1>2, <1>4 DEF TypesOK, serviceVars, busVars, RuntimeState
<1> QED
  BY <1>3, <1>6, <1>8, <1>9 DEF LifecycleInv

\* A call returns.
LEMMA ReturnOK == ASSUME LifecycleInv, Return  PROVE LifecycleInv'
<1>1. TypesOK /\ StackOK /\ (\A f \in Frs : CallOK(f)) /\ TruthOK
  BY DEF LifecycleInv
<1>2. /\ Top.at = "returning" /\ stack' = Front(stack)
      /\ UNCHANGED <<serviceVars, initialized, orch, busVars, late, stuck, crossed, boundVars>>
  BY DEF Return
<1>3. stack # <<>>
  BY <1>1, <1>2, TopIsLast
<1>4. ~Unsettled(Top) /\ ~Starting(Top) /\ Top.at \notin {"shutdown", "hook", "check"}
  BY <1>2 DEF Unsettled, Stopping, Starting
<1>5. /\ TablesOK' /\ Registered' = Registered /\ Active' = Active
      /\ \A f \in Frames : (Unneeded(f) => Unneeded(f)') /\ (CallOK(f) => CallOK(f)')
  BY <1>1, <1>2, SameServices
<1>6. StackOK' /\ Frs' \subseteq Frs /\ \A f \in Frs : f = Top \/ f \in Frs'
  BY <1>1, <1>2, <1>3, <1>5, PopOK
<1>7. (\A f \in Frs : CallOK(f))'
  BY <1>1, <1>5, <1>6, FrsAreFrames
<1>8. TruthOK'
  BY <1>1, <1>2, <1>4, <1>5, <1>6 DEF TruthOK
<1>9. TypesOK'
  BY <1>1, <1>2, <1>5 DEF TypesOK, serviceVars, busVars, boundVars
<1> QED
  BY <1>6, <1>7, <1>8, <1>9 DEF LifecycleInv

\* The end of a call of start() or stop() is a call that has nothing to do.
LEMMA LeaveOK ==
    ASSUME LifecycleInv, stack # <<>>, Top.op # "unregister", NEW s, Leave(s)
    PROVE  /\ StackOK' /\ (\A f \in Frs : CallOK(f))' /\ orch' = s
           /\ \A f \in Frs : f = Top \/ f \in Frs'
<1>1. StackOK /\ \A f \in Frs : CallOK(f)
  BY DEF LifecycleInv
<1>2. Goes("returning", <<>>) /\ orch' = s
  BY DEF Leave
<1>3. "returning" \in Ats /\ <<>> \in Seq(Services) /\ IsList(<<>>)
  BY EmptyIsOrder DEF Ats, IsOrder, IsList
<1>4. PICK g \in Frames : Becomes(g) /\ g.op = Top.op /\ g.at = "returning" /\ g.todo = <<>>
  BY <1>1, <1>2, <1>3, GoesOK
<1>5. CallOK(g)'
  BY <1>3, <1>4 DEF CallOK, Starting, Stopping
<1> QED
  BY <1>1, <1>2, <1>4, <1>5, BecomesOK, OwnCallsOK

\* start() after its handlers: the bus and the manager.
LEMMA BeginInitializeOK == ASSUME LifecycleInv, BeginInitialize  PROVE LifecycleInv'
<1>1. TypesOK /\ StackOK /\ (\A f \in Frs : CallOK(f)) /\ TruthOK /\ TablesOK
  BY DEF LifecycleInv, TypesOK
<1>2. /\ Top.op = "start" /\ Top.at = "published"
      /\ executor' = "none" /\ busDown' = FALSE
      /\ UNCHANGED <<serviceVars, initialized, stuck, crossed, boundVars>>
  BY DEF BeginInitialize, InCall
<1>3. stack # <<>> /\ Top \in Frames
  BY <1>1, <1>2, TopIsLast
<1>4. TablesOK' /\ Registered' = Registered
  BY <1>1, <1>2, SameTables DEF serviceVars
<1>5. Active' = Active
  BY <1>2, <1>4 DEF Active, serviceVars
<1>6. busDown' \in BOOLEAN
  BY <1>2, Zenon
<1>7. ASSUME orch' \in RuntimeState, late' \in {late, {}}
      PROVE  TypesOK'
  BY <1>1, <1>2, <1>4, <1>6, <1>7 DEF TypesOK, serviceVars, boundVars
<1>8. ~Unsettled(Top) /\ ~Starting(Top) /\ Top.op # "stop"
  BY <1>2 DEF Unsettled, Stopping, Starting
<1>9. CASE initialized /\ Leave("running") /\ UNCHANGED late
  <2>1. /\ StackOK' /\ (\A f \in Frs : CallOK(f))' /\ orch' = "running"
        /\ \A f \in Frs : f = Top \/ f \in Frs'
    BY <1>2, <1>3, <1>9, LeaveOK
  <2>2. TypesOK'
    BY <1>7, <1>9, <2>1 DEF RuntimeState
  <2>3. TruthOK'
    BY <1>1, <1>2, <1>4, <1>5, <1>8, <1>9, <2>1 DEF TruthOK
  <2> QED
    BY <2>1, <2>2, <2>3 DEF LifecycleInv
<1>10. CASE ~initialized /\ Leave("failed") /\ UNCHANGED late
  <2>1. /\ StackOK' /\ (\A f \in Frs : CallOK(f))' /\ orch' = "failed"
        /\ \A f \in Frs : f = Top \/ f \in Frs'
    BY <1>2, <1>3, <1>10, LeaveOK
  <2>2. TypesOK'
    BY <1>7, <1>10, <2>1 DEF RuntimeState
  <2>3. TruthOK'
    BY <1>1, <1>2, <1>4, <1>5, <1>8, <1>10, <2>1 DEF TruthOK
  <2> QED
    BY <2>1, <2>2, <2>3 DEF LifecycleInv
<1>11. CASE /\ ~initialized /\ HasOrder /\ Becomes(Call("start", "init", Sorted))
            /\ late' = {} /\ UNCHANGED orch
  <2>1. IsOrder(Sorted)
    BY <1>1, SortedIsOrder
  <2>2. PICK q : q = Sorted
    OBVIOUS
  <2>3. IsOrder(q) /\ ToSet(q) = Registered
    BY <1>1, <1>11, <2>1, <2>2, FullOrder DEF HasOrder, IsOrder
  <2>4. PICK g : g = Call("start", "init", q)
    OBVIOUS
  <2>5. /\ g \in Frames /\ g.op = "start" /\ g.at = "init" /\ g.todo = q
        /\ ~g.crossed
    BY <2>3, <2>4 DEF Frames, Ats, Call, IsOrder, IsList
  <2>6. Becomes(g)
    BY <1>11, <2>2, <2>4
  <2>7. StartingOK(g)'
    <3>1. \A k \in 1..Len(q) : \A d \in deps'[q[k]] : d \in Registered /\ \E i \in 1..(k - 1) : q[i] = d
      <4> SUFFICES ASSUME NEW k \in 1..Len(q), NEW d \in deps'[q[k]]
                   PROVE  d \in Registered /\ \E i \in 1..(k - 1) : q[i] = d
        OBVIOUS
      <4>1. PICK i \in 1..(k - 1) : q[i] = d
        BY <1>2, <2>3 DEF IsOrder, serviceVars
      <4>2. i \in DOMAIN q
        BY <2>3 DEF IsOrder, IsList
      <4>3. d \in ToSet(q)
        BY <4>1, <4>2 DEF ToSet
      <4> QED
        BY <2>3, <4>1, <4>3
    <3>2. ~initialized' /\ Registered' \ late' = Registered
      BY <1>2, <1>4, <1>11
    <3> QED
      BY <2>3, <2>5, <3>1, <3>2 DEF StartingOK
  <2>8. CallOK(g)'
    BY <2>3, <2>5, <2>7 DEF CallOK, Stopping, IsOrder
  <2>9. /\ StackOK' /\ (\A f \in Frs : CallOK(f))' /\ g \in Frs'
        /\ \A f \in Frs : f = Top \/ f \in Frs'
    BY <1>1, <1>2, <1>3, <2>5, <2>6, <2>8, BecomesOK, OwnCallsOK
  <2>10. TypesOK'
    BY <1>1, <1>7, <1>11 DEF TypesOK
  <2>11. TruthOK'
    BY <1>1, <1>2, <1>5, <1>8, <1>11, <2>9 DEF TruthOK
  <2> QED
    BY <2>9, <2>10, <2>11 DEF LifecycleInv
<1> QED
  BY <1>9, <1>10, <1>11 DEF BeginInitialize

\* One service gets another state.
LEMMA StateTypes ==
    ASSUME TypesOK, NEW s \in Services, NEW v \in ServiceState, state' = [state EXCEPT ![s] = v],
           UNCHANGED <<registered, deps, initialized, busVars, late, boundVars>>,
           orch' \in RuntimeState, crossed' \in BOOLEAN, stuck' \subseteq Services
    PROVE  /\ TypesOK' /\ Registered' = Registered
           /\ \A r \in Services : state'[r] = IF r = s THEN v ELSE state[r]
           /\ Registered \subseteq Services
           /\ v # "active" => Active' \subseteq Active
<1>1. TablesOK' /\ Registered' = Registered
  BY SameTables
<1>2. state' \in [Services -> ServiceState \cup {"none"}]
      /\ \A r \in Services : state'[r] = IF r = s THEN v ELSE state[r]
  BY DEF TypesOK
<1>3. Registered \subseteq Services
  BY DEF TypesOK, TablesOK, IsList, Registered, ToSet
<1>4. "none" \notin ServiceState
  BY DEF ServiceState
<1>5. TypesOK'
  BY <1>1, <1>2, <1>3, <1>4 DEF TypesOK, busVars, boundVars
<1>6. v # "active" => Active' \subseteq Active
  BY <1>1, <1>2, <1>3 DEF Active
<1> QED
  BY <1>1, <1>2, <1>3, <1>5, <1>6

\* The innermost call in a loop, and the first service before it.
LEMMA LoopTop ==
    ASSUME LifecycleInv, Looping(Top), Top.todo # <<>>
    PROVE  /\ stack # <<>> /\ Top \in Frames /\ Top \in Frs /\ CallOK(Top) /\ Top.op # "unregister"
           /\ Current \in Services /\ Current = Top.todo[1] /\ Current \in ToSet(Top.todo)
           /\ Top.todo \in Seq(Services) /\ IsList(Tail(Top.todo)) /\ Tail(Top.todo) \in Seq(Services)
           /\ ToSet(Tail(Top.todo)) = ToSet(Top.todo) \ {Current}
           /\ Len(Top.todo) \in Nat \ {0} /\ Len(Tail(Top.todo)) = Len(Top.todo) - 1
           /\ \A k \in 1..(Len(Top.todo) - 1) : Tail(Top.todo)[k] = Top.todo[k + 1]
<1>1. StackOK /\ \A f \in Frs : CallOK(f)
  BY DEF LifecycleInv
<1>2. Top.op \in {"start", "stop"} /\ Top.at # "idle"
  BY DEF Looping, Starting, Stopping
<1>3. stack # <<>> /\ Top \in Frames /\ Top \in Frs
  BY <1>1, <1>2, TopIsLast
<1>4. CallOK(Top)
  BY <1>1, <1>3
<1>5. PICK q : q = Top.todo
  OBVIOUS
<1>6. IsList(q) /\ q # <<>> /\ q \in Seq(Services)
  BY <1>4, <1>5 DEF CallOK, IsList
<1>7. /\ Head(q) \in Services /\ Head(q) \in ToSet(q) /\ Head(q) = q[1]
      /\ IsList(Tail(q)) /\ ToSet(Tail(q)) = ToSet(q) \ {Head(q)}
      /\ Len(q) \in Nat \ {0} /\ Len(Tail(q)) = Len(q) - 1
      /\ \A k \in 1..(Len(q) - 1) : Tail(q)[k] = q[k + 1]
  BY <1>6, TailOfList
<1>8. Tail(q) \in Seq(Services)
  BY <1>7 DEF IsList
<1> QED
  BY <1>2, <1>3, <1>4, <1>5, <1>6, <1>7, <1>8 DEF Current

\* The next service of the loop of start().
LEMMA InitializeBeginOK == ASSUME LifecycleInv, InitializeBegin  PROVE LifecycleInv'
<1>1. TypesOK /\ StackOK /\ (\A f \in Frs : CallOK(f)) /\ TruthOK
  BY DEF LifecycleInv
<1>2. /\ Top.op = "start" /\ Top.at = "init" /\ Top.todo # <<>>
      /\ state' = [state EXCEPT ![Current] = "initializing"]
      /\ UNCHANGED <<registered, deps, initialized, busVars, late, stuck, boundVars>>
      /\ \/ Goes("hook", Top.todo) /\ UNCHANGED <<orch, crossed>>
         \/ Leave("failed") /\ crossed' = (crossed \/ Top.crossed)
  BY DEF InitializeBegin, InCall
<1>3. Starting(Top) /\ Looping(Top)
  BY <1>2 DEF Starting, Looping
<1>4. /\ stack # <<>> /\ Top \in Frames /\ CallOK(Top) /\ Top.op # "unregister"
      /\ Current \in Services /\ Current \in ToSet(Top.todo) /\ Top.todo \in Seq(Services)
  BY <1>2, <1>3, LoopTop
<1>5. Top.crossed \/ StartingOK(Top)
  BY <1>3, <1>4 DEF CallOK
<1>6. Top.crossed \/ ~initialized
  BY <1>5 DEF StartingOK
<1>7. ASSUME orch' \in RuntimeState, crossed' \in BOOLEAN
      PROVE  /\ TypesOK' /\ Registered' = Registered /\ Registered \subseteq Services
             /\ \A r \in Services : state'[r] = IF r = Current THEN "initializing" ELSE state[r]
             /\ Active' \subseteq Active
  <2>1. "initializing" \in ServiceState /\ stuck' \subseteq Services
    BY <1>1, <1>2 DEF ServiceState, TypesOK
  <2>2. "initializing" # "active"
    OBVIOUS
  <2> QED
    BY <1>1, <1>2, <1>4, <1>7, <2>1, <2>2, StateTypes
<1>8. CASE Goes("hook", Top.todo) /\ UNCHANGED <<orch, crossed>>
  <2>1. PICK g \in Frames : /\ Becomes(g) /\ g.op = "start" /\ g.at = "hook" /\ g.todo = Top.todo
                            /\ g.crossed = Top.crossed
    <3>1. "hook" \in Ats
      BY DEF Ats
    <3> QED
      BY <1>1, <1>2, <1>4, <1>8, <3>1, GoesOK
  <2>2. /\ TypesOK' /\ Registered' = Registered /\ Registered \subseteq Services
        /\ \A r \in Services : state'[r] = IF r = Current THEN "initializing" ELSE state[r]
        /\ Active' \subseteq Active
    BY <1>1, <1>7, <1>8 DEF TypesOK
  <2>3. StartingOK(Top) => StartingOK(g)'
    BY <1>2, <1>4, <2>1, <2>2 DEF StartingOK
  <2>4. CallOK(g)'
    BY <1>2, <1>4, <1>5, <2>1, <2>3 DEF CallOK, Stopping
  <2>5. /\ StackOK' /\ (\A f \in Frs : CallOK(f))' /\ g \in Frs'
        /\ \A f \in Frs : f = Top \/ f \in Frs'
    BY <1>1, <1>4, <2>1, <2>4, BecomesOK, OwnCallsOK
  <2>6. Starting(g) /\ (Top.crossed => Unsettled(g))
    BY <2>1 DEF Starting, Unsettled
  <2>7. TruthOK'
    BY <1>1, <1>2, <1>6, <1>8, <2>2, <2>5, <2>6 DEF TruthOK
  <2> QED
    BY <2>2, <2>5, <2>7 DEF LifecycleInv
<1>9. CASE Leave("failed") /\ crossed' = (crossed \/ Top.crossed)
  <2>1. StackOK' /\ (\A f \in Frs : CallOK(f))' /\ orch' = "failed"
    BY <1>4, <1>9, LeaveOK
  <2>2. crossed' \in BOOLEAN
    BY <1>9, Zenon
  <2>3. TypesOK'
    BY <1>7, <2>1, <2>2 DEF RuntimeState
  <2>4. TruthOK'
    BY <1>2, <1>6, <1>9, <2>1 DEF TruthOK
  <2> QED
    BY <2>1, <2>3, <2>4 DEF LifecycleInv
<1> QED
  BY <1>2, <1>8, <1>9

\* A service of the loop of start() is active, and the loop goes on.
LEMMA InitializeEndOK == ASSUME LifecycleInv, InitializeEnd  PROVE LifecycleInv'
<1>1. TypesOK /\ StackOK /\ (\A f \in Frs : CallOK(f)) /\ TruthOK
  BY DEF LifecycleInv
<1>2. PICK s : s = Current
  OBVIOUS
<1>3. PICK q : q = Top.todo
  OBVIOUS
<1>4. PICK p : p = Tail(Top.todo)
  OBVIOUS
<1>5. /\ Top.op = "start" /\ Top.at = "hook"
      /\ state' = [state EXCEPT ![s] = "active"] /\ stuck' = stuck \ {s}
      /\ Goes("init", p)
      /\ UNCHANGED <<registered, deps, initialized, orch, busVars, late, crossed, boundVars>>
  BY <1>2, <1>4 DEF InitializeEnd, InCall
<1>6. Starting(Top) /\ Looping(Top)
  BY <1>5 DEF Starting, Looping
<1>7. Top.todo # <<>>
  <2>1. Top \in Frs
    BY <1>1, <1>5, TopIsLast
  <2> QED
    BY <1>1, <1>5, <2>1 DEF CallOK
<1>8. /\ stack # <<>> /\ Top \in Frames /\ CallOK(Top) /\ Top.op # "unregister"
      /\ s \in Services /\ s = q[1] /\ s \in ToSet(q)
      /\ IsList(p) /\ p \in Seq(Services)
      /\ ToSet(p) = ToSet(q) \ {s}
      /\ Len(q) \in Nat \ {0} /\ Len(p) = Len(q) - 1
      /\ \A k \in 1..(Len(q) - 1) : p[k] = q[k + 1]
  BY <1>2, <1>3, <1>4, <1>6, <1>7, LoopTop
<1>9. Top.crossed \/ StartingOK(Top)
  BY <1>6, <1>8 DEF CallOK
<1>10. PICK g \in Frames : /\ Becomes(g) /\ g.op = "start" /\ g.at = "init" /\ g.todo = p
                           /\ g.crossed = Top.crossed
  <2>1. "init" \in Ats
    BY DEF Ats
  <2> QED
    BY <1>1, <1>5, <1>8, <2>1, GoesOK
<1>11. /\ TypesOK' /\ Registered' = Registered /\ Registered \subseteq Services
       /\ \A r \in Services : state'[r] = IF r = s THEN "active" ELSE state[r]
  <2>1. "active" \in ServiceState /\ stuck' \subseteq Services /\ orch' \in RuntimeState /\ crossed' \in BOOLEAN
    BY <1>1, <1>5 DEF ServiceState, TypesOK
  <2>2. /\ TypesOK /\ s \in Services /\ state' = [state EXCEPT ![s] = "active"]
        /\ UNCHANGED <<registered, deps, initialized, busVars, late, boundVars>>
    BY <1>1, <1>5, <1>8
  <2> QED
    BY <2>1, <2>2, StateTypes
<1>12. ASSUME StartingOK(Top)  PROVE StartingOK(g)'
  <2>1. /\ ~initialized
        /\ \A r \in Registered \ late : r \in ToSet(q) \/ state[r] = "active"
        /\ \A k \in 1..Len(q) : q[k] \in Registered \ late =>
              \A d \in deps[q[k]] :
                  /\ d \in Registered \ late
                  /\ d \notin ToSet(q) \/ \E i \in 1..(k - 1) : q[i] = d
    BY <1>3, <1>12 DEF StartingOK
  <2>2. \A r \in Registered \ late : r \in ToSet(p) \/ state'[r] = "active"
    BY <1>8, <1>11, <2>1
  <2>3. ASSUME NEW k \in 1..Len(p), p[k] \in Registered \ late, NEW d \in deps[p[k]]
        PROVE  d \in Registered \ late /\ (d \notin ToSet(p) \/ \E i \in 1..(k - 1) : p[i] = d)
    <3>1. k + 1 \in 1..Len(q) /\ q[k + 1] = p[k]
      BY <1>8
    <3>2. /\ d \in Registered \ late
          /\ d \notin ToSet(q) \/ \E i \in 1..((k + 1) - 1) : q[i] = d
      BY <2>1, <2>3, <3>1
    <3>3. ASSUME NEW i \in 1..((k + 1) - 1), q[i] = d, d # s
          PROVE  \E j \in 1..(k - 1) : p[j] = d
      <4>1. i # 1
        BY <1>8, <3>3
      <4>2. i - 1 \in 1..(k - 1) /\ i - 1 \in 1..(Len(q) - 1) /\ (i - 1) + 1 = i
        BY <1>8, <4>1
      <4>3. p[i - 1] = d
        BY <1>8, <3>3, <4>2
      <4> QED
        BY <4>2, <4>3
    <3> QED
      BY <1>8, <3>2, <3>3
  <2> QED
    BY <1>5, <1>10, <1>11, <2>1, <2>2, <2>3 DEF StartingOK
<1>13. CallOK(g)'
  BY <1>8, <1>9, <1>10, <1>12 DEF CallOK, Stopping
<1>14. /\ StackOK' /\ (\A f \in Frs : CallOK(f))' /\ g \in Frs'
       /\ \A f \in Frs : f = Top \/ f \in Frs'
  BY <1>1, <1>8, <1>10, <1>13, BecomesOK, OwnCallsOK
<1>15. Starting(g) /\ (Top.crossed => Unsettled(g))
  BY <1>10 DEF Starting, Unsettled
<1>16. Top.crossed \/ ~initialized
  BY <1>9 DEF StartingOK
<1>17. TruthOK'
  BY <1>1, <1>5, <1>14, <1>15, <1>16 DEF TruthOK
<1> QED
  BY <1>11, <1>14, <1>17 DEF LifecycleInv

\* The first failure ends the loop of start().
LEMMA InitializeFailsOK == ASSUME LifecycleInv, InitializeFails  PROVE LifecycleInv'
<1>1. TypesOK /\ StackOK /\ (\A f \in Frs : CallOK(f)) /\ TruthOK
  BY DEF LifecycleInv
<1>2. /\ Top.op = "start" /\ Top.at = "hook"
      /\ state' = [state EXCEPT ![Current] = "failed"] /\ stuck' = stuck \ {Current}
      /\ Leave("failed") /\ crossed' = (crossed \/ Top.crossed)
      /\ UNCHANGED <<registered, deps, initialized, busVars, late, boundVars>>
  BY DEF InitializeFails, InCall
<1>3. Starting(Top) /\ Looping(Top)
  BY <1>2 DEF Starting, Looping
<1>4. Top.todo # <<>>
  <2>1. Top \in Frs
    BY <1>1, <1>2, TopIsLast
  <2> QED
    BY <1>1, <1>2, <2>1 DEF CallOK
<1>5. stack # <<>> /\ CallOK(Top) /\ Top.op # "unregister" /\ Current \in Services
  BY <1>3, <1>4, LoopTop
<1>6. Top.crossed \/ ~initialized
  BY <1>3, <1>5 DEF CallOK, StartingOK
<1>7. StackOK' /\ (\A f \in Frs : CallOK(f))' /\ orch' = "failed"
  BY <1>2, <1>5, LeaveOK
<1>8. crossed' \in BOOLEAN
  BY <1>2, Zenon
<1>9. TypesOK'
  <2>1. "failed" \in ServiceState /\ stuck' \subseteq Services /\ orch' \in RuntimeState
    BY <1>1, <1>2, <1>7 DEF ServiceState, RuntimeState, TypesOK
  <2> QED
    BY <1>1, <1>2, <1>5, <1>8, <2>1, StateTypes
<1>10. TruthOK'
  BY <1>2, <1>6, <1>7 DEF TruthOK
<1> QED
  BY <1>7, <1>9, <1>10 DEF LifecycleInv

\* The loop of start() is through.
LEMMA InitializeDoneOK == ASSUME LifecycleInv, InitializeDone  PROVE LifecycleInv'
<1>1. TypesOK /\ StackOK /\ (\A f \in Frs : CallOK(f)) /\ TruthOK
  BY DEF LifecycleInv
<1>2. /\ Top.op = "start" /\ Top.at = "init" /\ Top.todo = <<>>
      /\ initialized' = TRUE /\ Leave("running") /\ crossed' = Top.crossed
      /\ UNCHANGED <<serviceVars, busVars, late, stuck, boundVars>>
  BY DEF InitializeDone, InCall
<1>3. stack # <<>> /\ Top \in Frames /\ Top \in Frs
  BY <1>1, <1>2, TopIsLast
<1>4. StackOK' /\ (\A f \in Frs : CallOK(f))' /\ orch' = "running"
  BY <1>2, <1>3, LeaveOK
<1>5. TablesOK' /\ Registered' = Registered /\ Active' = Active
  <2>1. TablesOK' /\ Registered' = Registered
    BY <1>1, <1>2, SameTables DEF serviceVars
  <2> QED
    BY <1>2, <2>1 DEF Active, serviceVars
<1>6. initialized' \in BOOLEAN
  BY <1>2, Zenon
<1>7. crossed' \in BOOLEAN
  <2>1. Top.crossed \in BOOLEAN
    BY <1>3 DEF Frames
  <2> QED
    BY <1>2, <2>1, Zenon
<1>8. TypesOK'
  BY <1>1, <1>2, <1>4, <1>5, <1>6, <1>7 DEF TypesOK, RuntimeState, serviceVars, busVars, boundVars
<1>9. ~Top.crossed => Registered \ late \subseteq Active
  <2>1. ~Top.crossed => StartingOK(Top)
    BY <1>1, <1>2, <1>3 DEF CallOK, Starting
  <2>2. ToSet(Top.todo) = {}
    BY <1>2 DEF ToSet
  <2> QED
    BY <2>1, <2>2 DEF StartingOK, Active
<1>10. TruthOK'
  BY <1>2, <1>4, <1>5, <1>9 DEF TruthOK
<1> QED
  BY <1>4, <1>8, <1>10 DEF LifecycleInv

\* stop() after its handlers.
LEMMA BeginShutdownOK == ASSUME LifecycleInv, BeginShutdown  PROVE LifecycleInv'
<1>1. TypesOK /\ StackOK /\ (\A f \in Frs : CallOK(f)) /\ TruthOK /\ TablesOK
  BY DEF LifecycleInv, TypesOK
<1>2. PICK q : q = IF HasOrder THEN Sorted ELSE registered
  OBVIOUS
<1>3. PICK p : p = Reverse(q)
  OBVIOUS
<1>4. PICK g : g = [Call("stop", "shutdown", p) EXCEPT !.sorted = HasOrder]
  OBVIOUS
<1>5. /\ Top.op = "stop" /\ Top.at = "published" /\ Becomes(g)
      /\ UNCHANGED <<serviceVars, initialized, orch, busVars, late, stuck, crossed, boundVars>>
  BY <1>2, <1>3, <1>4, Zenon DEF BeginShutdown, InCall
<1>6. IsList(q) /\ ToSet(q) \subseteq Registered
  <2>1. IsList(registered) /\ ToSet(registered) = Registered
    BY <1>1 DEF TablesOK, Registered
  <2> QED
    BY <1>1, <1>2, <2>1, SortedIsOrder DEF IsOrder
<1>7. PICK n \in Nat : /\ n = Len(q) /\ IsList(p) /\ ToSet(p) = ToSet(q) /\ Len(p) = n
                       /\ \A k \in 1..n : p[k] = q[n - k + 1]
  BY <1>3, <1>6, ReverseOfList
<1>8. /\ g \in Frames /\ g.op = "stop" /\ g.at = "shutdown" /\ g.todo = p
      /\ g.sorted = HasOrder
  <2>1. HasOrder \in BOOLEAN
    BY Zenon DEF HasOrder
  <2>2. PICK b \in BOOLEAN : b = HasOrder
    BY <2>1
  <2>3. g = [Call("stop", "shutdown", p) EXCEPT !.sorted = b]
    BY <1>4, <2>2
  <2>4. p \in Seq(Services)
    BY <1>7 DEF IsList
  <2>5. g \in Frames /\ g.op = "stop" /\ g.at = "shutdown" /\ g.todo = p /\ g.sorted = b
    BY <2>3, <2>4 DEF Frames, Ats, Call
  <2> QED
    BY <2>2, <2>5
<1>9. /\ TablesOK' /\ Registered' = Registered /\ Active' = Active
      /\ \A f \in Frames : CallOK(f) => CallOK(f)'
  BY <1>1, <1>5, SameServices
<1>10. ASSUME HasOrder
       PROVE  \A k \in 1..n : \A r \in Registered :
                    p[k] \in deps[r] => \E i \in 1..(k - 1) : p[i] = r
  <2>1. IsOrder(q) /\ ToSet(q) = Registered
    BY <1>1, <1>2, <1>10, SortedIsOrder, FullOrder DEF HasOrder, IsOrder
  <2>2. ASSUME NEW k \in 1..n, NEW r \in Registered, p[k] \in deps[r]
        PROVE  \E i \in 1..(k - 1) : p[i] = r
    <3>1. PICK m \in 1..n : q[m] = r
      <4>1. DOMAIN q = 1..n
        BY <1>6, <1>7 DEF IsList
      <4> QED
        BY <2>1, <4>1 DEF ToSet
    <3>2. PICK i \in 1..(m - 1) : q[i] = p[k]
      BY <1>7, <2>1, <2>2, <3>1 DEF IsOrder
    <3>3. n - k + 1 \in 1..n /\ q[n - k + 1] = p[k]
      BY <1>7
    <3>4. i \in 1..n /\ DOMAIN q = 1..n /\ IsInjective(q)
      BY <1>6, <1>7, <3>1 DEF IsList
    <3>5. i = n - k + 1
      BY <3>2, <3>3, <3>4 DEF IsInjective
    <3>6. n - m + 1 \in 1..(k - 1) /\ n - m + 1 \in 1..n /\ n - (n - m + 1) + 1 = m
      BY <3>1, <3>2, <3>5
    <3> QED
      BY <1>7, <3>1, <3>6
  <2> QED
    BY <2>2
<1>11. g.sorted => StoppingOK(g)
  BY <1>7, <1>8, <1>10 DEF StoppingOK
<1>12. CallOK(g)
  BY <1>7, <1>8, <1>11 DEF CallOK, Starting
<1>13. stack # <<>> /\ CallOK(g)'
  BY <1>1, <1>5, <1>8, <1>9, <1>12, TopIsLast
<1>14. /\ StackOK' /\ (\A f \in Frs : CallOK(f))' /\ g \in Frs'
       /\ \A f \in Frs : f = Top \/ f \in Frs'
  BY <1>1, <1>5, <1>8, <1>13, BecomesOK, OwnCallsOK
<1>15. Unsettled(g) /\ ~Starting(Top)
  BY <1>5, <1>8 DEF Unsettled, Stopping, Starting
<1>16. TruthOK'
  BY <1>1, <1>5, <1>8, <1>9, <1>14, <1>15 DEF TruthOK
<1>17. TypesOK'
  BY <1>1, <1>5, <1>9 DEF TypesOK, serviceVars, busVars, boundVars
<1> QED
  BY <1>14, <1>16, <1>17 DEF LifecycleInv

\* What the loop of stop() has behind it may be forgotten when it is not
\* active, or will not stop.
LEMMA StoppingTail ==
    ASSUME LifecycleInv, Looping(Top), Top.todo # <<>>, StoppingOK(Top),
           NEW g, g.todo = Tail(Top.todo), UNCHANGED <<registered, deps>>,
           \A r \in Registered : state'[r] = "active" => state[r] = "active",
           stuck \subseteq stuck', Current \in Registered /\ state'[Current] = "active" => Current \in stuck'
    PROVE  StoppingOK(g)'
<1>1. PICK q : q = Top.todo
  OBVIOUS
<1>2. PICK p : p = Tail(Top.todo)
  OBVIOUS
<1>3. PICK s : s = Current
  OBVIOUS
<1>4. /\ s = q[1]
      /\ Len(q) \in Nat \ {0} /\ Len(p) = Len(q) - 1
      /\ \A k \in 1..(Len(q) - 1) : p[k] = q[k + 1]
  BY <1>1, <1>2, <1>3, LoopTop
<1>5. Registered' = Registered
  BY DEF Registered
<1>6. ASSUME NEW k \in 1..Len(p), NEW r \in Registered, p[k] \in deps[r], state'[r] = "active"
      PROVE  r \in stuck' \/ \E i \in 1..(k - 1) : p[i] = r
  <2>1. k + 1 \in 1..Len(q) /\ q[k + 1] = p[k] /\ state[r] = "active"
    BY <1>4, <1>6
  <2>2. r \in stuck \/ \E i \in 1..((k + 1) - 1) : q[i] = r
    BY <1>1, <1>6, <2>1 DEF StoppingOK
  <2>3. ASSUME NEW i \in 1..((k + 1) - 1), q[i] = r, r # s
        PROVE  \E j \in 1..(k - 1) : p[j] = r
    <3>1. i # 1
      BY <1>4, <2>3
    <3>2. i - 1 \in 1..(k - 1) /\ i - 1 \in 1..(Len(q) - 1) /\ (i - 1) + 1 = i
      BY <1>4, <3>1
    <3>3. p[i - 1] = r
      BY <1>4, <2>3, <3>2
    <3> QED
      BY <3>2, <3>3
  <2> QED
    BY <1>3, <1>6, <2>2, <2>3
<1>7. g.todo = p /\ deps' = deps
  BY <1>2
<1> SUFFICES ASSUME NEW k \in 1..Len(g.todo), NEW r \in Registered',
                    g.todo[k] \in deps'[r], state'[r] = "active"
             PROVE  r \in stuck' \/ \E i \in 1..(k - 1) : g.todo[i] = r
  BY DEF StoppingOK
<1> QED
  BY <1>5, <1>6, <1>7

\* The next service of the loop of stop().
LEMMA ShutdownBeginOK == ASSUME LifecycleInv, ShutdownBegin  PROVE LifecycleInv'
<1>1. TypesOK /\ StackOK /\ (\A f \in Frs : CallOK(f)) /\ TruthOK
  BY DEF LifecycleInv
<1>2. /\ Top.op = "stop" /\ Top.at = "shutdown" /\ Top.todo # <<>>
      /\ UNCHANGED <<serviceVars, initialized, busVars, late, stuck, boundVars>>
      /\ \/ state[Current] # "active" /\ Goes("shutdown", Tail(Top.todo)) /\ UNCHANGED <<orch, crossed>>
         \/ Goes("hook", Top.todo) /\ UNCHANGED <<orch, crossed>>
         \/ Leave("failed") /\ crossed' = TRUE
  BY DEF ShutdownBegin, InCall
<1>3. Stopping(Top) /\ Looping(Top) /\ ~Starting(Top)
  BY <1>2 DEF Stopping, Looping, Starting
<1>4. /\ stack # <<>> /\ Top \in Frames /\ CallOK(Top) /\ Top.op # "unregister"
      /\ Top.todo \in Seq(Services) /\ IsList(Tail(Top.todo)) /\ Tail(Top.todo) \in Seq(Services)
  BY <1>2, <1>3, LoopTop
<1>5. TablesOK' /\ Registered' = Registered /\ Active' = Active
  BY <1>1, <1>2, SameServices
<1>6. ASSUME orch' \in RuntimeState, crossed' \in BOOLEAN  PROVE TypesOK'
  BY <1>1, <1>2, <1>5, <1>6 DEF TypesOK, serviceVars, busVars, boundVars
<1>7. ASSUME NEW g \in Frames, Becomes(g), g.op = "stop", g.at \in {"shutdown", "hook"}, CallOK(g)',
             UNCHANGED <<orch, crossed>>
      PROVE  LifecycleInv'
  <2>1. /\ StackOK' /\ (\A f \in Frs : CallOK(f))' /\ g \in Frs'
        /\ \A f \in Frs : f = Top \/ f \in Frs'
    BY <1>1, <1>4, <1>7, BecomesOK, OwnCallsOK
  <2>2. Unsettled(g)
    BY <1>7 DEF Unsettled, Stopping
  <2>3. TruthOK'
    BY <1>1, <1>2, <1>3, <1>5, <1>7, <2>1, <2>2 DEF TruthOK
  <2>4. TypesOK'
    BY <1>1, <1>6, <1>7 DEF TypesOK
  <2> QED
    BY <2>1, <2>3, <2>4 DEF LifecycleInv
<1>8. CASE state[Current] # "active" /\ Goes("shutdown", Tail(Top.todo)) /\ UNCHANGED <<orch, crossed>>
  <2>1. PICK g \in Frames : /\ Becomes(g) /\ g.op = "stop" /\ g.at = "shutdown" /\ g.todo = Tail(Top.todo)
                            /\ g.sorted = Top.sorted /\ g.crossed = Top.crossed
    <3>1. "shutdown" \in Ats
      BY DEF Ats
    <3>2. PICK p : p = Tail(Top.todo)
      OBVIOUS
    <3>3. p \in Seq(Services) /\ Goes("shutdown", p)
      BY <1>4, <1>8, <3>2
    <3>4. PICK g \in Frames : /\ Becomes(g) /\ g.op = Top.op /\ g.at = "shutdown" /\ g.todo = p
                              /\ g.sorted = Top.sorted /\ g.crossed = Top.crossed
      BY <1>1, <1>4, <3>1, <3>3, GoesOK
    <3> QED
      BY <1>2, <3>2, <3>4
  <2>2. StoppingOK(Top) => StoppingOK(g)'
    BY <1>2, <1>3, <1>8, <2>1, StoppingTail DEF serviceVars
  <2>3. CallOK(g)'
    BY <1>3, <1>4, <2>1, <2>2 DEF CallOK, Starting
  <2> QED
    BY <1>7, <1>8, <2>1, <2>3
<1>9. CASE Goes("hook", Top.todo) /\ UNCHANGED <<orch, crossed>>
  <2>1. PICK g \in Frames : /\ Becomes(g) /\ g.op = "stop" /\ g.at = "hook" /\ g.todo = Top.todo
                            /\ g.sorted = Top.sorted /\ g.crossed = Top.crossed
    <3>1. "hook" \in Ats
      BY DEF Ats
    <3> QED
      BY <1>1, <1>2, <1>4, <1>9, <3>1, GoesOK
  <2>2. StoppingOK(Top) => StoppingOK(g)'
    BY <1>2, <1>5, <2>1 DEF StoppingOK, serviceVars
  <2>3. CallOK(g)'
    BY <1>2, <1>3, <1>4, <2>1, <2>2 DEF CallOK, Starting
  <2> QED
    BY <1>7, <1>9, <2>1, <2>3
<1>10. CASE Leave("failed") /\ crossed' = TRUE
  <2>1. /\ StackOK' /\ (\A f \in Frs : CallOK(f))' /\ orch' = "failed"
    BY <1>4, <1>10, LeaveOK
  <2>2. crossed' \in BOOLEAN
    BY <1>10, Zenon
  <2>3. TypesOK'
    BY <1>6, <2>1, <2>2 DEF RuntimeState
  <2>4. TruthOK'
    BY <1>10, <2>1 DEF TruthOK
  <2> QED
    BY <2>1, <2>3, <2>4 DEF LifecycleInv
<1> QED
  BY <1>2, <1>8, <1>9, <1>10

\* A service of the loop of stop() is down, or would not go.
LEMMA ShutdownEndOK == ASSUME LifecycleInv, ShutdownEnd  PROVE LifecycleInv'
<1>1. TypesOK /\ StackOK /\ (\A f \in Frs : CallOK(f)) /\ TruthOK
  BY DEF LifecycleInv
<1>2. PICK s : s = Current
  OBVIOUS
<1>3. PICK p : p = Tail(Top.todo)
  OBVIOUS
<1>4. /\ Top.op = "stop" /\ Top.at = "hook" /\ Goes("shutdown", p)
      /\ \/ state' = [state EXCEPT ![s] = "stopped"] /\ UNCHANGED stuck
         \/ stuck' = stuck \cup {s} /\ UNCHANGED state
      /\ UNCHANGED <<registered, deps, initialized, orch, busVars, late, crossed, boundVars>>
  BY <1>2, <1>3 DEF ShutdownEnd, InCall
<1>5. Stopping(Top) /\ Looping(Top) /\ ~Starting(Top)
  BY <1>4 DEF Stopping, Looping, Starting
<1>6. Top.todo # <<>>
  <2>1. Top \in Frs
    BY <1>1, <1>4, TopIsLast
  <2> QED
    BY <1>1, <1>4, <2>1 DEF CallOK
<1>7. /\ stack # <<>> /\ Top \in Frames /\ CallOK(Top) /\ Top.op # "unregister"
      /\ s \in Services /\ IsList(p) /\ p \in Seq(Services)
  BY <1>2, <1>3, <1>5, <1>6, LoopTop
<1>8. TablesOK' /\ Registered' = Registered /\ Registered \subseteq Services
  <2>1. Registered \subseteq Services
    BY <1>1 DEF TypesOK, TablesOK, IsList, Registered, ToSet
  <2> QED
    BY <1>1, <1>4, <2>1, SameTables
<1>9. /\ state' \in [Services -> ServiceState \cup {"none"}]
      /\ \A r \in Registered : state'[r] # "none"
      /\ state'[s] = "active" => s \in stuck'
      /\ \A r \in Services : state'[r] = "active" => state[r] = "active"
      /\ stuck \subseteq stuck' /\ stuck' \subseteq Services
  <2>1. CASE state' = [state EXCEPT ![s] = "stopped"] /\ UNCHANGED stuck
    <3>1. state' \in [Services -> ServiceState \cup {"none"}]
          /\ \A r \in Services : state'[r] = IF r = s THEN "stopped" ELSE state[r]
      BY <1>1, <1>7, <2>1 DEF TypesOK, ServiceState
    <3> QED
      BY <1>1, <1>7, <1>8, <2>1, <3>1 DEF TypesOK
  <2>2. CASE stuck' = stuck \cup {s} /\ UNCHANGED state
    BY <1>1, <1>7, <2>2 DEF TypesOK
  <2> QED
    BY <1>4, <2>1, <2>2
<1>10. TypesOK'
  BY <1>1, <1>4, <1>8, <1>9 DEF TypesOK, busVars, boundVars
<1>11. Active' \subseteq Active
  BY <1>8, <1>9 DEF Active
<1>12. PICK g \in Frames : /\ Becomes(g) /\ g.op = "stop" /\ g.at = "shutdown" /\ g.todo = p
                           /\ g.sorted = Top.sorted /\ g.crossed = Top.crossed
  <2>1. "shutdown" \in Ats
    BY DEF Ats
  <2> QED
    BY <1>1, <1>4, <1>7, <2>1, GoesOK
<1>13. StoppingOK(Top) => StoppingOK(g)'
  <2>1. g.todo = Tail(Top.todo) /\ registered' = registered /\ deps' = deps
    BY <1>3, <1>4, <1>12
  <2>2. \A r \in Registered : state'[r] = "active" => state[r] = "active"
    BY <1>8, <1>9
  <2>3. Current \in Registered /\ state'[Current] = "active" => Current \in stuck'
    BY <1>2, <1>9
  <2> QED
    BY <1>5, <1>6, <1>9, <2>1, <2>2, <2>3, StoppingTail
<1>14. CallOK(g)'
  BY <1>5, <1>7, <1>12, <1>13 DEF CallOK, Starting
<1>15. /\ StackOK' /\ (\A f \in Frs : CallOK(f))' /\ g \in Frs'
       /\ \A f \in Frs : f = Top \/ f \in Frs'
  BY <1>1, <1>7, <1>12, <1>14, BecomesOK, OwnCallsOK
<1>16. Unsettled(g)
  BY <1>12 DEF Unsettled, Stopping
<1>17. TruthOK'
  BY <1>1, <1>4, <1>5, <1>11, <1>12, <1>15, <1>16 DEF TruthOK
<1> QED
  BY <1>10, <1>15, <1>17 DEF LifecycleInv

\* The loop of stop() is through.
LEMMA ShutdownDoneOK == ASSUME LifecycleInv, ShutdownServicesDone  PROVE LifecycleInv'
<1>1. TypesOK /\ StackOK /\ (\A f \in Frs : CallOK(f)) /\ TruthOK
  BY DEF LifecycleInv
<1>2. /\ Top.op = "stop" /\ Top.at = "shutdown" /\ initialized' = FALSE /\ Goes("check", <<>>)
      /\ UNCHANGED <<serviceVars, orch, busVars, late, stuck, crossed, boundVars>>
  BY DEF ShutdownServicesDone, InCall
<1>3. stack # <<>> /\ ~Starting(Top)
  BY <1>1, <1>2, TopIsLast DEF Starting
<1>4. TablesOK' /\ Registered' = Registered /\ Active' = Active
  <2>1. TablesOK' /\ Registered' = Registered
    BY <1>1, <1>2, SameTables DEF serviceVars
  <2> QED
    BY <1>2, <2>1 DEF Active, serviceVars
<1>5. initialized' \in BOOLEAN
  BY <1>2, Zenon
<1>6. IsList(<<>>) /\ <<>> \in Seq(Services) /\ "check" \in Ats
  BY EmptyIsOrder DEF Ats, IsOrder, IsList
<1>7. PICK g \in Frames : Becomes(g) /\ g.op = "stop" /\ g.at = "check" /\ g.todo = <<>>
  <2>1. PICK q \in Seq(Services) : q = <<>> /\ Goes("check", q)
    BY <1>2, <1>6
  <2>2. PICK g \in Frames : Becomes(g) /\ g.op = Top.op /\ g.at = "check" /\ g.todo = q
    BY <1>1, <1>3, <1>6, <2>1, GoesOK
  <2> QED
    BY <1>2, <2>1, <2>2
<1>8. CallOK(g)'
  BY <1>6, <1>7 DEF CallOK, Starting, Stopping
<1>9. /\ StackOK' /\ (\A f \in Frs : CallOK(f))' /\ g \in Frs'
      /\ \A f \in Frs : f = Top \/ f \in Frs'
  BY <1>1, <1>2, <1>3, <1>7, <1>8, BecomesOK, OwnCallsOK
<1>10. TruthOK'
  BY <1>1, <1>2, <1>3, <1>4, <1>7, <1>9 DEF TruthOK
<1>11. TypesOK'
  BY <1>1, <1>2, <1>4, <1>5 DEF TypesOK, serviceVars, busVars, boundVars
<1> QED
  BY <1>9, <1>10, <1>11 DEF LifecycleInv

\* The end of stop().
LEMMA StopEndsOK == ASSUME LifecycleInv, StopFails \/ StopSucceeds  PROVE LifecycleInv'
<1>1. TypesOK /\ StackOK /\ (\A f \in Frs : CallOK(f)) /\ TruthOK
  BY DEF LifecycleInv
<1>2. /\ Top.op = "stop" /\ Top.at = "check"
      /\ UNCHANGED <<serviceVars, initialized, late, stuck, crossed, boundVars>>
      /\ \/ Leave("failed") /\ UNCHANGED busVars
         \/ /\ Leave("stopped") /\ Active = {}
            /\ executor' = "none" /\ busDown' = (busDown \/ executor = "live")
  BY DEF StopFails, StopSucceeds, InCall
<1>3. stack # <<>> /\ ~Unsettled(Top)
  BY <1>1, <1>2, TopIsLast DEF Unsettled, Stopping, Starting
<1>4. TablesOK' /\ Registered' = Registered /\ Active' = Active
  BY <1>1, <1>2, SameServices
<1>5. CASE Leave("failed") /\ UNCHANGED busVars
  <2>1. /\ StackOK' /\ (\A f \in Frs : CallOK(f))' /\ orch' = "failed"
        /\ \A f \in Frs : f = Top \/ f \in Frs'
    BY <1>2, <1>3, <1>5, LeaveOK
  <2>2. TypesOK'
    BY <1>1, <1>2, <1>4, <1>5, <2>1 DEF TypesOK, RuntimeState, serviceVars, busVars, boundVars
  <2>3. TruthOK'
    BY <1>1, <1>2, <1>3, <1>4, <2>1 DEF TruthOK
  <2> QED
    BY <2>1, <2>2, <2>3 DEF LifecycleInv
<1>6. CASE /\ Leave("stopped") /\ Active = {}
           /\ executor' = "none" /\ busDown' = (busDown \/ executor = "live")
  <2>1. /\ StackOK' /\ (\A f \in Frs : CallOK(f))' /\ orch' = "stopped"
        /\ \A f \in Frs : f = Top \/ f \in Frs'
    BY <1>2, <1>3, <1>6, LeaveOK
  <2>2. busDown' \in BOOLEAN
    BY <1>6, Zenon
  <2>3. TypesOK'
    BY <1>1, <1>2, <1>4, <1>6, <2>1, <2>2 DEF TypesOK, RuntimeState, serviceVars, boundVars
  <2>4. TruthOK'
    BY <1>1, <1>2, <1>3, <1>4, <1>6, <2>1 DEF TruthOK
  <2> QED
    BY <2>1, <2>3, <2>4 DEF LifecycleInv
<1> QED
  BY <1>2, <1>5, <1>6

\* A step that the services and the calls know nothing of.
LEMMA AsideOK ==
    ASSUME LifecycleInv, executor' \in {"live", "none"}, busDown' = busDown,
           UNCHANGED <<serviceVars, initialized, orch, stack, late, stuck, crossed, boundVars>>
    PROVE  LifecycleInv'
<1>1. TypesOK /\ StackOK /\ (\A f \in Frs : CallOK(f)) /\ TruthOK
  BY DEF LifecycleInv
<1>2. /\ TablesOK' /\ Registered' = Registered /\ Active' = Active
      /\ \A f \in Frames : (Unneeded(f) => Unneeded(f)') /\ (CallOK(f) => CallOK(f)')
  BY <1>1, SameServices
<1>3. StackOK' /\ Frs' = Frs
  BY <1>1, <1>2, SameStack
<1>4. (\A f \in Frs : CallOK(f))'
  BY <1>1, <1>2, <1>3, FrsAreFrames
<1>5. TruthOK'
  BY <1>1, <1>2, <1>3 DEF TruthOK
<1>6. TypesOK'
  BY <1>1, <1>2 DEF TypesOK, serviceVars, boundVars
<1> QED
  BY <1>3, <1>4, <1>5, <1>6 DEF LifecycleInv

\* Every step keeps the invariant.
LEMMA LifecycleKept == LifecycleInv /\ [Next]_vars => LifecycleInv'
<1> SUFFICES ASSUME LifecycleInv, [Next]_vars  PROVE LifecycleInv'
  OBVIOUS
<1>1. CASE PublishAsync
  BY <1>1, AsideOK DEF PublishAsync
<1>2. CASE UNCHANGED vars
  BY <1>2, AsideOK DEF vars, busVars, LifecycleInv, TypesOK
<1>3. CASE CallStep
  BY <1>3, BeginInitializeOK, InitializeBeginOK, InitializeEndOK, InitializeFailsOK, InitializeDoneOK,
     BeginShutdownOK, ShutdownBeginOK, ShutdownEndOK, ShutdownDoneOK, StopEndsOK, ReturnOK,
     UnregisterEndOK DEF CallStep
<1> QED
  BY <1>1, <1>2, <1>3, RegisterOK, UnregisterOK, UnregisterBeginOK, CallsOK DEF Next, Client

\* Every reachable state of the services satisfies the invariant.
LEMMA LifecycleAlwaysInv == Spec => []LifecycleInv
<1>1. Init => LifecycleInv
  <2> SUFFICES ASSUME Init  PROVE LifecycleInv
    OBVIOUS
  <2>1. /\ registered = <<>> /\ stack = <<>> /\ late = {} /\ stuck = {} /\ crossed = FALSE
        /\ deps = [s \in Services |-> {}] /\ state = [s \in Services |-> "none"]
        /\ initialized = FALSE /\ orch = "uninitialized" /\ executor = "live" /\ busDown = FALSE
        /\ calls = 0 /\ registers = 0
    BY DEF Init
  <2>2. IsList(<<>>) /\ ToSet(<<>>) = {}
    BY EmptyIsOrder DEF IsOrder, ToSet
  <2>3. initialized \in BOOLEAN /\ busDown \in BOOLEAN /\ crossed \in BOOLEAN
    BY <2>1, Zenon
  <2>4. Registered = {}
    BY <2>1, <2>2 DEF Registered
  <2>5. TypesOK
    BY <2>1, <2>2, <2>3, <2>4 DEF TypesOK, TablesOK, RuntimeState
  <2>6. StackOK /\ Frs = {}
    BY <2>1, <2>2 DEF StackOK, Frs
  <2>7. TruthOK
    BY <2>1 DEF TruthOK
  <2> QED
    BY <2>5, <2>6, <2>7 DEF LifecycleInv
<1> QED
  BY <1>1, LifecycleKept, PTL DEF Spec

-----------------------------------------------------------------------------
(* The theorems *)

\* The manager's tables agree, and the order computed from them exists exactly
\* when nobody blocks himself, lists every service once and each after its
\* dependencies (service_manager.py:81-120), for every registry.
THEOREM RegistryStaysConsistent == Spec => []RegistryConsistent
<1>1. LifecycleInv => RegistryConsistent
  <2> SUFFICES ASSUME LifecycleInv  PROVE RegistryConsistent
    OBVIOUS
  <2>1. TypesOK /\ StackOK /\ TablesOK
    BY DEF LifecycleInv, TypesOK
  <2>2. \A i \in DOMAIN stack :
          stack[i] \in [op : {"start", "stop", "unregister"},
                        at : {"published", "init", "shutdown", "hook", "check", "returning"},
                        todo : Seq(Services), sorted : BOOLEAN, crossed : BOOLEAN]
    <3>1. \A i \in DOMAIN stack : stack[i] \in Frames
      BY <2>1 DEF StackOK
    <3> QED
      BY <3>1, Zenon DEF Frames, Ats
  <2>3. TypeOK
    BY <2>1, <2>2 DEF TypesOK, TablesOK, IsList, TypeOK
  <2> QED
    BY <2>1, <2>3, OrderRight DEF RegistryConsistent
<1> QED
  BY <1>1, LifecycleAlwaysInv, PTL

\* When no call is under way the state of the orchestrator is the truth about
\* its services (orchestrator.py:74-160): STOPPED wherever others have started
\* and stopped it, in the middle of the loops over services too, and RUNNING
\* unless they did so in the loop that left the services as they are.
THEOREM StatesStayTrue == Spec => []StatesAreTrue
<1>1. LifecycleInv => StatesAreTrue
  <2> SUFFICES ASSUME LifecycleInv, stack = <<>>
               PROVE  /\ orch = "running" /\ ~crossed => Registered \ late \subseteq Active
                      /\ orch = "stopped" => Active = {}
    BY DEF StatesAreTrue, RunningIsComplete, StoppedIsDown
  <2>1. TruthOK
    BY DEF LifecycleInv
  <2>2. Frs = {}
    BY DEF Frs, ToSet
  <2> QED
    BY <2>1, <2>2 DEF TruthOK
<1> QED
  BY <1>1, LifecycleAlwaysInv, PTL

\* A service in the startup order comes up only while all it depends on is up,
\* and goes down only after all that depends on it (service_manager.py:133-167),
\* also with registrations in the middle of the loops; only a start() or stop()
\* in the middle of the loop can break it.
THEOREM DependenciesStayKept == Spec => DependenciesKept
<1>1. LifecycleInv /\ [Next]_vars => [StartedInOrder /\ StoppedInOrder]_vars
  <2> SUFFICES ASSUME LifecycleInv, Next  PROVE StartedInOrder /\ StoppedInOrder
    OBVIOUS
  <2>1. TypesOK /\ TablesOK /\ StackOK /\ \A f \in Frs : CallOK(f)
    BY DEF LifecycleInv, TypesOK
  <2>2. Registered \subseteq Services
    BY <2>1 DEF TablesOK, IsList, Registered, ToSet
  <2>3. \/ state' = state
        \/ \E r \in Services, v \in {"none", "uninitialized"} : state' = [state EXCEPT ![r] = v]
        \/ InitializeBegin \/ InitializeEnd \/ InitializeFails \/ ShutdownEnd
    <3>1. CASE \E s \in Services : \/ UnregisterService(s) \/ UnregisterBegin(s)
                                   \/ \E D \in SUBSET Dependencies : RegisterService(s, D)
      BY <3>1 DEF UnregisterService, UnregisterBegin, RegisterService, Delete, serviceVars
    <3>2. CASE UnregisterEnd
      <4>1. state' = state \/ (Current \in Registered /\ state' = [state EXCEPT ![Current] = "none"])
        BY <3>2 DEF UnregisterEnd, Delete, serviceVars
      <4> QED
        BY <2>2, <4>1
    <3>3. CASE \/ CallStart \/ CallStop \/ PublishAsync \/ BeginInitialize \/ InitializeDone
               \/ BeginShutdown \/ ShutdownBegin \/ ShutdownServicesDone \/ StopFails
               \/ StopSucceeds \/ Return
      BY <3>3 DEF CallStart, CallStop, Enter, PublishAsync, BeginInitialize, InitializeDone,
         BeginShutdown, ShutdownBegin, ShutdownServicesDone, StopFails, StopSucceeds, Return, serviceVars
    <3> QED
      BY <3>1, <3>2, <3>3 DEF Next, Client, CallStep
  <2>4. InitializeBegin \/ InitializeEnd \/ InitializeFails \/ ShutdownEnd =>
          /\ Looping(Top) /\ Top.todo # <<>> /\ Top \in Frs
          /\ Current \in Services /\ Current = Top.todo[1] /\ Current \in ToSet(Top.todo)
          /\ Len(Top.todo) \in Nat \ {0}
    <3> SUFFICES ASSUME InitializeBegin \/ InitializeEnd \/ InitializeFails \/ ShutdownEnd
                 PROVE  Looping(Top) /\ Top.todo # <<>>
      BY LoopTop
    <3>1. Looping(Top) /\ (Top.at = "hook" \/ Top.todo # <<>>)
      BY DEF InitializeBegin, InitializeEnd, InitializeFails, ShutdownEnd, InCall, Looping, Starting, Stopping
    <3>2. Top \in Frs
      BY <2>1, <3>1, TopIsLast DEF Looping, Starting, Stopping
    <3> QED
      BY <2>1, <3>1, <3>2 DEF CallOK
  <2>5. ASSUME NEW r \in Services, NEW v, state' = [state EXCEPT ![r] = v]
        PROVE  \A s \in Services : state'[s] = IF s = r THEN v ELSE state[s]
    BY <2>1, <2>5 DEF TypesOK
  <2>6. ASSUME NEW s \in Registered \ late, ~Top.crossed, state'[s] # state[s],
               state'[s] \in {"initializing", "active"}, NEW d \in deps[s]
        PROVE  state[d] = "active"
    <3>1. InitializeBegin \/ InitializeEnd
      <4>1. ASSUME InitializeFails \/ ShutdownEnd  PROVE FALSE
        <5>1. \/ state' = [state EXCEPT ![Current] = "failed"]
              \/ state' = [state EXCEPT ![Current] = "stopped"]
              \/ state' = state
          BY <4>1 DEF InitializeFails, ShutdownEnd
        <5>2. PICK c \in Services : c = Current
          BY <2>4, <4>1
        <5>3. \/ state'[s] = IF s = c THEN "failed" ELSE state[s]
              \/ state'[s] = IF s = c THEN "stopped" ELSE state[s]
              \/ state'[s] = state[s]
          BY <2>2, <2>5, <2>6, <5>1, <5>2
        <5> QED
          BY <2>6, <5>3
      <4>2. ASSUME NEW r \in Services, NEW v \in {"none", "uninitialized"}, state' = [state EXCEPT ![r] = v]
            PROVE  FALSE
        BY <2>2, <2>5, <2>6, <4>2
      <4> QED
        BY <2>3, <2>6, <4>1, <4>2
    <3>2. Starting(Top) /\ \E v : state' = [state EXCEPT ![Current] = v]
      BY <3>1 DEF InitializeBegin, InitializeEnd, InCall, Starting
    <3>3. s = Current
      BY <2>2, <2>4, <2>5, <2>6, <3>1, <3>2
    <3>4. StartingOK(Top)
      BY <2>1, <2>4, <2>6, <3>1, <3>2 DEF CallOK
    <3>5. d \in Registered \ late /\ d \notin ToSet(Top.todo)
      <4>1. 1 \in 1..Len(Top.todo) /\ ~ \E i \in 1..(1 - 1) : Top.todo[i] = d
        BY <2>4, <3>1
      <4> QED
        BY <2>4, <2>6, <3>1, <3>3, <3>4, <4>1 DEF StartingOK
    <3> QED
      BY <3>4, <3>5 DEF StartingOK
  <2>7. ASSUME NEW s \in Services, ~Top.crossed, Top.sorted, state[s] = "active", state'[s] = "stopped",
               NEW r \in Registered \ stuck, s \in deps[r]
        PROVE  state[r] # "active"
    <3>1. ShutdownEnd
      <4>1. ASSUME InitializeBegin \/ InitializeEnd \/ InitializeFails  PROVE FALSE
        <5>1. \/ state' = [state EXCEPT ![Current] = "failed"]
              \/ state' = [state EXCEPT ![Current] = "initializing"]
              \/ state' = [state EXCEPT ![Current] = "active"]
          BY <4>1 DEF InitializeBegin, InitializeEnd, InitializeFails
        <5>2. PICK c \in Services : c = Current
          BY <2>4, <4>1
        <5>3. \/ state'[s] = IF s = c THEN "failed" ELSE state[s]
              \/ state'[s] = IF s = c THEN "initializing" ELSE state[s]
              \/ state'[s] = IF s = c THEN "active" ELSE state[s]
          BY <2>5, <5>1, <5>2
        <5> QED
          BY <2>7, <5>3
      <4>2. ASSUME NEW p \in Services, NEW v \in {"none", "uninitialized"}, state' = [state EXCEPT ![p] = v]
            PROVE  FALSE
        BY <2>5, <2>7, <4>2
      <4> QED
        BY <2>3, <2>7, <4>1, <4>2
    <3>2. Stopping(Top) /\ state' = [state EXCEPT ![Current] = "stopped"]
      BY <2>7, <3>1 DEF ShutdownEnd, InCall, Stopping
    <3>3. s = Current
      BY <2>4, <2>5, <2>7, <3>1, <3>2
    <3>4. StoppingOK(Top)
      BY <2>1, <2>4, <2>7, <3>1, <3>2 DEF CallOK
    <3>5. 1 \in 1..Len(Top.todo) /\ ~ \E i \in 1..(1 - 1) : Top.todo[i] = r
      BY <2>4, <3>1
    <3> QED
      BY <2>4, <2>7, <3>1, <3>3, <3>4, <3>5 DEF StoppingOK
  <2> QED
    BY <2>6, <2>7 DEF StartedInOrder, StoppedInOrder
<1>2. Spec => [][StartedInOrder /\ StoppedInOrder]_vars
  BY <1>1, LifecycleAlwaysInv, PTL DEF Spec
<1> QED
  BY <1>2 DEF DependenciesKept
=============================================================================
