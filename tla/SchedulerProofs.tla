-------------------------- MODULE SchedulerProofs --------------------------
(***************************************************************************)
(* Proofs about Scheduler, for every set of jobs and threads and every     *)
(* value of the bounds: due times are answered once, and max_runs holds,   *)
(* up to one submission for each crash, reload or refused write.  They     *)
(* suppose that shutdown's join does not time out.                         *)
(***************************************************************************)
EXTENDS Scheduler, SequenceTheorems, FiniteSetTheorems, NaturalsInduction, TLAPS

-----------------------------------------------------------------------------
(* Numbers, lists and sums *)

\* A set of naturals has a least element: induction over naturals, without a
\* predicate for a parameter.
LEMMA LeastNatural ==
    ASSUME NEW S, S \subseteq Nat, S # {}
    PROVE  \E m \in S : \A n \in S : m <= n
<1>1. \E m \in S : \A n \in S : ~ (<<n, m>> \in OpToRel(<, Nat))
  BY NatLessThanWellFounded, WFMin
<1>2. \A m, n \in S : n < m => <<n, m>> \in OpToRel(<, Nat)
  BY DEF OpToRel
<1>3. \E m \in S : \A n \in S : ~ (n < m)
  BY <1>1, <1>2, Zenon
<1> QED
  BY <1>3

\* f starts with b, and g gives each of its values from the one before.
Computes(f, n, X, b, g) ==
    f \in [0..n -> X] /\ f[0] = b /\ \A i \in 1..n : f[i] = g[i][f[i - 1]]

\* Values can be computed one from the other.
LEMMA Recursion ==
    ASSUME NEW n \in Nat, NEW X, NEW b \in X, NEW g \in [1..n -> [X -> X]]
    PROVE  \E f : Computes(f, n, X, b, g)
<1> DEFINE Has(k) == \E f \in [0..k -> X] : f[0] = b /\ \A i \in 1..k : f[i] = g[i][f[i - 1]]
           N == {k \in 0..n : ~ Has(k)}
<1>1. Has(0)
  <2>1. PICK f : f = [i \in 0..0 |-> b]
    OBVIOUS
  <2>2. f \in [0..0 -> X] /\ f[0] = b /\ \A i \in 1..0 : FALSE
    BY <2>1
  <2> QED
    BY <2>2
<1>2. ASSUME NEW k \in 1..n, Has(k - 1)
      PROVE  Has(k)
  <2>1. PICK f \in [0..(k - 1) -> X] : f[0] = b /\ \A i \in 1..(k - 1) : f[i] = g[i][f[i - 1]]
    BY <1>2
  <2>2. PICK v \in X : v = g[k][f[k - 1]]
    <3>1. k - 1 \in 0..(k - 1)
      OBVIOUS
    <3>2. f[k - 1] \in X /\ g[k] \in [X -> X]
      BY <2>1, <3>1
    <3> QED
      BY <3>2
  <2>3. PICK h : h = [i \in 0..k |-> IF i = k THEN v ELSE f[i]]
    OBVIOUS
  <2>4. h \in [0..k -> X]
    <3>1. \A i \in 0..k : i # k => i \in 0..(k - 1)
      OBVIOUS
    <3> QED
      BY <2>1, <2>2, <2>3, <3>1
  <2>5. h[0] = b
    <3>1. 0 \in 0..k /\ 0 # k
      OBVIOUS
    <3> QED
      BY <2>1, <2>3, <3>1
  <2>6. ASSUME NEW i \in 1..k PROVE h[i] = g[i][h[i - 1]]
    <3>1. i \in 0..k /\ i - 1 \in 0..k /\ i - 1 # k
      OBVIOUS
    <3>2. h[i - 1] = f[i - 1]
      BY <2>3, <3>1, Zenon
    <3>3. CASE i = k
      BY <2>2, <2>3, <3>1, <3>2, <3>3
    <3>4. CASE i # k
      <4>1. i \in 1..(k - 1)
        BY <3>4
      <4>2. h[i] = f[i]
        BY <2>3, <3>1, <3>4, Zenon
      <4> QED
        BY <2>1, <3>2, <4>1, <4>2
    <3> QED
      BY <3>3, <3>4
  <2> QED
    BY <2>4, <2>5, <2>6
<1> HIDE DEF Has
<1>3. N = {}
  <2> SUFFICES ASSUME N # {}  PROVE FALSE
    OBVIOUS
  <2>1. PICK k \in N : \A i \in N : k <= i
    <3>1. N \subseteq Nat
      OBVIOUS
    <3> HIDE DEF N
    <3> QED
      BY <3>1, LeastNatural
  <2>2. k \in 1..n
    BY <1>1, <2>1
  <2>3. k - 1 \notin N /\ k - 1 \in 0..n
    BY <2>1, <2>2
  <2> QED
    BY <1>2, <2>1, <2>2, <2>3
<1>4. Has(n)
  BY <1>3
<1> QED
  BY <1>4 DEF Has, Computes

\* A list of jobs on which none is twice.
IsList(s) == s \in Seq(Ids) /\ IsInjective(s)

\* Kept, element by element.
KeptBy(f, s, S) ==
    /\ f \in [0..Len(s) -> Seq(Ids)]
    /\ f[0] = <<>> /\ Kept(s, S) = f[Len(s)]
    /\ \A i \in 1..Len(s) : f[i] = IF s[i] \in S THEN Append(f[i - 1], s[i]) ELSE f[i - 1]

\* There are such steps.
LEMMA KeptSteps == ASSUME NEW s \in Seq(Ids), NEW S  PROVE \E f : KeptBy(f, s, S)
<1>1. PICK n \in Nat : n = Len(s) /\ \A i \in 1..n : s[i] \in Ids
  OBVIOUS
<1>2. PICK g : g = [i \in 1..n |-> [q \in Seq(Ids) |-> IF s[i] \in S THEN Append(q, s[i]) ELSE q]]
  OBVIOUS
<1>3. g \in [1..n -> [Seq(Ids) -> Seq(Ids)]]
  <2>1. ASSUME NEW i \in 1..n, NEW q \in Seq(Ids)
        PROVE  (IF s[i] \in S THEN Append(q, s[i]) ELSE q) \in Seq(Ids)
    <3>1. s[i] \in Ids
      BY <1>1
    <3>2. Append(q, s[i]) \in Seq(Ids)
      BY <3>1, AppendProperties
    <3> QED
      BY <3>2
  <2> QED
    BY <1>2, <2>1, Zenon
<1>4. <<>> \in Seq(Ids)
  OBVIOUS
<1>5. PICK f \in [0..n -> Seq(Ids)] : f[0] = <<>> /\ \A i \in 1..n : f[i] = g[i][f[i - 1]]
  <2>1. PICK X : X = Seq(Ids)
    OBVIOUS
  <2>2. PICK b \in X : b = <<>>
    BY <1>4, <2>1
  <2>3. g \in [1..n -> [X -> X]]
    BY <1>3, <2>1
  <2>4. PICK f : Computes(f, n, X, b, g)
    BY <2>3, Recursion
  <2> QED
    BY <2>1, <2>2, <2>4 DEF Computes
<1>6. ASSUME NEW i \in 1..n
      PROVE  f[i] = IF s[i] \in S THEN Append(f[i - 1], s[i]) ELSE f[i - 1]
  <2>1. i - 1 \in 0..n
    OBVIOUS
  <2>2. f[i - 1] \in Seq(Ids)
    BY <1>5, <2>1
  <2>3. g[i][f[i - 1]] = IF s[i] \in S THEN Append(f[i - 1], s[i]) ELSE f[i - 1]
    BY <1>2, <2>2, Zenon
  <2> QED
    BY <1>5, <2>3
<1>7. f = [i \in 0..n |-> IF i = 0 THEN <<>>
                          ELSE IF s[i] \in S THEN Append(f[i - 1], s[i]) ELSE f[i - 1]]
  <2>1. \A i \in 0..n : i = 0 \/ i \in 1..n
    OBVIOUS
  <2>2. f = [i \in 0..n |-> f[i]]
    OBVIOUS
  <2>3. ASSUME NEW i \in 0..n
        PROVE  f[i] = IF i = 0 THEN <<>>
                      ELSE IF s[i] \in S THEN Append(f[i - 1], s[i]) ELSE f[i - 1]
    <3>1. CASE i = 0
      BY <1>5, <3>1, Zenon
    <3>2. CASE i # 0
      <4>1. i \in 1..n
        BY <2>1, <3>2
      <4> QED
        BY <1>6, <3>2, <4>1, Zenon
    <3> QED
      BY <3>1, <3>2
  <2> QED
    BY <2>2, <2>3, Zenon
<1>8. PICK h : h = CHOOSE q : q = [i \in 0..Len(s) |-> IF i = 0 THEN <<>>
                          ELSE IF s[i] \in S THEN Append(q[i - 1], s[i]) ELSE q[i - 1]]
  OBVIOUS
<1>9. h = [i \in 0..Len(s) |-> IF i = 0 THEN <<>>
                          ELSE IF s[i] \in S THEN Append(h[i - 1], s[i]) ELSE h[i - 1]]
  <2>1. \E q : q = [i \in 0..Len(s) |-> IF i = 0 THEN <<>>
                          ELSE IF s[i] \in S THEN Append(q[i - 1], s[i]) ELSE q[i - 1]]
    BY <1>1, <1>7, Zenon
  <2> QED
    BY <1>8, <2>1, Zenon
<1>10. Kept(s, S) = h[Len(s)]
  BY <1>8, Zenon DEF Kept
<1>11. h[0] = <<>>
  <2>1. 0 \in 0..Len(s)
    OBVIOUS
  <2> QED
    BY <1>9, <2>1, Zenon
<1>12. ASSUME NEW i \in 1..Len(s)
       PROVE  h[i] = IF s[i] \in S THEN Append(h[i - 1], s[i]) ELSE h[i - 1]
  <2>1. i \in 0..Len(s) /\ i # 0
    OBVIOUS
  <2> QED
    BY <1>9, <2>1, Zenon
<1> DEFINE M == {i \in 0..n : h[i] \notin Seq(Ids)}
<1>13. M = {}
  <2> SUFFICES ASSUME M # {}  PROVE FALSE
    OBVIOUS
  <2>1. PICK i \in M : \A k \in M : i <= k
    <3>1. M \subseteq Nat
      OBVIOUS
    <3> HIDE DEF M
    <3> QED
      BY <3>1, LeastNatural
  <2>2. i \in 1..n
    <3>1. i # 0
      BY <1>4, <1>11, <2>1, Zenon
    <3> QED
      BY <2>1, <3>1
  <2>3. i - 1 \notin M /\ i - 1 \in 0..n
    BY <2>1, <2>2
  <2>4. h[i - 1] \in Seq(Ids) /\ s[i] \in Ids
    BY <1>1, <2>2, <2>3
  <2>5. Append(h[i - 1], s[i]) \in Seq(Ids)
    BY <2>4, AppendProperties
  <2>6. h[i] \in Seq(Ids)
    BY <1>1, <1>12, <2>2, <2>4, <2>5
  <2> QED
    BY <2>1, <2>6
<1>14. h \in [0..Len(s) -> Seq(Ids)]
  <2>1. \A i \in 0..n : h[i] \in Seq(Ids)
    BY <1>13
  <2>2. h = [i \in 0..n |-> h[i]]
    BY <1>1, <1>9, Zenon
  <2> QED
    BY <1>1, <2>1, <2>2, Zenon
<1> QED
  BY <1>10, <1>11, <1>12, <1>14 DEF KeptBy

\* A job that is not on the list is put at its end.
LEMMA AppendToList ==
    ASSUME NEW q, IsList(q), NEW s \in Ids, s \notin ToSet(q)
    PROVE  IsList(Append(q, s)) /\ ToSet(Append(q, s)) = ToSet(q) \cup {s}
<1>1. q \in Seq(Ids) /\ Len(q) \in Nat /\ DOMAIN q = 1..Len(q)
  BY DEF IsList
<1>2. PICK t \in Seq(Ids) : t = Append(q, s)
  BY <1>1, AppendProperties
<1>3. /\ Len(t) = Len(q) + 1 /\ DOMAIN t = 1..(Len(q) + 1)
      /\ \A i \in 1..Len(q) : t[i] = q[i]
      /\ t[Len(q) + 1] = s
  BY <1>1, <1>2
<1>4. \A i \in 1..Len(q) : q[i] # s
  BY <1>1 DEF ToSet
<1>5. IsInjective(t)
  BY <1>1, <1>3, <1>4 DEF IsInjective, IsList
<1>6. ToSet(t) = ToSet(q) \cup {s}
  BY <1>1, <1>3 DEF ToSet
<1> QED
  BY <1>2, <1>5, <1>6 DEF IsList

\* Two lists without a job in common, one after the other.
LEMMA ConcatOfLists ==
    ASSUME NEW p, IsList(p), NEW q, IsList(q), ToSet(p) \cap ToSet(q) = {}
    PROVE  IsList(p \o q) /\ ToSet(p \o q) = ToSet(p) \cup ToSet(q)
<1>1. PICK m \in Nat, n \in Nat : m = Len(p) /\ n = Len(q) /\ DOMAIN p = 1..m /\ DOMAIN q = 1..n
  BY DEF IsList
<1>2. PICK t \in Seq(Ids) : t = p \o q
  BY ConcatProperties DEF IsList
<1>3. /\ DOMAIN t = 1..(m + n)
      /\ \A i \in 1..m : t[i] = p[i]
      /\ \A i \in (m + 1)..(m + n) : t[i] = q[i - m] /\ i - m \in 1..n
  BY <1>1, <1>2 DEF IsList
<1>4. \A i \in 1..(m + n) : i \in 1..m \/ i \in (m + 1)..(m + n)
  OBVIOUS
<1>5. \A i \in 1..m, k \in 1..n : p[i] # q[k]
  BY <1>1 DEF ToSet
<1>6. IsInjective(t)
  <2>1. ASSUME NEW i \in 1..(m + n), NEW k \in 1..(m + n), t[i] = t[k]
        PROVE  i = k
    <3>1. CASE i \in 1..m /\ k \in 1..m
      BY <1>1, <1>3, <2>1, <3>1 DEF IsList, IsInjective
    <3>2. CASE i \in (m + 1)..(m + n) /\ k \in (m + 1)..(m + n)
      <4>1. q[i - m] = q[k - m] /\ i - m \in DOMAIN q /\ k - m \in DOMAIN q
        BY <1>1, <1>3, <2>1, <3>2
      <4>2. i - m = k - m
        BY <4>1 DEF IsList, IsInjective
      <4> QED
        BY <4>2
    <3>3. CASE \/ i \in 1..m /\ k \in (m + 1)..(m + n)
               \/ k \in 1..m /\ i \in (m + 1)..(m + n)
      BY <1>3, <1>5, <2>1, <3>3
    <3> QED
      BY <1>4, <3>1, <3>2, <3>3
  <2> QED
    BY <1>3, <2>1 DEF IsInjective
<1>7. ToSet(t) = ToSet(p) \cup ToSet(q)
  <2>1. \A i \in 1..n : m + i \in (m + 1)..(m + n) /\ t[m + i] = q[i]
    BY <1>3
  <2>2. ASSUME NEW v \in ToSet(t) PROVE v \in ToSet(p) \cup ToSet(q)
    BY <1>1, <1>3, <1>4, <2>2 DEF ToSet
  <2>3. ASSUME NEW v \in ToSet(p) PROVE v \in ToSet(t)
    <3>1. PICK i \in 1..m : v = p[i]
      BY <1>1, <2>3 DEF ToSet
    <3>2. i \in 1..(m + n) /\ t[i] = v
      BY <1>3, <3>1
    <3> QED
      BY <1>3, <3>2 DEF ToSet
  <2>4. ASSUME NEW v \in ToSet(q) PROVE v \in ToSet(t)
    <3>1. PICK i \in 1..n : v = q[i]
      BY <1>1, <2>4 DEF ToSet
    <3>2. m + i \in 1..(m + n) /\ t[m + i] = v
      BY <2>1, <3>1
    <3> QED
      BY <1>3, <3>2 DEF ToSet
  <2> QED
    BY <2>2, <2>3, <2>4
<1> QED
  BY <1>2, <1>6, <1>7 DEF IsList

\* Kept lists what it keeps.
LEMMA KeptOK ==
    ASSUME NEW s, IsList(s), NEW S
    PROVE  IsList(Kept(s, S)) /\ ToSet(Kept(s, S)) = ToSet(s) \cap S
<1>1. PICK n \in Nat : s \in Seq(Ids) /\ n = Len(s) /\ DOMAIN s = 1..n /\ \A i \in 1..n : s[i] \in Ids
  BY DEF IsList
<1>0. PICK f : KeptBy(f, s, S)
  BY <1>1, KeptSteps
<1>2. /\ f \in [0..n -> Seq(Ids)] /\ f[0] = <<>> /\ Kept(s, S) = f[n]
      /\ \A i \in 1..n : f[i] = IF s[i] \in S THEN Append(f[i - 1], s[i]) ELSE f[i - 1]
  BY <1>0, <1>1 DEF KeptBy
<1>3. \A i, k \in 1..n : s[i] = s[k] => i = k
  BY <1>1 DEF IsList, IsInjective
<1> DEFINE First(i) == {s[k] : k \in 1..i}
           Fine(i) == IsList(f[i]) /\ ToSet(f[i]) = First(i) \cap S
           N == {i \in 0..n : ~ Fine(i)}
<1>4. Fine(0)
  <2>1. <<>> \in Seq(Ids) /\ DOMAIN <<>> = {}
    OBVIOUS
  <2>2. ToSet(<<>>) = {}
    BY <2>1, Zenon DEF ToSet
  <2>3. First(0) = {}
    OBVIOUS
  <2>4. IsList(<<>>)
    BY <2>1 DEF IsList, IsInjective
  <2> QED
    BY <1>2, <2>2, <2>3, <2>4
<1>5. ASSUME NEW i \in 1..n, Fine(i - 1)
      PROVE  Fine(i)
  <2>1. PICK q : q = f[i - 1]
    OBVIOUS
  <2>2. First(i) = First(i - 1) \cup {s[i]}
    <3>1. 1..i = 1..(i - 1) \cup {i}
      OBVIOUS
    <3> QED
      BY <3>1
  <2>3. s[i] \notin First(i - 1)
    <3>1. \A k \in 1..(i - 1) : k \in 1..n /\ k # i
      BY <1>1
    <3> QED
      BY <1>3, <3>1
  <2> HIDE DEF First
  <2>4. IsList(q) /\ ToSet(q) = First(i - 1) \cap S
    BY <1>5, <2>1
  <2>5. CASE s[i] \in S
    <3>1. s[i] \in Ids /\ s[i] \notin ToSet(q)
      BY <1>1, <2>3, <2>4
    <3>2. IsList(Append(q, s[i])) /\ ToSet(Append(q, s[i])) = ToSet(q) \cup {s[i]}
      BY <2>4, <3>1, AppendToList
    <3>3. f[i] = Append(q, s[i])
      BY <1>2, <2>1, <2>5
    <3> QED
      BY <2>2, <2>4, <2>5, <3>2, <3>3
  <2>6. CASE s[i] \notin S
    <3>1. f[i] = q
      BY <1>2, <2>1, <2>6
    <3> QED
      BY <2>2, <2>4, <2>6, <3>1
  <2> QED
    BY <2>5, <2>6
<1> HIDE DEF Fine
<1>6. N = {}
  <2> SUFFICES ASSUME N # {}  PROVE FALSE
    OBVIOUS
  <2>1. PICK i \in N : \A k \in N : i <= k
    <3>1. N \subseteq Nat
      OBVIOUS
    <3> HIDE DEF N
    <3> QED
      BY <3>1, LeastNatural
  <2>2. i \in 1..n
    BY <1>4, <2>1
  <2>3. i - 1 \notin N /\ i - 1 \in 0..n
    BY <2>1, <2>2
  <2> QED
    BY <1>5, <2>1, <2>2, <2>3
<1>7. Fine(n)
  <2>1. n \in 0..n
    OBVIOUS
  <2> QED
    BY <1>6, <2>1, Zenon
<1>8. ToSet(s) = First(n)
  BY <1>1, Zenon DEF ToSet
<1> QED
  BY <1>2, <1>7, <1>8 DEF Fine

\* Total, summand by summand.
LEMMA TotalSteps ==
    ASSUME NEW n \in Nat, NEW a \in [1..n -> Nat]
    PROVE  \E f \in [0..n -> Nat] :
              f[0] = 0 /\ Total(a, n) = f[n] /\ \A i \in 1..n : f[i] = f[i - 1] + a[i]
<1>1. PICK g : g = [i \in 1..n |-> [q \in Nat |-> q + a[i]]]
  OBVIOUS
<1>2. g \in [1..n -> [Nat -> Nat]]
  <2>1. ASSUME NEW i \in 1..n, NEW q \in Nat PROVE q + a[i] \in Nat
    OBVIOUS
  <2> QED
    BY <1>1, <2>1, Zenon
<1>3. PICK f : Computes(f, n, Nat, 0, g)
  <2>1. 0 \in Nat
    OBVIOUS
  <2> QED
    BY <1>2, <2>1, Recursion
<1>4. f \in [0..n -> Nat] /\ f[0] = 0
  BY <1>3 DEF Computes
<1>5. ASSUME NEW i \in 1..n PROVE f[i] = f[i - 1] + a[i]
  <2>1. f[i - 1] \in Nat
    BY <1>4
  <2>2. f[i] = g[i][f[i - 1]]
    BY <1>3 DEF Computes
  <2> QED
    BY <1>1, <2>1, <2>2
<1>6. f = [t \in 0..n |-> IF t = 0 THEN 0 ELSE f[t - 1] + a[t]]
  <2>1. \A t \in 0..n : t = 0 \/ t \in 1..n
    OBVIOUS
  <2>2. f = [t \in 0..n |-> f[t]]
    BY <1>4
  <2>3. \A t \in 0..n : f[t] = IF t = 0 THEN 0 ELSE f[t - 1] + a[t]
    BY <1>4, <1>5, <2>1, Zenon
  <2> QED
    BY <2>2, <2>3, Zenon
<1>7. PICK h : h = CHOOSE q : q = [t \in 0..n |-> IF t = 0 THEN 0 ELSE q[t - 1] + a[t]]
  OBVIOUS
<1>8. h = [t \in 0..n |-> IF t = 0 THEN 0 ELSE h[t - 1] + a[t]]
  BY <1>6, <1>7, Zenon
<1>9. Total(a, n) = h[n]
  BY <1>7, Zenon DEF Total
<1> DEFINE N == {t \in 0..n : h[t] # f[t]}
<1>10. N = {}
  <2> SUFFICES ASSUME N # {}  PROVE FALSE
    OBVIOUS
  <2>1. PICK t \in N : \A k \in N : t <= k
    <3>1. N \subseteq Nat
      OBVIOUS
    <3> HIDE DEF N
    <3> QED
      BY <3>1, LeastNatural
  <2>2. CASE t = 0
    <3>1. 0 \in 0..n
      OBVIOUS
    <3>2. h[0] = 0
      BY <1>8, <3>1, Zenon
    <3> QED
      BY <1>4, <2>1, <2>2, <3>2
  <2>3. CASE t # 0
    <3>1. t \in 0..n /\ t - 1 \in 0..n /\ t - 1 \notin N
      BY <2>1, <2>3
    <3>2. h[t] = h[t - 1] + a[t]
      BY <1>8, <2>3, <3>1, Zenon
    <3>3. f[t] = f[t - 1] + a[t]
      BY <1>5, <2>3, <3>1
    <3> QED
      BY <2>1, <3>1, <3>2, <3>3
  <2> QED
    BY <2>2, <2>3
<1>11. h[n] = f[n]
  BY <1>10
<1> QED
  BY <1>4, <1>5, <1>9, <1>11

\* Sums of natural numbers, as the proofs below need them.
LEMMA AddUp ==
    /\ \A p, q, x, y \in Nat : p <= q /\ y <= x + 1 => p + y <= q + x + 1
    /\ \A n, r, s, z \in Nat : s <= z /\ n <= r + s => n <= r + z /\ n <= r + z + 0
    /\ \A n, r, s, z \in Nat : s <= z /\ n < r + s => n < r + z
    /\ \A n, r, s \in Nat : \A c : n <= r + s + (IF c THEN 1 ELSE 0) => n <= r + (s + 1) + 0
OBVIOUS

\* One summand more adds at most one.
LEMMA TotalGrows ==
    ASSUME NEW n \in Nat, NEW a \in [1..n -> Nat], NEW b \in [1..n -> Nat], NEW t,
           \A i \in 1..n : b[i] <= IF i = t THEN a[i] + 1 ELSE a[i]
    PROVE  Total(a, n) \in Nat /\ Total(b, n) \in Nat /\ Total(b, n) <= Total(a, n) + 1
<1>1. PICK f \in [0..n -> Nat] : f[0] = 0 /\ Total(a, n) = f[n] /\ \A i \in 1..n : f[i] = f[i - 1] + a[i]
  BY TotalSteps
<1>2. PICK g \in [0..n -> Nat] : g[0] = 0 /\ Total(b, n) = g[n] /\ \A i \in 1..n : g[i] = g[i - 1] + b[i]
  BY TotalSteps
<1> DEFINE Past(i) == \E k \in 1..i : k = t
           Fine(i) == g[i] <= f[i] + 1 /\ (~ Past(i) => g[i] <= f[i])
           N == {i \in 0..n : ~ Fine(i)}
<1>3. Fine(0)
  BY <1>1, <1>2
<1>4. ASSUME NEW i \in 1..n, Fine(i - 1)
      PROVE  Fine(i)
  <2>1. i - 1 \in 0..n /\ i \in 0..n
    OBVIOUS
  <2>2. /\ f[i - 1] \in Nat /\ g[i - 1] \in Nat /\ a[i] \in Nat /\ b[i] \in Nat
        /\ f[i] = f[i - 1] + a[i] /\ g[i] = g[i - 1] + b[i]
    BY <1>1, <1>2, <2>1
  <2>3. Past(i) <=> Past(i - 1) \/ i = t
    <3>1. 1..i = 1..(i - 1) \cup {i}
      OBVIOUS
    <3> QED
      BY <3>1
  <2>4. i = t => ~ Past(i - 1)
    OBVIOUS
  <2>5. b[i] <= IF i = t THEN a[i] + 1 ELSE a[i]
    OBVIOUS
  <2> HIDE DEF Past
  <2>6. PICK f0 \in Nat, g0 \in Nat, x \in Nat, y \in Nat :
            /\ f0 = f[i - 1] /\ g0 = g[i - 1] /\ x = a[i] /\ y = b[i]
            /\ f[i] = f0 + x /\ g[i] = g0 + y
    BY <2>2
  <2>7. g0 <= f0 + 1 /\ (~ Past(i - 1) => g0 <= f0) /\ y <= (IF i = t THEN x + 1 ELSE x)
    BY <1>4, <2>5, <2>6
  <2>8. CASE i = t
    <3>1. g0 <= f0 /\ y <= x + 1 /\ Past(i)
      BY <2>3, <2>4, <2>7, <2>8
    <3>2. g0 + y <= f0 + x + 1
      BY <3>1, AddUp, Zenon
    <3>3. g[i] <= f[i] + 1
      BY <2>6, <3>2, Zenon
    <3> QED
      BY <3>1, <3>3, Zenon
  <2>9. CASE i # t
    <3>1. y <= x
      BY <2>7, <2>9
    <3>2. g0 + y <= f0 + x + 1 /\ (g0 <= f0 => g0 + y <= f0 + x)
      BY <2>7, <3>1
    <3> QED
      BY <2>3, <2>6, <2>7, <2>9, <3>2
  <2> QED
    BY <2>8, <2>9
<1> HIDE DEF Fine
<1>5. N = {}
  <2> SUFFICES ASSUME N # {}  PROVE FALSE
    OBVIOUS
  <2>1. PICK i \in N : \A k \in N : i <= k
    <3>1. N \subseteq Nat
      OBVIOUS
    <3> HIDE DEF N
    <3> QED
      BY <3>1, LeastNatural
  <2>2. i \in 1..n
    BY <1>3, <2>1
  <2>3. i - 1 \notin N /\ i - 1 \in 0..n
    BY <2>1, <2>2
  <2> QED
    BY <1>4, <2>1, <2>2, <2>3
<1>6. Fine(n)
  BY <1>5
<1> QED
  BY <1>1, <1>2, <1>6 DEF Fine

\* A sum of zeroes.
LEMMA TotalOfNothing ==
    ASSUME NEW n \in Nat, NEW a \in [1..n -> Nat], \A i \in 1..n : a[i] = 0
    PROVE  Total(a, n) = 0
<1>1. PICK f \in [0..n -> Nat] : f[0] = 0 /\ Total(a, n) = f[n] /\ \A i \in 1..n : f[i] = f[i - 1] + a[i]
  BY TotalSteps
<1> DEFINE N == {i \in 0..n : f[i] # 0}
<1>2. N = {}
  <2> SUFFICES ASSUME N # {}  PROVE FALSE
    OBVIOUS
  <2>1. PICK i \in N : \A k \in N : i <= k
    <3>1. N \subseteq Nat
      OBVIOUS
    <3> HIDE DEF N
    <3> QED
      BY <3>1, LeastNatural
  <2>2. i \in 1..n
    BY <1>1, <2>1
  <2>3. i - 1 \notin N /\ i - 1 \in 0..n
    BY <2>1, <2>2
  <2> QED
    BY <1>1, <2>1, <2>2, <2>3
<1> QED
  BY <1>1, <1>2

\* A finite set of jobs can be listed.
LEMMA SetToSeqOK ==
    ASSUME NEW S \in SUBSET Ids
    PROVE  IsList(SetToSeq(S)) /\ ToSet(SetToSeq(S)) = S
<1>1. IsFiniteSet(S)
  BY SchedulerAssumption, FS_Subset
<1>2. PICK n \in Nat : ExistsBijection(1..n, S)
  BY <1>1, FS_NatBijection
<1>3. Cardinality(S) = n
  BY <1>2, FS_CountingElements
<1>4. PICK f : f \in [1..n -> S] /\ IsInjective(f)
  BY <1>2 DEF ExistsBijection, Bijection, Injection
<1>5. PICK h : h = SetToSeq(S)
  OBVIOUS
<1>6. h \in [1..n -> S] /\ IsInjective(h)
  BY <1>3, <1>4, <1>5, Zenon DEF SetToSeq
<1>7. h \in Seq(Ids) /\ DOMAIN h = 1..n
  <2>1. h \in [1..n -> Ids]
    BY <1>6
  <2>2. h \in UNION {[1..m -> Ids] : m \in Nat}
    BY <2>1, Zenon
  <2>3. h \in Seq(Ids)
    BY <2>2, SeqDef, Zenon
  <2>4. DOMAIN h = 1..n
    BY <2>1
  <2> QED
    BY <2>3, <2>4
<1>8. ToSet(h) = S
  <2>1. PICK T : T = {h[i] : i \in 1..n}
    OBVIOUS
  <2>2. T \in SUBSET S
    BY <1>6, <2>1
  <2>3. h \in Bijection(1..n, T)
    <3>1. h \in [1..n -> T] /\ \A v \in T : \E i \in 1..n : h[i] = v
      BY <1>6, <2>1
    <3>2. \A i, k \in 1..n : h[i] = h[k] => i = k
      BY <1>6 DEF IsInjective
    <3> QED
      BY <1>6, <3>1, <3>2, Zenon DEF Bijection, Injection, Surjection
  <2>4. ExistsBijection(1..n, T)
    BY <2>3, Zenon DEF ExistsBijection
  <2>5. Cardinality(T) = n
    BY <2>4, FS_CountingElements
  <2>6. T = S
    BY <1>1, <1>3, <2>2, <2>5, FS_Subset
  <2> QED
    BY <1>7, <2>1, <2>6, Zenon DEF ToSet
<1> QED
  BY <1>5, <1>6, <1>7, <1>8 DEF IsList

-----------------------------------------------------------------------------
(* The invariant *)

Places == {"off", "poll", "submit", "count", "serialize", "write"}
InTick == {"count", "serialize", "write"}
Table == [Ids -> Job \cup {Nil}]

\* What the service's own thread is doing: no other one polls.
Where == IF current \in Loops THEN lpc[current] ELSE "off"
Work == IF current \in Loops THEN batch[current] ELSE <<>>
Written == IF current \in Loops THEN snap[current] ELSE Nil

\* A job object whose next run is due at time t; one not due after the next due
\* time; one that may run again.
At(j, t) == j # Nil /\ j.next = t
Soon(id, j) == j # Nil => j.next <= now[id] + 1
MayRun(id, j) == j # Nil /\ j.next # None => j.runs < MaxRuns[id]

\* Entries still to be submitted; entries whose object is in the table; the entry
\* that has been submitted and is not yet saved, or not yet counted.
Unsent(i) == i \in DOMAIN Work /\ (Where = "submit" \/ i > 1)
PendingAt(id, t) == \E i \in DOMAIN Work : Unsent(i) /\ Work[i].id = id /\ Work[i].at = t
CurrentAt(id, t) == \E i \in DOMAIN Work :
    Work[i].id = id /\ Work[i].at = t /\ Work[i].object = "current"
Unsaved(id) == Where \in InTick /\ Work[1].id = id
UnsavedAt(id, t) == Unsaved(id) /\ Work[1].at = t
Uncounted(id) == Where = "count" /\ Work[1].id = id /\ Work[1].object = "current"

TypesOK ==
    /\ jobs \in Table /\ disk \in Table
    /\ IsList(order) /\ ToSet(order) = Present
    /\ lpc \in [Loops -> Places] /\ batch \in [Loops -> Seq(Entry)]
    /\ snap \in [Loops -> Table \cup {Nil}]
    /\ current \in Loops \cup {NoLoop}
    /\ now \in [Ids -> Nat] /\ \A id \in Ids : now[id] <= MaxTime[id]
    /\ DOMAIN answers = Ids /\ \A id \in Ids : answers[id] \in [1..MaxTime[id] -> 0..CountCap]
    /\ gone \subseteq Ids /\ scheduled \in [Ids -> Nat]
    /\ setbacks \in Nat /\ restarts \in Nat
FlagsOK == stop \in BOOLEAN /\ closing \in BOOLEAN

\* Only the service's own thread polls, and other threads have nothing to do.
LoopsOK == \A l \in Loops : IF lpc[l] = "off" THEN batch[l] = <<>> ELSE l = current

\* A batch lists each job once, with a time that has come, and it is empty between
\* two ticks.  Between count and write, the object of its first entry has moved on.
WorkOK ==
    /\ Where \in {"off", "poll"} => Work = <<>>
    /\ Where \in InTick => Work # <<>>
    /\ \A i, k \in DOMAIN Work : Work[i].id = Work[k].id => i = k
    /\ \A i \in DOMAIN Work : /\ Work[i].at <= now[Work[i].id]
                              /\ Work[i].object = "current" => jobs[Work[i].id] # Nil
    /\ Where \in {"serialize", "write"} /\ Work[1].object = "current" =>
          ~ At(jobs[Work[1].id], Work[1].at)
    /\ Where = "write" => Written \in Table
NextsOK == \A id \in Ids : /\ Soon(id, jobs[id]) /\ Soon(id, disk[id])
                           /\ Where = "write" => Soon(id, Written[id])
BaseInv == TypesOK /\ LoopsOK /\ WorkOK /\ NextsOK

\* Submissions of id for the due time t, and those still to come: a place where
\* t is still the next run allows one more, unless it is the entry's own object.
AnsweredOK(id, t) ==
    LET n == answers[id][t] IN
    /\ n > 0 => t <= now[id]
    /\ n <= 1 + setbacks
    /\ PendingAt(id, t) => n <= setbacks
    /\ At(jobs[id], t) /\ ~ CurrentAt(id, t) => n <= setbacks /\ (PendingAt(id, t) => n < setbacks)
    /\ At(disk[id], t) /\ ~ UnsavedAt(id, t) => n <= setbacks
    /\ Where = "write" /\ At(Written[id], t) => n <= setbacks
AnswersOK == \A id \in Ids \ CronMayEnd : \A t \in 1..MaxTime[id] : AnsweredOK(id, t)

\* The same for the runs of a job scheduled once and its max_runs: wherever the
\* job is kept, its count lags behind the submissions by no more than what is
\* in hand and what has been set back.
Unscheduled(id) ==
    /\ Submissions(id) = 0 /\ jobs[id] = Nil /\ disk[id] = Nil
    /\ \A i \in DOMAIN Work : Work[i].id # id
    /\ Where = "write" => Written[id] = Nil
RunsOK(id) ==
    LET n == Submissions(id) IN
    /\ n <= MaxRuns[id] + setbacks
    /\ MayRun(id, jobs[id]) /\ MayRun(id, disk[id])
    /\ jobs[id] # Nil =>
          IF Uncounted(id) THEN n <= jobs[id].runs + setbacks + 1 /\ jobs[id].runs < MaxRuns[id]
          ELSE n <= jobs[id].runs + setbacks
    /\ disk[id] # Nil => n <= disk[id].runs + setbacks + (IF Unsaved(id) THEN 1 ELSE 0)
    /\ \A i \in DOMAIN Work : Unsent(i) /\ Work[i].id = id =>
          /\ n < MaxRuns[id] + setbacks
          /\ IF Work[i].object = "current" THEN jobs[id].runs < MaxRuns[id]
             ELSE jobs[id] # Nil => n < jobs[id].runs + setbacks
    /\ Where = "write" /\ Written[id] # Nil =>
          n <= Written[id].runs + setbacks /\ MayRun(id, Written[id])
CountsOK == \A id \in Ids \ CronMayEnd :
    /\ scheduled[id] = 0 => Unscheduled(id)
    /\ scheduled[id] <= 1 /\ MaxRuns[id] # Unlimited => RunsOK(id)

ScheduleInv == BaseInv /\ FlagsOK /\ AnswersOK /\ CountsOK

\* shutdown's join of the polling thread does not time out.
JoinReturns == ~ JoinTimesOut

-----------------------------------------------------------------------------
(* What the operations do *)

\* The batch c after the objects of the jobs in S have left the table: b.
Detached(b, c, S) ==
    /\ b \in Seq(Entry) /\ Len(b) = Len(c) /\ DOMAIN b = DOMAIN c
    /\ \A i \in DOMAIN c :
          /\ b[i].id = c[i].id /\ b[i].at = c[i].at
          /\ b[i].object = "current" <=> c[i].object = "current" /\ c[i].id \notin S

\* Detach detaches each batch.
LEMMA DetachOK ==
    ASSUME TypesOK, NEW S, NEW how \in {"replaced", "cancelled"}, Detach(S, how)
    PROVE  batch' \in [Loops -> Seq(Entry)] /\ \A l \in Loops : Detached(batch'[l], batch[l], S)
<1>1. ASSUME NEW l \in Loops
      PROVE  batch'[l] \in Seq(Entry) /\ Detached(batch'[l], batch[l], S)
  <2>1. PICK n \in Nat : n = Len(batch[l]) /\ DOMAIN batch[l] = 1..n
    BY DEF TypesOK
  <2>2. \A i \in 1..n : batch[l][i] \in Entry
    BY <2>1 DEF TypesOK
  <2>3. PICK c : c = batch'[l]
    OBVIOUS
  <2>4. c = [i \in 1..n |-> IF batch[l][i].id \in S /\ batch[l][i].object = "current"
                            THEN [batch[l][i] EXCEPT !.object = how] ELSE batch[l][i]]
    BY <2>1, <2>3, Zenon DEF Detach
  <2>5. ASSUME NEW i \in 1..n
        PROVE  /\ c[i] \in Entry
               /\ c[i].id = batch[l][i].id /\ c[i].at = batch[l][i].at
               /\ c[i].object = "current" <=> batch[l][i].object = "current" /\ batch[l][i].id \notin S
    <3>1. batch[l][i] \in Entry
      BY <2>2
    <3>2. c[i] = IF batch[l][i].id \in S /\ batch[l][i].object = "current"
                 THEN [batch[l][i] EXCEPT !.object = how] ELSE batch[l][i]
      BY <2>4, Zenon
    <3> QED
      BY <3>1, <3>2 DEF Entry
  <2>6. c \in [1..n -> Entry]
    BY <2>4, <2>5, Zenon
  <2>7. c \in UNION {[1..m -> Entry] : m \in Nat}
    BY <2>6, Zenon
  <2>8. c \in Seq(Entry)
    BY <2>7, SeqDef, Zenon
  <2>9. DOMAIN c = 1..n /\ Len(c) = n
    BY <2>6, <2>8
  <2> QED
    BY <2>1, <2>3, <2>5, <2>8, <2>9 DEF Detached
<1>2. batch' = [l \in Loops |-> batch'[l]]
  BY Zenon DEF Detach
<1> QED
  BY <1>1, <1>2, Zenon

\* The job of id after an operation that takes the objects of S out of the table:
\* it is gone, new, or read from storage; the others stay, or were cancelled.
JobMoves(id, S) ==
    IF id \in S
    THEN \/ jobs'[id] = Nil
         \/ jobs'[id] = NewJob(id) /\ scheduled'[id] = scheduled[id] + 1
         \/ jobs'[id] = disk[id] /\ setbacks' > setbacks
    ELSE \/ jobs'[id] = jobs[id]
         \/ /\ jobs[id] # Nil /\ jobs'[id] # Nil
            /\ jobs'[id].next = None /\ jobs'[id].runs = jobs[id].runs

\* What storage has is what it had, or the table's job if it is still to run.
SavedMoves(id) ==
    \/ disk'[id] = disk[id] \/ disk'[id] = Nil
    \/ disk'[id] = jobs'[id] /\ jobs'[id] # Nil /\ jobs'[id].next # None

\* An operation on the table, between two steps of the polling thread.
TableStep(S) ==
    /\ UNCHANGED <<lpc, snap, serviceVars, now, answers, restarts>>
    /\ jobs' \in Table /\ disk' \in Table
    /\ IsList(order') /\ ToSet(order') = Present'
    /\ gone' \subseteq Ids
    /\ scheduled' \in [Ids -> Nat] /\ \A id \in Ids : scheduled[id] <= scheduled'[id]
    /\ setbacks' \in Nat /\ setbacks <= setbacks'
    /\ batch' \in [Loops -> Seq(Entry)] /\ \A l \in Loops : Detached(batch'[l], batch[l], S)
    /\ \A id \in Ids : JobMoves(id, S) /\ SavedMoves(id)

\* The next run of a job is a natural number, at most the next due time.
LEMMA NextRunOK ==
    ASSUME SchedulerAssumption, TypesOK, NEW id \in Ids, NEW runs \in 0..CountCap, NEW c \in BOOLEAN
    PROVE  /\ NextRun(id, runs, c) \in {None, now[id] + 1} /\ NextRun(id, runs, c) \in Nat
           /\ MaxRuns[id] # Unlimited /\ NextRun(id, runs, c) # None => runs < MaxRuns[id]
<1>1. now[id] \in Nat /\ MaxRuns[id] \in Nat \cup {-1}
  BY DEF TypesOK, SchedulerAssumption
<1>2. None = 0 /\ Unlimited = -1
  BY DEF None, Unlimited
<1> QED
  BY <1>1, <1>2 DEF NextRun

\* A new job is a job.
LEMMA NewJobOK ==
    ASSUME SchedulerAssumption, TypesOK, NEW id \in Ids
    PROVE  NewJob(id) \in Job /\ NewJob(id).runs = 0 /\ NewJob(id).next = NextRun(id, 0, FALSE)
<1>1. 0 \in 0..CountCap
  BY DEF SchedulerAssumption
<1>2. NextRun(id, 0, FALSE) \in Nat
  BY <1>1, NextRunOK
<1> QED
  BY <1>1, <1>2 DEF NewJob, Job

\* Serialized keeps the jobs of a table that are still to run.
LEMMA SerializedOK ==
    ASSUME NEW table \in Table
    PROVE  /\ Serialized(table) \in Table
           /\ \A id \in Ids : \/ Serialized(table)[id] = Nil
                              \/ Serialized(table)[id] = table[id] /\ table[id] # Nil /\ table[id].next # None
<1>1. PICK s : s = Serialized(table)
  OBVIOUS
<1>2. s = [id \in Ids |-> IF table[id] = Nil THEN Nil
                          ELSE IF table[id].cancelled \/ table[id].next = None THEN Nil
                          ELSE table[id]]
  BY <1>1 DEF Serialized
<1>3. ASSUME NEW id \in Ids
      PROVE  /\ s[id] = Nil \/ (s[id] = table[id] /\ table[id] # Nil /\ table[id].next # None)
             /\ s[id] \in Job \cup {Nil}
  <2>1. table[id] \in Job \cup {Nil}
    BY DEF Table
  <2>2. s[id] = Nil \/ (s[id] = table[id] /\ table[id] # Nil /\ table[id].next # None)
    BY <1>2, Zenon
  <2> QED
    BY <2>1, <2>2
<1>4. s \in Table
  BY <1>2, <1>3, Zenon DEF Table
<1> QED
  BY <1>1, <1>3, <1>4

\* Writing a table to storage.
LEMMA SetOK ==
    ASSUME TypesOK, NEW table \in Table, Set(table)
    PROVE  /\ disk' \in Table /\ setbacks' \in Nat /\ setbacks <= setbacks'
           /\ \/ disk' = table /\ setbacks' = setbacks
              \/ disk' = disk /\ setbacks' = setbacks + 1
BY DEF Set, Setback, TypesOK

\* Scheduling a job.
LEMMA ScheduleJobSteps ==
    ASSUME SchedulerAssumption, TypesOK, NEW id \in Ids, ScheduleJob(id)
    PROVE  TableStep({id})
<1>1. NewJob(id) \in Job
  BY NewJobOK
<1>2. jobs' = [jobs EXCEPT ![id] = NewJob(id)] /\ jobs' \in Table
  BY <1>1 DEF ScheduleJob, TypesOK, Table
<1>3. IsList(order') /\ ToSet(order') = Present'
  <2>1. id \in Present' /\ \A x \in Ids \ {id} : x \in Present' <=> x \in Present
    <3>1. jobs'[id] # Nil
      BY <1>1, <1>2 DEF SchedulerAssumption, TypesOK, Table
    <3>2. \A x \in Ids \ {id} : jobs'[x] = jobs[x]
      BY <1>2 DEF TypesOK, Table
    <3> QED
      BY <3>1, <3>2 DEF Present
  <2>2. Present' = Present \cup {id}
    BY <2>1 DEF Present
  <2>3. CASE jobs[id] = Nil
    <3>1. id \notin ToSet(order)
      BY <2>3 DEF TypesOK, Present
    <3> QED
      BY <2>2, <2>3, <3>1, AppendToList DEF ScheduleJob, TypesOK
  <2>4. CASE jobs[id] # Nil
    BY <2>2, <2>4 DEF ScheduleJob, TypesOK, Present
  <2> QED
    BY <2>3, <2>4
<1>4. /\ scheduled' \in [Ids -> Nat] /\ \A x \in Ids : scheduled[x] <= scheduled'[x]
      /\ scheduled'[id] = scheduled[id] + 1
  <2>1. scheduled' = [scheduled EXCEPT ![id] = @ + 1] /\ scheduled \in [Ids -> Nat]
    BY DEF ScheduleJob, TypesOK
  <2> QED
    BY <2>1
<1>5. /\ Serialized(jobs') \in Table
      /\ \A x \in Ids : \/ Serialized(jobs')[x] = Nil
                        \/ Serialized(jobs')[x] = jobs'[x] /\ jobs'[x] # Nil /\ jobs'[x].next # None
  BY <1>2, SerializedOK
<1>6. /\ disk' \in Table /\ setbacks' \in Nat /\ setbacks <= setbacks'
      /\ disk' = Serialized(jobs') \/ disk' = disk
  BY <1>5, SetOK DEF ScheduleJob
<1>7. \A x \in Ids : SavedMoves(x)
  BY <1>5, <1>6 DEF SavedMoves
<1>8. \A x \in Ids : JobMoves(x, {id})
  BY <1>2, <1>4 DEF JobMoves, TypesOK, Table
<1>9. batch' \in [Loops -> Seq(Entry)] /\ \A l \in Loops : Detached(batch'[l], batch[l], {id})
  BY DetachOK DEF ScheduleJob
<1>10. gone' \subseteq Ids
  BY DEF ScheduleJob, TypesOK
<1> QED
  BY <1>2, <1>3, <1>4, <1>6, <1>7, <1>8, <1>9, <1>10 DEF TableStep, ScheduleJob, serviceVars

\* Unscheduling one.
LEMMA UnscheduleJobSteps ==
    ASSUME SchedulerAssumption, TypesOK, NEW id \in Ids, UnscheduleJob(id)
    PROVE  TableStep({id})
<1>2. jobs' = [jobs EXCEPT ![id] = Nil] /\ jobs' \in Table
  BY DEF UnscheduleJob, TypesOK, Table
<1>3. IsList(order') /\ ToSet(order') = Present'
  <2>1. Present' = Present \cap (Ids \ {id})
    BY <1>2 DEF Present, TypesOK, Table
  <2>2. IsList(order) /\ ToSet(order) = Present /\ order' = Kept(order, Ids \ {id})
    BY DEF UnscheduleJob, TypesOK
  <2> QED
    BY <2>1, <2>2, KeptOK
<1>5. /\ Serialized(jobs') \in Table
      /\ \A x \in Ids : \/ Serialized(jobs')[x] = Nil
                        \/ Serialized(jobs')[x] = jobs'[x] /\ jobs'[x] # Nil /\ jobs'[x].next # None
  BY <1>2, SerializedOK
<1>6. /\ disk' \in Table /\ setbacks' \in Nat /\ setbacks <= setbacks'
      /\ disk' = Serialized(jobs') \/ disk' = disk
  BY <1>5, SetOK DEF UnscheduleJob
<1>7. \A x \in Ids : SavedMoves(x)
  BY <1>5, <1>6 DEF SavedMoves
<1>8. \A x \in Ids : JobMoves(x, {id})
  BY <1>2 DEF JobMoves, TypesOK, Table
<1>9. batch' \in [Loops -> Seq(Entry)] /\ \A l \in Loops : Detached(batch'[l], batch[l], {id})
  BY DetachOK DEF UnscheduleJob
<1>10. /\ gone' \subseteq Ids /\ scheduled' \in [Ids -> Nat]
       /\ \A x \in Ids : scheduled[x] <= scheduled'[x]
  BY DEF UnscheduleJob, TypesOK
<1> QED
  BY <1>2, <1>3, <1>6, <1>7, <1>8, <1>9, <1>10 DEF TableStep, UnscheduleJob, serviceVars

\* A client cancels the object it keeps.
LEMMA CancelJobSteps ==
    ASSUME SchedulerAssumption, TypesOK, NEW id \in Ids, CancelJob(id)
    PROVE  TableStep({})
<1>1. jobs[id] \in Job
  BY DEF CancelJob, TypesOK, Table
<1>2. PICK j : j = [jobs[id] EXCEPT !.cancelled = TRUE, !.next = None]
  OBVIOUS
<1>3. j \in Job /\ j.next = None /\ j.runs = jobs[id].runs
  BY <1>1, <1>2 DEF Job, None
<1>4. jobs' = [jobs EXCEPT ![id] = j]
  BY <1>2 DEF CancelJob, TypesOK, Table
<1>5. jobs' \in Table
  BY <1>3, <1>4 DEF TypesOK, Table
<1>6. jobs'[id] = j /\ jobs[id] # Nil /\ j # Nil /\ \A x \in Ids \ {id} : jobs'[x] = jobs[x]
  BY <1>3, <1>4 DEF CancelJob, SchedulerAssumption, TypesOK, Table
<1>7. Present' = Present
  BY <1>6 DEF Present
<1>8. UNCHANGED <<order, disk, loopVars, serviceVars, now, answers, gone, scheduled, setbacks, restarts>>
  BY DEF CancelJob, historyVars, countVars
<1>9. IsList(order') /\ ToSet(order') = Present'
  BY <1>7, <1>8 DEF TypesOK
<1>10. \A x \in Ids : JobMoves(x, {}) /\ SavedMoves(x)
  BY <1>3, <1>6, <1>8 DEF JobMoves, SavedMoves
<1>11. batch' \in [Loops -> Seq(Entry)] /\ \A l \in Loops : Detached(batch'[l], batch[l], {})
  BY <1>8 DEF TypesOK, Detached, loopVars
<1>12. /\ disk' \in Table /\ setbacks' \in Nat /\ setbacks <= setbacks'
       /\ gone' \subseteq Ids /\ scheduled' \in [Ids -> Nat]
       /\ \A x \in Ids : scheduled[x] <= scheduled'[x]
  BY <1>8 DEF TypesOK
<1> QED
  BY <1>5, <1>8, <1>9, <1>10, <1>11, <1>12 DEF TableStep, serviceVars, loopVars

\* Clearing the table of the jobs that are done.
LEMMA ClearJobsSteps ==
    ASSUME SchedulerAssumption, TypesOK, ClearJobs
    PROVE  \E S \in SUBSET Ids : TableStep(S)
<1>1. PICK done : done = {id \in Present : jobs[id].cancelled \/ jobs[id].next = None}
  OBVIOUS
<1>2. /\ jobs' = [id \in Ids |-> IF id \in done THEN Nil ELSE jobs[id]]
      /\ order' = Kept(order, Ids \ done)
      /\ Set(Serialized(jobs'))
      /\ Detach(done, "cancelled")
      /\ UNCHANGED <<lpc, snap, serviceVars, now, answers, countVars>>
  BY <1>1, Zenon DEF ClearJobs
<1>3. done \subseteq Ids
  BY <1>1 DEF Present
<1>4. \A x \in Ids : jobs'[x] = (IF x \in done THEN Nil ELSE jobs[x]) /\ jobs'[x] \in Job \cup {Nil}
  BY <1>2 DEF TypesOK, Table
<1>5. jobs' \in Table
  BY <1>2, <1>4, Zenon DEF Table
<1>6. IsList(order') /\ ToSet(order') = Present'
  <2>1. Present' = Present \cap (Ids \ done)
    BY <1>4 DEF Present
  <2>2. IsList(order) /\ ToSet(order) = Present /\ order' = Kept(order, Ids \ done)
    BY <1>2 DEF TypesOK
  <2> QED
    BY <2>1, <2>2, KeptOK
<1>7. /\ Serialized(jobs') \in Table
      /\ \A x \in Ids : \/ Serialized(jobs')[x] = Nil
                        \/ Serialized(jobs')[x] = jobs'[x] /\ jobs'[x] # Nil /\ jobs'[x].next # None
  BY <1>5, SerializedOK
<1>8. /\ disk' \in Table /\ setbacks' \in Nat /\ setbacks <= setbacks'
      /\ disk' = Serialized(jobs') \/ disk' = disk
  BY <1>2, <1>7, SetOK
<1>9. \A x \in Ids : SavedMoves(x)
  BY <1>7, <1>8 DEF SavedMoves
<1>10. \A x \in Ids : JobMoves(x, done)
  BY <1>4 DEF JobMoves
<1>11. batch' \in [Loops -> Seq(Entry)] /\ \A l \in Loops : Detached(batch'[l], batch[l], done)
  BY <1>2, DetachOK
<1>12. /\ gone' \subseteq Ids /\ scheduled' \in [Ids -> Nat]
       /\ \A x \in Ids : scheduled[x] <= scheduled'[x]
  BY <1>2 DEF TypesOK, countVars
<1> QED
  BY <1>2, <1>3, <1>5, <1>6, <1>8, <1>9, <1>10, <1>11, <1>12 DEF TableStep, serviceVars, countVars

\* Reading the saved schedule.
LEMMA LoadOK ==
    ASSUME SchedulerAssumption, TypesOK, Load
    PROVE  \E S \in SUBSET Ids :
              /\ jobs' \in Table /\ IsList(order') /\ ToSet(order') = Present'
              /\ batch' \in [Loops -> Seq(Entry)] /\ \A l \in Loops : Detached(batch'[l], batch[l], S)
              /\ \A id \in Ids : jobs'[id] = IF id \in S THEN disk[id] ELSE jobs[id]
<1>1. PICK saved : saved = {id \in Ids : disk[id] # Nil}
  OBVIOUS
<1>2. /\ jobs' = [id \in Ids |-> IF id \in saved THEN disk[id] ELSE jobs[id]]
      /\ order' = order \o SetToSeq(saved \ Present)
      /\ Detach(saved, "replaced")
  BY <1>1, Zenon DEF Load
<1>3. \A x \in Ids : jobs'[x] = (IF x \in saved THEN disk[x] ELSE jobs[x]) /\ jobs'[x] \in Job \cup {Nil}
  BY <1>2 DEF TypesOK, Table
<1>4. jobs' \in Table
  BY <1>2, <1>3, Zenon DEF Table
<1>5. IsList(order') /\ ToSet(order') = Present'
  <2>1. Present' = Present \cup saved
    BY <1>1, <1>3 DEF Present
  <2>2. PICK q : q = SetToSeq(saved \ Present)
    OBVIOUS
  <2>3. IsList(q) /\ ToSet(q) = saved \ Present
    BY <1>1, <2>2, SetToSeqOK
  <2>4. IsList(order) /\ ToSet(order) = Present /\ order' = order \o q
    BY <1>2, <2>2 DEF TypesOK
  <2>5. ToSet(order) \cap ToSet(q) = {}
    BY <2>3, <2>4
  <2>6. IsList(order \o q) /\ ToSet(order \o q) = ToSet(order) \cup ToSet(q)
    BY <2>3, <2>4, <2>5, ConcatOfLists
  <2> QED
    BY <2>1, <2>3, <2>4, <2>6
<1>6. batch' \in [Loops -> Seq(Entry)] /\ \A l \in Loops : Detached(batch'[l], batch[l], saved)
  BY <1>2, DetachOK
<1> QED
  BY <1>1, <1>3, <1>4, <1>5, <1>6

\* Reloading it while the service runs.
LEMMA ReloadSteps ==
    ASSUME SchedulerAssumption, TypesOK, Reload
    PROVE  \E S \in SUBSET Ids : TableStep(S)
<1>1. PICK S \in SUBSET Ids :
          /\ jobs' \in Table /\ IsList(order') /\ ToSet(order') = Present'
          /\ batch' \in [Loops -> Seq(Entry)] /\ \A l \in Loops : Detached(batch'[l], batch[l], S)
          /\ \A id \in Ids : jobs'[id] = IF id \in S THEN disk[id] ELSE jobs[id]
  BY LoadOK DEF Reload
<1>2. setbacks' = setbacks + 1 /\ setbacks \in Nat
  BY DEF Reload, Setback, TypesOK
<1>3. UNCHANGED <<disk, lpc, snap, serviceVars, now, answers, gone, scheduled, restarts>>
  BY DEF Reload, countVars
<1>4. \A id \in Ids : JobMoves(id, S) /\ SavedMoves(id)
  BY <1>1, <1>2, <1>3 DEF JobMoves, SavedMoves
<1>5. /\ disk' \in Table /\ gone' \subseteq Ids /\ scheduled' \in [Ids -> Nat]
      /\ \A x \in Ids : scheduled[x] <= scheduled'[x]
  BY <1>3 DEF TypesOK
<1>6. setbacks' \in Nat /\ setbacks <= setbacks'
  BY <1>2
<1>7. TableStep(S)
  BY <1>1, <1>3, <1>4, <1>5, <1>6 DEF TableStep, serviceVars
<1> QED
  BY <1>7, Zenon

-----------------------------------------------------------------------------
(* The operations on the table keep the invariant *)

\* What the service's own thread has in hand.
LEMMA WorkTypes ==
    ASSUME TypesOK
    PROVE  /\ Where \in Places /\ Work \in Seq(Entry) /\ Written \in Table \cup {Nil}
           /\ Len(Work) \in Nat /\ DOMAIN Work = 1..Len(Work)
           /\ \A i \in DOMAIN Work :
                 Work[i] \in Entry /\ Work[i].id \in Ids /\ Work[i].at \in Nat /\ Work[i].at # None
           /\ Work # <<>> => 1 \in DOMAIN Work
<1>1. Where \in Places
  BY DEF Where, Places, TypesOK
<1>2. Written \in Table \cup {Nil}
  BY DEF Written, TypesOK
<1>3. Work \in Seq(Entry)
  BY DEF Work, TypesOK
<1>4. PICK w \in Seq(Entry) : w = Work
  BY <1>3
<1>5. /\ Len(w) \in Nat /\ DOMAIN w = 1..Len(w) /\ \A i \in DOMAIN w : w[i] \in Entry
      /\ w # <<>> => 1 \in DOMAIN w
  OBVIOUS
<1>6. \A e \in Entry : e.id \in Ids /\ e.at \in Nat /\ e.at # None
  BY DEF Entry, None
<1> QED
  BY <1>1, <1>2, <1>3, <1>4, <1>5, <1>6

\* An operation on the table detaches some of it, and changes nothing else of it.
LEMMA TableView ==
    ASSUME TypesOK, NEW S, TableStep(S)
    PROVE  Where' = Where /\ Written' = Written /\ Detached(Work', Work, S)
<1>1. current' = current /\ lpc' = lpc /\ snap' = snap
  BY DEF TableStep, serviceVars
<1>2. Where' = Where /\ Written' = Written
  BY <1>1 DEF Where, Written
<1>3. CASE current \in Loops
  <2>1. Work = batch[current] /\ Work' = batch'[current]
    BY <1>1, <1>3 DEF Work
  <2>2. Detached(batch'[current], batch[current], S)
    BY <1>3 DEF TableStep
  <2> QED
    BY <1>2, <2>1, <2>2
<1>4. CASE current \notin Loops
  <2>1. Work = <<>> /\ Work' = <<>>
    BY <1>1, <1>4 DEF Work
  <2>2. <<>> \in Seq(Entry) /\ DOMAIN <<>> = {}
    OBVIOUS
  <2>3. Detached(<<>>, <<>>, S)
    BY <2>2, Zenon DEF Detached
  <2> QED
    BY <1>2, <2>1, <2>3
<1> QED
  BY <1>2, <1>3, <1>4

\* The table stays consistent with what is in hand.
LEMMA TableKeepsBase ==
    ASSUME SchedulerAssumption, BaseInv, NEW S, TableStep(S)
    PROVE  BaseInv'
<1> USE DEF BaseInv
<1>1. TypesOK'
  BY DEF TableStep, TypesOK, serviceVars
<1>2. Where' = Where /\ Written' = Written /\ Detached(Work', Work, S)
  BY TableView
<1>3. /\ Where \in Places /\ Work \in Seq(Entry)
      /\ Len(Work) \in Nat /\ DOMAIN Work = 1..Len(Work)
      /\ \A i \in DOMAIN Work :
            Work[i] \in Entry /\ Work[i].id \in Ids /\ Work[i].at \in Nat /\ Work[i].at # None
      /\ Work # <<>> => 1 \in DOMAIN Work
  BY WorkTypes
<1>4. LoopsOK'
  <2>1. ASSUME NEW l \in Loops, lpc[l] = "off" PROVE batch'[l] = <<>>
    <3>1. PICK b \in Seq(Entry) : b = batch'[l]
      BY DEF TableStep, Detached
    <3>2. Len(b) = Len(batch[l]) /\ batch[l] = <<>>
      BY <2>1, <3>1 DEF TableStep, Detached, LoopsOK
    <3>3. b = <<>>
      BY <3>2
    <3> QED
      BY <3>1, <3>3
  <2>2. UNCHANGED <<lpc, current>>
    BY DEF TableStep, serviceVars
  <2> QED
    BY <2>1, <2>2 DEF LoopsOK
<1>5. ASSUME NEW i \in DOMAIN Work
      PROVE  /\ Work'[i].id = Work[i].id /\ Work'[i].at = Work[i].at
             /\ Work'[i].object = "current" =>
                   /\ Work[i].object = "current" /\ Work[i].id \notin S
                   /\ \/ jobs'[Work[i].id] = jobs[Work[i].id]
                      \/ jobs'[Work[i].id] # Nil /\ jobs'[Work[i].id].next = None
  <2>1. /\ Work'[i].id = Work[i].id /\ Work'[i].at = Work[i].at
        /\ Work'[i].object = "current" => Work[i].object = "current" /\ Work[i].id \notin S
    BY <1>2 DEF Detached
  <2>2. JobMoves(Work[i].id, S)
    BY <1>3 DEF TableStep
  <2> QED
    BY <2>1, <2>2 DEF JobMoves
<1>6. DOMAIN Work' = DOMAIN Work /\ (Work' = <<>> <=> Work = <<>>)
  <2>1. PICK a \in Seq(Entry), b \in Seq(Entry) : a = Work /\ b = Work'
    BY <1>2, <1>3 DEF Detached
  <2>2. Len(a) = Len(b) /\ DOMAIN a = DOMAIN b
    BY <1>2, <2>1 DEF Detached
  <2>3. b = <<>> <=> a = <<>>
    BY <2>2
  <2> QED
    BY <2>1, <2>2, <2>3
<1>7. now' = now
  BY DEF TableStep
<1>8. WorkOK'
  <2>1. Where' \in {"off", "poll"} => Work' = <<>>
    BY <1>2, <1>6 DEF WorkOK
  <2>2. Where' \in InTick => Work' # <<>>
    BY <1>2, <1>6 DEF WorkOK
  <2>3. \A i, k \in DOMAIN Work' : Work'[i].id = Work'[k].id => i = k
    BY <1>5, <1>6 DEF WorkOK
  <2>4. \A i \in DOMAIN Work' : /\ Work'[i].at <= now'[Work'[i].id]
                                /\ Work'[i].object = "current" => jobs'[Work'[i].id] # Nil
    <3>1. ASSUME NEW i \in DOMAIN Work
          PROVE  /\ Work'[i].at <= now'[Work'[i].id]
                 /\ Work'[i].object = "current" => jobs'[Work'[i].id] # Nil
      <4>1. Work[i].at <= now[Work[i].id] /\ (Work[i].object = "current" => jobs[Work[i].id] # Nil)
        BY DEF WorkOK
      <4> QED
        BY <1>5, <1>7, <4>1
    <3> QED
      BY <1>6, <3>1
  <2>5. Where' \in {"serialize", "write"} /\ Work'[1].object = "current" =>
            ~ At(jobs'[Work'[1].id], Work'[1].at)
    <3> SUFFICES ASSUME Where \in {"serialize", "write"}, Work'[1].object = "current"
                 PROVE  ~ At(jobs'[Work'[1].id], Work'[1].at)
      BY <1>2
    <3>1. 1 \in DOMAIN Work
      BY <1>3 DEF WorkOK, InTick
    <3>2. /\ Work'[1].id = Work[1].id /\ Work'[1].at = Work[1].at /\ Work[1].object = "current"
          /\ \/ jobs'[Work[1].id] = jobs[Work[1].id]
             \/ jobs'[Work[1].id] # Nil /\ jobs'[Work[1].id].next = None
          /\ Work[1].at # None
      BY <1>3, <1>5, <3>1
    <3>3. ~ At(jobs[Work[1].id], Work[1].at)
      BY <3>2 DEF WorkOK
    <3> QED
      BY <3>2, <3>3 DEF At
  <2>6. Where' = "write" => Written' \in Table
    BY <1>2 DEF WorkOK
  <2> QED
    BY <2>1, <2>2, <2>3, <2>4, <2>5, <2>6 DEF WorkOK
<1>9. NextsOK'
  <2>1. ASSUME NEW id \in Ids
        PROVE  /\ Soon(id, jobs[id])' /\ Soon(id, disk[id])'
               /\ Where' = "write" => Soon(id, Written[id])'
    <3>1. JobMoves(id, S) /\ SavedMoves(id) /\ now[id] \in Nat
      BY DEF TableStep, TypesOK
    <3>2. Soon(id, jobs[id]) /\ Soon(id, disk[id]) /\ (Where = "write" => Soon(id, Written[id]))
      BY DEF NextsOK
    <3>3. NewJob(id).next \in {None, now[id] + 1}
      <4>1. 0 \in 0..CountCap
        BY DEF SchedulerAssumption
      <4> QED
        BY <4>1, NewJobOK, NextRunOK
    <3>4. jobs'[id] # Nil => jobs'[id].next <= now[id] + 1
      BY <3>1, <3>2, <3>3 DEF JobMoves, Soon, None
    <3>5. disk'[id] # Nil => disk'[id].next <= now[id] + 1
      BY <3>1, <3>2, <3>4 DEF SavedMoves, Soon
    <3> QED
      BY <1>2, <1>7, <3>2, <3>4, <3>5 DEF Soon
  <2> QED
    BY <2>1 DEF NextsOK
<1> QED
  BY <1>1, <1>4, <1>8, <1>9

\* An object in hand is still to be submitted, or submitted and not yet saved,
\* and not both.
LEMMA InHand ==
    ASSUME TypesOK, WorkOK, NEW id, NEW t
    PROVE  /\ CurrentAt(id, t) => PendingAt(id, t) \/ UnsavedAt(id, t)
           /\ Unsaved(id) => ~ PendingAt(id, t) /\ \A i \in DOMAIN Work : Unsent(i) => Work[i].id # id
           /\ PendingAt(id, t) => id \in Ids /\ t <= now[id]
<1>1. /\ Where \in Places /\ Len(Work) \in Nat /\ DOMAIN Work = 1..Len(Work)
      /\ Work # <<>> => 1 \in DOMAIN Work
      /\ \A i \in DOMAIN Work : Work[i].id \in Ids
  BY WorkTypes
<1>2. ASSUME NEW i \in DOMAIN Work
      PROVE  Where = "submit" \/ Where \in InTick
  <2>1. Work # <<>>
    BY <1>1
  <2> QED
    BY <1>1, <2>1 DEF WorkOK, Places, InTick
<1>3. \A i \in DOMAIN Work : Unsent(i) \/ (i = 1 /\ Where \in InTick)
  BY <1>1, <1>2 DEF Unsent
<1>4. CurrentAt(id, t) => PendingAt(id, t) \/ UnsavedAt(id, t)
  BY <1>3 DEF CurrentAt, PendingAt, UnsavedAt, Unsaved
<1>5. Where \in InTick => Where # "submit"
  BY DEF InTick
<1>6. ASSUME Unsaved(id), NEW i \in DOMAIN Work, Unsent(i)
      PROVE  Work[i].id # id
  <2>1. i # 1 /\ 1 \in DOMAIN Work
    BY <1>1, <1>5, <1>6 DEF Unsaved, Unsent
  <2> QED
    BY <1>6, <2>1 DEF Unsaved, WorkOK
<1>7. PendingAt(id, t) => id \in Ids /\ t <= now[id]
  BY <1>1 DEF PendingAt, WorkOK
<1> QED
  BY <1>4, <1>6, <1>7 DEF PendingAt

\* An operation on the table leaves what is in hand, less the objects of S.
LEMMA TableInHand ==
    ASSUME BaseInv, NEW S, TableStep(S), NEW id \in Ids
    PROVE  /\ \A t : /\ PendingAt(id, t)' <=> PendingAt(id, t)
                     /\ CurrentAt(id, t)' <=> CurrentAt(id, t) /\ id \notin S
                     /\ UnsavedAt(id, t)' <=> UnsavedAt(id, t)
           /\ Unsaved(id)' <=> Unsaved(id)
           /\ Uncounted(id)' <=> Uncounted(id) /\ id \notin S
<1>1. Where' = Where /\ Detached(Work', Work, S)
  BY TableView DEF BaseInv
<1>2. /\ DOMAIN Work' = DOMAIN Work
      /\ \A i \in DOMAIN Work :
            /\ Work'[i].id = Work[i].id /\ Work'[i].at = Work[i].at
            /\ Work'[i].object = "current" <=> Work[i].object = "current" /\ Work[i].id \notin S
  BY <1>1, Zenon DEF Detached
<1>3. Where \in InTick => 1 \in DOMAIN Work
  BY WorkTypes DEF BaseInv, WorkOK
<1>4. \A i : Unsent(i)' <=> Unsent(i)
  BY <1>1, <1>2 DEF Unsent
<1>5. ASSUME NEW t
      PROVE  /\ PendingAt(id, t)' <=> PendingAt(id, t)
             /\ CurrentAt(id, t)' <=> CurrentAt(id, t) /\ id \notin S
             /\ UnsavedAt(id, t)' <=> UnsavedAt(id, t)
  <2>1. PendingAt(id, t)' <=> PendingAt(id, t)
    BY <1>2, <1>4 DEF PendingAt, Unsent
  <2>2. CurrentAt(id, t)' <=> CurrentAt(id, t) /\ id \notin S
    BY <1>2 DEF CurrentAt
  <2>3. UnsavedAt(id, t)' <=> UnsavedAt(id, t)
    BY <1>1, <1>2, <1>3 DEF UnsavedAt, Unsaved
  <2> QED
    BY <2>1, <2>2, <2>3
<1>6. Unsaved(id)' <=> Unsaved(id)
  BY <1>1, <1>2, <1>3 DEF Unsaved
<1>7. Uncounted(id)' <=> Uncounted(id) /\ id \notin S
  BY <1>1, <1>2, <1>3 DEF Uncounted, InTick
<1> QED
  BY <1>5, <1>6, <1>7

\* The due times stay answered once.
LEMMA TableKeepsAnswers ==
    ASSUME SchedulerAssumption, BaseInv, AnswersOK, NEW S, TableStep(S)
    PROVE  AnswersOK'
<1> SUFFICES ASSUME NEW id \in Ids \ CronMayEnd, NEW t \in 1..MaxTime[id]
             PROVE  AnsweredOK(id, t)'
  BY DEF AnswersOK
<1>1. PICK n : n = answers[id][t]
  OBVIOUS
<1>2. n \in Nat /\ setbacks \in Nat /\ setbacks' \in Nat /\ setbacks <= setbacks'
  <2>1. answers[id] \in [1..MaxTime[id] -> 0..CountCap]
    BY DEF BaseInv, TypesOK
  <2> QED
    BY <1>1, <2>1 DEF TableStep, BaseInv, TypesOK
<1>3. /\ n > 0 => t <= now[id]
      /\ n <= 1 + setbacks
      /\ PendingAt(id, t) => n <= setbacks
      /\ At(jobs[id], t) /\ ~ CurrentAt(id, t) => n <= setbacks /\ (PendingAt(id, t) => n < setbacks)
      /\ At(disk[id], t) /\ ~ UnsavedAt(id, t) => n <= setbacks
      /\ Where = "write" /\ At(Written[id], t) => n <= setbacks
  BY <1>1 DEF AnswersOK, AnsweredOK
<1>4. answers' = answers /\ now' = now /\ Where' = Where /\ Written' = Written
  BY TableView DEF TableStep, BaseInv
<1>5. JobMoves(id, S) /\ SavedMoves(id)
  BY DEF TableStep
<1>6. /\ PendingAt(id, t)' <=> PendingAt(id, t)
      /\ CurrentAt(id, t)' <=> CurrentAt(id, t) /\ id \notin S
      /\ UnsavedAt(id, t)' <=> UnsavedAt(id, t)
  BY TableInHand
<1>7. /\ CurrentAt(id, t) => PendingAt(id, t) \/ UnsavedAt(id, t)
      /\ UnsavedAt(id, t) => ~ PendingAt(id, t)
      /\ PendingAt(id, t) => t <= now[id]
  BY InHand DEF BaseInv, UnsavedAt
<1>8. NewJob(id).next \in {None, now[id] + 1} /\ now[id] \in Nat /\ t \in Nat /\ t # None
  <2>1. 0 \in 0..CountCap
    BY DEF SchedulerAssumption
  <2>2. MaxTime[id] \in Nat
    BY DEF SchedulerAssumption
  <2>3. NewJob(id).next \in {None, now[id] + 1}
    BY <2>1, NewJobOK, NextRunOK DEF BaseInv
  <2> QED
    BY <2>2, <2>3 DEF BaseInv, TypesOK, None
<1>9. At(jobs[id], t)' /\ ~ CurrentAt(id, t)' =>
          n <= setbacks' /\ (PendingAt(id, t)' => n < setbacks')
  <2> SUFFICES ASSUME jobs'[id] # Nil, jobs'[id].next = t, ~ CurrentAt(id, t)'
               PROVE  n <= setbacks' /\ (PendingAt(id, t) => n < setbacks')
    BY <1>6 DEF At
  <2>1. CASE id \notin S
    <3>1. At(jobs[id], t) /\ ~ CurrentAt(id, t)
      BY <1>5, <1>6, <1>8, <2>1 DEF At, JobMoves
    <3> QED
      BY <1>2, <1>3, <3>1
  <2>2. CASE id \in S /\ jobs'[id] = NewJob(id)
    <3>1. ~ PendingAt(id, t) /\ n = 0
      BY <1>2, <1>3, <1>7, <1>8, <2>2
    <3> QED
      BY <1>2, <3>1
  <2>3. CASE id \in S /\ jobs'[id] = disk[id] /\ setbacks' > setbacks
    <3>1. At(disk[id], t)
      BY <2>3 DEF At
    <3> QED
      BY <1>2, <1>3, <1>7, <2>3, <3>1
  <2> QED
    BY <1>5, <2>1, <2>2, <2>3 DEF JobMoves
<1>10. At(disk[id], t)' /\ ~ UnsavedAt(id, t)' => n <= setbacks'
  <2> SUFFICES ASSUME At(disk[id], t)', ~ UnsavedAt(id, t)
               PROVE  n <= setbacks'
    BY <1>6
  <2>1. CASE disk'[id] = disk[id]
    BY <1>2, <1>3, <2>1 DEF At
  <2>2. CASE disk'[id] = jobs'[id]
    <3>1. At(jobs[id], t)'
      BY <2>2 DEF At
    <3> QED
      BY <1>2, <1>3, <1>6, <1>7, <1>9, <3>1
  <2> QED
    BY <1>5, <2>1, <2>2 DEF SavedMoves, At
<1> QED
  BY <1>1, <1>2, <1>3, <1>4, <1>6, <1>9, <1>10 DEF AnsweredOK, At

\* Submissions are counted in natural numbers.
LEMMA SubmissionsOK ==
    ASSUME SchedulerAssumption, TypesOK, NEW id \in Ids
    PROVE  Submissions(id) \in Nat
<1>1. MaxTime[id] \in Nat /\ CountCap \in Nat
  BY DEF SchedulerAssumption
<1>2. answers[id] \in [1..MaxTime[id] -> 0..CountCap]
  BY DEF TypesOK
<1>3. answers[id] \in [1..MaxTime[id] -> Nat]
  BY <1>1, <1>2
<1>4. \A i \in 1..MaxTime[id] : answers[id][i] <= IF i = 0 THEN answers[id][i] + 1 ELSE answers[id][i]
  BY <1>3
<1> QED
  BY <1>1, <1>3, <1>4, TotalGrows DEF Submissions

\* A job in the table or in storage counts its runs.
LEMMA JobTypes ==
    ASSUME SchedulerAssumption, NEW j \in Job \cup {Nil}
    PROVE  j # Nil => j.runs \in Nat /\ j.runs <= CountCap /\ j.next \in Nat /\ j.cancelled \in BOOLEAN
<1>1. ASSUME j \in Job
      PROVE  j.runs \in 0..CountCap /\ j.next \in Nat
  BY <1>1 DEF Job
<1>2. ASSUME j \in Job
      PROVE  j.cancelled \in BOOLEAN
  BY <1>2, Zenon DEF Job
<1> QED
  BY <1>1, <1>2 DEF SchedulerAssumption

\* The run counts stay in step with the submissions.
LEMMA TableKeepsCounts ==
    ASSUME SchedulerAssumption, BaseInv, CountsOK, NEW S, TableStep(S)
    PROVE  CountsOK'
<1> SUFFICES ASSUME NEW id \in Ids \ CronMayEnd
             PROVE  /\ scheduled'[id] = 0 => Unscheduled(id)'
                    /\ scheduled'[id] <= 1 /\ MaxRuns[id] # Unlimited => RunsOK(id)'
  BY DEF CountsOK
<1>1. answers' = answers /\ now' = now /\ Where' = Where /\ Written' = Written
  BY TableView DEF TableStep, BaseInv
<1>2. PICK n \in Nat : n = Submissions(id) /\ Submissions(id)' = n
  BY <1>1, SubmissionsOK DEF BaseInv, Submissions
<1>3. /\ scheduled[id] \in Nat /\ scheduled'[id] \in Nat /\ scheduled[id] <= scheduled'[id]
      /\ setbacks \in Nat /\ setbacks' \in Nat /\ setbacks <= setbacks'
  BY DEF TableStep, BaseInv, TypesOK
<1>4. JobMoves(id, S) /\ SavedMoves(id)
  BY DEF TableStep
<1>5. /\ Unsaved(id)' <=> Unsaved(id)
      /\ Uncounted(id)' <=> Uncounted(id) /\ id \notin S
      /\ Uncounted(id) => Unsaved(id)
  BY TableInHand DEF Uncounted, Unsaved, InTick
<1>6. /\ DOMAIN Work' = DOMAIN Work
      /\ \A i \in DOMAIN Work :
            /\ Work'[i].id = Work[i].id
            /\ Work'[i].object = "current" <=> Work[i].object = "current" /\ Work[i].id \notin S
      /\ \A i : Unsent(i)' <=> Unsent(i)
  <2>1. Detached(Work', Work, S)
    BY TableView DEF BaseInv
  <2> QED
    BY <1>1, <2>1 DEF Detached, Unsent
<1>7. ASSUME scheduled[id] = 0
      PROVE  /\ n = 0 /\ jobs[id] = Nil /\ disk[id] = Nil
             /\ \A i \in DOMAIN Work : Work[i].id # id
             /\ Where = "write" => Written[id] = Nil
             /\ jobs'[id] = Nil \/ (jobs'[id] = NewJob(id) /\ scheduled'[id] = 1)
  <2>1. Unscheduled(id)
    BY <1>7 DEF CountsOK
  <2> QED
    BY <1>2, <1>4, <1>7, <2>1 DEF Unscheduled, JobMoves
<1>8. scheduled'[id] = 0 => Unscheduled(id)'
  BY <1>1, <1>2, <1>3, <1>4, <1>6, <1>7 DEF Unscheduled, SavedMoves
<1>9. ASSUME scheduled'[id] <= 1, MaxRuns[id] # Unlimited
      PROVE  RunsOK(id)'
  <2>1. PICK m \in Nat : m = MaxRuns[id]
    BY <1>9 DEF SchedulerAssumption, Unlimited
  <2>2. RunsOK(id)
    BY <1>3, <1>9 DEF CountsOK
  <2>3. /\ jobs[id] # Nil => jobs[id].runs \in Nat
        /\ disk[id] # Nil => disk[id].runs \in Nat
        /\ jobs'[id] # Nil => jobs'[id].runs \in Nat
        /\ disk'[id] # Nil => disk'[id].runs \in Nat
    BY JobTypes DEF TableStep, BaseInv, TypesOK, Table
  <2>4. ASSUME jobs'[id] = NewJob(id), scheduled'[id] = scheduled[id] + 1
        PROVE  /\ n = 0 /\ scheduled[id] = 0
               /\ jobs'[id].runs = 0 /\ (jobs'[id].next # None => 0 < m)
    <3>1. 0 \in 0..CountCap
      BY DEF SchedulerAssumption
    <3>2. NewJob(id).runs = 0 /\ (NewJob(id).next # None => 0 < m)
      BY <1>9, <2>1, <3>1, NewJobOK, NextRunOK DEF BaseInv
    <3>3. scheduled[id] = 0
      BY <1>3, <1>9, <2>4
    <3> QED
      BY <1>7, <2>4, <3>2, <3>3
  <2>5. MayRun(id, jobs[id])' /\ MayRun(id, disk[id])'
    <3>1. MayRun(id, jobs[id]) /\ MayRun(id, disk[id])
      BY <2>2 DEF RunsOK
    <3>2. MayRun(id, jobs[id])'
      BY <1>4, <2>1, <2>4, <3>1 DEF MayRun, JobMoves
    <3> QED
      BY <1>4, <3>1, <3>2 DEF MayRun, SavedMoves
  <2>6. jobs'[id] # Nil =>
            IF Uncounted(id)' THEN n <= jobs'[id].runs + setbacks' + 1 /\ jobs'[id].runs < m
            ELSE n <= jobs'[id].runs + setbacks'
    <3>1. /\ jobs[id] # Nil =>
                IF Uncounted(id) THEN n <= jobs[id].runs + setbacks + 1 /\ jobs[id].runs < m
                ELSE n <= jobs[id].runs + setbacks
          /\ disk[id] # Nil => n <= disk[id].runs + setbacks + 1
      BY <1>2, <1>3, <2>1, <2>2, <2>3 DEF RunsOK
    <3>2. CASE id \notin S
      <4>1. jobs'[id] # Nil => jobs[id] # Nil /\ jobs'[id].runs = jobs[id].runs
        BY <1>4, <3>2 DEF JobMoves
      <4> QED
        BY <1>3, <1>5, <2>3, <3>1, <3>2, <4>1
    <3>3. CASE id \in S
      <4>1. ~ Uncounted(id)'
        BY <1>5, <3>3
      <4>2. CASE jobs'[id] = NewJob(id) /\ scheduled'[id] = scheduled[id] + 1
        BY <1>3, <2>4, <4>1, <4>2
      <4>3. CASE jobs'[id] = disk[id] /\ setbacks' > setbacks
        BY <1>3, <2>3, <3>1, <4>1, <4>3
      <4> QED
        BY <1>4, <3>3, <4>2, <4>3 DEF JobMoves
    <3> QED
      BY <3>2, <3>3
  <2>7. disk'[id] # Nil => n <= disk'[id].runs + setbacks' + (IF Unsaved(id)' THEN 1 ELSE 0)
    <3>1. disk[id] # Nil => n <= disk[id].runs + setbacks + (IF Unsaved(id) THEN 1 ELSE 0)
      BY <1>2, <2>2 DEF RunsOK
    <3>2. CASE disk'[id] = disk[id]
      BY <1>3, <1>5, <2>3, <3>1, <3>2
    <3>3. CASE disk'[id] = jobs'[id]
      BY <1>3, <1>5, <2>3, <2>6, <3>3
    <3> QED
      BY <1>4, <3>2, <3>3 DEF SavedMoves
  <2>8. ASSUME NEW i \in DOMAIN Work', Unsent(i)', Work'[i].id = id
        PROVE  /\ n < m + setbacks'
               /\ IF Work'[i].object = "current" THEN jobs'[id].runs < m
                  ELSE jobs'[id] # Nil => n < jobs'[id].runs + setbacks'
    <3>1. i \in DOMAIN Work /\ Unsent(i) /\ Work[i].id = id
      BY <1>6, <2>8
    <3>2. /\ n < m + setbacks
          /\ IF Work[i].object = "current" THEN jobs[id].runs < m
             ELSE jobs[id] # Nil => n < jobs[id].runs + setbacks
      BY <1>2, <2>1, <2>2, <3>1 DEF RunsOK
    <3>3. ~ Unsaved(id) /\ scheduled[id] # 0
      BY <1>7, <3>1, InHand DEF BaseInv
    <3>4. disk[id] # Nil => n <= disk[id].runs + setbacks
      BY <1>2, <2>2, <2>3, <3>3, <1>3 DEF RunsOK
    <3>5. Work[i].object = "current" => jobs[id] # Nil
      BY <3>1 DEF BaseInv, WorkOK
    <3>6. CASE id \notin S
      <4>1. jobs'[id] # Nil => jobs[id] # Nil /\ jobs'[id].runs = jobs[id].runs
        BY <1>4, <3>6 DEF JobMoves
      <4>2. jobs[id] # Nil => jobs'[id] # Nil
        BY <1>4, <3>6 DEF JobMoves
      <4> QED
        BY <1>3, <1>6, <2>3, <3>1, <3>2, <3>5, <3>6, <4>1, <4>2
    <3>7. CASE id \in S
      <4>1. Work'[i].object # "current"
        BY <1>6, <3>1, <3>7
      <4>2. jobs'[id] = Nil \/ (jobs'[id] = disk[id] /\ setbacks' > setbacks)
        BY <1>4, <2>4, <3>3, <3>7 DEF JobMoves
      <4> QED
        BY <1>3, <2>3, <3>2, <3>4, <4>1, <4>2
    <3> QED
      BY <3>6, <3>7
  <2>9. /\ Where' = "write" /\ Written'[id] # Nil =>
              n <= Written'[id].runs + setbacks' /\ MayRun(id, Written[id])'
    <3> SUFFICES ASSUME Where = "write", Written[id] # Nil
                 PROVE  n <= Written[id].runs + setbacks' /\ MayRun(id, Written[id])
      BY <1>1 DEF MayRun
    <3>1. n <= Written[id].runs + setbacks /\ MayRun(id, Written[id])
      BY <1>2, <2>2 DEF RunsOK
    <3>2. Written[id].runs \in Nat
      BY JobTypes DEF BaseInv, WorkOK, Table
    <3> QED
      BY <1>3, <3>1, <3>2
  <2>10. n <= m + setbacks'
    BY <1>2, <1>3, <2>1, <2>2 DEF RunsOK
  <2> QED
    BY <1>2, <2>1, <2>5, <2>6, <2>7, <2>8, <2>9, <2>10, Zenon DEF RunsOK
<1> QED
  BY <1>8, <1>9

-----------------------------------------------------------------------------
(* So do the life cycle and the clock *)

\* A step of a service that has nothing in hand, before it and after it.
IdleStep ==
    /\ Work = <<>> /\ Work' = <<>>
    /\ Where \notin InTick /\ Where' \notin InTick
    /\ UNCHANGED <<disk, now, answers, setbacks, scheduled>>
    /\ \A id \in Ids : jobs'[id] = jobs[id] \/ jobs'[id] = disk[id]

\* It keeps what the service has in hand consistent.
LEMMA IdleKeeps ==
    ASSUME SchedulerAssumption, BaseInv, IdleStep
    PROVE  /\ WorkOK' /\ NextsOK'
           /\ AnswersOK => AnswersOK'
           /\ CountsOK => CountsOK'
<1>1. /\ Work = <<>> /\ Work' = <<>> /\ DOMAIN <<>> = {}
      /\ Where \notin InTick /\ Where' \notin InTick
      /\ disk' = disk /\ now' = now /\ answers' = answers /\ setbacks' = setbacks
      /\ scheduled' = scheduled
      /\ \A id \in Ids : jobs'[id] = jobs[id] \/ jobs'[id] = disk[id]
  BY DEF IdleStep
<1>2. Where # "write" /\ Where' # "write"
  BY <1>1 DEF InTick
<1>3. WorkOK'
  BY <1>1 DEF WorkOK, InTick
<1>4. NextsOK'
  BY <1>1, <1>2 DEF BaseInv, NextsOK, Soon
<1>5. \A id, t : /\ ~ PendingAt(id, t)' /\ ~ CurrentAt(id, t)' /\ ~ UnsavedAt(id, t)'
                 /\ ~ CurrentAt(id, t) /\ ~ UnsavedAt(id, t)
  BY <1>1 DEF PendingAt, CurrentAt, UnsavedAt, Unsaved
<1>6. \A id : ~ Uncounted(id)' /\ ~ Unsaved(id)' /\ ~ Uncounted(id) /\ ~ Unsaved(id)
  BY <1>1 DEF Uncounted, Unsaved, InTick
<1>7. ASSUME AnswersOK
      PROVE  AnswersOK'
  <2>1. ASSUME NEW id \in Ids \ CronMayEnd, NEW t \in 1..MaxTime[id]
        PROVE  AnsweredOK(id, t)'
    <3>1. AnsweredOK(id, t)
      BY <1>7 DEF AnswersOK
    <3>2. At(jobs[id], t)' => At(jobs[id], t) \/ At(disk[id], t)
      BY <1>1 DEF At
    <3>3. At(disk[id], t)' <=> At(disk[id], t)
      BY <1>1 DEF At
    <3> QED
      BY <1>1, <1>2, <1>5, <3>1, <3>2, <3>3 DEF AnsweredOK
  <2> QED
    BY <2>1 DEF AnswersOK
<1>8. ASSUME CountsOK
      PROVE  CountsOK'
  <2>1. ASSUME NEW id \in Ids \ CronMayEnd
        PROVE  /\ scheduled'[id] = 0 => Unscheduled(id)'
               /\ scheduled'[id] <= 1 /\ MaxRuns[id] # Unlimited => RunsOK(id)'
    <3>1. PICK n \in Nat : n = Submissions(id) /\ Submissions(id)' = n
      BY <1>1, SubmissionsOK DEF BaseInv, Submissions
    <3>2. ASSUME scheduled[id] = 0
          PROVE  Unscheduled(id)'
      <4>1. Unscheduled(id)
        BY <1>8, <3>2 DEF CountsOK
      <4> QED
        BY <1>1, <1>2, <3>1, <4>1 DEF Unscheduled
    <3>3. ASSUME scheduled[id] <= 1, MaxRuns[id] # Unlimited
          PROVE  RunsOK(id)'
      <4>1. RunsOK(id)
        BY <1>8, <3>3 DEF CountsOK
      <4>2. /\ n <= MaxRuns[id] + setbacks
            /\ MayRun(id, jobs[id]) /\ MayRun(id, disk[id])
            /\ jobs[id] # Nil => n <= jobs[id].runs + setbacks
            /\ disk[id] # Nil => n <= disk[id].runs + setbacks + 0
        BY <1>6, <3>1, <4>1 DEF RunsOK
      <4>3. disk[id] # Nil => n <= disk[id].runs + setbacks
        <5>1. setbacks \in Nat /\ (disk[id] # Nil => disk[id].runs \in Nat)
          BY JobTypes DEF BaseInv, TypesOK, Table
        <5> QED
          BY <4>2, <5>1
      <4>4. MayRun(id, jobs[id])' /\ MayRun(id, disk[id])'
        BY <1>1, <4>2 DEF MayRun
      <4>5. jobs'[id] # Nil => n <= jobs'[id].runs + setbacks'
        BY <1>1, <4>2, <4>3
      <4>6. n <= MaxRuns[id] + setbacks' /\ (disk'[id] # Nil => n <= disk'[id].runs + setbacks' + 0)
        BY <1>1, <4>2
      <4> QED
        BY <1>1, <1>2, <1>6, <3>1, <4>4, <4>5, <4>6, Zenon DEF RunsOK
    <3> QED
      BY <1>1, <3>2, <3>3
  <2> QED
    BY <2>1 DEF CountsOK
<1> QED
  BY <1>3, <1>4, <1>7, <1>8

\* A thread that is not off is the service's own.
LEMMA OwnLoop ==
    ASSUME LoopsOK, NEW l \in Loops, lpc[l] # "off"
    PROVE  l = current /\ Where = lpc[l] /\ Work = batch[l] /\ Written = snap[l]
BY DEF LoopsOK, Where, Work, Written

\* Starting the service.
LEMMA InitializeKeeps ==
    ASSUME SchedulerAssumption, BaseInv, AnswersOK, CountsOK, Initialize
    PROVE  BaseInv' /\ AnswersOK' /\ CountsOK'
<1> USE DEF BaseInv
<1>1. PICK S \in SUBSET Ids :
          /\ jobs' \in Table /\ IsList(order') /\ ToSet(order') = Present'
          /\ batch' \in [Loops -> Seq(Entry)] /\ \A l \in Loops : Detached(batch'[l], batch[l], S)
          /\ \A id \in Ids : jobs'[id] = IF id \in S THEN disk[id] ELSE jobs[id]
  BY LoadOK DEF Initialize
<1>2. PICK l \in Loops : lpc[l] = "off" /\ current' = l /\ lpc' = [lpc EXCEPT ![l] = "poll"]
  BY DEF Initialize, Running
<1>3. UNCHANGED <<disk, snap, now, answers, gone, scheduled, restarts, setbacks>>
  BY DEF Initialize, historyVars, countVars
<1>4. ASSUME NEW k \in Loops
      PROVE  lpc[k] = "off" /\ batch[k] = <<>> /\ batch'[k] = <<>> /\ (k # l => lpc'[k] = "off")
  <2>1. lpc[k] = "off"
    BY DEF Initialize, Running, LoopsOK
  <2>2. PICK b \in Seq(Entry) : b = batch'[k]
    BY <1>1
  <2>3. batch[k] = <<>> /\ Len(b) = Len(batch[k])
    BY <1>1, <2>1, <2>2 DEF LoopsOK, Detached
  <2>4. b = <<>>
    BY <2>3
  <2> QED
    BY <1>2, <2>1, <2>2, <2>3, <2>4 DEF TypesOK
<1>5. Work = <<>> /\ Where = "off"
  BY <1>4 DEF Work, Where
<1>6. Work' = <<>> /\ Where' = "poll"
  BY <1>2, <1>4 DEF Work, Where, TypesOK
<1>7. IdleStep
  BY <1>1, <1>3, <1>5, <1>6 DEF IdleStep, InTick
<1>8. TypesOK'
  <2>1. lpc' \in [Loops -> Places]
    BY <1>2 DEF TypesOK, Places
  <2> QED
    BY <1>1, <1>2, <1>3, <2>1 DEF TypesOK
<1>9. LoopsOK'
  BY <1>2, <1>4 DEF LoopsOK
<1> QED
  BY <1>7, <1>8, <1>9, IdleKeeps

\* Stopping it: once join has returned, the thread has ended.
LEMMA ShutdownDoneKeeps ==
    ASSUME SchedulerAssumption, JoinReturns, BaseInv, AnswersOK, CountsOK, ShutdownDone
    PROVE  BaseInv' /\ AnswersOK' /\ CountsOK'
<1> USE DEF BaseInv
<1>1. /\ current' = NoLoop /\ lpc[current] = "off"
      /\ UNCHANGED <<jobs, order, disk, lpc, batch, snap, now, answers, gone, scheduled, restarts, setbacks>>
  BY DEF ShutdownDone, Running, JoinReturns, tableVars, loopVars, historyVars, countVars
<1>2. \A k \in Loops : lpc[k] = "off" /\ batch[k] = <<>>
  BY <1>1 DEF LoopsOK
<1>3. Work = <<>> /\ Where = "off"
  BY <1>2 DEF Work, Where
<1>4. Work' = <<>> /\ Where' = "off"
  BY <1>1 DEF Work, Where, SchedulerAssumption
<1>5. IdleStep
  BY <1>1, <1>3, <1>4 DEF IdleStep, InTick
<1>6. TypesOK'
  BY <1>1 DEF TypesOK, Present
<1>7. LoopsOK'
  BY <1>1, <1>2 DEF LoopsOK
<1> QED
  BY <1>5, <1>6, <1>7, IdleKeeps

\* The process dies, and whatever was not saved with it.
LEMMA CrashKeeps ==
    ASSUME SchedulerAssumption, BaseInv, AnswersOK, CountsOK, Crash
    PROVE  BaseInv' /\ AnswersOK' /\ CountsOK'
<1> USE DEF BaseInv
<1>1. /\ jobs' = [id \in Ids |-> Nil] /\ order' = <<>>
      /\ lpc' = [l \in Loops |-> "off"] /\ batch' = [l \in Loops |-> <<>>]
      /\ snap' = [l \in Loops |-> Nil] /\ current' = NoLoop
      /\ UNCHANGED <<disk, now, answers, gone, scheduled, restarts>>
      /\ setbacks \in Nat /\ setbacks' = setbacks + 1
  BY DEF Crash, Setback, countVars, TypesOK
<1>2. Work' = <<>> /\ Where' = "off" /\ DOMAIN <<>> = {}
  BY <1>1 DEF Work, Where, SchedulerAssumption
<1>3. TypesOK'
  <2>1. /\ jobs' \in Table /\ lpc' \in [Loops -> Places]
        /\ snap' \in [Loops -> Table \cup {Nil}] /\ Present' = {}
    BY <1>1 DEF Table, Places, Present
  <2>2. batch' \in [Loops -> Seq(Entry)]
    <3>1. <<>> \in Seq(Entry)
      OBVIOUS
    <3> QED
      BY <1>1, <3>1, Zenon
  <2>3. IsList(order') /\ ToSet(order') = {}
    <3>1. <<>> \in Seq(Ids) /\ DOMAIN <<>> = {}
      OBVIOUS
    <3> QED
      BY <1>1, <3>1, Zenon DEF IsList, IsInjective, ToSet
  <2> QED
    BY <1>1, <2>1, <2>2, <2>3 DEF TypesOK
<1>4. LoopsOK'
  BY <1>1 DEF LoopsOK
<1>5. WorkOK'
  BY <1>2 DEF WorkOK, InTick
<1>6. NextsOK'
  BY <1>1, <1>2 DEF NextsOK, Soon
<1>7. \A id, t : ~ PendingAt(id, t)' /\ ~ UnsavedAt(id, t)' /\ ~ Unsaved(id)'
  BY <1>2 DEF PendingAt, UnsavedAt, Unsaved, InTick
<1>8. AnswersOK'
  <2>1. ASSUME NEW id \in Ids \ CronMayEnd, NEW t \in 1..MaxTime[id]
        PROVE  AnsweredOK(id, t)'
    <3>1. AnsweredOK(id, t)
      BY DEF AnswersOK
    <3>2. ~ At(jobs[id], t)'
      BY <1>1 DEF At
    <3>3. answers[id][t] \in Nat
      BY DEF TypesOK, SchedulerAssumption
    <3> QED
      BY <1>1, <1>2, <1>7, <3>1, <3>2, <3>3 DEF AnsweredOK
  <2> QED
    BY <2>1 DEF AnswersOK
<1>9. CountsOK'
  <2>1. ASSUME NEW id \in Ids \ CronMayEnd
        PROVE  /\ scheduled'[id] = 0 => Unscheduled(id)'
               /\ scheduled'[id] <= 1 /\ MaxRuns[id] # Unlimited => RunsOK(id)'
    <3>1. PICK n \in Nat : n = Submissions(id) /\ Submissions(id)' = n
      BY <1>1, SubmissionsOK DEF Submissions
    <3>2. ASSUME scheduled[id] = 0
          PROVE  Unscheduled(id)'
      <4>1. Unscheduled(id)
        BY <3>2 DEF CountsOK
      <4> QED
        BY <1>1, <1>2, <3>1, <4>1 DEF Unscheduled
    <3>3. ASSUME scheduled[id] <= 1, MaxRuns[id] # Unlimited
          PROVE  RunsOK(id)'
      <4>1. RunsOK(id)
        BY <3>3 DEF CountsOK
      <4>2. MaxRuns[id] \in Nat /\ (disk[id] # Nil => disk[id].runs \in Nat)
        BY <3>3, JobTypes DEF TypesOK, Table, SchedulerAssumption, Unlimited
      <4>3. n <= MaxRuns[id] + setbacks' /\ MayRun(id, disk[id])'
        BY <1>1, <3>1, <4>1, <4>2 DEF RunsOK, MayRun
      <4>4. disk'[id] # Nil => n <= disk'[id].runs + setbacks' + 0
        <5>1. disk[id] # Nil => n <= disk[id].runs + setbacks + (IF Unsaved(id) THEN 1 ELSE 0)
          BY <3>1, <4>1 DEF RunsOK
        <5>2. ASSUME disk[id] # Nil
              PROVE  n <= disk[id].runs + (setbacks + 1) + 0
          <6>1. PICK r \in Nat : r = disk[id].runs
            BY <4>2, <5>2
          <6>2. n <= r + setbacks + (IF Unsaved(id) THEN 1 ELSE 0)
            BY <5>1, <5>2, <6>1
          <6>3. setbacks \in Nat
            BY <1>1
          <6>4. n <= r + (setbacks + 1) + 0
            BY <6>2, <6>3, AddUp, Zenon
          <6> QED
            BY <6>1, <6>4
        <5> QED
          BY <1>1, <5>2
      <4>5. jobs'[id] = Nil /\ Where' # "write"
        BY <1>1, <1>2
      <4> QED
        BY <1>2, <1>7, <3>1, <4>3, <4>4, <4>5 DEF RunsOK, MayRun
    <3> QED
      BY <1>1, <3>2, <3>3
  <2> QED
    BY <2>1 DEF CountsOK
<1> QED
  BY <1>3, <1>4, <1>5, <1>6, <1>8, <1>9

\* A step that changes nothing but the clock.
ClockStep ==
    /\ UNCHANGED <<jobs, order, disk, lpc, batch, snap, current, answers, gone, scheduled, setbacks>>
    /\ now' \in [Ids -> Nat] /\ \A id \in Ids : now[id] <= now'[id] /\ now'[id] <= MaxTime[id]
    /\ restarts' \in Nat

\* Time passes.
LEMMA ClockKeeps ==
    ASSUME SchedulerAssumption, BaseInv, ClockStep
    PROVE  /\ BaseInv'
           /\ AnswersOK => AnswersOK'
           /\ CountsOK => CountsOK'
<1> USE DEF BaseInv
<1>1. /\ jobs' = jobs /\ order' = order /\ disk' = disk /\ lpc' = lpc /\ batch' = batch /\ snap' = snap
      /\ current' = current /\ answers' = answers /\ gone' = gone /\ scheduled' = scheduled
      /\ setbacks' = setbacks
      /\ now' \in [Ids -> Nat] /\ \A id \in Ids : now[id] <= now'[id] /\ now'[id] <= MaxTime[id]
  BY DEF ClockStep
<1>2. Where' = Where /\ Work' = Work /\ Written' = Written
  BY <1>1 DEF Where, Work, Written
<1>3. TypesOK'
  BY <1>1 DEF TypesOK, ClockStep, Present
<1>4. LoopsOK'
  BY <1>1 DEF LoopsOK
<1>5. WorkOK'
  <2>1. ASSUME NEW i \in DOMAIN Work
        PROVE  Work[i].at <= now'[Work[i].id]
    <3>1. Work[i].id \in Ids /\ Work[i].at \in Nat /\ Work[i].at <= now[Work[i].id]
      BY WorkTypes DEF WorkOK
    <3>2. now[Work[i].id] \in Nat /\ now'[Work[i].id] \in Nat /\ now[Work[i].id] <= now'[Work[i].id]
      BY <1>1, <3>1 DEF TypesOK
    <3> QED
      BY <3>1, <3>2
  <2> QED
    BY <1>1, <1>2, <2>1 DEF WorkOK, At
<1>6. NextsOK'
  <2>1. ASSUME NEW id \in Ids, NEW j \in Job \cup {Nil}, Soon(id, j)
        PROVE  Soon(id, j)'
    <3>1. now[id] \in Nat /\ now'[id] \in Nat /\ now[id] <= now'[id]
      BY <1>1 DEF TypesOK
    <3> QED
      BY <2>1, <3>1, JobTypes DEF Soon
  <2>2. ASSUME NEW id \in Ids
        PROVE  /\ Soon(id, jobs[id])' /\ Soon(id, disk[id])'
               /\ Where' = "write" => Soon(id, Written[id])'
    <3>1. jobs[id] \in Job \cup {Nil} /\ disk[id] \in Job \cup {Nil} /\ (Where = "write" => Written[id] \in Job \cup {Nil})
      BY DEF TypesOK, WorkOK, Table
    <3> QED
      BY <1>1, <1>2, <2>1, <3>1 DEF NextsOK, Soon
  <2> QED
    BY <2>2 DEF NextsOK
<1>7. \A id, t : /\ PendingAt(id, t)' <=> PendingAt(id, t)
                 /\ CurrentAt(id, t)' <=> CurrentAt(id, t)
                 /\ UnsavedAt(id, t)' <=> UnsavedAt(id, t)
  BY <1>2 DEF PendingAt, CurrentAt, UnsavedAt, Unsaved, Unsent
<1>8. ASSUME AnswersOK
      PROVE  AnswersOK'
  <2>1. ASSUME NEW id \in Ids \ CronMayEnd, NEW t \in 1..MaxTime[id]
        PROVE  AnsweredOK(id, t)'
    <3>1. AnsweredOK(id, t)
      BY <1>8 DEF AnswersOK
    <3>2. t \in Nat /\ now[id] \in Nat /\ now'[id] \in Nat /\ now[id] <= now'[id]
      BY <1>1 DEF TypesOK, SchedulerAssumption
    <3>3. /\ At(jobs[id], t)' <=> At(jobs[id], t)
          /\ At(disk[id], t)' <=> At(disk[id], t)
          /\ At(Written[id], t)' <=> At(Written[id], t)
      BY <1>1, <1>2 DEF At
    <3>4. answers[id][t] > 0 => t <= now'[id]
      BY <3>1, <3>2 DEF AnsweredOK
    <3> QED
      BY <1>1, <1>2, <1>7, <3>1, <3>3, <3>4 DEF AnsweredOK
  <2> QED
    BY <2>1 DEF AnswersOK
<1>9. ASSUME CountsOK
      PROVE  CountsOK'
  <2>1. ASSUME NEW id \in Ids
        PROVE  /\ Submissions(id)' = Submissions(id)
               /\ Uncounted(id)' <=> Uncounted(id)
               /\ Unsaved(id)' <=> Unsaved(id)
               /\ \A i : Unsent(i)' <=> Unsent(i)
               /\ \A j : MayRun(id, j)' <=> MayRun(id, j)
    BY <1>1, <1>2 DEF Submissions, Uncounted, Unsaved, Unsent, MayRun
  <2>2. ASSUME NEW id \in Ids
        PROVE  /\ Unscheduled(id) => Unscheduled(id)'
               /\ RunsOK(id) => RunsOK(id)'
    <3>1. Unscheduled(id) => Unscheduled(id)'
      BY <1>1, <1>2, <2>1 DEF Unscheduled
    <3>2. RunsOK(id) => RunsOK(id)'
      BY <1>1, <1>2 DEF RunsOK, Submissions, Uncounted, Unsaved, Unsent, MayRun
    <3> QED
      BY <3>1, <3>2
  <2> QED
    BY <1>1, <1>9, <2>2 DEF CountsOK
<1> QED
  BY <1>3, <1>4, <1>5, <1>6, <1>8, <1>9

\* The clock, the call of shutdown and steps of others are such steps.
LEMMA ClockSteps ==
    ASSUME SchedulerAssumption, BaseInv,
           Shutdown \/ UNCHANGED vars \/ \E id \in Ids : BecomeDue(id)
    PROVE  ClockStep
<1>1. now \in [Ids -> Nat] /\ restarts \in Nat /\ \A id \in Ids : now[id] <= MaxTime[id]
  BY DEF BaseInv, TypesOK
<1>2. CASE Shutdown
  BY <1>1, <1>2 DEF Shutdown, ClockStep, tableVars, loopVars
<1>3. CASE UNCHANGED vars
  BY <1>1, <1>3 DEF vars, ClockStep, tableVars, loopVars, serviceVars, historyVars, countVars
<1>4. ASSUME NEW id \in Ids, BecomeDue(id)
      PROVE  ClockStep
  <2>1. now' = [now EXCEPT ![id] = @ + 1] /\ now[id] < MaxTime[id]
    BY <1>4 DEF BecomeDue
  <2>2. MaxTime[id] \in Nat
    BY DEF SchedulerAssumption
  <2>3. now' \in [Ids -> Nat] /\ \A x \in Ids : now[x] <= now'[x] /\ now'[x] <= MaxTime[x]
    BY <1>1, <2>1, <2>2
  <2> QED
    BY <1>1, <1>4, <2>3 DEF BecomeDue, ClockStep, tableVars, loopVars, serviceVars, countVars
<1> QED
  BY <1>2, <1>3, <1>4

-----------------------------------------------------------------------------
(* So does the polling thread *)

\* A step of a thread from one position to another.
LEMMA LoopStep ==
    ASSUME BaseInv, NEW l \in Loops, lpc[l] # "off", NEW p \in Places, LoopGoTo(l, p), current' = current,
           batch' \in [Loops -> Seq(Entry)], \A k \in Loops \ {l} : batch'[k] = batch[k],
           p = "off" => batch'[l] = <<>>
    PROVE  /\ l = current /\ Where = lpc[l] /\ Work = batch[l] /\ Written = snap[l]
           /\ Where' = p /\ Work' = batch'[l] /\ Written' = snap'[l]
           /\ LoopsOK' /\ lpc' \in [Loops -> Places]
<1>1. l = current /\ Where = lpc[l] /\ Work = batch[l] /\ Written = snap[l]
  BY OwnLoop DEF BaseInv
<1>2. lpc' = [lpc EXCEPT ![l] = p] /\ lpc \in [Loops -> Places]
  BY DEF LoopGoTo, BaseInv, TypesOK
<1>3. lpc' \in [Loops -> Places] /\ lpc'[l] = p /\ \A k \in Loops \ {l} : lpc'[k] = lpc[k]
  BY <1>2
<1>4. Where' = p /\ Work' = batch'[l] /\ Written' = snap'[l]
  BY <1>1, <1>3 DEF Where, Work, Written
<1>5. LoopsOK'
  BY <1>1, <1>3 DEF LoopsOK, BaseInv
<1> QED
  BY <1>1, <1>3, <1>4, <1>5

\* A tick, or the thread, ends with nothing in hand.
LEMMA EndKeeps ==
    ASSUME SchedulerAssumption, BaseInv, AnswersOK, CountsOK, NEW l \in Loops, LoopEnds(l) \/ TickEnds(l)
    PROVE  BaseInv' /\ AnswersOK' /\ CountsOK'
<1>1. PICK p \in {"off", "poll"} : LoopGoTo(l, p)
  BY DEF LoopEnds, TickEnds
<1>2. /\ lpc[l] \in {"poll", "submit"} /\ (lpc[l] = "submit" => batch[l] = <<>>)
      /\ UNCHANGED <<jobs, order, disk, batch, snap, current, now, answers, gone, scheduled, restarts, setbacks>>
  BY DEF LoopEnds, TickEnds, tableVars, serviceVars, historyVars, countVars
<1>3. l = current /\ Where = lpc[l] /\ Work = batch[l]
  BY <1>2, OwnLoop DEF BaseInv
<1>4. batch[l] = <<>>
  BY <1>2, <1>3 DEF BaseInv, WorkOK
<1>5. /\ Where' = p /\ Work' = batch'[l] /\ LoopsOK' /\ lpc' \in [Loops -> Places]
  <2>1. lpc[l] # "off" /\ p \in Places /\ batch' \in [Loops -> Seq(Entry)]
    BY <1>2 DEF Places, BaseInv, TypesOK
  <2>2. \A k \in Loops \ {l} : batch'[k] = batch[k]
    BY <1>2
  <2> QED
    BY <1>1, <1>2, <1>4, <2>1, <2>2, LoopStep
<1>6. IdleStep
  BY <1>2, <1>3, <1>4, <1>5 DEF IdleStep, InTick
<1>7. TypesOK'
  BY <1>2, <1>5 DEF BaseInv, TypesOK, Present
<1> QED
  BY <1>5, <1>6, <1>7, IdleKeeps DEF BaseInv

\* The entries of a tick.
LEMMA EntriesOK ==
    ASSUME SchedulerAssumption, TypesOK
    PROVE  /\ Entries(DueIds) \in Seq(Entry)
           /\ \A i \in DOMAIN Entries(DueIds) :
                 LET e == Entries(DueIds)[i] IN
                 /\ e.id \in Present /\ e.object = "current" /\ jobs[e.id] # Nil
                 /\ e.at = jobs[e.id].next /\ e.at # None /\ e.at <= now[e.id]
           /\ \A i, k \in DOMAIN Entries(DueIds) :
                 Entries(DueIds)[i].id = Entries(DueIds)[k].id => i = k
<1>1. PICK s : s = DueIds
  OBVIOUS
<1>2. IsList(s) /\ ToSet(s) = Present \cap {id \in Present : Due(id)}
  BY <1>1, KeptOK DEF DueIds, TypesOK
<1>3. PICK n \in Nat : n = Len(s) /\ DOMAIN s = 1..n
  BY <1>2 DEF IsList
<1>4. \A i \in 1..n : s[i] \in Present /\ Due(s[i])
  BY <1>2, <1>3 DEF ToSet
<1>5. PICK b : b = Entries(DueIds)
  OBVIOUS
<1>6. b = [i \in 1..n |-> [id |-> s[i], object |-> "current", runs |-> jobs[s[i]].runs, at |-> jobs[s[i]].next]]
  BY <1>1, <1>3, <1>5, Zenon DEF Entries
<1>7. ASSUME NEW i \in 1..n
      PROVE  /\ b[i] \in Entry /\ b[i].id = s[i] /\ b[i].object = "current"
             /\ s[i] \in Present /\ jobs[s[i]] # Nil
             /\ b[i].at = jobs[s[i]].next /\ jobs[s[i]].next # None /\ jobs[s[i]].next <= now[s[i]]
  <2>1. b[i] = [id |-> s[i], object |-> "current", runs |-> jobs[s[i]].runs, at |-> jobs[s[i]].next]
    BY <1>6
  <2>2. s[i] \in Ids /\ jobs[s[i]] # Nil /\ jobs[s[i]] \in Job
    BY <1>4 DEF Present, TypesOK, Table
  <2>3. jobs[s[i]].runs \in 0..CountCap /\ jobs[s[i]].next \in Nat
    BY <2>2 DEF Job
  <2>4. jobs[s[i]].next # None /\ jobs[s[i]].next <= now[s[i]]
    BY <1>4 DEF Due
  <2>5. b[i] \in Entry
    BY <2>1, <2>2, <2>3, <2>4 DEF Entry, None
  <2> QED
    BY <1>4, <2>1, <2>2, <2>4, <2>5
<1>8. b \in [1..n -> Entry]
  BY <1>6, <1>7, Zenon
<1>9. b \in UNION {[1..m -> Entry] : m \in Nat}
  BY <1>8, Zenon
<1>10. b \in Seq(Entry)
  BY <1>9, SeqDef, Zenon
<1>11. DOMAIN b = 1..n
  BY <1>8
<1>12. \A i, k \in DOMAIN b : b[i].id = b[k].id => i = k
  BY <1>2, <1>3, <1>7, <1>11 DEF IsList, IsInjective
<1> QED
  BY <1>5, <1>7, <1>10, <1>11, <1>12

\* Collecting the due jobs.
LEMMA CollectKeeps ==
    ASSUME SchedulerAssumption, BaseInv, AnswersOK, CountsOK, NEW l \in Loops, Collect(l)
    PROVE  BaseInv' /\ AnswersOK' /\ CountsOK'
<1> USE DEF BaseInv
<1>1. /\ lpc[l] = "poll" /\ batch' = [batch EXCEPT ![l] = Entries(DueIds)] /\ LoopGoTo(l, "submit")
      /\ UNCHANGED <<jobs, order, disk, snap, current, now, answers, gone, scheduled, restarts, setbacks>>
  BY DEF Collect, tableVars, serviceVars, historyVars, countVars
<1>2. PICK b \in Seq(Entry) : b = Entries(DueIds)
  BY EntriesOK
<1>3. /\ \A i \in DOMAIN b :
            /\ b[i].id \in Present /\ b[i].object = "current" /\ jobs[b[i].id] # Nil
            /\ b[i].at = jobs[b[i].id].next /\ b[i].at # None /\ b[i].at <= now[b[i].id]
      /\ \A i, k \in DOMAIN b : b[i].id = b[k].id => i = k
  BY <1>2, EntriesOK
<1>4. /\ batch' \in [Loops -> Seq(Entry)] /\ batch'[l] = b
      /\ \A k \in Loops \ {l} : batch'[k] = batch[k]
  BY <1>1, <1>2 DEF TypesOK
<1>5. /\ Where = "poll" /\ Work = <<>>
      /\ Where' = "submit" /\ Work' = b /\ Written' = Written
      /\ LoopsOK' /\ lpc' \in [Loops -> Places]
  <2>1. "submit" \in Places /\ "submit" # "off"
    BY DEF Places
  <2>2. Where = lpc[l] /\ Where' = "submit" /\ Work' = b /\ Written = snap[l] /\ Written' = snap'[l]
        /\ LoopsOK' /\ lpc' \in [Loops -> Places]
    BY <1>1, <1>4, <2>1, LoopStep
  <2> QED
    BY <1>1, <2>2 DEF WorkOK
<1>6. TypesOK'
  BY <1>1, <1>4, <1>5 DEF TypesOK, Present
<1>7. WorkOK'
  BY <1>1, <1>3, <1>5 DEF WorkOK, InTick
<1>8. NextsOK'
  BY <1>1, <1>5 DEF NextsOK, Soon
<1>9. \A id, t : /\ ~ CurrentAt(id, t) /\ ~ UnsavedAt(id, t)' /\ ~ Unsaved(id) /\ ~ Unsaved(id)'
                 /\ ~ Uncounted(id) /\ ~ Uncounted(id)'
                 /\ PendingAt(id, t)' => CurrentAt(id, t)' /\ At(jobs[id], t)
  <2>1. \A id, t : /\ ~ UnsavedAt(id, t)' /\ ~ Unsaved(id) /\ ~ Unsaved(id)'
                   /\ ~ Uncounted(id) /\ ~ Uncounted(id)'
    BY <1>5 DEF UnsavedAt, Unsaved, Uncounted, InTick
  <2>2. \A id, t : ~ CurrentAt(id, t)
    <3>1. DOMAIN <<>> = {}
      OBVIOUS
    <3> QED
      BY <1>5, <3>1, Zenon DEF CurrentAt
  <2>3. \A id, t : PendingAt(id, t)' => CurrentAt(id, t)' /\ At(jobs[id], t)
    BY <1>3, <1>5 DEF PendingAt, CurrentAt, At
  <2> QED
    BY <2>1, <2>2, <2>3
<1>10. AnswersOK'
  <2>1. ASSUME NEW id \in Ids \ CronMayEnd, NEW t \in 1..MaxTime[id]
        PROVE  AnsweredOK(id, t)'
    <3>1. AnsweredOK(id, t)
      BY DEF AnswersOK
    <3>2. /\ At(jobs[id], t)' <=> At(jobs[id], t)
          /\ At(disk[id], t)' <=> At(disk[id], t)
      BY <1>1 DEF At
    <3>3. At(jobs[id], t) => answers[id][t] <= setbacks
      BY <1>9, <3>1 DEF AnsweredOK
    <3>4. At(disk[id], t) => answers[id][t] <= setbacks
      BY <1>9, <3>1 DEF AnsweredOK, UnsavedAt
    <3> QED
      BY <1>1, <1>5, <1>9, <3>1, <3>2, <3>3, <3>4 DEF AnsweredOK
  <2> QED
    BY <2>1 DEF AnswersOK
<1>11. CountsOK'
  <2>1. ASSUME NEW id \in Ids \ CronMayEnd
        PROVE  /\ scheduled'[id] = 0 => Unscheduled(id)'
               /\ scheduled'[id] <= 1 /\ MaxRuns[id] # Unlimited => RunsOK(id)'
    <3>1. PICK n \in Nat : n = Submissions(id) /\ Submissions(id)' = n
      BY <1>1, SubmissionsOK DEF Submissions
    <3>2. ASSUME scheduled[id] = 0
          PROVE  Unscheduled(id)'
      <4>1. Unscheduled(id)
        BY <3>2 DEF CountsOK
      <4> QED
        BY <1>1, <1>3, <1>5, <3>1, <4>1 DEF Unscheduled
    <3>3. ASSUME scheduled[id] <= 1, MaxRuns[id] # Unlimited
          PROVE  RunsOK(id)'
      <4>1. RunsOK(id)
        BY <3>3 DEF CountsOK
      <4>2. /\ n <= MaxRuns[id] + setbacks
            /\ MayRun(id, jobs[id]) /\ MayRun(id, disk[id])
            /\ jobs[id] # Nil => n <= jobs[id].runs + setbacks
            /\ disk[id] # Nil => n <= disk[id].runs + setbacks + 0
        BY <1>9, <3>1, <4>1 DEF RunsOK
      <4>3. ASSUME NEW i \in DOMAIN b, b[i].id = id
            PROVE  n < MaxRuns[id] + setbacks /\ b[i].object = "current" /\ jobs[id].runs < MaxRuns[id]
        <5>1. b[i].object = "current" /\ jobs[id] # Nil /\ jobs[id].next # None
          BY <1>3, <4>3
        <5>2. jobs[id].runs < MaxRuns[id]
          BY <4>2, <5>1 DEF MayRun
        <5>3. jobs[id].runs \in Nat /\ setbacks \in Nat /\ MaxRuns[id] \in Nat
          BY <3>3, <5>1, JobTypes DEF TypesOK, Table, SchedulerAssumption, Unlimited
        <5> QED
          BY <4>2, <5>1, <5>2, <5>3
      <4> QED
        BY <1>1, <1>5, <1>9, <3>1, <4>2, <4>3 DEF RunsOK, MayRun
    <3> QED
      BY <1>1, <3>2, <3>3
  <2> QED
    BY <2>1 DEF CountsOK
<1> QED
  BY <1>5, <1>6, <1>7, <1>8, <1>10, <1>11

\* Submitting the first job in hand.
LEMMA SubmitKeeps ==
    ASSUME SchedulerAssumption, BaseInv, AnswersOK, CountsOK, NEW l \in Loops, Submit(l)
    PROVE  BaseInv' /\ AnswersOK' /\ CountsOK'
<1> USE DEF BaseInv
<1>1. /\ lpc[l] = "submit" /\ batch[l] # <<>> /\ LoopGoTo(l, "count")
      /\ UNCHANGED <<jobs, order, disk, batch, snap, current, now, gone, scheduled, restarts, setbacks>>
  BY DEF Submit, tableVars, serviceVars, historyVars, countVars
<1>2. /\ Where = "submit" /\ Work # <<>> /\ Work = batch[l]
      /\ Where' = "count" /\ Work' = Work /\ Written' = Written
      /\ LoopsOK' /\ lpc' \in [Loops -> Places]
  <2>1. "count" \in Places /\ "count" # "off" /\ batch' \in [Loops -> Seq(Entry)]
    BY <1>1 DEF Places, TypesOK
  <2>2. \A k \in Loops \ {l} : batch'[k] = batch[k]
    BY <1>1
  <2>3. /\ Where = lpc[l] /\ Work = batch[l] /\ Written = snap[l]
        /\ Where' = "count" /\ Work' = batch'[l] /\ Written' = snap'[l]
        /\ LoopsOK' /\ lpc' \in [Loops -> Places]
    BY <1>1, <2>1, <2>2, LoopStep
  <2> QED
    BY <1>1, <2>3
<1>3. PICK e \in Entry : e = Work[1] /\ e = Head(batch[l]) /\ 1 \in DOMAIN Work
  BY <1>2, WorkTypes
<1>4. /\ e.id \in Ids /\ e.at \in Nat /\ e.at # None /\ e.at <= now[e.id]
      /\ e.at \in 1..MaxTime[e.id]
  <2>1. e.id \in Ids /\ e.at \in Nat /\ e.at # None /\ e.at <= now[e.id]
    BY <1>3, WorkTypes DEF WorkOK
  <2>2. now[e.id] \in Nat /\ now[e.id] <= MaxTime[e.id] /\ MaxTime[e.id] \in Nat
    BY <2>1 DEF TypesOK, SchedulerAssumption
  <2> QED
    BY <2>1, <2>2 DEF None
<1>5. answers' = [answers EXCEPT ![e.id][e.at] = Capped(@ + 1)]
  BY <1>3 DEF Submit
<1>6. ASSUME NEW id \in Ids
      PROVE  /\ answers'[id] \in [1..MaxTime[id] -> 0..CountCap]
             /\ id # e.id => answers'[id] = answers[id]
             /\ \A t \in 1..MaxTime[id] :
                   /\ answers[id][t] \in Nat /\ answers'[id][t] \in Nat
                   /\ answers'[id][t] <= answers[id][t] + 1
                   /\ ~ (id = e.id /\ t = e.at) => answers'[id][t] = answers[id][t]
  <2>1. answers[id] \in [1..MaxTime[id] -> 0..CountCap] /\ DOMAIN answers = Ids /\ CountCap \in Nat
    BY DEF TypesOK, SchedulerAssumption
  <2>2. CASE id # e.id
    <3>1. answers'[id] = answers[id]
      BY <1>5, <2>1, <2>2
    <3> QED
      BY <2>1, <2>2, <3>1
  <2>3. CASE id = e.id
    <3>1. answers'[id] = [answers[id] EXCEPT ![e.at] = Capped(@ + 1)]
      BY <1>4, <1>5, <2>1, <2>3
    <3>2. answers[id][e.at] \in 0..CountCap
      BY <1>4, <2>1, <2>3
    <3>3. Capped(answers[id][e.at] + 1) \in 0..CountCap /\ Capped(answers[id][e.at] + 1) <= answers[id][e.at] + 1
      BY <2>1, <3>2 DEF Capped
    <3>4. answers'[id] \in [1..MaxTime[id] -> 0..CountCap]
      BY <2>1, <3>1, <3>3
    <3>5. ASSUME NEW t \in 1..MaxTime[id]
          PROVE  /\ answers[id][t] \in Nat /\ answers'[id][t] \in Nat
                 /\ answers'[id][t] <= answers[id][t] + 1
                 /\ ~ (id = e.id /\ t = e.at) => answers'[id][t] = answers[id][t]
      <4>1. answers[id][t] \in 0..CountCap /\ answers'[id][t] \in 0..CountCap
        BY <2>1, <3>4
      <4>2. CASE t = e.at
        <5>1. answers'[id][t] = Capped(answers[id][e.at] + 1)
          BY <2>1, <3>1, <4>2
        <5>2. answers'[id][t] <= answers[id][t] + 1
          BY <3>3, <4>2, <5>1
        <5> QED
          BY <2>1, <2>3, <4>1, <4>2, <5>2
      <4>3. CASE t # e.at
        <5>1. answers'[id][t] = answers[id][t]
          BY <2>1, <3>1, <4>3
        <5> QED
          BY <2>1, <4>1, <5>1
      <4> QED
        BY <4>2, <4>3
    <3> QED
      BY <2>3, <3>4, <3>5
  <2> QED
    BY <2>2, <2>3
<1>7. TypesOK'
  <2>1. DOMAIN answers' = Ids
    BY <1>5 DEF TypesOK
  <2> QED
    BY <1>1, <1>2, <1>6, <2>1 DEF TypesOK, Present
<1>8. WorkOK'
  BY <1>1, <1>2 DEF WorkOK, InTick, At
<1>9. NextsOK'
  BY <1>1, <1>2 DEF NextsOK, Soon
<1>10. /\ \A id : Unsaved(id)' <=> id = e.id
       /\ \A id : ~ Unsaved(id) /\ ~ Uncounted(id)
       /\ \A id : Uncounted(id)' <=> id = e.id /\ e.object = "current"
       /\ \A id, t : /\ UnsavedAt(id, t)' <=> id = e.id /\ t = e.at
                     /\ ~ UnsavedAt(id, t)
                     /\ CurrentAt(id, t)' <=> CurrentAt(id, t)
  BY <1>2, <1>3 DEF Unsaved, Uncounted, UnsavedAt, CurrentAt, InTick
<1>11. /\ \A i : i \in DOMAIN Work => Unsent(i)
       /\ \A i \in DOMAIN Work : Unsent(i)' => i # 1 /\ Work[i].id # e.id
       /\ \A i : Unsent(i)' => i \in DOMAIN Work
  BY <1>2, <1>3 DEF Unsent, WorkOK
<1>12. \A id, t : /\ PendingAt(id, t)' => PendingAt(id, t) /\ id # e.id
                  /\ PendingAt(e.id, e.at)
  BY <1>2, <1>3, <1>11 DEF PendingAt
<1>13. AnswersOK'
  <2>1. ASSUME NEW id \in Ids \ CronMayEnd, NEW t \in 1..MaxTime[id]
        PROVE  AnsweredOK(id, t)'
    <3>1. AnsweredOK(id, t)
      BY DEF AnswersOK
    <3>2. /\ At(jobs[id], t)' <=> At(jobs[id], t)
          /\ At(disk[id], t)' <=> At(disk[id], t)
      BY <1>1 DEF At
    <3>3. setbacks \in Nat /\ answers[id][t] \in Nat /\ answers'[id][t] \in Nat
      BY <1>6 DEF TypesOK
    <3>4. CASE id = e.id /\ t = e.at
      <4>1. answers'[id][t] <= answers[id][t] + 1
        BY <1>6
      <4>2. PendingAt(id, t) /\ ~ PendingAt(id, t)' /\ UnsavedAt(id, t)' /\ t <= now'[id]
        BY <1>1, <1>4, <1>10, <1>12, <3>4
      <4>3. CurrentAt(id, t)' <=> CurrentAt(id, t)
        BY <1>10
      <4>4. /\ answers[id][t] <= setbacks
            /\ At(jobs[id], t) /\ ~ CurrentAt(id, t) => answers[id][t] < setbacks
        BY <3>1, <4>2 DEF AnsweredOK
      <4>5. /\ answers'[id][t] <= 1 + setbacks
            /\ At(jobs[id], t) /\ ~ CurrentAt(id, t) => answers'[id][t] <= setbacks
        BY <3>3, <4>1, <4>4
      <4> QED
        BY <1>1, <1>2, <3>2, <4>2, <4>3, <4>5 DEF AnsweredOK
    <3>5. CASE ~ (id = e.id /\ t = e.at)
      <4>1. answers'[id][t] = answers[id][t]
        BY <1>6, <3>5
      <4>2. /\ PendingAt(id, t)' => PendingAt(id, t)
            /\ CurrentAt(id, t)' <=> CurrentAt(id, t)
            /\ ~ UnsavedAt(id, t) /\ ~ UnsavedAt(id, t)'
        BY <1>10, <1>12, <3>5
      <4> QED
        BY <1>1, <1>2, <3>1, <3>2, <4>1, <4>2 DEF AnsweredOK
    <3> QED
      BY <3>4, <3>5
  <2> QED
    BY <2>1 DEF AnswersOK
<1>14. ASSUME NEW id \in Ids
       PROVE  /\ Submissions(id) \in Nat /\ Submissions(id)' \in Nat
              /\ Submissions(id)' <= Submissions(id) + 1
              /\ id # e.id => Submissions(id)' = Submissions(id)
  <2>1. MaxTime[id] \in Nat /\ answers[id] \in [1..MaxTime[id] -> Nat] /\ answers'[id] \in [1..MaxTime[id] -> Nat]
    <3>1. MaxTime[id] \in Nat
      BY DEF SchedulerAssumption
    <3>2. answers[id] \in [1..MaxTime[id] -> 0..CountCap] /\ answers'[id] \in [1..MaxTime[id] -> 0..CountCap]
      BY <1>6 DEF TypesOK
    <3>3. CountCap \in Nat
      BY DEF SchedulerAssumption
    <3> QED
      BY <3>1, <3>2, <3>3
  <2>2. \A i \in 1..MaxTime[id] : answers'[id][i] <= IF i = e.at THEN answers[id][i] + 1 ELSE answers[id][i]
    BY <1>6
  <2>3. /\ Total(answers[id], MaxTime[id]) \in Nat /\ Total(answers'[id], MaxTime[id]) \in Nat
        /\ Total(answers'[id], MaxTime[id]) <= Total(answers[id], MaxTime[id]) + 1
    BY <2>1, <2>2, TotalGrows
  <2> QED
    BY <1>6, <2>3 DEF Submissions
<1>15. CountsOK'
  <2>1. ASSUME NEW id \in Ids \ CronMayEnd
        PROVE  /\ scheduled'[id] = 0 => Unscheduled(id)'
               /\ scheduled'[id] <= 1 /\ MaxRuns[id] # Unlimited => RunsOK(id)'
    <3>1. ASSUME scheduled[id] = 0
          PROVE  Unscheduled(id)'
      <4>1. Unscheduled(id)
        BY <3>1 DEF CountsOK
      <4>2. id # e.id
        BY <1>3, <4>1 DEF Unscheduled
      <4> QED
        BY <1>1, <1>2, <1>14, <4>1, <4>2 DEF Unscheduled
    <3>2. ASSUME scheduled[id] <= 1, MaxRuns[id] # Unlimited
          PROVE  RunsOK(id)'
      <4>1. RunsOK(id)
        BY <3>2 DEF CountsOK
      <4>2. PICK n \in Nat, n1 \in Nat : n = Submissions(id) /\ n1 = Submissions(id)' /\ n1 <= n + 1
        BY <1>14
      <4>3. /\ MaxRuns[id] \in Nat /\ setbacks \in Nat
            /\ jobs[id] # Nil => jobs[id].runs \in Nat
            /\ disk[id] # Nil => disk[id].runs \in Nat
        BY <3>2, JobTypes DEF TypesOK, Table, SchedulerAssumption, Unlimited
      <4>4. /\ n <= MaxRuns[id] + setbacks
            /\ MayRun(id, jobs[id]) /\ MayRun(id, disk[id])
            /\ jobs[id] # Nil => n <= jobs[id].runs + setbacks
            /\ disk[id] # Nil => n <= disk[id].runs + setbacks + 0
            /\ \A i \in DOMAIN Work : Work[i].id = id =>
                  /\ n < MaxRuns[id] + setbacks
                  /\ IF Work[i].object = "current" THEN jobs[id].runs < MaxRuns[id]
                     ELSE jobs[id] # Nil => n < jobs[id].runs + setbacks
        BY <1>10, <1>11, <4>1, <4>2 DEF RunsOK
      <4>5. CASE id = e.id
        <5>1. /\ n < MaxRuns[id] + setbacks
              /\ IF e.object = "current" THEN jobs[id].runs < MaxRuns[id]
                 ELSE jobs[id] # Nil => n < jobs[id].runs + setbacks
          BY <1>3, <4>4, <4>5
        <5>2. /\ n1 <= MaxRuns[id] + setbacks
              /\ jobs[id] # Nil =>
                    IF e.object = "current" THEN n1 <= jobs[id].runs + setbacks + 1 /\ jobs[id].runs < MaxRuns[id]
                    ELSE n1 <= jobs[id].runs + setbacks
              /\ disk[id] # Nil => n1 <= disk[id].runs + setbacks + 1
          BY <4>2, <4>3, <4>4, <5>1
        <5>3. Uncounted(id)' <=> e.object = "current"
          BY <1>10, <4>5
        <5>4. Unsaved(id)' /\ \A i \in DOMAIN Work' : ~ (Unsent(i)' /\ Work'[i].id = id)
          BY <1>2, <1>10, <1>11, <4>5
        <5>5. Where' # "write" /\ MayRun(id, jobs[id])' /\ MayRun(id, disk[id])'
          BY <1>1, <1>2, <4>4 DEF MayRun
        <5>6. jobs'[id] = jobs[id] /\ disk'[id] = disk[id] /\ setbacks' = setbacks
          BY <1>1
        <5> QED
          BY <4>2, <5>2, <5>3, <5>4, <5>5, <5>6 DEF RunsOK
      <4>6. CASE id # e.id
        <5>1. ~ Uncounted(id)' /\ ~ Unsaved(id)' /\ Submissions(id)' = n
          BY <1>10, <1>14, <4>2, <4>6
        <5>2. Where' # "write" /\ MayRun(id, jobs[id])' /\ MayRun(id, disk[id])'
          BY <1>1, <1>2, <4>4 DEF MayRun
        <5> QED
          BY <1>1, <1>2, <4>4, <5>1, <5>2 DEF RunsOK
      <4> QED
        BY <4>5, <4>6
    <3> QED
      BY <1>1, <3>1, <3>2
  <2> QED
    BY <2>1 DEF CountsOK
<1> QED
  BY <1>2, <1>7, <1>8, <1>9, <1>13, <1>15

\* The job whose run is counted.
LEMMA CountedOK ==
    ASSUME SchedulerAssumption, TypesOK, NEW e \in Entry, e.object = "current", jobs[e.id] # Nil
    PROVE  /\ jobs[e.id] \in Job
           /\ RunsOf(e) \in 0..CountCap /\ RunsOf(e) = Capped(jobs[e.id].runs + 1)
           /\ NextOf(e) \in {None, now[e.id] + 1} /\ NextOf(e) \in Nat
           /\ MaxRuns[e.id] # Unlimited /\ NextOf(e) # None => RunsOf(e) < MaxRuns[e.id]
<1>1. e.id \in Ids
  BY DEF Entry
<1>2. jobs[e.id] \in Job
  BY <1>1 DEF TypesOK, Table
<1>3. jobs[e.id].runs \in 0..CountCap /\ CountCap \in Nat
  BY <1>2 DEF Job, SchedulerAssumption
<1>4. RunsOf(e) = Capped(jobs[e.id].runs + 1)
  BY DEF RunsOf
<1>5. Capped(jobs[e.id].runs + 1) \in 0..CountCap
  BY <1>3 DEF Capped
<1>6. CancelledOf(e) \in BOOLEAN
  BY Zenon DEF CancelledOf
<1>7. NextOf(e) = NextRun(e.id, RunsOf(e), CancelledOf(e))
  BY DEF NextOf
<1>8. RunsOf(e) \in 0..CountCap
  BY <1>4, <1>5
<1> QED
  BY <1>1, <1>2, <1>4, <1>6, <1>7, <1>8, NextRunOK

\* Its run count and next run.
LEMMA CountKeeps ==
    ASSUME SchedulerAssumption, BaseInv, AnswersOK, CountsOK, NEW l \in Loops, Count(l)
    PROVE  BaseInv' /\ AnswersOK' /\ CountsOK'
<1> USE DEF BaseInv
<1>1. /\ lpc[l] = "count" /\ LoopGoTo(l, "serialize")
      /\ UNCHANGED <<order, disk, batch, snap, current, now, answers, gone, scheduled, restarts, setbacks>>
  BY DEF Count, serviceVars, historyVars, countVars
<1>2. /\ Where = "count" /\ Work = batch[l]
      /\ Where' = "serialize" /\ Work' = Work /\ Written' = Written
      /\ LoopsOK' /\ lpc' \in [Loops -> Places]
  <2>1. "serialize" \in Places /\ "serialize" # "off" /\ batch' \in [Loops -> Seq(Entry)]
    BY <1>1 DEF Places, TypesOK
  <2>2. \A k \in Loops \ {l} : batch'[k] = batch[k]
    BY <1>1
  <2>3. /\ Where = lpc[l] /\ Work = batch[l] /\ Written = snap[l]
        /\ Where' = "serialize" /\ Work' = batch'[l] /\ Written' = snap'[l]
        /\ LoopsOK' /\ lpc' \in [Loops -> Places]
    BY <1>1, <2>1, <2>2, LoopStep
  <2> QED
    BY <1>1, <2>3
<1>3. PICK e \in Entry : e = Work[1] /\ e = Head(batch[l]) /\ 1 \in DOMAIN Work
  <2>1. Work # <<>>
    BY <1>2 DEF WorkOK, InTick
  <2> QED
    BY <1>2, <2>1, WorkTypes
<1>4. /\ e.id \in Ids /\ e.at \in Nat /\ e.at # None /\ e.at <= now[e.id] /\ now[e.id] \in Nat
      /\ e.object = "current" => jobs[e.id] # Nil
  <2>1. e.id \in Ids /\ e.at \in Nat /\ e.at # None /\ e.at <= now[e.id]
        /\ (e.object = "current" => jobs[e.id] # Nil)
    BY <1>3, WorkTypes DEF WorkOK
  <2> QED
    BY <2>1 DEF TypesOK
<1>5. /\ e.object # "current" => jobs' = jobs
      /\ \A id \in Ids \ {e.id} : jobs'[id] = jobs[id]
      /\ jobs' \in Table /\ Present' = Present
      /\ e.object = "current" =>
            /\ jobs'[e.id] # Nil /\ jobs[e.id] # Nil
            /\ jobs'[e.id].runs = Capped(jobs[e.id].runs + 1)
            /\ jobs'[e.id].next \in {None, now[e.id] + 1}
            /\ MaxRuns[e.id] # Unlimited => MayRun(e.id, jobs'[e.id])
  <2>1. CASE e.object # "current"
    <3>1. jobs' = jobs
      BY <1>3, <2>1 DEF Count
    <3> QED
      BY <2>1, <3>1 DEF Present, TypesOK
  <2>2. CASE e.object = "current"
    <3>1. /\ jobs[e.id] \in Job
          /\ RunsOf(e) \in 0..CountCap /\ RunsOf(e) = Capped(jobs[e.id].runs + 1)
          /\ NextOf(e) \in {None, now[e.id] + 1} /\ NextOf(e) \in Nat
          /\ MaxRuns[e.id] # Unlimited /\ NextOf(e) # None => RunsOf(e) < MaxRuns[e.id]
      BY <1>4, <2>2, CountedOK
    <3>2. PICK j : j = [jobs[e.id] EXCEPT !.runs = RunsOf(e), !.next = NextOf(e)]
      OBVIOUS
    <3>3. j \in Job /\ j.runs = RunsOf(e) /\ j.next = NextOf(e)
      BY <3>1, <3>2 DEF Job
    <3>4. jobs' = [jobs EXCEPT ![e.id] = j]
      BY <1>3, <1>4, <2>2, <3>2 DEF Count, TypesOK, Table
    <3>5. jobs' \in Table /\ jobs'[e.id] = j /\ \A id \in Ids \ {e.id} : jobs'[id] = jobs[id]
      BY <1>4, <3>3, <3>4 DEF TypesOK, Table
    <3>6. j # Nil /\ jobs[e.id] # Nil
      BY <3>1, <3>3 DEF SchedulerAssumption
    <3>7. Present' = Present
      BY <3>5, <3>6 DEF Present
    <3> QED
      BY <2>2, <3>1, <3>3, <3>5, <3>6, <3>7 DEF MayRun
  <2> QED
    BY <2>1, <2>2
<1>6. TypesOK'
  BY <1>1, <1>2, <1>5 DEF TypesOK
<1>7. WorkOK'
  <2>1. \A i \in DOMAIN Work : Work[i].object = "current" => jobs'[Work[i].id] # Nil
    <3>1. ASSUME NEW i \in DOMAIN Work, Work[i].object = "current"
          PROVE  jobs'[Work[i].id] # Nil
      <4>1. Work[i].id \in Ids /\ jobs[Work[i].id] # Nil
        BY <3>1, WorkTypes DEF WorkOK
      <4> QED
        BY <1>5, <4>1 DEF Present
    <3> QED
      BY <3>1
  <2>2. e.object = "current" => ~ At(jobs'[e.id], e.at)
    BY <1>4, <1>5 DEF At
  <2> QED
    BY <1>1, <1>2, <1>3, <2>1, <2>2 DEF WorkOK, InTick, At
<1>8. NextsOK'
  <2>1. ASSUME NEW id \in Ids
        PROVE  /\ Soon(id, jobs[id])' /\ Soon(id, disk[id])'
               /\ Where' = "write" => Soon(id, Written[id])'
    <3>1. Soon(id, jobs[id]) /\ Soon(id, disk[id])
      BY DEF NextsOK
    <3>2. Soon(id, jobs[id])'
      BY <1>1, <1>4, <1>5, <3>1 DEF Soon, None
    <3> QED
      BY <1>1, <1>2, <3>1, <3>2 DEF Soon
  <2> QED
    BY <2>1 DEF NextsOK
<1>9. /\ \A id, t : /\ PendingAt(id, t)' <=> PendingAt(id, t)
                    /\ CurrentAt(id, t)' <=> CurrentAt(id, t)
                    /\ UnsavedAt(id, t)' <=> UnsavedAt(id, t)
      /\ \A id : Unsaved(id)' <=> Unsaved(id)
      /\ \A id : Uncounted(id) <=> id = e.id /\ e.object = "current"
      /\ \A id : ~ Uncounted(id)'
      /\ \A i : Unsent(i)' <=> Unsent(i)
  BY <1>2, <1>3 DEF PendingAt, CurrentAt, UnsavedAt, Unsaved, Unsent, Uncounted, InTick
<1>10. Unsaved(e.id) /\ \A t : ~ PendingAt(e.id, t)
  <2>1. Unsaved(e.id)
    BY <1>2, <1>3 DEF Unsaved, InTick
  <2> QED
    BY <2>1, InHand
<1>11. AnswersOK'
  <2>1. ASSUME NEW id \in Ids \ CronMayEnd, NEW t \in 1..MaxTime[id]
        PROVE  AnsweredOK(id, t)'
    <3>1. AnsweredOK(id, t)
      BY DEF AnswersOK
    <3>2. At(disk[id], t)' <=> At(disk[id], t)
      BY <1>1 DEF At
    <3>3. Where' # "write"
      BY <1>2
    <3>4. CASE jobs'[id] = jobs[id]
      <4>1. At(jobs[id], t)' <=> At(jobs[id], t)
        BY <3>4 DEF At
      <4> QED
        BY <1>1, <1>9, <3>1, <3>2, <3>3, <4>1 DEF AnsweredOK
    <3>5. CASE jobs'[id] # jobs[id]
      <4>1. id = e.id /\ e.object = "current"
        BY <1>5, <3>5
      <4>2. At(jobs[id], t)' => answers[id][t] <= setbacks
        <5> SUFFICES ASSUME At(jobs[id], t)'  PROVE answers[id][t] <= setbacks
          OBVIOUS
        <5>1. t \in Nat /\ t # None /\ answers[id][t] \in Nat /\ setbacks \in Nat
          BY DEF TypesOK, SchedulerAssumption, None
        <5>2. t = now[id] + 1 /\ now[id] \in Nat
          BY <1>4, <1>5, <4>1, <5>1 DEF At
        <5>3. answers[id][t] > 0 => t <= now[id]
          BY <3>1 DEF AnsweredOK
        <5> QED
          BY <5>1, <5>2, <5>3
      <4>3. ~ PendingAt(id, t)
        BY <1>10, <4>1
      <4> QED
        BY <1>1, <1>9, <3>1, <3>2, <3>3, <4>2, <4>3 DEF AnsweredOK
    <3> QED
      BY <3>4, <3>5
  <2> QED
    BY <2>1 DEF AnswersOK
<1>12. CountsOK'
  <2>1. ASSUME NEW id \in Ids \ CronMayEnd
        PROVE  /\ scheduled'[id] = 0 => Unscheduled(id)'
               /\ scheduled'[id] <= 1 /\ MaxRuns[id] # Unlimited => RunsOK(id)'
    <3>1. PICK n \in Nat : n = Submissions(id) /\ Submissions(id)' = n
      BY <1>1, SubmissionsOK DEF Submissions
    <3>2. ASSUME scheduled[id] = 0
          PROVE  Unscheduled(id)'
      <4>1. Unscheduled(id)
        BY <3>2 DEF CountsOK
      <4>2. id # e.id
        BY <1>3, <4>1 DEF Unscheduled
      <4> QED
        BY <1>1, <1>2, <1>5, <3>1, <4>1, <4>2 DEF Unscheduled
    <3>3. ASSUME scheduled[id] <= 1, MaxRuns[id] # Unlimited
          PROVE  RunsOK(id)'
      <4>1. RunsOK(id)
        BY <3>3 DEF CountsOK
      <4>2. Where' # "write"
        BY <1>2
      <4>3. CASE id # e.id \/ e.object # "current"
        <5>1. jobs'[id] = jobs[id] /\ ~ Uncounted(id)
          BY <1>5, <1>9, <4>3
        <5> QED
          BY <1>1, <1>2, <1>9, <3>1, <4>1, <4>2, <5>1 DEF RunsOK, MayRun
      <4>4. CASE id = e.id /\ e.object = "current"
        <5>1. n <= jobs[id].runs + setbacks + 1 /\ jobs[id].runs < MaxRuns[id]
          BY <1>4, <1>9, <3>1, <4>1, <4>4 DEF RunsOK
        <5>2. /\ jobs[id].runs \in Nat /\ setbacks \in Nat /\ CountCap \in Nat
              /\ MaxRuns[id] \in Nat /\ MaxRuns[id] <= CountCap
          BY <1>4, <3>3, <4>4, JobTypes DEF TypesOK, Table, SchedulerAssumption, Unlimited
        <5>3. jobs'[id].runs = jobs[id].runs + 1
          BY <1>5, <4>4, <5>1, <5>2 DEF Capped
        <5>4. n <= jobs'[id].runs + setbacks
          BY <5>1, <5>2, <5>3
        <5>5. MayRun(id, jobs[id])' /\ MayRun(id, disk[id])'
          BY <1>1, <1>5, <3>3, <4>1, <4>4 DEF RunsOK, MayRun
        <5>6. \A i \in DOMAIN Work' : ~ (Unsent(i)' /\ Work'[i].id = id)
          <6>1. \A i \in DOMAIN Work : Unsent(i) => Work[i].id # e.id
            BY <1>10, InHand
          <6> QED
            BY <1>2, <1>9, <4>4, <6>1
        <5> QED
          BY <1>1, <1>9, <3>1, <4>1, <4>2, <5>4, <5>5, <5>6 DEF RunsOK
      <4> QED
        BY <4>3, <4>4
    <3> QED
      BY <1>1, <3>2, <3>3
  <2> QED
    BY <2>1 DEF CountsOK
<1> QED
  BY <1>2, <1>6, <1>7, <1>8, <1>11, <1>12

\* The ValueError of a cron job drops the batch: the due times of the other jobs
\* are still their next runs.
LEMMA CountFailsKeeps ==
    ASSUME SchedulerAssumption, BaseInv, AnswersOK, CountsOK, NEW l \in Loops, CountFails(l)
    PROVE  BaseInv' /\ AnswersOK' /\ CountsOK'
<1> USE DEF BaseInv
<1>1. /\ lpc[l] = "count" /\ LoopGoTo(l, "poll") /\ batch' = [batch EXCEPT ![l] = <<>>]
      /\ UNCHANGED <<order, disk, snap, current, now, answers, gone, scheduled, restarts, setbacks>>
  BY DEF CountFails, serviceVars, historyVars, countVars
<1>2. /\ batch' \in [Loops -> Seq(Entry)] /\ batch'[l] = <<>>
      /\ \A k \in Loops \ {l} : batch'[k] = batch[k]
  <2>1. <<>> \in Seq(Entry)
    OBVIOUS
  <2> QED
    BY <1>1, <2>1 DEF TypesOK
<1>3. /\ Where = "count" /\ Work = batch[l]
      /\ Where' = "poll" /\ Work' = <<>> /\ Written' = Written
      /\ LoopsOK' /\ lpc' \in [Loops -> Places]
  <2>1. "poll" \in Places /\ "poll" # "off"
    BY DEF Places
  <2>2. /\ Where = lpc[l] /\ Work = batch[l] /\ Written = snap[l]
        /\ Where' = "poll" /\ Work' = batch'[l] /\ Written' = snap'[l]
        /\ LoopsOK' /\ lpc' \in [Loops -> Places]
    BY <1>1, <1>2, <2>1, LoopStep
  <2> QED
    BY <1>1, <1>2, <2>2
<1>4. PICK e \in Entry : e = Work[1] /\ e = Head(batch[l]) /\ 1 \in DOMAIN Work
  <2>1. Work # <<>>
    BY <1>3 DEF WorkOK, InTick
  <2> QED
    BY <1>3, <2>1, WorkTypes
<1>5. e.id \in Ids /\ e.id \in CronMayEnd /\ (e.object = "current" => jobs[e.id] # Nil)
  BY <1>4, WorkTypes DEF WorkOK, CountFails
<1>6. /\ \A id \in Ids : /\ id # e.id => jobs'[id] = jobs[id]
                         /\ jobs'[id] # Nil <=> jobs[id] # Nil
                         /\ jobs[id] # Nil => jobs'[id].next = jobs[id].next
      /\ jobs' \in Table /\ Present' = Present
  <2>1. CASE e.object # "current"
    <3>1. jobs' = jobs
      BY <1>4, <2>1 DEF CountFails
    <3> QED
      BY <3>1 DEF Present, TypesOK
  <2>2. CASE e.object = "current"
    <3>1. jobs[e.id] \in Job /\ RunsOf(e) \in 0..CountCap
      BY <1>5, <2>2, CountedOK
    <3>2. PICK j : j = [jobs[e.id] EXCEPT !.runs = RunsOf(e)]
      OBVIOUS
    <3>3. j \in Job /\ j.next = jobs[e.id].next
      BY <3>1, <3>2 DEF Job
    <3>4. jobs' = [jobs EXCEPT ![e.id] = j]
      BY <1>4, <1>5, <2>2, <3>2 DEF CountFails, TypesOK, Table
    <3>5. jobs' \in Table /\ jobs'[e.id] = j /\ \A id \in Ids \ {e.id} : jobs'[id] = jobs[id]
      BY <1>5, <3>3, <3>4 DEF TypesOK, Table
    <3>6. j # Nil /\ jobs[e.id] # Nil
      BY <3>1, <3>3 DEF SchedulerAssumption
    <3>7. Present' = Present
      BY <3>5, <3>6 DEF Present
    <3> QED
      BY <3>3, <3>5, <3>6, <3>7
  <2> QED
    BY <2>1, <2>2
<1>7. TypesOK'
  BY <1>1, <1>2, <1>3, <1>6 DEF TypesOK
<1>8. WorkOK'
  <2>1. DOMAIN <<>> = {}
    OBVIOUS
  <2> QED
    BY <1>3, <2>1 DEF WorkOK, InTick
<1>9. NextsOK'
  BY <1>1, <1>3, <1>6 DEF NextsOK, Soon
<1>10. \A id, t : /\ ~ PendingAt(id, t)' /\ ~ CurrentAt(id, t)' /\ ~ Unsaved(id)' /\ ~ UnsavedAt(id, t)'
                  /\ ~ Uncounted(id)'
                  /\ id # e.id => ~ Unsaved(id) /\ ~ UnsavedAt(id, t) /\ ~ Uncounted(id)
  <2>1. DOMAIN <<>> = {}
    OBVIOUS
  <2> QED
    BY <1>3, <1>4, <2>1 DEF PendingAt, CurrentAt, Unsaved, UnsavedAt, Uncounted, InTick
<1>11. AnswersOK'
  <2>1. ASSUME NEW id \in Ids \ CronMayEnd, NEW t \in 1..MaxTime[id]
        PROVE  AnsweredOK(id, t)'
    <3>1. AnsweredOK(id, t) /\ id # e.id
      BY <1>5 DEF AnswersOK
    <3>2. /\ At(jobs[id], t)' <=> At(jobs[id], t)
          /\ At(disk[id], t)' <=> At(disk[id], t)
      BY <1>1, <1>6, <3>1 DEF At
    <3>3. ~ UnsavedAt(id, t) /\ (CurrentAt(id, t) => PendingAt(id, t))
      BY <1>10, <3>1, InHand
    <3>4. /\ answers[id][t] > 0 => t <= now[id]
          /\ answers[id][t] <= 1 + setbacks
          /\ At(jobs[id], t) => answers[id][t] <= setbacks
          /\ At(disk[id], t) => answers[id][t] <= setbacks
      BY <3>1, <3>3 DEF AnsweredOK
    <3> QED
      BY <1>1, <1>3, <1>10, <3>2, <3>4 DEF AnsweredOK
  <2> QED
    BY <2>1 DEF AnswersOK
<1>12. CountsOK'
  <2>1. ASSUME NEW id \in Ids \ CronMayEnd
        PROVE  /\ scheduled'[id] = 0 => Unscheduled(id)'
               /\ scheduled'[id] <= 1 /\ MaxRuns[id] # Unlimited => RunsOK(id)'
    <3>1. PICK n \in Nat : n = Submissions(id) /\ Submissions(id)' = n
      BY <1>1, SubmissionsOK DEF Submissions
    <3>2. id # e.id /\ jobs'[id] = jobs[id] /\ DOMAIN Work' = {} /\ Where' # "write"
      BY <1>3, <1>5, <1>6
    <3>3. ASSUME scheduled[id] = 0
          PROVE  Unscheduled(id)'
      <4>1. Unscheduled(id)
        BY <3>3 DEF CountsOK
      <4> QED
        BY <1>1, <3>1, <3>2, <4>1 DEF Unscheduled
    <3>4. ASSUME scheduled[id] <= 1, MaxRuns[id] # Unlimited
          PROVE  RunsOK(id)'
      <4>1. RunsOK(id)
        BY <3>4 DEF CountsOK
      <4>2. ~ Uncounted(id) /\ ~ Unsaved(id) /\ ~ Uncounted(id)' /\ ~ Unsaved(id)'
        BY <1>10, <3>2
      <4> QED
        BY <1>1, <3>1, <3>2, <4>1, <4>2 DEF RunsOK, MayRun
    <3> QED
      BY <1>1, <3>3, <3>4
  <2> QED
    BY <2>1 DEF CountsOK
<1> QED
  BY <1>3, <1>7, <1>8, <1>9, <1>11, <1>12

\* Serialising the table.
LEMMA SerializeKeeps ==
    ASSUME SchedulerAssumption, BaseInv, AnswersOK, CountsOK, NEW l \in Loops, Serialize(l)
    PROVE  BaseInv' /\ AnswersOK' /\ CountsOK'
<1> USE DEF BaseInv
<1>1. /\ lpc[l] = "serialize" /\ LoopGoTo(l, "write") /\ snap' = [snap EXCEPT ![l] = Serialized(jobs)]
      /\ UNCHANGED <<jobs, order, disk, batch, current, now, answers, gone, scheduled, restarts, setbacks>>
  BY DEF Serialize, tableVars, serviceVars, historyVars, countVars
<1>2. /\ Serialized(jobs) \in Table
      /\ \A id \in Ids : \/ Serialized(jobs)[id] = Nil
                         \/ Serialized(jobs)[id] = jobs[id] /\ jobs[id] # Nil /\ jobs[id].next # None
  BY SerializedOK DEF TypesOK
<1>3. snap' \in [Loops -> Table \cup {Nil}] /\ snap'[l] = Serialized(jobs)
  BY <1>1, <1>2 DEF TypesOK
<1>4. /\ Where = "serialize" /\ Where' = "write" /\ Work' = Work /\ Written' = Serialized(jobs)
      /\ LoopsOK' /\ lpc' \in [Loops -> Places]
  <2>1. "write" \in Places /\ "write" # "off" /\ batch' \in [Loops -> Seq(Entry)]
    BY <1>1 DEF Places, TypesOK
  <2>2. \A k \in Loops \ {l} : batch'[k] = batch[k]
    BY <1>1
  <2>3. /\ Where = lpc[l] /\ Work = batch[l] /\ Written = snap[l]
        /\ Where' = "write" /\ Work' = batch'[l] /\ Written' = snap'[l]
        /\ LoopsOK' /\ lpc' \in [Loops -> Places]
    BY <1>1, <2>1, <2>2, LoopStep
  <2> QED
    BY <1>1, <1>3, <2>3
<1>5. TypesOK'
  BY <1>1, <1>3, <1>4 DEF TypesOK, Present
<1>6. WorkOK'
  BY <1>1, <1>2, <1>4 DEF WorkOK, InTick, At
<1>7. NextsOK'
  BY <1>1, <1>2, <1>4 DEF NextsOK, Soon
<1>8. /\ \A id, t : /\ PendingAt(id, t)' <=> PendingAt(id, t)
                    /\ CurrentAt(id, t)' <=> CurrentAt(id, t)
                    /\ UnsavedAt(id, t)' <=> UnsavedAt(id, t)
      /\ \A id : Unsaved(id)' <=> Unsaved(id)
      /\ \A id : ~ Uncounted(id) /\ ~ Uncounted(id)'
      /\ \A i : Unsent(i)' <=> Unsent(i)
  BY <1>4 DEF PendingAt, CurrentAt, UnsavedAt, Unsaved, Unsent, Uncounted, InTick
<1>9. ASSUME NEW id \in Ids, NEW t, UnsavedAt(id, t), CurrentAt(id, t)
      PROVE  ~ At(jobs[id], t)
  <2>1. PICK i \in DOMAIN Work : Work[i].id = id /\ Work[i].at = t /\ Work[i].object = "current"
    BY <1>9 DEF CurrentAt
  <2>2. Work[1].id = id /\ 1 \in DOMAIN Work
    BY <1>4, <1>9, WorkTypes DEF UnsavedAt, Unsaved, WorkOK, InTick
  <2>3. i = 1
    BY <2>1, <2>2 DEF WorkOK
  <2> QED
    BY <1>4, <2>1, <2>3 DEF WorkOK
<1>10. AnswersOK'
  <2>1. ASSUME NEW id \in Ids \ CronMayEnd, NEW t \in 1..MaxTime[id]
        PROVE  AnsweredOK(id, t)'
    <3>1. AnsweredOK(id, t)
      BY DEF AnswersOK
    <3>2. /\ At(jobs[id], t)' <=> At(jobs[id], t)
          /\ At(disk[id], t)' <=> At(disk[id], t)
          /\ At(Written[id], t)' => At(jobs[id], t)
      BY <1>1, <1>2, <1>4 DEF At
    <3>3. CurrentAt(id, t) => PendingAt(id, t) \/ UnsavedAt(id, t)
      BY InHand
    <3>4. At(jobs[id], t) => answers[id][t] <= setbacks
      BY <1>9, <3>1, <3>3 DEF AnsweredOK
    <3> QED
      BY <1>1, <1>8, <3>1, <3>2, <3>4 DEF AnsweredOK
  <2> QED
    BY <2>1 DEF AnswersOK
<1>11. CountsOK'
  <2>1. ASSUME NEW id \in Ids \ CronMayEnd
        PROVE  /\ scheduled'[id] = 0 => Unscheduled(id)'
               /\ scheduled'[id] <= 1 /\ MaxRuns[id] # Unlimited => RunsOK(id)'
    <3>1. PICK n \in Nat : n = Submissions(id) /\ Submissions(id)' = n
      BY <1>1, SubmissionsOK DEF Submissions
    <3>2. ASSUME scheduled[id] = 0
          PROVE  Unscheduled(id)'
      <4>1. Unscheduled(id)
        BY <3>2 DEF CountsOK
      <4> QED
        BY <1>1, <1>2, <1>4, <3>1, <4>1 DEF Unscheduled
    <3>3. ASSUME scheduled[id] <= 1, MaxRuns[id] # Unlimited
          PROVE  RunsOK(id)'
      <4>1. RunsOK(id)
        BY <3>3 DEF CountsOK
      <4>2. Written'[id] # Nil => n <= Written'[id].runs + setbacks' /\ MayRun(id, Written[id])'
        <5>1. MayRun(id, jobs[id]) /\ (jobs[id] # Nil => n <= jobs[id].runs + setbacks)
          BY <1>8, <3>1, <4>1 DEF RunsOK
        <5> QED
          BY <1>1, <1>2, <1>4, <5>1 DEF MayRun
      <4> QED
        BY <1>1, <1>4, <1>8, <3>1, <4>1, <4>2 DEF RunsOK, MayRun
    <3> QED
      BY <1>1, <3>2, <3>3
  <2> QED
    BY <2>1 DEF CountsOK
<1> QED
  BY <1>4, <1>5, <1>6, <1>7, <1>10, <1>11

\* Writing what was serialised, or failing to, and going on with the next job.
LEMMA WriteKeeps ==
    ASSUME SchedulerAssumption, BaseInv, AnswersOK, CountsOK, NEW l \in Loops, Write(l)
    PROVE  BaseInv' /\ AnswersOK' /\ CountsOK'
<1> USE DEF BaseInv
<1>1. /\ lpc[l] = "write" /\ LoopGoTo(l, "submit") /\ snap' = [snap EXCEPT ![l] = Nil]
      /\ batch' = [batch EXCEPT ![l] = Tail(@)] /\ Set(snap[l])
      /\ UNCHANGED <<jobs, order, current, now, answers, gone, scheduled, restarts>>
  BY DEF Write, Rest, serviceVars, countVars
<1>2. l = current /\ Where = "write" /\ Work = batch[l] /\ Written = snap[l]
  BY <1>1, OwnLoop
<1>3. PICK w \in Seq(Entry) : w = Work /\ w = batch[l] /\ w # <<>>
  BY <1>2, WorkTypes DEF WorkOK, InTick
<1>4. PICK b \in Seq(Entry) : b = Tail(w)
  BY <1>3, HeadTailProperties
<1>5. /\ Len(w) \in Nat /\ DOMAIN w = 1..Len(w) /\ DOMAIN b = 1..(Len(w) - 1) /\ 1 \in DOMAIN w
      /\ \A i \in DOMAIN b : i + 1 \in DOMAIN w /\ b[i] = w[i + 1] /\ i + 1 > 1
      /\ \A i \in DOMAIN w : i # 1 => i - 1 \in DOMAIN b /\ w[i] = b[i - 1]
  <2>1. PICK n \in Nat : n = Len(w) /\ DOMAIN w = 1..n /\ n > 0
    BY <1>3
  <2>2. Len(b) = n - 1 /\ DOMAIN b = 1..(n - 1) /\ \A i \in 1..(n - 1) : b[i] = w[i + 1]
    BY <1>3, <1>4, <2>1, HeadTailProperties
  <2>3. /\ 1 \in DOMAIN w /\ Len(w) \in Nat /\ DOMAIN w = 1..Len(w) /\ DOMAIN b = 1..(Len(w) - 1)
    BY <2>1, <2>2
  <2>4. \A i \in DOMAIN b : i + 1 \in DOMAIN w /\ b[i] = w[i + 1] /\ i + 1 > 1
    BY <2>1, <2>2
  <2>5. \A i \in 1..n : i # 1 => i - 1 \in 1..(n - 1) /\ (i - 1) + 1 = i
    OBVIOUS
  <2>6. \A i \in DOMAIN w : i # 1 => i - 1 \in DOMAIN b /\ w[i] = b[i - 1]
    <3> SUFFICES ASSUME NEW i \in 1..n, i # 1
                 PROVE  i - 1 \in DOMAIN b /\ w[i] = b[i - 1]
      BY <2>1
    <3>1. i - 1 \in 1..(n - 1) /\ (i - 1) + 1 = i
      BY <2>5
    <3>2. b[i - 1] = w[(i - 1) + 1]
      BY <2>2, <3>1
    <3> QED
      BY <2>2, <3>1, <3>2
  <2> QED
    BY <2>3, <2>4, <2>6
<1>6. /\ batch' \in [Loops -> Seq(Entry)] /\ batch'[l] = b
      /\ \A k \in Loops \ {l} : batch'[k] = batch[k]
  <2>1. batch' = [batch EXCEPT ![l] = b]
    BY <1>1, <1>3, <1>4 DEF TypesOK
  <2> QED
    BY <2>1 DEF TypesOK
<1>7. Where' = "submit" /\ Work' = b /\ LoopsOK' /\ lpc' \in [Loops -> Places]
  <2>1. "submit" \in Places /\ "submit" # "off"
    BY DEF Places
  <2>2. Where' = "submit" /\ Work' = batch'[l] /\ LoopsOK' /\ lpc' \in [Loops -> Places]
    BY <1>1, <1>6, <2>1, LoopStep
  <2> QED
    BY <1>6, <2>2
<1>8. /\ Written \in Table /\ disk' \in Table /\ setbacks \in Nat /\ setbacks' \in Nat
      /\ \/ disk' = Written /\ setbacks' = setbacks
         \/ disk' = disk /\ setbacks' = setbacks + 1
  <2>1. Written \in Table
    BY <1>2 DEF WorkOK
  <2> QED
    BY <1>1, <1>2, <2>1, SetOK DEF TypesOK
<1>9. setbacks <= setbacks' /\ (disk' = Written \/ (disk' = disk /\ setbacks' = setbacks + 1))
  BY <1>8
<1>10. TypesOK'
  <2>1. snap' \in [Loops -> Table \cup {Nil}]
    BY <1>1 DEF TypesOK
  <2> QED
    BY <1>1, <1>6, <1>7, <1>8, <2>1 DEF TypesOK, Present
<1>11. WorkOK'
  <2>1. \A i, k \in DOMAIN b : b[i].id = b[k].id => i = k
    <3> SUFFICES ASSUME NEW i \in DOMAIN b, NEW k \in DOMAIN b, b[i].id = b[k].id
                 PROVE  i = k
      OBVIOUS
    <3>1. i + 1 \in DOMAIN Work /\ k + 1 \in DOMAIN Work /\ Work[i + 1].id = Work[k + 1].id
      BY <1>3, <1>5
    <3>2. i + 1 = k + 1
      BY <3>1, Zenon DEF WorkOK
    <3> QED
      BY <1>5, <3>2
  <2>2. \A i \in DOMAIN b : b[i].at <= now[b[i].id] /\ (b[i].object = "current" => jobs[b[i].id] # Nil)
    <3> SUFFICES ASSUME NEW i \in DOMAIN b
                 PROVE  b[i].at <= now[b[i].id] /\ (b[i].object = "current" => jobs[b[i].id] # Nil)
      OBVIOUS
    <3>1. i + 1 \in DOMAIN Work /\ Work[i + 1] = b[i]
      BY <1>3, <1>5
    <3>2. Work[i + 1].at <= now[Work[i + 1].id] /\ (Work[i + 1].object = "current" => jobs[Work[i + 1].id] # Nil)
      BY <3>1, Zenon DEF WorkOK
    <3> QED
      BY <3>1, <3>2
  <2> QED
    BY <1>1, <1>7, <2>1, <2>2 DEF WorkOK, InTick
<1>12. NextsOK'
  BY <1>1, <1>2, <1>7, <1>8 DEF NextsOK, Soon
<1>13. /\ \A i \in DOMAIN w : i # 1 => Unsent(i)
       /\ \A id, t : /\ PendingAt(id, t)' => PendingAt(id, t)
                     /\ At(jobs[id], t) /\ CurrentAt(id, t) => CurrentAt(id, t)'
       /\ \A id : ~ Unsaved(id)' /\ ~ Uncounted(id) /\ ~ Uncounted(id)'
  <2>1. \A i \in DOMAIN w : i # 1 => Unsent(i)
    BY <1>2, <1>3, <1>5 DEF Unsent
  <2>2. \A id, t : PendingAt(id, t)' => PendingAt(id, t)
    <3> SUFFICES ASSUME NEW id, NEW t, NEW i \in DOMAIN b, b[i].id = id, b[i].at = t
                 PROVE  PendingAt(id, t)
      BY <1>7 DEF PendingAt
    <3>1. i + 1 \in DOMAIN Work /\ Unsent(i + 1) /\ Work[i + 1].id = id /\ Work[i + 1].at = t
      BY <1>3, <1>5, <2>1
    <3> QED
      BY <3>1, Zenon DEF PendingAt
  <2>3. \A id, t : At(jobs[id], t) /\ CurrentAt(id, t) => CurrentAt(id, t)'
    <3> SUFFICES ASSUME NEW id, NEW t, At(jobs[id], t), CurrentAt(id, t)
                 PROVE  CurrentAt(id, t)'
      OBVIOUS
    <3>0. PICK i \in DOMAIN w : w[i].id = id /\ w[i].at = t /\ w[i].object = "current"
      BY <1>3 DEF CurrentAt
    <3>1. i # 1
      BY <1>2, <1>3, <3>0 DEF WorkOK
    <3>2. i - 1 \in DOMAIN b /\ b[i - 1] = w[i]
      BY <1>5, <3>1
    <3>3. \E k \in DOMAIN b : b[k].id = id /\ b[k].at = t /\ b[k].object = "current"
      BY <3>0, <3>2, Zenon
    <3> QED
      BY <1>7, <3>3 DEF CurrentAt
  <2>4. \A id : ~ Unsaved(id)' /\ ~ Uncounted(id) /\ ~ Uncounted(id)'
    BY <1>2, <1>7 DEF Unsaved, Uncounted, InTick
  <2> QED
    BY <2>1, <2>2, <2>3, <2>4
<1>14. AnswersOK'
  <2>1. ASSUME NEW id \in Ids \ CronMayEnd, NEW t \in 1..MaxTime[id]
        PROVE  AnsweredOK(id, t)'
    <3>1. PICK n \in Nat : n = answers[id][t] /\ n = answers'[id][t]
      <4>1. answers[id][t] \in Nat
        BY DEF TypesOK, SchedulerAssumption
      <4> QED
        BY <1>1, <4>1
    <3>2. /\ n > 0 => t <= now[id]
          /\ n <= 1 + setbacks
          /\ PendingAt(id, t) => n <= setbacks
          /\ At(jobs[id], t) /\ ~ CurrentAt(id, t) => n <= setbacks /\ (PendingAt(id, t) => n < setbacks)
          /\ At(Written[id], t) => n <= setbacks
      BY <1>2, <3>1 DEF AnswersOK, AnsweredOK
    <3>3. At(disk[id], t)' => n <= setbacks'
      BY <1>8, <3>1, <3>2 DEF At
    <3>4. At(jobs[id], t)' /\ ~ CurrentAt(id, t)' => n <= setbacks' /\ (PendingAt(id, t)' => n < setbacks')
      <4>1. At(jobs[id], t)' /\ ~ CurrentAt(id, t)' => At(jobs[id], t) /\ ~ CurrentAt(id, t)
        BY <1>1, <1>13 DEF At
      <4>2. PendingAt(id, t)' => PendingAt(id, t)
        BY <1>13
      <4> QED
        BY <1>8, <3>1, <3>2, <4>1, <4>2
    <3>5. /\ n > 0 => t <= now'[id]
          /\ n <= 1 + setbacks'
          /\ PendingAt(id, t)' => n <= setbacks'
          /\ Where' # "write"
      BY <1>1, <1>7, <1>8, <1>13, <3>1, <3>2
    <3> QED
      BY <3>1, <3>3, <3>4, <3>5 DEF AnsweredOK
  <2> QED
    BY <2>1 DEF AnswersOK
<1>15. CountsOK'
  <2>1. ASSUME NEW id \in Ids \ CronMayEnd
        PROVE  /\ scheduled'[id] = 0 => Unscheduled(id)'
               /\ scheduled'[id] <= 1 /\ MaxRuns[id] # Unlimited => RunsOK(id)'
    <3>1. PICK n \in Nat : n = Submissions(id) /\ Submissions(id)' = n
      BY <1>1, SubmissionsOK DEF Submissions
    <3>2. ASSUME scheduled[id] = 0
          PROVE  Unscheduled(id)'
      <4>1. Unscheduled(id)
        BY <3>2 DEF CountsOK
      <4>2. \A i \in DOMAIN b : b[i].id # id
        <5>1. \A i \in DOMAIN w : w[i].id # id
          BY <1>3, <4>1 DEF Unscheduled
        <5>2. \A i \in DOMAIN b : i + 1 \in DOMAIN w /\ b[i] = w[i + 1]
          BY <1>5
        <5> QED
          BY <5>1, <5>2
      <4> QED
        BY <1>1, <1>2, <1>7, <1>8, <3>1, <4>1, <4>2 DEF Unscheduled
    <3>3. ASSUME scheduled[id] <= 1, MaxRuns[id] # Unlimited
          PROVE  RunsOK(id)'
      <4>1. RunsOK(id)
        BY <3>3 DEF CountsOK
      <4>2. /\ MaxRuns[id] \in Nat
            /\ jobs[id] # Nil => jobs[id].runs \in Nat
            /\ disk[id] # Nil => disk[id].runs \in Nat
            /\ Written[id] # Nil => Written[id].runs \in Nat
        BY <1>8, <3>3, JobTypes DEF TypesOK, Table, SchedulerAssumption, Unlimited
      <4>3. /\ n <= MaxRuns[id] + setbacks
            /\ MayRun(id, jobs[id]) /\ MayRun(id, disk[id])
            /\ jobs[id] # Nil => n <= jobs[id].runs + setbacks
            /\ disk[id] # Nil => n <= disk[id].runs + setbacks + (IF Unsaved(id) THEN 1 ELSE 0)
            /\ Written[id] # Nil => n <= Written[id].runs + setbacks /\ MayRun(id, Written[id])
        BY <1>2, <1>13, <3>1, <4>1 DEF RunsOK
      <4>4. n <= MaxRuns[id] + setbacks' /\ (jobs'[id] # Nil => n <= jobs'[id].runs + setbacks')
        <5>1. jobs'[id] = jobs[id] /\ setbacks \in Nat /\ setbacks' \in Nat /\ setbacks <= setbacks'
          BY <1>1, <1>8, <1>9
        <5>2. n <= MaxRuns[id] + setbacks'
          <6>1. n <= MaxRuns[id] + setbacks /\ MaxRuns[id] \in Nat
            BY <4>2, <4>3
          <6> QED
            BY <5>1, <6>1
        <5>3. ASSUME jobs[id] # Nil  PROVE n <= jobs[id].runs + setbacks'
          <6>1. PICK r \in Nat : r = jobs[id].runs
            BY <4>2, <5>3
          <6>2. n <= r + setbacks
            BY <4>3, <5>3, <6>1
          <6>3. n <= r + setbacks'
            BY <5>1, <6>2, AddUp, Zenon
          <6> QED
            BY <6>1, <6>3
        <5> QED
          BY <5>1, <5>2, <5>3
      <4>5. disk'[id] # Nil => n <= disk'[id].runs + setbacks' + 0
        <5>1. CASE disk' = Written
          <6>1. disk'[id] = Written[id] /\ setbacks \in Nat /\ setbacks' \in Nat /\ setbacks <= setbacks'
            BY <1>8, <1>9, <5>1
          <6>2. ASSUME Written[id] # Nil  PROVE n <= Written[id].runs + setbacks' + 0
            <7>1. PICK r \in Nat : r = Written[id].runs
              BY <4>2, <6>2
            <7>2. n <= r + setbacks
              BY <4>3, <6>2, <7>1
            <7>3. n <= r + setbacks' + 0
              BY <6>1, <7>2, AddUp, Zenon
            <7> QED
              BY <7>1, <7>3
          <6> QED
            BY <6>1, <6>2
        <5>2. CASE disk' = disk /\ setbacks' = setbacks + 1
          <6>1. disk'[id] = disk[id] /\ setbacks \in Nat /\ setbacks' = setbacks + 1
            BY <1>8, <5>2
          <6>2. ASSUME disk[id] # Nil  PROVE n <= disk[id].runs + setbacks' + 0
            <7>1. PICK r \in Nat : r = disk[id].runs
              BY <4>2, <6>2
            <7>2. n <= r + setbacks + (IF Unsaved(id) THEN 1 ELSE 0)
              BY <4>3, <6>2, <7>1
            <7>3. n <= r + (setbacks + 1) + 0
              BY <6>1, <7>2, AddUp, Zenon
            <7> QED
              BY <6>1, <7>1, <7>3
          <6> QED
            BY <6>1, <6>2
        <5> QED
          BY <1>9, <5>1, <5>2
      <4>6. MayRun(id, jobs[id])' /\ MayRun(id, disk[id])'
        BY <1>1, <1>8, <4>3 DEF MayRun
      <4>7. ASSUME NEW i \in DOMAIN b, b[i].id = id
            PROVE  /\ n < MaxRuns[id] + setbacks'
                   /\ IF b[i].object = "current" THEN jobs'[id].runs < MaxRuns[id]
                      ELSE jobs'[id] # Nil => n < jobs'[id].runs + setbacks'
        <5>1. i + 1 \in DOMAIN Work /\ Unsent(i + 1) /\ Work[i + 1] = b[i]
          BY <1>3, <1>5, <1>13
        <5>2. /\ n < MaxRuns[id] + setbacks
              /\ IF b[i].object = "current" THEN jobs[id].runs < MaxRuns[id]
                 ELSE jobs[id] # Nil => n < jobs[id].runs + setbacks
          BY <3>1, <4>1, <4>7, <5>1 DEF RunsOK
        <5>3. jobs'[id] = jobs[id] /\ setbacks \in Nat /\ setbacks' \in Nat /\ setbacks <= setbacks'
          BY <1>1, <1>8, <1>9
        <5>4. n < MaxRuns[id] + setbacks'
          BY <4>2, <5>2, <5>3
        <5>5. CASE b[i].object = "current"
          BY <5>2, <5>3, <5>4, <5>5
        <5>6. CASE b[i].object # "current"
          <6>1. ASSUME jobs'[id] # Nil  PROVE n < jobs'[id].runs + setbacks'
            <7>1. PICK r \in Nat : r = jobs[id].runs /\ r = jobs'[id].runs
              BY <4>2, <5>3, <6>1
            <7>2. n < r + setbacks
              BY <5>2, <5>3, <5>6, <6>1, <7>1
            <7>3. n < r + setbacks'
              BY <5>3, <7>2, AddUp, Zenon
            <7> QED
              BY <7>1, <7>3
          <6> QED
            BY <5>4, <5>6, <6>1
        <5> QED
          BY <5>5, <5>6
      <4> QED
        BY <1>7, <1>13, <3>1, <4>4, <4>5, <4>6, <4>7 DEF RunsOK
    <3> QED
      BY <1>1, <3>2, <3>3
  <2> QED
    BY <2>1 DEF CountsOK
<1> QED
  BY <1>7, <1>10, <1>11, <1>12, <1>14, <1>15

-----------------------------------------------------------------------------
(* The theorems *)

\* The flags of the service are Booleans.
LEMMA FlagsStay ==
    ASSUME FlagsOK, [Next]_vars
    PROVE  FlagsOK'
<1>1. CASE UNCHANGED <<stop, closing>>
  BY <1>1, Zenon DEF FlagsOK
<1>2. CASE Initialize \/ Shutdown \/ ShutdownDone \/ Crash
  <2>1. /\ stop' = stop \/ stop' = TRUE \/ stop' = FALSE
        /\ closing' = closing \/ closing' = TRUE \/ closing' = FALSE
    BY <1>2, Zenon DEF Initialize, Shutdown, ShutdownDone, Crash, historyVars
  <2> QED
    BY <2>1, Zenon DEF FlagsOK
<1>3. UNCHANGED <<stop, closing>> \/ Initialize \/ Shutdown \/ ShutdownDone \/ Crash
  <2>1. ASSUME NEW id \in Ids, ScheduleJob(id) \/ UnscheduleJob(id) \/ CancelJob(id) \/ BecomeDue(id)
        PROVE  UNCHANGED <<stop, closing>>
    BY <2>1 DEF ScheduleJob, UnscheduleJob, CancelJob, BecomeDue, serviceVars
  <2>2. ASSUME ClearJobs \/ Reload
        PROVE  UNCHANGED <<stop, closing>>
    BY <2>2 DEF ClearJobs, Reload, serviceVars
  <2>3. ASSUME NEW l \in Loops, Polling(l)
        PROVE  UNCHANGED <<stop, closing>>
    BY <2>3 DEF Polling, LoopEnds, Collect, TickEnds, Submit, Count, CountFails, Serialize, Write, serviceVars
  <2>4. ASSUME UNCHANGED vars
        PROVE  UNCHANGED <<stop, closing>>
    BY <2>4 DEF vars, serviceVars
  <2> QED
    BY <2>1, <2>2, <2>3, <2>4 DEF Next, Client, Lifecycle
<1> QED
  BY <1>1, <1>2, <1>3

\* The invariant holds at the start.
LEMMA ScheduleInvInit ==
    ASSUME SchedulerAssumption, Init
    PROVE  ScheduleInv
<1>1. /\ jobs = [id \in Ids |-> Nil] /\ disk = [id \in Ids |-> Nil] /\ order = <<>>
      /\ lpc = [l \in Loops |-> "off"] /\ batch = [l \in Loops |-> <<>>] /\ snap = [l \in Loops |-> Nil]
      /\ current = NoLoop /\ stop = FALSE /\ closing = FALSE
      /\ now = [id \in Ids |-> 0] /\ answers = [id \in Ids |-> [t \in 1..MaxTime[id] |-> 0]]
      /\ gone = {} /\ scheduled = [id \in Ids |-> 0] /\ setbacks = 0 /\ restarts = 0
  BY DEF Init
<1>2. Where = "off" /\ Work = <<>> /\ DOMAIN <<>> = {} /\ Where # "write"
  BY <1>1 DEF Where, Work, SchedulerAssumption
<1>3. TypesOK
  <2>1. <<>> \in Seq(Entry) /\ <<>> \in Seq(Ids)
    OBVIOUS
  <2>2. batch \in [Loops -> Seq(Entry)]
    BY <1>1, <2>1, Zenon
  <2>3. Present = {}
    BY <1>1 DEF Present
  <2>4. IsList(order) /\ ToSet(order) = {}
    BY <1>1, <1>2, <2>1, Zenon DEF IsList, IsInjective, ToSet
  <2>5. jobs \in Table /\ disk \in Table /\ lpc \in [Loops -> Places] /\ snap \in [Loops -> Table \cup {Nil}]
    BY <1>1 DEF Table, Places
  <2>6. /\ now \in [Ids -> Nat] /\ \A id \in Ids : now[id] <= MaxTime[id]
        /\ scheduled \in [Ids -> Nat] /\ gone \subseteq Ids
    BY <1>1 DEF SchedulerAssumption
  <2>7. DOMAIN answers = Ids /\ \A id \in Ids : answers[id] \in [1..MaxTime[id] -> 0..CountCap]
    BY <1>1 DEF SchedulerAssumption
  <2> QED
    BY <1>1, <2>2, <2>3, <2>4, <2>5, <2>6, <2>7 DEF TypesOK
<1>4. LoopsOK
  BY <1>1 DEF LoopsOK
<1>5. WorkOK
  BY <1>2 DEF WorkOK, InTick
<1>6. NextsOK
  BY <1>1, <1>2 DEF NextsOK, Soon
<1>7. FlagsOK
  BY <1>1, Zenon DEF FlagsOK
<1>8. AnswersOK
  <2>1. ASSUME NEW id \in Ids \ CronMayEnd, NEW t \in 1..MaxTime[id]
        PROVE  AnsweredOK(id, t)
    <3>1. answers[id][t] = 0 /\ ~ At(jobs[id], t) /\ ~ At(disk[id], t) /\ ~ PendingAt(id, t)
      BY <1>1, <1>2 DEF At, PendingAt
    <3> QED
      BY <1>1, <1>2, <3>1 DEF AnsweredOK
  <2> QED
    BY <2>1 DEF AnswersOK
<1>9. CountsOK
  <2>1. ASSUME NEW id \in Ids \ CronMayEnd
        PROVE  /\ Unscheduled(id)
               /\ MaxRuns[id] # Unlimited => RunsOK(id)
    <3>1. Submissions(id) = 0
      <4>1. MaxTime[id] \in Nat
        BY DEF SchedulerAssumption
      <4>2. PICK a : a = answers[id]
        OBVIOUS
      <4>3. a = [t \in 1..MaxTime[id] |-> 0]
        BY <1>1, <4>2
      <4>4. a \in [1..MaxTime[id] -> Nat] /\ \A i \in 1..MaxTime[id] : a[i] = 0
        BY <4>3
      <4> QED
        BY <4>1, <4>2, <4>4, TotalOfNothing DEF Submissions
    <3>2. jobs[id] = Nil /\ disk[id] = Nil
      BY <1>1
    <3>3. Unscheduled(id)
      BY <1>2, <3>1, <3>2 DEF Unscheduled
    <3>4. ASSUME MaxRuns[id] # Unlimited
          PROVE  RunsOK(id)
      <4>1. MaxRuns[id] \in Nat
        BY <3>4 DEF SchedulerAssumption, Unlimited
      <4> QED
        BY <1>1, <1>2, <3>1, <3>2, <4>1 DEF RunsOK, MayRun
    <3> QED
      BY <3>3, <3>4
  <2> QED
    BY <2>1 DEF CountsOK
<1> QED
  BY <1>3, <1>4, <1>5, <1>6, <1>7, <1>8, <1>9 DEF ScheduleInv, BaseInv

\* Every step keeps it.
LEMMA ScheduleInvStep ==
    ASSUME SchedulerAssumption, JoinReturns, ScheduleInv, [Next]_vars
    PROVE  ScheduleInv'
<1> USE DEF ScheduleInv
<1>1. FlagsOK'
  BY FlagsStay
<1>2. ASSUME NEW S, TableStep(S)
      PROVE  BaseInv' /\ AnswersOK' /\ CountsOK'
  BY <1>2, TableKeepsBase, TableKeepsAnswers, TableKeepsCounts
<1>3. ASSUME Client
      PROVE  BaseInv' /\ AnswersOK' /\ CountsOK'
  <2>1. \E S \in SUBSET Ids : TableStep(S)
    <3>1. ASSUME NEW id \in Ids, ScheduleJob(id)
          PROVE  TableStep({id})
      BY <3>1, ScheduleJobSteps DEF BaseInv
    <3>2. ASSUME NEW id \in Ids, UnscheduleJob(id)
          PROVE  TableStep({id})
      BY <3>2, UnscheduleJobSteps DEF BaseInv
    <3>3. ASSUME NEW id \in Ids, CancelJob(id)
          PROVE  TableStep({})
      BY <3>3, CancelJobSteps DEF BaseInv
    <3>4. ASSUME ClearJobs
          PROVE  \E S \in SUBSET Ids : TableStep(S)
      BY <3>4, ClearJobsSteps DEF BaseInv
    <3>5. ASSUME Reload
          PROVE  \E S \in SUBSET Ids : TableStep(S)
      BY <3>5, ReloadSteps DEF BaseInv
    <3> HIDE DEF ScheduleInv
    <3>6. {} \in SUBSET Ids /\ \A id \in Ids : {id} \in SUBSET Ids
      OBVIOUS
    <3> QED
      BY <1>3, <3>1, <3>2, <3>3, <3>4, <3>5, <3>6, Zenon DEF Client
  <2> QED
    BY <1>2, <2>1
<1>4. ASSUME Initialize \/ ShutdownDone \/ Crash
      PROVE  BaseInv' /\ AnswersOK' /\ CountsOK'
  BY <1>4, InitializeKeeps, ShutdownDoneKeeps, CrashKeeps
<1>5. ASSUME Shutdown \/ UNCHANGED vars \/ \E id \in Ids : BecomeDue(id)
      PROVE  BaseInv' /\ AnswersOK' /\ CountsOK'
  BY <1>5, ClockSteps, ClockKeeps
<1>6. ASSUME NEW l \in Loops, Polling(l)
      PROVE  BaseInv' /\ AnswersOK' /\ CountsOK'
  <2>1. CASE LoopEnds(l) \/ TickEnds(l)
    BY <2>1, EndKeeps
  <2>2. CASE Collect(l)
    BY <2>2, CollectKeeps
  <2>3. CASE Submit(l)
    BY <2>3, SubmitKeeps
  <2>4. CASE Count(l)
    BY <2>4, CountKeeps
  <2>5. CASE CountFails(l)
    BY <2>5, CountFailsKeeps
  <2>6. CASE Serialize(l)
    BY <2>6, SerializeKeeps
  <2>7. CASE Write(l)
    BY <2>7, WriteKeeps
  <2> QED
    BY <1>6, <2>1, <2>2, <2>3, <2>4, <2>5, <2>6, <2>7 DEF Polling
<1>7. BaseInv' /\ AnswersOK' /\ CountsOK'
  BY <1>3, <1>4, <1>5, <1>6 DEF Next, Lifecycle
<1> QED
  BY <1>1, <1>7

\* It holds always.
LEMMA ScheduleInvAlways == JoinReturns => (Spec => []ScheduleInv)
<1> SUFFICES ASSUME JoinReturns
             PROVE  Spec => []ScheduleInv
  BY DEF JoinReturns
<1>1. Init => ScheduleInv
  BY SchedulerAssumption, ScheduleInvInit
<1>2. ScheduleInv /\ [Next]_vars => ScheduleInv'
  BY SchedulerAssumption, ScheduleInvStep
<1> QED
  BY <1>1, <1>2, PTL DEF Spec

\* A due time is answered by one submission, plus at most one for each crash,
\* reload or refused write (scheduler.py:426, 448-459, 478).
THEOREM DueTimesAnsweredOnce == JoinReturns => (Spec => []OneSubmissionPerDueTime)
<1>1. ScheduleInv => OneSubmissionPerDueTime
  BY DEF ScheduleInv, AnswersOK, AnsweredOK, OneSubmissionPerDueTime
<1> QED
  BY <1>1, ScheduleInvAlways, PTL

\* The table is well formed and lists its jobs in order, and max_runs bounds the
\* submissions of a job's whole life (scheduler.py:180, 333, 350, 378, 448-459).
THEOREM MaxRunsHold == JoinReturns => (Spec => []ScheduleConsistent)
<1>1. ScheduleInv => TypeOK
  <2> SUFFICES ASSUME ScheduleInv  PROVE TypeOK
    OBVIOUS
  <2>1. TypesOK /\ FlagsOK
    BY DEF ScheduleInv, BaseInv
  <2>2. \A l \in Loops : \A i \in DOMAIN batch[l] : batch[l][i] \in Entry
    BY <2>1 DEF TypesOK
  <2>3. \A l \in Loops : snap[l] = Nil \/ snap[l] \in [Ids -> Job \cup {Nil}]
    BY <2>1 DEF TypesOK, Table
  <2>4. stop \in BOOLEAN /\ closing \in BOOLEAN
    BY <2>1, Zenon DEF FlagsOK
  <2>5. /\ jobs \in [Ids -> Job \cup {Nil}] /\ disk \in [Ids -> Job \cup {Nil}]
        /\ ToSet(order) = Present /\ IsInjective(order)
        /\ lpc \in [Loops -> {"off", "poll", "submit", "count", "serialize", "write"}]
    BY <2>1 DEF TypesOK, Table, Places, IsList
  <2>6. /\ current \in Loops \cup {NoLoop} /\ now \in [Ids -> Nat]
        /\ \A id \in Ids : answers[id] \in [1..MaxTime[id] -> 0..CountCap]
        /\ gone \subseteq Ids /\ scheduled \in [Ids -> Nat] /\ setbacks \in Nat /\ restarts \in Nat
    BY <2>1 DEF TypesOK
  <2> QED
    BY <2>2, <2>3, <2>4, <2>5, <2>6, Zenon DEF TypeOK
<1>2. ScheduleInv => AtMostMaxRuns
  BY DEF ScheduleInv, CountsOK, RunsOK, AtMostMaxRuns
<1>3. ScheduleInv => ScheduleConsistent
  BY <1>1, <1>2 DEF ScheduleConsistent
<1> QED
  BY <1>3, ScheduleInvAlways, PTL

=============================================================================
