------------------------ MODULE PluginRegistryProofs ------------------------
(***************************************************************************)
(* Proofs about PluginRegistry, for every set of plugins, every graph of   *)
(* dependencies and every value of the bounds: what the registry says of   *)
(* its plugins is true, dependencies are started first, and a shutdown     *)
(* leaves nothing up.                                                      *)
(***************************************************************************)
EXTENDS PluginRegistry, SequenceTheorems, FiniteSetTheorems, NaturalsInduction, TLAPS

-----------------------------------------------------------------------------
(* Numbers and lists *)

\* A set of naturals has a least element: induction over naturals, without a
\* predicate for a parameter.
LEMMA LeastNatural ==
    ASSUME NEW S, S \subseteq Nat, S # {}
    PROVE  \E m \in S : \A n \in S : m <= n
<1>1. \E m \in S : \A n \in S : ~ (<<n, m>> \in OpToRel(<, Nat))
  BY NatLessThanWellFounded, WFMin
<1>2. \A m, n \in S : n < m => <<n, m>> \in OpToRel(<, Nat)
  BY DEF OpToRel
<1>3. \E m \in S : \A n \in S : ~ (n < m)
  BY <1>1, <1>2, Zenon
<1> QED
  BY <1>3

\* f starts with b, and g gives each of its values from the one before.
Computes(f, n, X, b, g) ==
    f \in [0..n -> X] /\ f[0] = b /\ \A i \in 1..n : f[i] = g[i][f[i - 1]]

\* Values can be computed one from the other.
LEMMA Recursion ==
    ASSUME NEW n \in Nat, NEW X, NEW b \in X, NEW g \in [1..n -> [X -> X]]
    PROVE  \E f : Computes(f, n, X, b, g)
<1> DEFINE Has(k) == \E f \in [0..k -> X] : f[0] = b /\ \A i \in 1..k : f[i] = g[i][f[i - 1]]
           N == {k \in 0..n : ~ Has(k)}
<1>1. Has(0)
  <2>1. PICK f : f = [i \in 0..0 |-> b]
    OBVIOUS
  <2>2. f \in [0..0 -> X] /\ f[0] = b /\ \A i \in 1..0 : FALSE
    BY <2>1
  <2> QED
    BY <2>2
<1>2. ASSUME NEW k \in 1..n, Has(k - 1)
      PROVE  Has(k)
  <2>1. PICK f \in [0..(k - 1) -> X] : f[0] = b /\ \A i \in 1..(k - 1) : f[i] = g[i][f[i - 1]]
    BY <1>2
  <2>2. PICK v \in X : v = g[k][f[k - 1]]
    <3>1. k - 1 \in 0..(k - 1)
      OBVIOUS
    <3>2. f[k - 1] \in X /\ g[k] \in [X -> X]
      BY <2>1, <3>1
    <3> QED
      BY <3>2
  <2>3. PICK h : h = [i \in 0..k |-> IF i = k THEN v ELSE f[i]]
    OBVIOUS
  <2>4. h \in [0..k -> X]
    <3>1. \A i \in 0..k : i # k => i \in 0..(k - 1)
      OBVIOUS
    <3> QED
      BY <2>1, <2>2, <2>3, <3>1
  <2>5. h[0] = b
    <3>1. 0 \in 0..k /\ 0 # k
      OBVIOUS
    <3> QED
      BY <2>1, <2>3, <3>1
  <2>6. ASSUME NEW i \in 1..k PROVE h[i] = g[i][h[i - 1]]
    <3>1. i \in 0..k /\ i - 1 \in 0..k /\ i - 1 # k
      OBVIOUS
    <3>2. h[i - 1] = f[i - 1]
      BY <2>3, <3>1, Zenon
    <3>3. CASE i = k
      BY <2>2, <2>3, <3>1, <3>2, <3>3
    <3>4. CASE i # k
      <4>1. i \in 1..(k - 1)
        BY <3>4
      <4>2. h[i] = f[i]
        BY <2>3, <3>1, <3>4, Zenon
      <4> QED
        BY <2>1, <3>2, <4>1, <4>2
    <3> QED
      BY <3>3, <3>4
  <2> QED
    BY <2>4, <2>5, <2>6
<1> HIDE DEF Has
<1>3. N = {}
  <2> SUFFICES ASSUME N # {}  PROVE FALSE
    OBVIOUS
  <2>1. PICK k \in N : \A i \in N : k <= i
    <3>1. N \subseteq Nat
      OBVIOUS
    <3> HIDE DEF N
    <3> QED
      BY <3>1, LeastNatural
  <2>2. k \in 1..n
    BY <1>1, <2>1
  <2>3. k - 1 \notin N /\ k - 1 \in 0..n
    BY <2>1, <2>2
  <2> QED
    BY <1>2, <2>1, <2>2, <2>3
<1>4. Has(n)
  BY <1>3
<1> QED
  BY <1>4 DEF Has, Computes

\* A list of plugins on which none is twice.
IsList(s) == s \in Seq(Plugins) /\ IsInjective(s)

\* Kept, element by element.
KeptBy(f, s, S) ==
    /\ f \in [0..Len(s) -> Seq(Plugins)]
    /\ f[0] = <<>> /\ Kept(s, S) = f[Len(s)]
    /\ \A i \in 1..Len(s) : f[i] = IF s[i] \in S THEN Append(f[i - 1], s[i]) ELSE f[i - 1]

\* There are such steps.
LEMMA KeptSteps == ASSUME NEW s \in Seq(Plugins), NEW S  PROVE \E f : KeptBy(f, s, S)
<1>1. PICK n \in Nat : n = Len(s) /\ \A i \in 1..n : s[i] \in Plugins
  OBVIOUS
<1>2. PICK g : g = [i \in 1..n |-> [q \in Seq(Plugins) |-> IF s[i] \in S THEN Append(q, s[i]) ELSE q]]
  OBVIOUS
<1>3. g \in [1..n -> [Seq(Plugins) -> Seq(Plugins)]]
  <2>1. ASSUME NEW i \in 1..n, NEW q \in Seq(Plugins)
        PROVE  (IF s[i] \in S THEN Append(q, s[i]) ELSE q) \in Seq(Plugins)
    <3>1. s[i] \in Plugins
      BY <1>1
    <3>2. Append(q, s[i]) \in Seq(Plugins)
      BY <3>1, AppendProperties
    <3> QED
      BY <3>2
  <2> QED
    BY <1>2, <2>1, Zenon
<1>4. <<>> \in Seq(Plugins)
  OBVIOUS
<1>5. PICK f \in [0..n -> Seq(Plugins)] : f[0] = <<>> /\ \A i \in 1..n : f[i] = g[i][f[i - 1]]
  <2>1. PICK X : X = Seq(Plugins)
    OBVIOUS
  <2>2. PICK b \in X : b = <<>>
    BY <1>4, <2>1
  <2>3. g \in [1..n -> [X -> X]]
    BY <1>3, <2>1
  <2>4. PICK f : Computes(f, n, X, b, g)
    BY <2>3, Recursion
  <2> QED
    BY <2>1, <2>2, <2>4 DEF Computes
<1>6. ASSUME NEW i \in 1..n
      PROVE  f[i] = IF s[i] \in S THEN Append(f[i - 1], s[i]) ELSE f[i - 1]
  <2>1. i - 1 \in 0..n
    OBVIOUS
  <2>2. f[i - 1] \in Seq(Plugins)
    BY <1>5, <2>1
  <2>3. g[i][f[i - 1]] = IF s[i] \in S THEN Append(f[i - 1], s[i]) ELSE f[i - 1]
    BY <1>2, <2>2, Zenon
  <2> QED
    BY <1>5, <2>3
<1>7. f = [i \in 0..n |-> IF i = 0 THEN <<>>
                          ELSE IF s[i] \in S THEN Append(f[i - 1], s[i]) ELSE f[i - 1]]
  <2>1. \A i \in 0..n : i = 0 \/ i \in 1..n
    OBVIOUS
  <2>2. f = [i \in 0..n |-> f[i]]
    OBVIOUS
  <2>3. ASSUME NEW i \in 0..n
        PROVE  f[i] = IF i = 0 THEN <<>>
                      ELSE IF s[i] \in S THEN Append(f[i - 1], s[i]) ELSE f[i - 1]
    <3>1. CASE i = 0
      BY <1>5, <3>1, Zenon
    <3>2. CASE i # 0
      <4>1. i \in 1..n
        BY <2>1, <3>2
      <4> QED
        BY <1>6, <3>2, <4>1, Zenon
    <3> QED
      BY <3>1, <3>2
  <2> QED
    BY <2>2, <2>3, Zenon
<1>8. PICK h : h = CHOOSE q : q = [i \in 0..Len(s) |-> IF i = 0 THEN <<>>
                          ELSE IF s[i] \in S THEN Append(q[i - 1], s[i]) ELSE q[i - 1]]
  OBVIOUS
<1>9. h = [i \in 0..Len(s) |-> IF i = 0 THEN <<>>
                          ELSE IF s[i] \in S THEN Append(h[i - 1], s[i]) ELSE h[i - 1]]
  <2>1. \E q : q = [i \in 0..Len(s) |-> IF i = 0 THEN <<>>
                          ELSE IF s[i] \in S THEN Append(q[i - 1], s[i]) ELSE q[i - 1]]
    BY <1>1, <1>7, Zenon
  <2> QED
    BY <1>8, <2>1, Zenon
<1>10. Kept(s, S) = h[Len(s)]
  BY <1>8, Zenon DEF Kept
<1>11. h[0] = <<>>
  <2>1. 0 \in 0..Len(s)
    OBVIOUS
  <2> QED
    BY <1>9, <2>1, Zenon
<1>12. ASSUME NEW i \in 1..Len(s)
       PROVE  h[i] = IF s[i] \in S THEN Append(h[i - 1], s[i]) ELSE h[i - 1]
  <2>1. i \in 0..Len(s) /\ i # 0
    OBVIOUS
  <2> QED
    BY <1>9, <2>1, Zenon
<1> DEFINE M == {i \in 0..n : h[i] \notin Seq(Plugins)}
<1>13. M = {}
  <2> SUFFICES ASSUME M # {}  PROVE FALSE
    OBVIOUS
  <2>1. PICK i \in M : \A k \in M : i <= k
    <3>1. M \subseteq Nat
      OBVIOUS
    <3> HIDE DEF M
    <3> QED
      BY <3>1, LeastNatural
  <2>2. i \in 1..n
    <3>1. i # 0
      BY <1>4, <1>11, <2>1, Zenon
    <3> QED
      BY <2>1, <3>1
  <2>3. i - 1 \notin M /\ i - 1 \in 0..n
    BY <2>1, <2>2
  <2>4. h[i - 1] \in Seq(Plugins) /\ s[i] \in Plugins
    BY <1>1, <2>2, <2>3
  <2>5. Append(h[i - 1], s[i]) \in Seq(Plugins)
    BY <2>4, AppendProperties
  <2>6. h[i] \in Seq(Plugins)
    BY <1>1, <1>12, <2>2, <2>4, <2>5
  <2> QED
    BY <2>1, <2>6
<1>14. h \in [0..Len(s) -> Seq(Plugins)]
  <2>1. \A i \in 0..n : h[i] \in Seq(Plugins)
    BY <1>13
  <2>2. h = [i \in 0..n |-> h[i]]
    BY <1>1, <1>9, Zenon
  <2> QED
    BY <1>1, <2>1, <2>2, Zenon
<1> QED
  BY <1>10, <1>11, <1>12, <1>14 DEF KeptBy

\* A plugin that is not on the list is put at its end.
LEMMA AppendToList ==
    ASSUME NEW q, IsList(q), NEW s \in Plugins, s \notin ToSet(q)
    PROVE  IsList(Append(q, s)) /\ ToSet(Append(q, s)) = ToSet(q) \cup {s}
<1>1. q \in Seq(Plugins) /\ Len(q) \in Nat /\ DOMAIN q = 1..Len(q)
  BY DEF IsList
<1>2. PICK t \in Seq(Plugins) : t = Append(q, s)
  BY <1>1, AppendProperties
<1>3. /\ Len(t) = Len(q) + 1 /\ DOMAIN t = 1..(Len(q) + 1)
      /\ \A i \in 1..Len(q) : t[i] = q[i]
      /\ t[Len(q) + 1] = s
  BY <1>1, <1>2
<1>4. \A i \in 1..Len(q) : q[i] # s
  BY <1>1 DEF ToSet
<1>5. IsInjective(t)
  BY <1>1, <1>3, <1>4 DEF IsInjective, IsList
<1>6. ToSet(t) = ToSet(q) \cup {s}
  BY <1>1, <1>3 DEF ToSet
<1> QED
  BY <1>2, <1>5, <1>6 DEF IsList

\* Kept lists what it keeps.
LEMMA KeptOK ==
    ASSUME NEW s, IsList(s), NEW S
    PROVE  IsList(Kept(s, S)) /\ ToSet(Kept(s, S)) = ToSet(s) \cap S
<1>1. PICK n \in Nat : s \in Seq(Plugins) /\ n = Len(s) /\ DOMAIN s = 1..n /\ \A i \in 1..n : s[i] \in Plugins
  BY DEF IsList
<1>0. PICK f : KeptBy(f, s, S)
  BY <1>1, KeptSteps
<1>2. /\ f \in [0..n -> Seq(Plugins)] /\ f[0] = <<>> /\ Kept(s, S) = f[n]
      /\ \A i \in 1..n : f[i] = IF s[i] \in S THEN Append(f[i - 1], s[i]) ELSE f[i - 1]
  BY <1>0, <1>1 DEF KeptBy
<1>3. \A i, k \in 1..n : s[i] = s[k] => i = k
  BY <1>1 DEF IsList, IsInjective
<1> DEFINE First(i) == {s[k] : k \in 1..i}
           Fine(i) == IsList(f[i]) /\ ToSet(f[i]) = First(i) \cap S
           N == {i \in 0..n : ~ Fine(i)}
<1>4. Fine(0)
  <2>1. <<>> \in Seq(Plugins) /\ DOMAIN <<>> = {}
    OBVIOUS
  <2>2. ToSet(<<>>) = {}
    BY <2>1, Zenon DEF ToSet
  <2>3. First(0) = {}
    OBVIOUS
  <2>4. IsList(<<>>)
    BY <2>1 DEF IsList, IsInjective
  <2> QED
    BY <1>2, <2>2, <2>3, <2>4
<1>5. ASSUME NEW i \in 1..n, Fine(i - 1)
      PROVE  Fine(i)
  <2>1. PICK q : q = f[i - 1]
    OBVIOUS
  <2>2. First(i) = First(i - 1) \cup {s[i]}
    <3>1. 1..i = 1..(i - 1) \cup {i}
      OBVIOUS
    <3> QED
      BY <3>1
  <2>3. s[i] \notin First(i - 1)
    <3>1. \A k \in 1..(i - 1) : k \in 1..n /\ k # i
      BY <1>1
    <3> QED
      BY <1>3, <3>1
  <2> HIDE DEF First
  <2>4. IsList(q) /\ ToSet(q) = First(i - 1) \cap S
    BY <1>5, <2>1
  <2>5. CASE s[i] \in S
    <3>1. s[i] \in Plugins /\ s[i] \notin ToSet(q)
      BY <1>1, <2>3, <2>4
    <3>2. IsList(Append(q, s[i])) /\ ToSet(Append(q, s[i])) = ToSet(q) \cup {s[i]}
      BY <2>4, <3>1, AppendToList
    <3>3. f[i] = Append(q, s[i])
      BY <1>2, <2>1, <2>5
    <3> QED
      BY <2>2, <2>4, <2>5, <3>2, <3>3
  <2>6. CASE s[i] \notin S
    <3>1. f[i] = q
      BY <1>2, <2>1, <2>6
    <3> QED
      BY <2>2, <2>4, <2>6, <3>1
  <2> QED
    BY <2>5, <2>6
<1> HIDE DEF Fine
<1>6. N = {}
  <2> SUFFICES ASSUME N # {}  PROVE FALSE
    OBVIOUS
  <2>1. PICK i \in N : \A k \in N : i <= k
    <3>1. N \subseteq Nat
      OBVIOUS
    <3> HIDE DEF N
    <3> QED
      BY <3>1, LeastNatural
  <2>2. i \in 1..n
    BY <1>4, <2>1
  <2>3. i - 1 \notin N /\ i - 1 \in 0..n
    BY <2>1, <2>2
  <2> QED
    BY <1>5, <2>1, <2>2, <2>3
<1>7. Fine(n)
  <2>1. n \in 0..n
    OBVIOUS
  <2> QED
    BY <1>6, <2>1, Zenon
<1>8. ToSet(s) = First(n)
  BY <1>1, Zenon DEF ToSet
<1> QED
  BY <1>2, <1>7, <1>8 DEF Fine

\* The first plugin of a list and the others.
LEMMA HeadAndTail ==
    ASSUME NEW s \in Seq(Plugins), s # <<>>
    PROVE  /\ Head(s) \in Plugins /\ Tail(s) \in Seq(Plugins)
           /\ ToSet(s) = ToSet(Tail(s)) \cup {Head(s)}
           /\ Head(s) \in ToSet(s) /\ ToSet(Tail(s)) \subseteq ToSet(s)
<1>1. PICK n \in Nat : n = Len(s) /\ n > 0 /\ DOMAIN s = 1..n /\ \A i \in 1..n : s[i] \in Plugins
  BY EmptySeq
<1>2. PICK t : t = Tail(s)
  OBVIOUS
<1>3. /\ t \in Seq(Plugins) /\ DOMAIN t = 1..(n - 1) /\ Head(s) = s[1]
      /\ \A i \in 1..(n - 1) : t[i] = s[i + 1]
  BY <1>1, <1>2, HeadTailProperties
<1>4. \A i \in 1..n : i = 1 \/ (i - 1 \in 1..(n - 1) /\ t[i - 1] = s[i])
  BY <1>1, <1>3
<1>5. \A i \in 1..(n - 1) : i + 1 \in 1..n
  BY <1>1
<1>6. 1 \in 1..n
  BY <1>1
<1>7. ToSet(s) = {s[i] : i \in 1..n} /\ ToSet(t) = {t[i] : i \in 1..(n - 1)}
  BY <1>1, <1>3, Zenon DEF ToSet
<1>8. ToSet(s) = ToSet(t) \cup {s[1]}
  <2>1. ASSUME NEW v \in ToSet(s) PROVE v \in ToSet(t) \cup {s[1]}
    <3>1. PICK i \in 1..n : v = s[i]
      BY <1>7, <2>1
    <3>2. i = 1 \/ (i - 1 \in 1..(n - 1) /\ t[i - 1] = s[i])
      BY <1>4
    <3> QED
      BY <1>7, <3>1, <3>2
  <2>2. ASSUME NEW v \in ToSet(t) PROVE v \in ToSet(s)
    <3>1. PICK i \in 1..(n - 1) : v = t[i]
      BY <1>7, <2>2
    <3>2. i + 1 \in 1..n /\ t[i] = s[i + 1]
      BY <1>3, <1>5
    <3> QED
      BY <1>7, <3>1, <3>2
  <2>3. s[1] \in ToSet(s)
    BY <1>6, <1>7
  <2> QED
    BY <2>1, <2>2, <2>3
<1> QED
  BY <1>1, <1>2, <1>3, <1>6, <1>8

\* A list has the same plugins from its end.
LEMMA ReverseOK ==
    ASSUME NEW s \in Seq(Plugins)
    PROVE  Reverse(s) \in Seq(Plugins) /\ ToSet(Reverse(s)) = ToSet(s)
<1>1. PICK n \in Nat : n = Len(s) /\ DOMAIN s = 1..n /\ \A i \in 1..n : s[i] \in Plugins
  OBVIOUS
<1>2. PICK t : t = Reverse(s)
  OBVIOUS
<1>3. t = [i \in 1..n |-> s[(n - i) + 1]]
  BY <1>1, <1>2 DEF Reverse
<1>4. \A i \in 1..n : (n - i) + 1 \in 1..n /\ (n - ((n - i) + 1)) + 1 = i
  BY <1>1
<1>5. t \in [1..n -> Plugins]
  BY <1>1, <1>3, <1>4
<1>6. t \in Seq(Plugins)
  <2>1. t \in UNION {[1..m -> Plugins] : m \in Nat}
    BY <1>5, Zenon
  <2> QED
    BY <2>1, SeqDef, Zenon
<1>7. ToSet(s) = {s[i] : i \in 1..n} /\ ToSet(t) = {t[i] : i \in 1..n}
  BY <1>1, <1>3, Zenon DEF ToSet
<1>8. \A i \in 1..n : t[i] = s[(n - i) + 1] /\ s[i] = t[(n - i) + 1]
  BY <1>3, <1>4
<1>9. ToSet(s) = ToSet(t)
  BY <1>4, <1>7, <1>8
<1> QED
  BY <1>2, <1>6, <1>9

\* The plugins of a list.
LEMMA ToSetType ==
    ASSUME NEW s \in Seq(Plugins)
    PROVE  ToSet(s) \subseteq Plugins /\ ToSet(<<>>) = {}
<1>1. DOMAIN s = 1..Len(s) /\ DOMAIN <<>> = {}
  OBVIOUS
<1>2. ToSet(<<>>) = {}
  BY <1>1, Zenon DEF ToSet
<1> QED
  BY <1>1, <1>2 DEF ToSet

-----------------------------------------------------------------------------
(* Frames and the stack *)

Single == {"load", "start", "stop", "unload", "unregister"}
Ops == Single \cup {"initialize", "shutdown", "reload"}
Ats == {"enter", "deps", "hook", "unload", "remove", "init", "each", "done", "failed"}

FrameType ==
    [op : Ops, p : Plugins \cup {NoPlugin}, by : {"client", "code"}, at : Ats, todo : Seq(Plugins)]

\* Where a call can be.
PlaceOK(f) ==
    /\ f.op \in Single => f.p \in Plugins
    /\ f.op \in {"load", "start"} => f.at \in {"enter", "deps", "done", "failed"}
    /\ f.op = "stop" => f.at \in {"enter", "done", "failed"}
    /\ f.op = "unload" => f.at \in {"enter", "hook", "done", "failed"}
    /\ f.op = "unregister" => f.at \in {"enter", "unload", "remove"}
    /\ f.op = "initialize" => f.at \in {"enter", "each"}
    /\ f.op = "shutdown" => f.at \in {"enter", "each", "unload"} /\ (f.at = "unload" => f.todo # <<>>)
    /\ f.op = "reload" => f.at \in {"enter", "init", "each"}

\* Where a call can be that has called another one.
HasCalled(f) ==
    /\ f.at # "enter"
    /\ f.op = "initialize" => f.p \in Plugins

\* What a call can be inside of, directly or not, without a handler in between.
MayCallOp(a, b) ==
    \/ a = "load" /\ b = "load"
    \/ a = "start" /\ b \in {"start", "load"}
    \/ a = "unload" /\ b = "stop"
    \/ a = "unregister" /\ b \in {"stop", "unload"}
    \/ a = "initialize" /\ b = "load"
    \/ a = "shutdown" /\ b \in {"stop", "unload"}
    \/ a = "reload" /\ b \in Ops \ {"unregister", "reload"}

\* The frames of a sequence of calls.
FramesOK ==
    /\ stack \in Seq(FrameType)
    /\ \A i \in 1..Len(stack) : PlaceOK(stack[i])
    /\ \A i \in 1..Len(stack) : i < Len(stack) \/ raised => HasCalled(stack[i])
    /\ stack # <<>> => stack[1].by = "client"

\* As long as no handler has called back, they call one another.
NestingOK ==
    /\ \A i, j \in 1..Len(stack) : i < j => MayCallOp(stack[i].op, stack[j].op)
    /\ \A i \in 1..Len(stack) : i > 1 => stack[i].by = "code"
    /\ \A i \in 1..Len(stack) : i < Len(stack) \/ raised => stack[i].at \notin {"done", "failed"}

Structure == FramesOK /\ (nested = 0 => NestingOK)

\* A frame is replaced, put on the stack, put on it while the one below is
\* replaced, or taken from it.
Below == \A i \in 1..(Len(stack) - 1) : stack'[i] = stack[i]
SetTo(f) ==
    /\ stack' \in Seq(FrameType) /\ Len(stack') = Len(stack) /\ Below
    /\ stack'[Len(stack)] = f
PushedOn(f, g) ==
    /\ stack' \in Seq(FrameType) /\ Len(stack') = Len(stack) + 1 /\ Below
    /\ stack'[Len(stack)] = f /\ stack'[Len(stack) + 1] = g
Popped == stack' \in Seq(FrameType) /\ Len(stack') = Len(stack) - 1 /\ Below

\* The innermost call.
LEMMA TopOf ==
    ASSUME stack \in Seq(FrameType), stack # <<>>
    PROVE  /\ Len(stack) \in Nat \ {0} /\ Top = stack[Len(stack)] /\ Top \in FrameType
           /\ Front(stack) \in Seq(FrameType) /\ Len(Front(stack)) = Len(stack) - 1
           /\ \A i \in 1..(Len(stack) - 1) : Front(stack)[i] = stack[i]
<1>1. PICK n \in Nat \ {0} : n = Len(stack) /\ \A i \in 1..n : stack[i] \in FrameType
  BY EmptySeq
<1>2. Top = stack[n] /\ Top \in FrameType
  BY <1>1 DEF Top, Last
<1>3. PICK t : t = SubSeq(stack, 1, n - 1)
  OBVIOUS
<1>4. Front(stack) = t
  BY <1>1, <1>3 DEF Front
<1>5. /\ t \in Seq(FrameType) /\ Len(t) = IF 1 <= n - 1 THEN n - 1 - 1 + 1 ELSE 0
      /\ \A i \in 1..(n - 1 - 1 + 1) : t[i] = stack[1 + i - 1]
  <2>1. 1 \in Int /\ n - 1 \in Int /\ \A i \in 1..(n - 1) : stack[i] \in FrameType
    BY <1>1
  <2> QED
    BY <1>1, <1>3, <2>1, SubSeqProperties
<1>6. Len(t) = n - 1 /\ \A i \in 1..(n - 1) : t[i] = stack[i]
  BY <1>1, <1>5
<1> QED
  BY <1>1, <1>2, <1>4, <1>5, <1>6

\* The innermost call goes on.
LEMMA SetOK ==
    ASSUME stack \in Seq(FrameType), stack # <<>>, NEW f \in FrameType, stack' = Replace(f)
    PROVE  SetTo(f)
<1>1. PICK n \in Nat \ {0}, t \in Seq(FrameType) :
          n = Len(stack) /\ t = Front(stack) /\ Len(t) = n - 1 /\ \A i \in 1..(n - 1) : t[i] = stack[i]
  BY TopOf
<1>2. PICK u : u = Append(t, f)
  OBVIOUS
<1>3. u \in Seq(FrameType) /\ Len(u) = n /\ (\A i \in 1..(n - 1) : u[i] = t[i]) /\ u[n] = f
  BY <1>1, <1>2, AppendProperties
<1>4. stack' = u
  BY <1>1, <1>2 DEF Replace
<1> QED
  BY <1>1, <1>3, <1>4 DEF SetTo, Below

\* The innermost call makes another one.
LEMMA PushOK ==
    ASSUME stack \in Seq(FrameType), stack # <<>>, NEW f \in FrameType, NEW g \in FrameType,
           stack' = Append(Replace(f), g)
    PROVE  PushedOn(f, g)
<1>1. PICK n \in Nat \ {0}, t \in Seq(FrameType) :
          n = Len(stack) /\ t = Front(stack) /\ Len(t) = n - 1 /\ \A i \in 1..(n - 1) : t[i] = stack[i]
  BY TopOf
<1>2. PICK u : u = Append(t, f)
  OBVIOUS
<1>3. u \in Seq(FrameType) /\ Len(u) = n /\ (\A i \in 1..(n - 1) : u[i] = t[i]) /\ u[n] = f
  BY <1>1, <1>2, AppendProperties
<1>4. PICK v : v = Append(u, g)
  OBVIOUS
<1>5. v \in Seq(FrameType) /\ Len(v) = n + 1 /\ (\A i \in 1..n : v[i] = u[i]) /\ v[n + 1] = g
  BY <1>3, <1>4, AppendProperties
<1>6. stack' = v
  BY <1>1, <1>2, <1>4 DEF Replace
<1>7. (\A i \in 1..(n - 1) : v[i] = stack[i]) /\ v[n] = f
  BY <1>1, <1>3, <1>5
<1> QED
  BY <1>1, <1>5, <1>6, <1>7 DEF PushedOn, Below

\* The innermost call ends.
LEMMA PopOK ==
    ASSUME stack \in Seq(FrameType), stack # <<>>, stack' = Front(stack)
    PROVE  Popped
BY TopOf DEF Popped, Below

\* Fields of the frames that actions write.
LEMMA FieldsOK ==
    ASSUME NEW f \in FrameType
    PROVE  /\ \A at \in Ats : LET g == [f EXCEPT !.at = at] IN
                /\ g \in FrameType /\ g.op = f.op /\ g.p = f.p /\ g.by = f.by /\ g.at = at
                /\ g.todo = f.todo
           /\ \A s \in Seq(Plugins) : LET g == [f EXCEPT !.todo = s] IN
                /\ g \in FrameType /\ g.op = f.op /\ g.p = f.p /\ g.by = f.by /\ g.at = f.at
                /\ g.todo = s
           /\ \A p \in Plugins : LET g == [f EXCEPT !.p = p] IN
                /\ g \in FrameType /\ g.op = f.op /\ g.p = p /\ g.by = f.by /\ g.at = f.at
                /\ g.todo = f.todo
BY DEF FrameType

\* A new frame.
LEMMA NewFrameOK ==
    ASSUME NEW op \in Ops, NEW p \in Plugins \cup {NoPlugin}, NEW by \in {"client", "code"}
    PROVE  LET g == Frame(op, p, by) IN
           g \in FrameType /\ g.op = op /\ g.p = p /\ g.by = by /\ g.at = "enter" /\ g.todo = <<>>
BY DEF Frame, FrameType, Ats

-----------------------------------------------------------------------------
(* Types and the structure of the stack *)

TableOK ==
    /\ plugins \in Seq(Plugins) /\ IsInjective(plugins)
    /\ deps \in [Plugins -> Seq(Plugins)]
    /\ admitted \subseteq Plugins /\ outdated \subseteq Plugins
    /\ states \in [Plugins -> PluginState \cup {"none"}]
    /\ errors \subseteq Plugins /\ running \subseteq Plugins /\ wasActive \subseteq Plugins
    /\ faults \in Nat /\ calls \in Nat /\ nested \in Nat
    /\ FailuresAreExplained

CallsOK == raised \in BOOLEAN /\ (raised => stack # <<>>) /\ Structure

TypeInv == TableOK /\ CallsOK

\* What a call makes, calls of that make too.
LEMMA MayCallTransitive ==
    ASSUME NEW a, NEW b, NEW c, MayCallOp(a, b), MayCallOp(b, c)
    PROVE  MayCallOp(a, c)
BY DEF MayCallOp, Ops, Single

\* The innermost call goes on; raised' is an exception of a call it could not
\* make.
LEMMA SetKeeps ==
    ASSUME CallsOK, stack # <<>>, nested' = nested, raised' \in BOOLEAN,
           NEW f \in FrameType, stack' = Replace(f), PlaceOK(f), f.op = Top.op, f.by = Top.by,
           raised' => HasCalled(f) /\ f.at \notin {"done", "failed"}
    PROVE  CallsOK'
<1>1. PICK n \in Nat \ {0} : n = Len(stack) /\ Top = stack[n] /\ stack \in Seq(FrameType)
  BY TopOf DEF CallsOK, Structure, FramesOK
<1>2. /\ stack' \in Seq(FrameType) /\ Len(stack') = n /\ stack'[n] = f
      /\ \A i \in 1..(n - 1) : stack'[i] = stack[i]
  BY <1>1, SetOK DEF SetTo, Below
<1>3. \A i \in 1..n : i = n \/ (i < n /\ i \in 1..(n - 1) /\ stack'[i] = stack[i])
  BY <1>2
<1>4. stack' # <<>>
  BY <1>2
<1>5. FramesOK'
  BY <1>1, <1>2, <1>3 DEF CallsOK, Structure, FramesOK
<1>6. nested = 0 => NestingOK'
  <2> SUFFICES ASSUME nested = 0 PROVE NestingOK'
    OBVIOUS
  <2>1. NestingOK
    BY DEF CallsOK, Structure
  <2>2. ASSUME NEW i \in 1..n, NEW j \in 1..n, i < j PROVE MayCallOp(stack'[i].op, stack'[j].op)
    BY <1>1, <1>2, <1>3, <2>1, <2>2 DEF NestingOK
  <2>3. \A i \in 1..n : i > 1 => stack'[i].by = "code"
    BY <1>1, <1>2, <1>3, <2>1 DEF NestingOK
  <2>4. \A i \in 1..n : i < n \/ raised' => stack'[i].at \notin {"done", "failed"}
    BY <1>1, <1>2, <1>3, <2>1 DEF NestingOK
  <2> QED
    BY <1>2, <2>2, <2>3, <2>4 DEF NestingOK
<1> QED
  BY <1>4, <1>5, <1>6 DEF CallsOK, Structure

\* The innermost call makes another one.
LEMMA PushKeeps ==
    ASSUME CallsOK, stack # <<>>, nested' = nested, raised' = FALSE,
           NEW f \in FrameType, NEW g \in FrameType, stack' = Append(Replace(f), g),
           PlaceOK(f), f.op = Top.op, f.by = Top.by, HasCalled(f), f.at \notin {"done", "failed"},
           PlaceOK(g), g.by = "code", MayCallOp(f.op, g.op)
    PROVE  CallsOK'
<1>1. PICK n \in Nat \ {0} : n = Len(stack) /\ Top = stack[n] /\ stack \in Seq(FrameType)
  BY TopOf DEF CallsOK, Structure, FramesOK
<1>2. /\ stack' \in Seq(FrameType) /\ Len(stack') = n + 1 /\ stack'[n] = f /\ stack'[n + 1] = g
      /\ \A i \in 1..(n - 1) : stack'[i] = stack[i]
  BY <1>1, PushOK DEF PushedOn, Below
<1>3. \A i \in 1..(n + 1) : i = n + 1 \/ i = n \/ (i < n /\ i \in 1..(n - 1) /\ i \in 1..n /\ stack'[i] = stack[i])
  BY <1>2
<1>4. stack' # <<>>
  BY <1>2
<1>5. FramesOK'
  <2>1. stack'[1].by = "client"
    BY <1>1, <1>2, <1>3 DEF CallsOK, Structure, FramesOK
  <2>2. \A i \in 1..(n + 1) : PlaceOK(stack'[i])
    BY <1>1, <1>2, <1>3 DEF CallsOK, Structure, FramesOK
  <2>3. \A i \in 1..(n + 1) : i < n + 1 \/ raised' => HasCalled(stack'[i])
    BY <1>1, <1>2, <1>3 DEF CallsOK, Structure, FramesOK
  <2> QED
    BY <1>2, <2>1, <2>2, <2>3 DEF FramesOK
<1>6. nested = 0 => NestingOK'
  <2> SUFFICES ASSUME nested = 0 PROVE NestingOK'
    OBVIOUS
  <2>1. NestingOK
    BY DEF CallsOK, Structure
  <2>2. \A i \in 1..(n - 1) : MayCallOp(stack'[i].op, f.op)
    BY <1>1, <1>2, <2>1 DEF NestingOK
  <2>3. \A i \in 1..(n - 1) : MayCallOp(stack'[i].op, g.op)
    BY <2>2, MayCallTransitive
  <2>4. \A i, j \in 1..(n - 1) : i < j => MayCallOp(stack'[i].op, stack'[j].op)
    BY <1>1, <1>2, <2>1 DEF NestingOK
  <2>5. ASSUME NEW i \in 1..(n + 1), NEW j \in 1..(n + 1), i < j
        PROVE  MayCallOp(stack'[i].op, stack'[j].op)
    <3>1. \/ i \in 1..(n - 1) /\ (j \in 1..(n - 1) \/ j = n \/ j = n + 1)
          \/ i = n /\ j = n + 1
      BY <2>5
    <3> QED
      BY <1>2, <2>2, <2>3, <2>4, <2>5, <3>1
  <2>6. \A i \in 1..(n + 1) : i > 1 => stack'[i].by = "code"
    BY <1>1, <1>2, <1>3, <2>1 DEF NestingOK
  <2>7. \A i \in 1..(n + 1) : i < n + 1 \/ raised' => stack'[i].at \notin {"done", "failed"}
    BY <1>1, <1>2, <1>3, <2>1 DEF NestingOK
  <2> QED
    BY <1>2, <2>5, <2>6, <2>7 DEF NestingOK
<1> QED
  BY <1>4, <1>5, <1>6 DEF CallsOK, Structure

\* The same, or too deep.
LEMMA InvokeKeeps ==
    ASSUME CallsOK, stack # <<>>, nested' = nested,
           NEW f \in FrameType, NEW op \in Ops, NEW p \in Plugins \cup {NoPlugin}, Invoke(f, op, p),
           PlaceOK(f), f.op = Top.op, f.by = Top.by, HasCalled(f), f.at \notin {"done", "failed"},
           op \in Single => p \in Plugins, MayCallOp(f.op, op)
    PROVE  CallsOK'
<1>1. CASE Len(stack) < MaxDepth
  <2>1. stack' = Append(Replace(f), Frame(op, p, "code")) /\ raised' = FALSE
    BY <1>1 DEF Invoke
  <2>2. PICK g \in FrameType : g = Frame(op, p, "code") /\ g.op = op /\ g.p = p /\ g.by = "code" /\ g.at = "enter"
    BY NewFrameOK
  <2>3. PlaceOK(g)
    BY <2>2 DEF PlaceOK
  <2> QED
    BY <2>1, <2>2, <2>3, PushKeeps
<1>2. CASE ~ (Len(stack) < MaxDepth)
  <2>1. stack' = Replace(f) /\ raised' = TRUE
    BY <1>2 DEF Invoke
  <2> QED
    BY <2>1, SetKeeps
<1> QED
  BY <1>1, <1>2

\* The innermost call ends, with an exception or without.
LEMMA PopKeeps ==
    ASSUME CallsOK, stack # <<>>, nested' = nested, Leave \/ Throw
    PROVE  CallsOK'
<1>1. PICK n \in Nat \ {0} : n = Len(stack) /\ Top = stack[n] /\ stack \in Seq(FrameType)
  BY TopOf DEF CallsOK, Structure, FramesOK
<1>2. /\ stack' \in Seq(FrameType) /\ Len(stack') = n - 1
      /\ \A i \in 1..(n - 1) : stack'[i] = stack[i]
  BY <1>1, PopOK DEF Popped, Below, Leave, Throw
<1>3. raised' \in BOOLEAN /\ (raised' => Top.by = "code")
  BY DEF Leave, Throw
<1>4. n = 1 => Top.by # "code"
  BY <1>1 DEF CallsOK, Structure, FramesOK
<1>5. raised' => stack' # <<>>
  BY <1>2, <1>3, <1>4
<1>6. \A i \in 1..(n - 1) : i \in 1..n /\ i < n
  BY <1>1
<1>7. FramesOK'
  <2>1. stack' # <<>> => stack'[1] = stack[1]
    BY <1>2
  <2> QED
    BY <1>1, <1>2, <1>6, <2>1 DEF CallsOK, Structure, FramesOK
<1>8. nested = 0 => NestingOK'
  BY <1>1, <1>2, <1>6 DEF CallsOK, Structure, NestingOK
<1> QED
  BY <1>3, <1>5, <1>7, <1>8 DEF CallsOK, Structure

\* A client or a handler makes a call.
LEMMA CallKeeps ==
    ASSUME TypeInv, NEW op \in Ops, NEW p \in Plugins \cup {NoPlugin}, op \in Single => p \in Plugins,
           Call(op, p)
    PROVE  CallsOK'
<1>1. PICK n \in Nat : n = Len(stack) /\ stack \in Seq(FrameType) /\ (stack = <<>> <=> n = 0)
  BY EmptySeq DEF TypeInv, CallsOK, Structure, FramesOK
<1>2. PICK g \in FrameType : g = Frame(op, p, "client") /\ g.op = op /\ g.p = p /\ g.by = "client" /\ g.at = "enter"
  BY NewFrameOK
<1>3. PlaceOK(g)
  BY <1>2 DEF PlaceOK
<1>4. stack' = Append(stack, g) /\ raised' = raised
  BY <1>2 DEF Call
<1>5. PICK u : u = Append(stack, g)
  OBVIOUS
<1>6. u \in Seq(FrameType) /\ Len(u) = n + 1 /\ (\A i \in 1..n : u[i] = stack[i]) /\ u[n + 1] = g
  BY <1>1, <1>5, AppendProperties
<1>7. /\ stack' \in Seq(FrameType) /\ Len(stack') = n + 1 /\ (\A i \in 1..n : stack'[i] = stack[i])
      /\ stack'[n + 1] = g /\ stack' # <<>>
  BY <1>4, <1>5, <1>6
<1>8. raised = FALSE /\ raised' = FALSE
  BY <1>4 DEF TypeInv, CallsOK, Call, MayCall
<1>9. \A i \in 1..(n + 1) : i = n + 1 \/ i \in 1..n
  BY <1>1
<1>10. n > 0 => Top = stack[n] /\ Top.at \in {"done", "failed"}
  BY <1>1, TopOf DEF Call, MayCall
<1>11. FramesOK'
  <2>1. stack'[1].by = "client"
    BY <1>1, <1>2, <1>7 DEF TypeInv, CallsOK, Structure, FramesOK
  <2>2. \A i \in 1..(n + 1) : PlaceOK(stack'[i])
    BY <1>1, <1>3, <1>7, <1>9 DEF TypeInv, CallsOK, Structure, FramesOK
  <2>3. ASSUME n > 0 PROVE HasCalled(stack[n])
    <3>1. PlaceOK(stack[n])
      BY <1>1, <2>3 DEF TypeInv, CallsOK, Structure, FramesOK
    <3> QED
      BY <1>10, <2>3, <3>1 DEF HasCalled, PlaceOK
  <2>4. \A i \in 1..n : HasCalled(stack[i])
    BY <1>1, <2>3 DEF TypeInv, CallsOK, Structure, FramesOK
  <2>5. \A i \in 1..(n + 1) : i < n + 1 \/ raised' => HasCalled(stack'[i])
    BY <1>7, <1>8, <1>9, <2>4
  <2> QED
    BY <1>7, <2>1, <2>2, <2>5 DEF FramesOK
<1>12. nested' = 0 => NestingOK'
  <2> SUFFICES ASSUME nested' = 0 PROVE NestingOK'
    OBVIOUS
  <2>1. n = 0
    BY <1>1 DEF Call, MayCall, TypeInv, TableOK
  <2>2. \A i \in 1..1 : i = 1 /\ ~ (i > 1) /\ ~ (i < 1)
    OBVIOUS
  <2> QED
    BY <1>7, <1>8, <2>1, <2>2 DEF NestingOK
<1> QED
  BY <1>7, <1>8, <1>11, <1>12 DEF CallsOK, Structure

\* A plugin becomes FAILED, with its error.
LEMMA FailsOK ==
    ASSUME TableOK, NEW p \in Plugins, Fails(p), faults' \in Nat,
           UNCHANGED <<plugins, deps, admitted, running, outdated, wasActive, calls, nested>>
    PROVE  TableOK'
BY DEF TableOK, Fails, SetState, PluginState, FailuresAreExplained

\* A plugin gets another state and may lose its error.
LEMMA StateOK ==
    ASSUME TableOK, NEW p \in Plugins, NEW s \in (PluginState \cup {"none"}) \ {"failed"}, SetState(p, s),
           errors' = errors \/ errors' = errors \ {p}, faults' \in Nat,
           running' \subseteq Plugins, outdated' \subseteq Plugins, wasActive' \subseteq Plugins,
           calls' \in Nat, nested' \in Nat,
           plugins' \in Seq(Plugins), IsInjective(plugins'),
           deps' \in [Plugins -> Seq(Plugins)], admitted' \subseteq Plugins
    PROVE  TableOK'
<1>1. states' \in [Plugins -> PluginState \cup {"none"}]
  BY DEF TableOK, SetState
<1>2. FailuresAreExplained'
  BY DEF TableOK, SetState, FailuresAreExplained
<1>3. errors' \subseteq Plugins
  BY DEF TableOK
<1> QED
  BY <1>1, <1>2, <1>3 DEF TableOK

\* The table stays as it is.
LEMMA SameTable == ASSUME TableOK, UnchangedTable  PROVE TableOK'
BY DEF TableOK, UnchangedTable, tableVars, tallyVars, FailuresAreExplained

\* The innermost call, its frame and its state.
LEMMA TopFacts ==
    ASSUME TypeInv, stack # <<>>
    PROVE  /\ Top \in FrameType /\ PlaceOK(Top) /\ nested \in Nat
           /\ (raised => HasCalled(Top)) /\ Top.todo \in Seq(Plugins)
           /\ (Top.op \in Single => Top.p \in Plugins)
           /\ (Top.op \in Single => deps[Top.p] \in Seq(Plugins))
           /\ Top.op \in Ops /\ Top.p \in Plugins \cup {NoPlugin}
<1>1. PICK n \in Nat \ {0} : n = Len(stack) /\ Top = stack[n] /\ stack \in Seq(FrameType) /\ Top \in FrameType
  BY TopOf DEF TypeInv, CallsOK, Structure, FramesOK
<1>2. PlaceOK(Top) /\ (raised => HasCalled(Top))
  BY <1>1 DEF TypeInv, CallsOK, Structure, FramesOK
<1>3. Top.todo \in Seq(Plugins) /\ Top.op \in Ops /\ Top.p \in Plugins \cup {NoPlugin}
  BY <1>1 DEF FrameType
<1>4. Top.op \in Single => Top.p \in Plugins
  BY <1>2 DEF PlaceOK
<1>5. deps \in [Plugins -> Seq(Plugins)] /\ nested \in Nat
  BY DEF TypeInv, TableOK
<1> QED
  BY <1>1, <1>2, <1>3, <1>4, <1>5

\* A call at a place of its own goes on to another one.
LEMMA ContinueKeeps ==
    ASSUME TypeInv, stack # <<>>, nested' = nested,
           NEW f \in FrameType, Continue(f), PlaceOK(f), f.op = Top.op, f.by = Top.by
    PROVE  CallsOK'
<1>1. stack' = Replace(f) /\ raised' = FALSE /\ CallsOK
  BY DEF Continue, TypeInv
<1> QED
  BY <1>1, SetKeeps

\* The frames of a call that goes on.
LEMMA AtFacts ==
    ASSUME Top \in FrameType, NEW at \in Ats
    PROVE  /\ At(at) \in FrameType /\ At(at).op = Top.op /\ At(at).p = Top.p /\ At(at).by = Top.by
           /\ At(at).at = at /\ At(at).todo = Top.todo
BY FieldsOK DEF At

\* The frame that goes on elsewhere, with a list of plugins left to do.
LEMMA AtTodoFacts ==
    ASSUME Top \in FrameType, NEW at \in Ats, NEW s \in Seq(Plugins)
    PROVE  LET g == [At(at) EXCEPT !.todo = s] IN
           /\ g \in FrameType /\ g.op = Top.op /\ g.p = Top.p /\ g.by = Top.by
           /\ g.at = at /\ g.todo = s
<1>1. PICK f \in FrameType : f = At(at) /\ f.op = Top.op /\ f.p = Top.p /\ f.by = Top.by /\ f.at = at
  BY AtFacts
<1>2. PICK g : g = [f EXCEPT !.todo = s]
  OBVIOUS
<1>3. g \in FrameType /\ g.op = f.op /\ g.p = f.p /\ g.by = f.by /\ g.at = f.at /\ g.todo = s
  BY <1>2, FieldsOK
<1> QED
  BY <1>1, <1>2, <1>3

\* The frame that goes on with the plugins after the first one.
LEMMA RestFacts ==
    ASSUME Top \in FrameType, Top.todo # <<>>
    PROVE  /\ Rest \in FrameType /\ Rest.op = Top.op /\ Rest.p = Top.p /\ Rest.by = Top.by
           /\ Rest.at = Top.at /\ Rest.todo = Tail(Top.todo)
           /\ Head(Top.todo) \in Plugins /\ Tail(Top.todo) \in Seq(Plugins)
           /\ ToSet(Top.todo) = ToSet(Tail(Top.todo)) \cup {Head(Top.todo)}
           /\ Head(Top.todo) \in ToSet(Top.todo) /\ ToSet(Tail(Top.todo)) \subseteq ToSet(Top.todo)
<1>1. Top.todo \in Seq(Plugins)
  BY DEF FrameType
<1>2. PICK s \in Seq(Plugins) : s = Tail(Top.todo)
  BY <1>1, HeadAndTail
<1>3. Rest = [Top EXCEPT !.todo = s]
  BY <1>2 DEF Rest
<1>4. /\ Rest \in FrameType /\ Rest.op = Top.op /\ Rest.p = Top.p /\ Rest.by = Top.by
      /\ Rest.at = Top.at /\ Rest.todo = s
  BY <1>3, FieldsOK
<1> QED
  BY <1>1, <1>2, <1>4, HeadAndTail

\* That frame, with its place or its plugin set too.
LEMMA RestEdits ==
    ASSUME Top \in FrameType, Top.todo # <<>>
    PROVE  /\ LET g == [Rest EXCEPT !.at = "each"] IN
              /\ g \in FrameType /\ g.op = Top.op /\ g.p = Top.p /\ g.by = Top.by
              /\ g.at = "each" /\ g.todo = Tail(Top.todo)
           /\ \A p \in Plugins : LET g == [Rest EXCEPT !.p = p] IN
              /\ g \in FrameType /\ g.op = Top.op /\ g.p = p /\ g.by = Top.by
              /\ g.at = Top.at /\ g.todo = Tail(Top.todo)
<1>1. PICK r \in FrameType : /\ r = Rest /\ r.op = Top.op /\ r.p = Top.p /\ r.by = Top.by
                             /\ r.at = Top.at /\ r.todo = Tail(Top.todo)
  BY RestFacts
<1>2. "each" \in Ats
  BY DEF Ats
<1>3. PICK g : g = [r EXCEPT !.at = "each"]
  OBVIOUS
<1>4. g \in FrameType /\ g.op = r.op /\ g.p = r.p /\ g.by = r.by /\ g.at = "each" /\ g.todo = r.todo
  BY <1>2, <1>3, FieldsOK
<1>5. ASSUME NEW p \in Plugins
      PROVE  LET h == [Rest EXCEPT !.p = p] IN
              /\ h \in FrameType /\ h.op = Top.op /\ h.p = p /\ h.by = Top.by
              /\ h.at = Top.at /\ h.todo = Tail(Top.todo)
  <2>1. PICK h : h = [r EXCEPT !.p = p]
    OBVIOUS
  <2>2. h \in FrameType /\ h.op = r.op /\ h.p = p /\ h.by = r.by /\ h.at = r.at /\ h.todo = r.todo
    BY <2>1, FieldsOK
  <2> QED
    BY <1>1, <2>1, <2>2
<1> QED
  BY <1>1, <1>3, <1>4, <1>5

\* A call that ends leaves the types in order.
LEMMA PopTypes ==
    ASSUME TypeInv, stack # <<>>, Leave \/ Throw, UnchangedTable
    PROVE  TypeInv'
<1>1. nested' = nested
  BY DEF UnchangedTable, tallyVars
<1> QED
  BY <1>1, SameTable, PopKeeps DEF TypeInv

\* So does one that goes on without touching the table.
LEMMA ContinueTypes ==
    ASSUME TypeInv, stack # <<>>, UnchangedTable,
           NEW f \in FrameType, Continue(f), PlaceOK(f), f.op = Top.op, f.by = Top.by
    PROVE  TypeInv'
<1>1. nested' = nested
  BY DEF UnchangedTable, tallyVars
<1> QED
  BY <1>1, SameTable, ContinueKeeps DEF TypeInv

\* And one that makes another call.
LEMMA InvokeTypes ==
    ASSUME TypeInv, stack # <<>>, TableOK', nested' = nested,
           NEW f \in FrameType, NEW op \in Ops, NEW p \in Plugins \cup {NoPlugin}, Invoke(f, op, p),
           PlaceOK(f), f.op = Top.op, f.by = Top.by, HasCalled(f), f.at \notin {"done", "failed"},
           op \in Single => p \in Plugins, MayCallOp(f.op, op)
    PROVE  TypeInv'
BY InvokeKeeps DEF TypeInv

\* load_plugin keeps the types and the structure of the stack.
LEMMA LoadTypes ==
    ASSUME TypeInv, LoadEnter \/ LoadDependency \/ LoadHooks \/ LoadCatches
    PROVE  TypeInv'
<1>1. stack # <<>> /\ Top.op = "load" /\ TableOK
  BY DEF LoadEnter, LoadDependency, LoadHooks, LoadCatches, In, Caught, TypeInv, CallsOK
<1>2. PICK p \in Plugins : /\ p = Top.p /\ deps[p] \in Seq(Plugins) /\ Top.todo \in Seq(Plugins)
                           /\ Top \in FrameType /\ PlaceOK(Top)
  BY <1>1, TopFacts DEF Single
<1>3. {"deps", "done", "failed"} \subseteq Ats /\ "load" \in Ops /\ "load" \in Single
  BY DEF Ats, Ops, Single
<1>4. nested' = nested
  BY DEF LoadEnter, LoadDependency, LoadHooks, LoadCatches, UnchangedTable, tallyVars
<1>5. ASSUME NEW at \in {"deps", "done", "failed"}
      PROVE  /\ At(at) \in FrameType /\ At(at).op = "load" /\ At(at).p = p /\ At(at).by = Top.by
             /\ At(at).at = at /\ PlaceOK(At(at))
  <2>1. /\ At(at) \in FrameType /\ At(at).op = "load" /\ At(at).p = p /\ At(at).by = Top.by
        /\ At(at).at = at
    BY <1>1, <1>2, <1>3, AtFacts
  <2> QED
    BY <2>1 DEF PlaceOK
<1>6. ASSUME Fails(p), Continue(At("failed")), faults' \in Nat,
             UNCHANGED <<plugins, deps, admitted, running, tallyVars>>
      PROVE  TypeInv'
  <2>1. TableOK'
    BY <1>1, <1>6, FailsOK DEF tallyVars
  <2>2. PICK f \in FrameType : f = At("failed") /\ PlaceOK(f) /\ f.op = "load" /\ f.by = Top.by
    BY <1>5
  <2> QED
    BY <1>1, <1>4, <1>6, <2>1, <2>2, ContinueKeeps DEF TypeInv
<1>7. CASE LoadEnter
  <2>1. CASE ~Present(p) /\ Throw /\ UNCHANGED <<states, errors>>
    BY <1>1, <1>7, <2>1, PopTypes DEF LoadEnter, UnchangedTable, tableVars
  <2>2. CASE Leave /\ UNCHANGED <<states, errors>>
    BY <1>1, <1>7, <2>2, PopTypes DEF LoadEnter, UnchangedTable, tableVars
  <2>3. CASE Fails(p) /\ Continue(At("failed"))
    BY <1>1, <1>6, <1>7, <2>3 DEF LoadEnter, TableOK
  <2>4. CASE Continue([At("deps") EXCEPT !.todo = deps[p]]) /\ UNCHANGED <<states, errors>>
    <3>1. PICK f \in FrameType : /\ f = [At("deps") EXCEPT !.todo = deps[p]] /\ f.op = "load" /\ f.p = p
                                 /\ f.by = Top.by /\ f.at = "deps"
      <4>1. PICK s \in Seq(Plugins) : s = deps[p]
        BY <1>2
      <4>2. PICK f : f = [At("deps") EXCEPT !.todo = s]
        OBVIOUS
      <4>3. /\ f \in FrameType /\ f.op = Top.op /\ f.p = Top.p /\ f.by = Top.by
            /\ f.at = "deps" /\ f.todo = s
        BY <1>2, <1>3, <4>2, AtTodoFacts
      <4> QED
        BY <1>1, <1>2, <4>1, <4>2, <4>3
    <3>2. PlaceOK(f)
      BY <1>2, <3>1 DEF PlaceOK
    <3>3. Continue(f) /\ UnchangedTable
      BY <1>7, <2>4, <3>1 DEF LoadEnter, UnchangedTable, tableVars
    <3> QED
      BY <1>1, <3>1, <3>2, <3>3, ContinueTypes
  <2> QED
    BY <1>2, <1>7, <2>1, <2>2, <2>3, <2>4 DEF LoadEnter
<1>8. CASE LoadDependency
  <2>1. Top.todo # <<>> /\ Top.at = "deps" /\ UnchangedTable
    BY <1>8 DEF LoadDependency, In
  <2>2. PICK f \in FrameType, d \in Plugins :
          f = Rest /\ f.op = "load" /\ f.p = p /\ f.by = Top.by /\ f.at = "deps" /\ d = Head(Top.todo)
    BY <1>1, <1>2, <2>1, RestFacts
  <2>3. PlaceOK(f) /\ HasCalled(f) /\ f.at \notin {"done", "failed"} /\ MayCallOp(f.op, "load")
    BY <2>2 DEF PlaceOK, HasCalled, MayCallOp
  <2>4. Invoke(f, "load", d) \/ Continue(f)
    BY <1>8, <2>2 DEF LoadDependency
  <2>5. CASE Invoke(f, "load", d)
    BY <1>1, <1>3, <1>4, <2>1, <2>2, <2>3, <2>5, InvokeTypes, SameTable
  <2>6. CASE Continue(f)
    BY <1>1, <2>1, <2>2, <2>3, <2>6, ContinueTypes
  <2> QED
    BY <2>4, <2>5, <2>6
<1>9. CASE LoadHooks
  <2>1. CASE SetState(p, "loaded") /\ errors' = errors \ {p} /\ Continue(At("done")) /\ UNCHANGED faults
    <3>1. TableOK'
      <4>1. /\ running' \subseteq Plugins /\ outdated' \subseteq Plugins /\ wasActive' \subseteq Plugins
            /\ calls' \in Nat /\ nested' \in Nat
            /\ faults' \in Nat /\ plugins' \in Seq(Plugins) /\ IsInjective(plugins')
            /\ deps' \in [Plugins -> Seq(Plugins)] /\ admitted' \subseteq Plugins
        BY <1>1, <1>9, <2>1 DEF LoadHooks, tallyVars, TableOK
      <4>2. "loaded" \in (PluginState \cup {"none"}) \ {"failed"}
        BY DEF PluginState
      <4> QED
        BY <1>1, <2>1, <4>1, <4>2, StateOK
    <3>2. PICK f \in FrameType : f = At("done") /\ PlaceOK(f) /\ f.op = "load" /\ f.by = Top.by
      BY <1>5
    <3> QED
      BY <1>1, <1>4, <2>1, <3>1, <3>2, ContinueKeeps DEF TypeInv
  <2>2. CASE Fault /\ Fails(p) /\ Continue(At("failed"))
    BY <1>1, <1>6, <1>9, <2>2 DEF LoadHooks, Fault, TableOK
  <2> QED
    BY <1>2, <1>9, <2>1, <2>2 DEF LoadHooks
<1>10. CASE LoadCatches
  BY <1>1, <1>2, <1>6, <1>10 DEF LoadCatches, TableOK
<1> QED
  BY <1>7, <1>8, <1>9, <1>10

\* start_plugin keeps them.
LEMMA StartTypes ==
    ASSUME TypeInv, StartEnter \/ StartDependency \/ StartHook \/ StartThrows
    PROVE  TypeInv'
<1>1. stack # <<>> /\ Top.op = "start" /\ TableOK
  BY DEF StartEnter, StartDependency, StartHook, StartThrows, In, Caught, TypeInv, CallsOK
<1>2. PICK p \in Plugins : /\ p = Top.p /\ deps[p] \in Seq(Plugins) /\ Top.todo \in Seq(Plugins)
                           /\ Top \in FrameType /\ PlaceOK(Top)
  BY <1>1, TopFacts DEF Single
<1>3. {"deps", "done", "failed"} \subseteq Ats /\ {"load", "start"} \subseteq Ops \cap Single
  BY DEF Ats, Ops, Single
<1>4. nested' = nested
  BY DEF StartEnter, StartDependency, StartHook, StartThrows, UnchangedTable, tallyVars
<1>5. ASSUME NEW at \in {"deps", "done", "failed"}
      PROVE  /\ At(at) \in FrameType /\ At(at).op = "start" /\ At(at).p = p /\ At(at).by = Top.by
             /\ At(at).at = at /\ PlaceOK(At(at))
  <2>1. /\ At(at) \in FrameType /\ At(at).op = "start" /\ At(at).p = p /\ At(at).by = Top.by
        /\ At(at).at = at
    BY <1>1, <1>2, <1>3, AtFacts
  <2> QED
    BY <2>1 DEF PlaceOK
<1>6. CASE StartEnter
  <2>1. UnchangedTable
    BY <1>6 DEF StartEnter
  <2>2. CASE Throw \/ Leave
    BY <1>1, <2>1, <2>2, PopTypes
  <2>3. PICK s \in Seq(Plugins) : s = deps[p]
    BY <1>2
  <2>4. PICK f : f = [At("deps") EXCEPT !.todo = s]
    OBVIOUS
  <2>5. f \in FrameType /\ f.op = "start" /\ f.p = p /\ f.by = Top.by /\ f.at = "deps"
    BY <1>1, <1>2, <1>3, <2>4, AtTodoFacts
  <2>6. PlaceOK(f) /\ HasCalled(f) /\ f.at \notin {"done", "failed"} /\ MayCallOp(f.op, "load")
    BY <2>5 DEF PlaceOK, HasCalled, MayCallOp
  <2>7. CASE Invoke(f, "load", p)
    BY <1>1, <1>3, <1>4, <2>1, <2>5, <2>6, <2>7, InvokeTypes, SameTable
  <2>8. CASE Continue(f)
    BY <1>1, <2>1, <2>5, <2>6, <2>8, ContinueTypes
  <2> QED
    BY <1>2, <1>6, <2>2, <2>3, <2>4, <2>7, <2>8 DEF StartEnter
<1>7. CASE StartDependency
  <2>1. Top.todo # <<>> /\ Top.at = "deps" /\ UnchangedTable
    BY <1>7 DEF StartDependency, In
  <2>2. PICK f \in FrameType, d \in Plugins :
          f = Rest /\ f.op = "start" /\ f.p = p /\ f.by = Top.by /\ f.at = "deps" /\ d = Head(Top.todo)
    BY <1>1, <1>2, <2>1, RestFacts
  <2>3. PlaceOK(f) /\ HasCalled(f) /\ f.at \notin {"done", "failed"} /\ MayCallOp(f.op, "start")
    BY <2>2 DEF PlaceOK, HasCalled, MayCallOp
  <2>4. Invoke(f, "start", d) \/ Continue(f)
    BY <1>7, <2>2 DEF StartDependency
  <2>5. CASE Invoke(f, "start", d)
    BY <1>1, <1>3, <1>4, <2>1, <2>2, <2>3, <2>5, InvokeTypes, SameTable
  <2>6. CASE Continue(f)
    BY <1>1, <2>1, <2>2, <2>3, <2>6, ContinueTypes
  <2> QED
    BY <2>4, <2>5, <2>6
<1>8. CASE StartHook
  <2>1. CASE /\ SetState(p, "active") /\ running' = running \cup {p}
             /\ outdated' = outdated \ {p} \/ outdated' = outdated \cup {p}
             /\ Continue(At("done")) /\ UNCHANGED <<errors, faults>>
    <3>1. TableOK'
      <4>1. /\ running' \subseteq Plugins /\ outdated' \subseteq Plugins /\ wasActive' \subseteq Plugins
            /\ calls' \in Nat /\ nested' \in Nat
            /\ faults' \in Nat /\ plugins' \in Seq(Plugins) /\ IsInjective(plugins')
            /\ deps' \in [Plugins -> Seq(Plugins)] /\ admitted' \subseteq Plugins
        BY <1>1, <1>8, <2>1 DEF StartHook, tallyVars, TableOK
      <4>2. "active" \in (PluginState \cup {"none"}) \ {"failed"}
        BY DEF PluginState
      <4> QED
        BY <1>1, <2>1, <4>1, <4>2, StateOK
    <3>2. PICK f \in FrameType : f = At("done") /\ PlaceOK(f) /\ f.op = "start" /\ f.by = Top.by
      BY <1>5
    <3> QED
      BY <1>1, <1>4, <2>1, <3>1, <3>2, ContinueKeeps DEF TypeInv
  <2>2. CASE Fault /\ Fails(p) /\ Continue(At("failed")) /\ UNCHANGED <<running, outdated>>
    <3>1. TableOK'
      BY <1>1, <1>8, <2>2, FailsOK DEF StartHook, Fault, tallyVars, TableOK
    <3>2. PICK f \in FrameType : f = At("failed") /\ PlaceOK(f) /\ f.op = "start" /\ f.by = Top.by
      BY <1>5
    <3> QED
      BY <1>1, <1>4, <2>2, <3>1, <3>2, ContinueKeeps DEF TypeInv
  <2> QED
    BY <1>2, <1>8, <2>1, <2>2 DEF StartHook
<1>9. CASE StartThrows
  BY <1>1, <1>9, PopTypes DEF StartThrows
<1> QED
  BY <1>6, <1>7, <1>8, <1>9

\* stop_plugin keeps them.
LEMMA StopTypes == ASSUME TypeInv, Stop  PROVE TypeInv'
<1>1. stack # <<>> /\ Top.op = "stop" /\ TableOK
  BY DEF Stop, In, TypeInv
<1>2. PICK p \in Plugins : p = Top.p /\ Top \in FrameType
  BY <1>1, TopFacts DEF Single
<1>3. {"done", "failed"} \subseteq Ats
  BY DEF Ats
<1>4. nested' = nested
  BY DEF Stop, tallyVars
<1>5. ASSUME NEW at \in {"done", "failed"}
      PROVE  /\ At(at) \in FrameType /\ At(at).op = "stop" /\ At(at).p = p /\ At(at).by = Top.by
             /\ At(at).at = at /\ PlaceOK(At(at))
  <2>1. /\ At(at) \in FrameType /\ At(at).op = "stop" /\ At(at).p = p /\ At(at).by = Top.by
        /\ At(at).at = at
    BY <1>1, <1>2, <1>3, AtFacts
  <2> QED
    BY <2>1 DEF PlaceOK, Single
<1>6. CASE (Throw \/ Leave) /\ UNCHANGED <<states, errors, running, faults>>
  BY <1>1, <1>6, PopTypes DEF Stop, UnchangedTable, tableVars
<1>7. CASE running' = running \ {p} /\ SetState(p, "stopped") /\ Continue(At("done")) /\ UNCHANGED <<errors, faults>>
  <2>1. TableOK'
    <3>1. /\ running' \subseteq Plugins /\ outdated' \subseteq Plugins /\ wasActive' \subseteq Plugins
          /\ calls' \in Nat /\ nested' \in Nat
          /\ faults' \in Nat /\ plugins' \in Seq(Plugins) /\ IsInjective(plugins')
            /\ deps' \in [Plugins -> Seq(Plugins)] /\ admitted' \subseteq Plugins
      BY <1>1, <1>7 DEF Stop, tallyVars, TableOK
    <3>2. "stopped" \in (PluginState \cup {"none"}) \ {"failed"}
      BY DEF PluginState
    <3> QED
      BY <1>1, <1>7, <3>1, <3>2, StateOK
  <2>2. PICK f \in FrameType : f = At("done") /\ PlaceOK(f) /\ f.op = "stop" /\ f.by = Top.by
    BY <1>5
  <2> QED
    BY <1>1, <1>4, <1>7, <2>1, <2>2, ContinueKeeps DEF TypeInv
<1>8. CASE running' = running \ {p} /\ Fault /\ Fails(p) /\ Continue(At("failed"))
  <2>1. TableOK'
    BY <1>1, <1>8 DEF Stop, Fault, Fails, SetState, tallyVars, TableOK, PluginState, FailuresAreExplained
  <2>2. PICK f \in FrameType : f = At("failed") /\ PlaceOK(f) /\ f.op = "stop" /\ f.by = Top.by
    BY <1>5
  <2> QED
    BY <1>1, <1>4, <1>8, <2>1, <2>2, ContinueKeeps DEF TypeInv
<1> QED
  BY <1>2, <1>6, <1>7, <1>8 DEF Stop

\* unload_plugin keeps them.
LEMMA UnloadTypes ==
    ASSUME TypeInv, UnloadEnter \/ UnloadHook \/ UnloadThrows
    PROVE  TypeInv'
<1>1. stack # <<>> /\ Top.op = "unload" /\ TableOK
  BY DEF UnloadEnter, UnloadHook, UnloadThrows, In, Caught, TypeInv, CallsOK
<1>2. PICK p \in Plugins : p = Top.p /\ Top \in FrameType
  BY <1>1, TopFacts DEF Single
<1>3. {"hook", "done", "failed"} \subseteq Ats /\ "stop" \in Ops
  BY DEF Ats, Ops, Single
<1>4. nested' = nested
  BY DEF UnloadEnter, UnloadHook, UnloadThrows, UnchangedTable, tallyVars
<1>5. ASSUME NEW at \in {"hook", "done", "failed"}
      PROVE  /\ At(at) \in FrameType /\ At(at).op = "unload" /\ At(at).p = p /\ At(at).by = Top.by
             /\ At(at).at = at /\ PlaceOK(At(at))
  <2>1. /\ At(at) \in FrameType /\ At(at).op = "unload" /\ At(at).p = p /\ At(at).by = Top.by
        /\ At(at).at = at
    BY <1>1, <1>2, <1>3, AtFacts
  <2> QED
    BY <2>1 DEF PlaceOK, Single
<1>6. CASE UnloadEnter
  <2>1. UnchangedTable
    BY <1>6 DEF UnloadEnter
  <2>2. CASE Throw \/ Leave
    BY <1>1, <2>1, <2>2, PopTypes
  <2>3. PICK f \in FrameType : /\ f = At("hook") /\ f.op = "unload" /\ f.p = p /\ f.by = Top.by
                               /\ f.at = "hook" /\ PlaceOK(f)
    BY <1>5
  <2>4. HasCalled(f) /\ f.at \notin {"done", "failed"} /\ MayCallOp(f.op, "stop")
    BY <2>3 DEF HasCalled, MayCallOp
  <2>5. CASE Invoke(f, "stop", p)
    BY <1>1, <1>3, <1>4, <2>1, <2>3, <2>4, <2>5, InvokeTypes, SameTable
  <2>6. CASE Continue(f)
    BY <1>1, <2>1, <2>3, <2>6, ContinueTypes
  <2> QED
    BY <1>2, <1>6, <2>2, <2>3, <2>5, <2>6 DEF UnloadEnter
<1>7. CASE UnloadHook
  <2>1. CASE SetState(p, "registered") /\ Continue(At("done")) /\ UNCHANGED <<errors, faults>>
    <3>1. TableOK'
      <4>1. /\ running' \subseteq Plugins /\ outdated' \subseteq Plugins /\ wasActive' \subseteq Plugins
            /\ calls' \in Nat /\ nested' \in Nat
            /\ faults' \in Nat /\ plugins' \in Seq(Plugins) /\ IsInjective(plugins')
            /\ deps' \in [Plugins -> Seq(Plugins)] /\ admitted' \subseteq Plugins
        BY <1>1, <1>7, <2>1 DEF UnloadHook, tallyVars, TableOK
      <4>2. "registered" \in (PluginState \cup {"none"}) \ {"failed"}
        BY DEF PluginState
      <4> QED
        BY <1>1, <2>1, <4>1, <4>2, StateOK
    <3>2. PICK f \in FrameType : f = At("done") /\ PlaceOK(f) /\ f.op = "unload" /\ f.by = Top.by
      BY <1>5
    <3> QED
      BY <1>1, <1>4, <2>1, <3>1, <3>2, ContinueKeeps DEF TypeInv
  <2>2. CASE Fault /\ Fails(p) /\ Continue(At("failed"))
    <3>1. TableOK'
      BY <1>1, <1>7, <2>2, FailsOK DEF UnloadHook, Fault, tallyVars, TableOK
    <3>2. PICK f \in FrameType : f = At("failed") /\ PlaceOK(f) /\ f.op = "unload" /\ f.by = Top.by
      BY <1>5
    <3> QED
      BY <1>1, <1>4, <2>2, <3>1, <3>2, ContinueKeeps DEF TypeInv
  <2> QED
    BY <1>2, <1>7, <2>1, <2>2 DEF UnloadHook
<1>8. CASE UnloadThrows
  BY <1>1, <1>8, PopTypes DEF UnloadThrows
<1> QED
  BY <1>6, <1>7, <1>8

\* unregister keeps them.
LEMMA UnregisterTypes ==
    ASSUME TypeInv, UnregisterEnter \/ UnregisterUnload \/ UnregisterRemove \/ UnregisterCatches
    PROVE  TypeInv'
<1>1. stack # <<>> /\ Top.op = "unregister" /\ TableOK
  BY DEF UnregisterEnter, UnregisterUnload, UnregisterRemove, UnregisterCatches, In, Caught, TypeInv, CallsOK
<1>2. PICK p \in Plugins : p = Top.p /\ Top \in FrameType /\ PlaceOK(Top)
  BY <1>1, TopFacts DEF Single
<1>3. {"unload", "remove"} \subseteq Ats /\ {"stop", "unload"} \subseteq Ops \cap Single
  BY DEF Ats, Ops, Single
<1>4. nested' = nested
  BY DEF UnregisterEnter, UnregisterUnload, UnregisterRemove, UnregisterCatches, UnchangedTable, tallyVars
<1>5. ASSUME NEW at \in {"unload", "remove"}
      PROVE  /\ At(at) \in FrameType /\ At(at).op = "unregister" /\ At(at).p = p /\ At(at).by = Top.by
             /\ At(at).at = at /\ PlaceOK(At(at)) /\ HasCalled(At(at)) /\ At(at).at \notin {"done", "failed"}
  <2>1. /\ At(at) \in FrameType /\ At(at).op = "unregister" /\ At(at).p = p /\ At(at).by = Top.by
        /\ At(at).at = at
    BY <1>1, <1>2, <1>3, AtFacts
  <2> QED
    BY <2>1 DEF PlaceOK, HasCalled, Single
<1>6. MayCallOp("unregister", "stop") /\ MayCallOp("unregister", "unload")
  BY DEF MayCallOp
<1>7. CASE UnregisterEnter \/ UnregisterUnload
  <2>1. UnchangedTable
    BY <1>7 DEF UnregisterEnter, UnregisterUnload
  <2>2. CASE Throw
    BY <1>1, <2>1, <2>2, PopTypes
  <2>3. CASE \E at \in {"unload", "remove"}, op \in {"stop", "unload"} : Invoke(At(at), op, p)
    <3>1. PICK f \in FrameType, op \in {"stop", "unload"} :
            /\ Invoke(f, op, p) /\ f.op = "unregister" /\ f.p = p /\ f.by = Top.by
            /\ PlaceOK(f) /\ HasCalled(f) /\ f.at \notin {"done", "failed"}
      BY <1>5, <2>3
    <3>2. op \in Ops /\ MayCallOp(f.op, op) /\ p \in Plugins \cup {NoPlugin} /\ f.op = Top.op
      BY <1>1, <1>3, <1>6, <3>1
    <3>3. TableOK'
      BY <1>1, <2>1, SameTable
    <3> QED
      BY <1>1, <1>4, <3>1, <3>2, <3>3, InvokeTypes
  <2>4. CASE Continue(At("remove"))
    <3>1. PICK f \in FrameType : f = At("remove") /\ f.op = "unregister" /\ f.by = Top.by /\ PlaceOK(f)
      BY <1>5
    <3> QED
      BY <1>1, <2>1, <2>4, <3>1, ContinueTypes
  <2> QED
    BY <1>2, <1>7, <2>2, <2>3, <2>4 DEF UnregisterEnter, UnregisterUnload
<1>8. CASE UnregisterRemove
  <2>1. CASE /\ plugins' = Kept(plugins, Plugins \ {p}) /\ SetState(p, "none") /\ errors' = errors \ {p}
             /\ running' = running \ {p} /\ Leave
    <3>1. plugins' \in Seq(Plugins) /\ IsInjective(plugins')
      BY <1>1, <2>1, KeptOK DEF TableOK, IsList
    <3>2. /\ running' \subseteq Plugins /\ outdated' \subseteq Plugins /\ wasActive' \subseteq Plugins
          /\ calls' \in Nat /\ nested' \in Nat /\ faults' \in Nat
          /\ deps' \in [Plugins -> Seq(Plugins)] /\ admitted' \subseteq Plugins
      BY <1>1, <1>8, <2>1 DEF UnregisterRemove, tallyVars, TableOK
    <3>3. "none" \in (PluginState \cup {"none"}) \ {"failed"}
      OBVIOUS
    <3>4. TableOK'
      BY <1>1, <2>1, <3>1, <3>2, <3>3, StateOK
    <3> QED
      BY <1>1, <1>4, <2>1, <3>4, PopKeeps DEF TypeInv
  <2>2. CASE Throw /\ UNCHANGED <<plugins, states, errors, running>>
    BY <1>1, <1>8, <2>2, PopTypes DEF UnregisterRemove, UnchangedTable, tableVars
  <2> QED
    BY <1>2, <1>8, <2>1, <2>2 DEF UnregisterRemove
<1>9. CASE UnregisterCatches
  BY <1>1, <1>2, <1>9, ContinueTypes DEF UnregisterCatches
<1> QED
  BY <1>7, <1>8, <1>9

\* The beginnings of initialize and of shutdown keep them.
LEMMA BeganTypes ==
    ASSUME TypeInv, Began("initialize", plugins) \/ Began("shutdown", Reverse(plugins))
    PROVE  TypeInv'
<1>1. PICK op \in {"initialize", "shutdown"}, list \in Seq(Plugins) : Began(op, list)
  BY ReverseOK DEF TypeInv, TableOK
<1>2. stack # <<>> /\ Top.op = op /\ UnchangedTable
  BY <1>1 DEF Began, In
<1>3. Top \in FrameType /\ "each" \in Ats
  BY <1>2, TopFacts DEF Ats
<1>4. PICK f : f = [At("each") EXCEPT !.todo = list]
  OBVIOUS
<1>5. f \in FrameType /\ f.op = op /\ f.p = Top.p /\ f.by = Top.by /\ f.at = "each"
  BY <1>2, <1>3, <1>4, AtTodoFacts
<1>6. PlaceOK(f) /\ Continue(f)
  BY <1>1, <1>4, <1>5 DEF PlaceOK, Single, Began
<1> QED
  BY <1>2, <1>5, <1>6, ContinueTypes

\* initialize keeps them.
LEMMA InitializeTypes ==
    ASSUME TypeInv, InitializeEach \/ InitializeCatches
    PROVE  TypeInv'
<1>1. stack # <<>> /\ Top.op = "initialize" /\ TableOK
  BY DEF InitializeEach, InitializeCatches, In, Caught, TypeInv, CallsOK
<1>2. Top \in FrameType /\ PlaceOK(Top)
  BY <1>1, TopFacts
<1>3. nested' = nested
  BY DEF InitializeEach, InitializeCatches, tallyVars
<1>4. CASE InitializeEach
  <2>1. Top.at = "each"
    BY <1>4 DEF InitializeEach, In
  <2>2. CASE Leave /\ UNCHANGED <<states, errors>>
    BY <1>1, <1>4, <2>2, PopTypes DEF InitializeEach, UnchangedTable, tableVars
  <2>3. CASE Top.todo # <<>> /\ Invoke([Rest EXCEPT !.p = Head(Top.todo)], "load", Head(Top.todo)) /\ UNCHANGED <<states, errors>>
    <3>1. PICK p \in Plugins : p = Head(Top.todo)
      BY <1>2, <2>3, RestFacts
    <3>2. PICK f : f = [Rest EXCEPT !.p = p]
      OBVIOUS
    <3>3. f \in FrameType /\ f.op = "initialize" /\ f.p = p /\ f.by = Top.by /\ f.at = "each"
      BY <1>1, <1>2, <2>1, <2>3, <3>2, RestEdits
    <3>4. PlaceOK(f) /\ HasCalled(f) /\ f.at \notin {"done", "failed"} /\ MayCallOp(f.op, "load") /\ "load" \in Ops
      BY <3>3 DEF PlaceOK, HasCalled, MayCallOp, Single, Ops
    <3>5. Invoke(f, "load", p) /\ TableOK'
      BY <1>1, <1>4, <2>3, <3>1, <3>2, SameTable DEF InitializeEach, UnchangedTable, tableVars
    <3> QED
      BY <1>1, <1>3, <3>3, <3>4, <3>5, InvokeTypes
  <2>4. CASE Top.todo # <<>> /\ Fails(Head(Top.todo)) /\ Continue(Rest)
    <3>1. PICK p \in Plugins : p = Head(Top.todo)
      BY <1>2, <2>4, RestFacts
    <3>2. TableOK'
      BY <1>1, <1>4, <2>4, <3>1, FailsOK DEF InitializeEach, tallyVars, TableOK
    <3>3. PICK f \in FrameType : f = Rest /\ f.op = "initialize" /\ f.by = Top.by /\ f.at = "each"
      BY <1>1, <1>2, <2>1, <2>4, RestFacts
    <3>4. PlaceOK(f)
      BY <3>3 DEF PlaceOK, Single
    <3> QED
      BY <1>1, <1>3, <2>4, <3>2, <3>3, <3>4, ContinueKeeps DEF TypeInv
  <2> QED
    BY <1>4, <2>2, <2>3, <2>4 DEF InitializeEach
<1>5. CASE InitializeCatches
  <2>1. Top.p \in Plugins
    BY <1>1, <1>5, TopFacts DEF InitializeCatches, Caught, HasCalled
  <2>2. TableOK'
    BY <1>1, <1>5, <2>1, FailsOK DEF InitializeCatches, tallyVars, TableOK
  <2>3. Continue(Top)
    BY <1>5 DEF InitializeCatches
  <2> QED
    BY <1>1, <1>2, <1>3, <2>2, <2>3, ContinueKeeps DEF TypeInv
<1> QED
  BY <1>4, <1>5

\* shutdown keeps them.
LEMMA ShutdownTypes ==
    ASSUME TypeInv, ShutdownEach \/ ShutdownUnload \/ ShutdownCatches
    PROVE  TypeInv'
<1>1. stack # <<>> /\ Top.op = "shutdown" /\ UnchangedTable
  BY DEF ShutdownEach, ShutdownUnload, ShutdownCatches, In, Caught, TypeInv, CallsOK
<1>2. Top \in FrameType /\ PlaceOK(Top) /\ TableOK'
  BY <1>1, TopFacts, SameTable DEF TypeInv
<1>3. nested' = nested
  BY <1>1 DEF UnchangedTable, tallyVars
<1>4. {"stop", "unload"} \subseteq Ops /\ MayCallOp("shutdown", "stop") /\ MayCallOp("shutdown", "unload")
  BY DEF Ops, Single, MayCallOp
<1>5. ASSUME Top.todo # <<>>
      PROVE  /\ At("unload") \in FrameType /\ At("unload").op = "shutdown" /\ At("unload").by = Top.by
             /\ At("unload").at = "unload" /\ PlaceOK(At("unload"))
  <2>1. /\ At("unload") \in FrameType /\ At("unload").op = "shutdown" /\ At("unload").by = Top.by
        /\ At("unload").at = "unload" /\ At("unload").todo # <<>>
    <3>1. "unload" \in Ats
      BY DEF Ats
    <3> QED
      BY <1>1, <1>2, <1>5, <3>1, AtFacts
  <2> QED
    BY <2>1 DEF PlaceOK, Single
<1>6. ASSUME Top.todo # <<>>
      PROVE  \E f \in FrameType : /\ f = [Rest EXCEPT !.at = "each"] /\ f.op = "shutdown" /\ f.by = Top.by
                                  /\ f.at = "each" /\ PlaceOK(f)
  <2>1. PICK f : f = [Rest EXCEPT !.at = "each"]
    OBVIOUS
  <2>2. f \in FrameType /\ f.op = "shutdown" /\ f.by = Top.by /\ f.at = "each"
    BY <1>1, <1>2, <1>6, <2>1, RestEdits
  <2>3. PlaceOK(f)
    BY <2>2 DEF PlaceOK, Single
  <2> QED
    BY <2>1, <2>2, <2>3
<1>7. CASE ShutdownEach
  <2>1. CASE Leave
    BY <1>1, <2>1, PopTypes
  <2>2. CASE Top.todo # <<>> /\ Invoke(At("unload"), "stop", Head(Top.todo))
    <3>1. PICK p \in Plugins : p = Head(Top.todo)
      BY <1>2, <2>2, RestFacts
    <3>2. PICK f \in FrameType : /\ f = At("unload") /\ f.op = "shutdown" /\ f.by = Top.by
                                 /\ f.at = "unload" /\ PlaceOK(f)
      BY <1>5, <2>2
    <3>3. HasCalled(f) /\ f.at \notin {"done", "failed"} /\ MayCallOp(f.op, "stop")
      BY <1>4, <3>2 DEF HasCalled
    <3>4. Invoke(f, "stop", p)
      BY <2>2, <3>1, <3>2
    <3> QED
      BY <1>1, <1>2, <1>3, <1>4, <3>2, <3>3, <3>4, InvokeTypes
  <2>3. CASE Top.todo # <<>> /\ Continue(At("unload"))
    BY <1>1, <1>5, <2>3, ContinueTypes
  <2> QED
    BY <1>7, <2>1, <2>2, <2>3 DEF ShutdownEach
<1>8. CASE ShutdownUnload
  <2>1. Top.todo # <<>>
    BY <1>1, <1>2, <1>8 DEF ShutdownUnload, In, PlaceOK
  <2>2. PICK p \in Plugins : p = Head(Top.todo)
    BY <1>2, <2>1, RestFacts
  <2>3. PICK f \in FrameType : /\ f = [Rest EXCEPT !.at = "each"] /\ f.op = "shutdown" /\ f.by = Top.by
                               /\ f.at = "each" /\ PlaceOK(f)
    BY <1>6, <2>1
  <2>4. HasCalled(f) /\ f.at \notin {"done", "failed"} /\ MayCallOp(f.op, "unload")
    BY <1>4, <2>3 DEF HasCalled
  <2>5. Invoke(f, "unload", p) \/ Continue(f)
    BY <1>8, <2>2, <2>3 DEF ShutdownUnload
  <2>6. CASE Invoke(f, "unload", p)
    BY <1>1, <1>2, <1>3, <1>4, <2>3, <2>4, <2>6, InvokeTypes
  <2>7. CASE Continue(f)
    BY <1>1, <2>3, <2>7, ContinueTypes
  <2> QED
    BY <2>5, <2>6, <2>7
<1>9. CASE ShutdownCatches
  <2>1. CASE Top.at = "unload"
    <3>1. Top.todo # <<>>
      BY <1>1, <1>2, <2>1 DEF PlaceOK
    <3>2. PICK f \in FrameType : /\ f = [Rest EXCEPT !.at = "each"] /\ f.op = "shutdown" /\ f.by = Top.by
                                 /\ f.at = "each" /\ PlaceOK(f)
      BY <1>6, <3>1
    <3>3. Continue(f)
      BY <1>9, <2>1, <3>2 DEF ShutdownCatches
    <3> QED
      BY <1>1, <3>2, <3>3, ContinueTypes
  <2>2. CASE Top.at # "unload"
    <3>1. Continue(Top)
      BY <1>9, <2>2 DEF ShutdownCatches
    <3> QED
      BY <1>1, <1>2, <3>1, ContinueTypes
  <2> QED
    BY <2>1, <2>2
<1> QED
  BY <1>7, <1>8, <1>9

\* reload keeps them.
LEMMA ReloadTypes ==
    ASSUME TypeInv, ReloadShutdown \/ ReloadInitialize \/ ReloadStart \/ ReloadCatches
    PROVE  TypeInv'
<1>1. stack # <<>> /\ Top.op = "reload" /\ TableOK
  BY DEF ReloadShutdown, ReloadInitialize, ReloadStart, ReloadCatches, In, Caught, TypeInv, CallsOK
<1>2. Top \in FrameType /\ PlaceOK(Top)
  BY <1>1, TopFacts
<1>3. nested' = nested
  BY DEF ReloadShutdown, ReloadInitialize, ReloadStart, ReloadCatches, UnchangedTable, tallyVars
<1>4. /\ {"shutdown", "initialize", "start"} \subseteq Ops /\ {"init", "each"} \subseteq Ats
      /\ MayCallOp("reload", "shutdown") /\ MayCallOp("reload", "initialize") /\ MayCallOp("reload", "start")
      /\ "shutdown" \notin Single /\ "initialize" \notin Single
  BY DEF Ops, Single, MayCallOp, Ats
<1>5. TableOK'
  <2>1. CASE ReloadShutdown
    BY <1>1, <2>1 DEF ReloadShutdown, tableVars, TableOK, FailuresAreExplained, ActivePlugins
  <2>2. CASE UnchangedTable
    BY <1>1, <2>2, SameTable
  <2> QED
    BY <2>1, <2>2 DEF ReloadInitialize, ReloadStart, ReloadCatches
<1>6. CASE ReloadShutdown
  <2>1. PICK s \in Seq(Plugins) : s = Kept(plugins, ActivePlugins)
    BY <1>1, KeptOK DEF TableOK, IsList
  <2>2. PICK f : f = [At("init") EXCEPT !.todo = s]
    OBVIOUS
  <2>3. f \in FrameType /\ f.op = "reload" /\ f.by = Top.by /\ f.at = "init"
    BY <1>1, <1>2, <1>4, <2>2, AtTodoFacts
  <2>4. PlaceOK(f) /\ HasCalled(f) /\ f.at \notin {"done", "failed"}
    BY <2>3 DEF PlaceOK, HasCalled, Single
  <2>5. Invoke(f, "shutdown", NoPlugin)
    BY <1>6, <2>1, <2>2 DEF ReloadShutdown
  <2> QED
    BY <1>1, <1>3, <1>4, <1>5, <2>3, <2>4, <2>5, InvokeTypes
<1>7. CASE ReloadInitialize
  <2>1. PICK f : f = At("each")
    OBVIOUS
  <2>2. f \in FrameType /\ f.op = "reload" /\ f.by = Top.by /\ f.at = "each"
    BY <1>1, <1>2, <1>4, <2>1, AtFacts
  <2>3. PlaceOK(f) /\ HasCalled(f) /\ f.at \notin {"done", "failed"}
    BY <2>2 DEF PlaceOK, HasCalled, Single
  <2>4. Invoke(f, "initialize", NoPlugin)
    BY <1>7, <2>1 DEF ReloadInitialize
  <2> QED
    BY <1>1, <1>3, <1>4, <1>5, <2>2, <2>3, <2>4, InvokeTypes
<1>8. CASE ReloadStart
  <2>1. Top.at = "each" /\ UnchangedTable
    BY <1>8 DEF ReloadStart, In
  <2>2. CASE Leave
    BY <1>1, <2>1, <2>2, PopTypes
  <2>3. CASE Top.todo # <<>> /\ (Invoke(Rest, "start", Head(Top.todo)) \/ Continue(Rest))
    <3>1. PICK f \in FrameType, p \in Plugins :
            f = Rest /\ f.op = "reload" /\ f.by = Top.by /\ f.at = "each" /\ p = Head(Top.todo)
      BY <1>1, <1>2, <2>1, <2>3, RestFacts
    <3>2. PlaceOK(f) /\ HasCalled(f) /\ f.at \notin {"done", "failed"}
      BY <3>1 DEF PlaceOK, HasCalled, Single
    <3>3. CASE Invoke(f, "start", p)
      BY <1>1, <1>3, <1>4, <1>5, <3>1, <3>2, <3>3, InvokeTypes
    <3>4. CASE Continue(f)
      BY <1>1, <2>1, <3>1, <3>2, <3>4, ContinueTypes
    <3> QED
      BY <2>3, <3>1, <3>3, <3>4
  <2> QED
    BY <1>8, <2>2, <2>3 DEF ReloadStart
<1>9. CASE ReloadCatches
  <2>1. UnchangedTable /\ (Continue(Top) \/ Throw)
    BY <1>9 DEF ReloadCatches
  <2> QED
    BY <1>1, <1>2, <2>1, ContinueTypes, PopTypes
<1> QED
  BY <1>6, <1>7, <1>8, <1>9

\* The instance of a plugin is replaced by one with any dependencies and version.
LEMMA InstanceTypes ==
    ASSUME TableOK, NEW p \in Plugins, Instance(p)
    PROVE  /\ deps' \in [Plugins -> Seq(Plugins)]
           /\ admitted' \subseteq Plugins /\ outdated' \subseteq Plugins
<1>1. PICK g \in Graphs : deps' = [deps EXCEPT ![p] = g[p]]
  BY DEF Instance
<1>2. PICK s \in Seq(Plugins) : s = g[p]
  BY PluginAssumption
<1>3. deps' \in [Plugins -> Seq(Plugins)]
  BY <1>1, <1>2 DEF TableOK
<1>4. admitted' \subseteq Plugins
  BY DEF Instance, TableOK
<1>5. outdated' \subseteq Plugins
  <2>1. outdated' = outdated \/ \E S : outdated' = outdated \cup {q \in running \ {p} : q \in S}
    <3>1. PICK S : S = {q \in running \ {p} : ~RestsOn(q, Plugins \ {p})}
      OBVIOUS
    <3>2. S = {q \in running \ {p} : q \in S}
      BY <3>1
    <3>3. outdated' = outdated \/ outdated' = outdated \cup S
      BY <3>1, Zenon DEF Instance
    <3> QED
      BY <3>2, <3>3, Zenon
  <2> QED
    BY <2>1 DEF TableOK
<1> QED
  BY <1>3, <1>4, <1>5

\* Calls by clients and handlers keep them.
LEMMA ClientTypes == ASSUME TypeInv, Client  PROVE TypeInv'
<1>1. TableOK /\ CallsOK
  BY DEF TypeInv
<1>2. ASSUME NEW op \in Ops, NEW p \in Plugins \cup {NoPlugin}, op \in Single => p \in Plugins, Call(op, p)
      PROVE  TypeInv'
  <2>1. CallsOK'
    BY <1>2, CallKeeps
  <2>2. TableOK'
    BY <1>1, <1>2 DEF TableOK, Call, MayCall, tableVars, FailuresAreExplained
  <2> QED
    BY <2>1, <2>2 DEF TypeInv
<1>3. ASSUME NEW p \in Plugins, Register(p)
      PROVE  TypeInv'
  <2>1. plugins' \in Seq(Plugins) /\ IsInjective(plugins')
    BY <1>1, <1>3, AppendToList DEF Register, TableOK, IsList, Present
  <2>2. TableOK'
    <3>1. /\ running' \subseteq Plugins /\ wasActive' \subseteq Plugins
          /\ calls' \in Nat /\ nested' \in Nat /\ faults' \in Nat
      BY <1>1, <1>3 DEF Register, MayCall, TableOK
    <3>4. /\ deps' \in [Plugins -> Seq(Plugins)]
          /\ admitted' \subseteq Plugins /\ outdated' \subseteq Plugins
      BY <1>1, <1>3, InstanceTypes DEF Register
    <3>2. "registered" \in (PluginState \cup {"none"}) \ {"failed"}
      BY DEF PluginState
    <3>3. SetState(p, "registered") /\ errors' = errors \ {p}
      BY <1>3 DEF Register
    <3> QED
      BY <1>1, <2>1, <3>1, <3>2, <3>3, <3>4, StateOK
  <2>3. CallsOK'
    <3>1. stack' = stack /\ raised' = raised /\ (nested' = 0 => nested = 0)
      BY <1>1, <1>3 DEF Register, MayCall, callVars, TableOK
    <3> QED
      BY <1>1, <3>1 DEF CallsOK, Structure, FramesOK, NestingOK
  <2> QED
    BY <2>2, <2>3 DEF TypeInv
<1>4. \A op \in {"load", "start", "stop", "unload", "unregister"} : op \in Ops
  BY DEF Ops, Single
<1>5. \A op \in {"initialize", "shutdown", "reload"} : op \in Ops /\ op \notin Single
  BY DEF Ops, Single
<1> QED
  BY <1>2, <1>3, <1>4, <1>5 DEF Client, discover

\* The types and the structure of the stack are kept.
LEMMA TypesKept == TypeInv /\ [PluginNext]_pluginVars => TypeInv'
<1> SUFFICES ASSUME TypeInv, [PluginNext]_pluginVars  PROVE TypeInv'
  OBVIOUS
<1>1. CASE Return
  BY <1>1, PopTypes DEF Return
<1>2. CASE UNCHANGED pluginVars
  BY <1>2 DEF pluginVars, tableVars, callVars, tallyVars, TypeInv, TableOK, CallsOK, Structure, FramesOK,
              NestingOK, FailuresAreExplained
<1> QED
  BY <1>1, <1>2, LoadTypes, StartTypes, StopTypes, UnloadTypes, UnregisterTypes, BeganTypes,
     InitializeTypes, ShutdownTypes, ReloadTypes, ClientTypes
     DEF PluginNext, PluginStep

\* The types hold at first, when no call is under way.
LEMMA TypesBegin == PluginInit => TypeInv
<1> SUFFICES ASSUME PluginInit  PROVE TypeInv
  OBVIOUS
<1>1. /\ plugins \in Seq(Plugins) /\ IsInjective(plugins) /\ deps \in [Plugins -> Seq(Plugins)]
  BY PluginAssumption DEF PluginInit
<1>0. admitted \subseteq Plugins /\ outdated \subseteq Plugins
  BY PluginAssumption DEF PluginInit
<1>2. states \in [Plugins -> PluginState \cup {"none"}] /\ FailuresAreExplained
  BY DEF PluginInit, PluginState, FailuresAreExplained
<1>3. TableOK
  BY <1>0, <1>1, <1>2 DEF PluginInit, TableOK
<1>4. stack = <<>> /\ raised = FALSE /\ stack \in Seq(FrameType) /\ Len(stack) = 0
  BY DEF PluginInit
<1>5. \A i \in 1..0 : FALSE
  OBVIOUS
<1>6. CallsOK
  BY <1>4, <1>5 DEF CallsOK, Structure, FramesOK, NestingOK
<1> QED
  BY <1>3, <1>6 DEF TypeInv

-----------------------------------------------------------------------------
(* What the calls under way can rely on, as long as no handler has called   *)
(* back.  The tables are parameters, because the operators are used of the  *)
(* state before a step and of the one after it.                             *)

Down == {"registered", "failed", "none"}
AllDownBut(S, st) == \A q \in Plugins : st[q] \in Down \/ q \in S

\* f waits for the call g it has made.
WaitsOK(f, g, st, pl, dp) ==
    /\ f.op = "load" => st[f.p] # "active"
    /\ f.op = "start" =>
        /\ st[f.p] # "active" /\ ToSet(f.todo) \subseteq ToSet(dp[f.p])
        /\ \A d \in ToSet(dp[f.p]) :
              d \in ToSet(f.todo) \/ st[d] = "active" \/ (g.op = "start" /\ d = g.p)
        /\ g.op = "start" => g.p \in ToSet(dp[f.p])
    /\ f.op = "unload" => g.p = f.p
    /\ f.op = "unregister" => \A q \in ToSet(pl) \ {f.p} : f.p \notin ToSet(dp[q])
    /\ f.op = "initialize" => g.p = f.p /\ f.p \in ToSet(pl) /\ ToSet(f.todo) \subseteq ToSet(pl)
    /\ f.op = "shutdown" =>
        /\ ToSet(f.todo) \subseteq ToSet(pl)
        /\ AllDownBut(ToSet(f.todo) \cup {g.p}, st)
        /\ f.at = "each" => g.op = "unload" /\ st[g.p] # "active" /\ g.p \in ToSet(pl)
        /\ f.at = "unload" => g.op = "stop" /\ g.p = Head(f.todo)

\* f is the innermost call.
TopOK(f, st, pl, dp) ==
    /\ f.op = "load" /\ f.at # "enter" => st[f.p] # "active"
    /\ f.op = "start" /\ f.at = "deps" =>
        /\ st[f.p] # "active" /\ ToSet(f.todo) \subseteq ToSet(dp[f.p])
        /\ \A d \in ToSet(dp[f.p]) : d \in ToSet(f.todo) \/ st[d] = "active"
    /\ f.op = "start" /\ f.at = "done" => st[f.p] = "active"
    /\ f.op = "stop" /\ f.at = "done" => st[f.p] = "stopped"
    /\ f.op = "stop" /\ f.at = "failed" => st[f.p] = "failed"
    /\ f.op = "unload" /\ f.at = "hook" => st[f.p] # "active"
    /\ f.op = "unload" /\ f.at = "done" => st[f.p] = "registered"
    /\ f.op = "unload" /\ f.at = "failed" => st[f.p] = "failed"
    /\ f.op = "unregister" /\ f.at # "enter" => \A q \in ToSet(pl) \ {f.p} : f.p \notin ToSet(dp[q])
    /\ f.op = "initialize" /\ f.at # "enter" => ToSet(f.todo) \subseteq ToSet(pl)
    /\ f.op = "shutdown" /\ f.at # "enter" => ToSet(f.todo) \subseteq ToSet(pl) /\ AllDownBut(ToSet(f.todo), st)
    /\ f.op = "shutdown" /\ f.at = "unload" => st[Head(f.todo)] # "active"

\* f is the innermost call and has got an exception.
RaisedOK(f, st, pl, dp) ==
    /\ f.op = "load" => st[f.p] # "active"
    /\ f.op = "unload" => st[f.p] \in {"active", "failed"}
    /\ f.op = "unregister" => \A q \in ToSet(pl) \ {f.p} : f.p \notin ToSet(dp[q])
    /\ f.op = "initialize" => st[f.p] # "active" /\ f.p \in ToSet(pl) /\ ToSet(f.todo) \subseteq ToSet(pl)
    /\ f.op = "shutdown" => ToSet(f.todo) \subseteq ToSet(pl)
    /\ f.op = "shutdown" /\ f.at = "each" => AllDownBut(ToSet(f.todo), st)
    /\ f.op = "shutdown" /\ f.at = "unload" => AllDownBut(ToSet(Tail(f.todo)), st)

Waiting(st, pl, dp) ==
    \A i \in 1..(Len(stack) - 1) : WaitsOK(stack[i], stack[i + 1], st, pl, dp)
Innermost(st, pl, dp) ==
    stack # <<>> => IF raised THEN RaisedOK(Top, st, pl, dp) ELSE TopOK(Top, st, pl, dp)

\* Only registered plugins have a state, and the calls are about such.
HereOK ==
    /\ \A p \in Plugins : states[p] # "none" => Present(p)
    /\ \A i \in 1..Len(stack) : stack[i].op \in Single /\ stack[i].at # "enter" => Present(stack[i].p)

\* Everything an ACTIVE plugin depends on is registered, unless an instance below
\* it has been replaced since it was started.
GroundedOK == ActivePlugins \ outdated \subseteq Grounded(ToSet(plugins))

Quiet ==
    /\ Waiting(states, plugins, deps)
    /\ Innermost(states, plugins, deps)
    /\ HereOK
    /\ GroundedOK
    /\ RunningIsActive

\* What every reachable state satisfies.
PluginInv == TypeInv /\ (nested = 0 => Quiet)

\* The frames of the calls under way, without handlers in between.
LEMMA NestFacts ==
    ASSUME TypeInv, nested = 0, stack # <<>>
    PROVE  \E n \in Nat \ {0} :
             /\ n = Len(stack) /\ Top = stack[n] /\ stack \in Seq(FrameType)
             /\ \A i, j \in 1..n : i < j => MayCallOp(stack[i].op, stack[j].op)
             /\ \A i \in 1..n : i > 1 => stack[i].by = "code"
             /\ \A i \in 1..n : i < n \/ raised =>
                   stack[i].at \notin {"enter", "done", "failed"} /\ PlaceOK(stack[i])
<1>1. PICK n \in Nat \ {0} : n = Len(stack) /\ Top = stack[n] /\ stack \in Seq(FrameType)
  BY TopOf DEF TypeInv, CallsOK, Structure, FramesOK
<1>2. FramesOK /\ NestingOK
  BY DEF TypeInv, CallsOK, Structure
<1>3. \A i \in 1..n : i < n \/ raised =>
                   stack[i].at \notin {"enter", "done", "failed"} /\ PlaceOK(stack[i])
  BY <1>1, <1>2 DEF FramesOK, NestingOK, HasCalled
<1> QED
  BY <1>1, <1>2, <1>3 DEF NestingOK

\* A waiting call sees of the one it waits for what it does to which plugin.
LEMMA WaitsSame ==
    ASSUME NEW f, NEW g, NEW h, NEW st, NEW pl, NEW dp, WaitsOK(f, g, st, pl, dp),
           h.op = g.op, h.p = g.p
    PROVE  WaitsOK(f, h, st, pl, dp)
BY DEF WaitsOK

\* reload relies on nothing.
LEMMA ReloadWaits == ASSUME NEW f, NEW g, NEW st, NEW pl, NEW dp, f.op = "reload"
                     PROVE  WaitsOK(f, g, st, pl, dp)
BY DEF WaitsOK

\* The innermost call goes on.
LEMMA SetQuiet ==
    ASSUME TypeInv, nested = 0, stack # <<>>, NEW f \in FrameType, stack' = Replace(f),
           f.op = Top.op, f.p = Top.p \/ Top.op = "initialize",
           plugins' = plugins, deps' = deps /\ admitted' = admitted, Waiting(states', plugins, deps),
           IF raised' THEN RaisedOK(f, states', plugins, deps) ELSE TopOK(f, states', plugins, deps)
    PROVE  Waiting(states, plugins, deps)' /\ Innermost(states, plugins, deps)'
<1>1. PICK n \in Nat \ {0} :
             /\ n = Len(stack) /\ Top = stack[n] /\ stack \in Seq(FrameType)
             /\ \A i, j \in 1..n : i < j => MayCallOp(stack[i].op, stack[j].op)
  BY NestFacts
<1>2. /\ stack' \in Seq(FrameType) /\ Len(stack') = n /\ stack'[n] = f
      /\ \A i \in 1..(n - 1) : stack'[i] = stack[i]
  BY <1>1, SetOK DEF SetTo, Below
<1>3. stack' # <<>> /\ Top' = f
  BY <1>2 DEF Top, Last
<1>4. Innermost(states, plugins, deps)'
  BY <1>3 DEF Innermost
<1>5. ASSUME NEW i \in 1..(n - 1) PROVE WaitsOK(stack'[i], stack'[i + 1], states', plugins, deps)
  <2>1. WaitsOK(stack[i], stack[i + 1], states', plugins, deps) /\ stack'[i] = stack[i]
    BY <1>1, <1>2 DEF Waiting
  <2>2. CASE i = n - 1
    <3>1. i + 1 = n /\ stack'[i + 1] = f /\ stack[i + 1] = Top
      BY <1>1, <1>2, <2>2
    <3>2. CASE f.p = Top.p
      BY <2>1, <3>1, <3>2, WaitsSame
    <3>3. CASE Top.op = "initialize"
      <4>1. MayCallOp(stack[i].op, "initialize")
        <5>1. i \in 1..n /\ n \in 1..n /\ i < n
          BY <1>1, <2>2
        <5> QED
          BY <1>1, <3>3, <5>1
      <4>2. stack[i].op = "reload"
        BY <4>1 DEF MayCallOp
      <4> QED
        BY <2>1, <4>2, ReloadWaits
    <3> QED
      BY <3>2, <3>3
  <2>3. CASE i # n - 1
    <3>1. i + 1 \in 1..(n - 1)
      BY <1>1, <2>3
    <3> QED
      BY <1>2, <2>1, <3>1
  <2> QED
    BY <2>2, <2>3
<1> QED
  BY <1>2, <1>4, <1>5 DEF Waiting

\* The innermost call makes another one.
LEMMA PushQuiet ==
    ASSUME TypeInv, nested = 0, stack # <<>>, NEW f \in FrameType, NEW g \in FrameType,
           stack' = Append(Replace(f), g), raised' = FALSE,
           f.op = Top.op, f.p = Top.p \/ Top.op = "initialize", g.at = "enter",
           plugins' = plugins, deps' = deps, admitted' = admitted,
           states' = states, Waiting(states, plugins, deps),
           WaitsOK(f, g, states, plugins, deps)
    PROVE  Waiting(states, plugins, deps)' /\ Innermost(states, plugins, deps)'
<1>1. PICK n \in Nat \ {0} :
             /\ n = Len(stack) /\ Top = stack[n] /\ stack \in Seq(FrameType)
             /\ \A i, j \in 1..n : i < j => MayCallOp(stack[i].op, stack[j].op)
  BY NestFacts
<1>2. /\ stack' \in Seq(FrameType) /\ Len(stack') = n + 1 /\ stack'[n] = f /\ stack'[n + 1] = g
      /\ \A i \in 1..(n - 1) : stack'[i] = stack[i]
  BY <1>1, PushOK DEF PushedOn, Below
<1>3. stack' # <<>> /\ Top' = g
  BY <1>2 DEF Top, Last
<1>4. TopOK(g, states, plugins, deps)
  BY DEF TopOK
<1>5. Innermost(states, plugins, deps)'
  BY <1>3, <1>4 DEF Innermost
<1>6. ASSUME NEW i \in 1..n PROVE WaitsOK(stack'[i], stack'[i + 1], states, plugins, deps)
  <2>1. CASE i = n
    BY <1>2, <2>1
  <2>2. CASE i = n - 1
    <3>1. /\ i + 1 = n /\ i \in 1..(n - 1) /\ stack'[i + 1] = f /\ stack[i + 1] = Top
          /\ WaitsOK(stack[i], Top, states, plugins, deps) /\ stack'[i] = stack[i]
      BY <1>1, <1>2, <2>2 DEF Waiting
    <3>2. CASE f.p = Top.p
      BY <3>1, <3>2, WaitsSame
    <3>3. CASE Top.op = "initialize"
      <4>1. MayCallOp(stack[i].op, "initialize")
        <5>1. i \in 1..n /\ n \in 1..n /\ i < n
          BY <1>1, <2>2
        <5> QED
          BY <1>1, <3>3, <5>1
      <4>2. stack[i].op = "reload"
        BY <4>1 DEF MayCallOp
      <4> QED
        BY <3>1, <4>2, ReloadWaits
    <3> QED
      BY <3>2, <3>3
  <2>3. CASE i # n /\ i # n - 1
    <3>1. i + 1 \in 1..(n - 1) /\ i \in 1..(n - 1)
      BY <1>1, <2>3
    <3> QED
      BY <1>1, <1>2, <3>1 DEF Waiting
  <2> QED
    BY <2>1, <2>2, <2>3
<1> QED
  BY <1>2, <1>5, <1>6 DEF Waiting

\* What the innermost call knows of one that waits for it.
WaitsFor(f) ==
    /\ WaitsOK(f, Top, states, plugins, deps) /\ MayCallOp(f.op, Top.op)
    /\ PlaceOK(f) /\ f.at \notin {"enter", "done", "failed"}
    /\ f.op \in Single => Present(f.p)

\* The innermost call ends, and the one that waited for it goes on.
LEMMA PopQuiet ==
    ASSUME TypeInv, nested = 0, stack # <<>>, Leave \/ Throw,
           plugins' = plugins, deps' = deps, admitted' = admitted,
           states' = states, Waiting(states, plugins, deps), HereOK,
           Len(stack) > 1 => \A f \in FrameType : WaitsFor(f) =>
              IF raised' THEN RaisedOK(f, states, plugins, deps) ELSE TopOK(f, states, plugins, deps)
    PROVE  Waiting(states, plugins, deps)' /\ Innermost(states, plugins, deps)'
<1>1. PICK n \in Nat \ {0} :
             /\ n = Len(stack) /\ Top = stack[n] /\ stack \in Seq(FrameType)
             /\ \A i, j \in 1..n : i < j => MayCallOp(stack[i].op, stack[j].op)
             /\ \A i \in 1..n : i < n \/ raised =>
                   stack[i].at \notin {"enter", "done", "failed"} /\ PlaceOK(stack[i])
  BY NestFacts
<1>2. /\ stack' \in Seq(FrameType) /\ Len(stack') = n - 1
      /\ \A i \in 1..(n - 1) : stack'[i] = stack[i]
  BY <1>1, PopOK DEF Popped, Below, Leave, Throw
<1>3. Waiting(states, plugins, deps)'
  <2>1. \A i \in 1..(n - 1 - 1) : i \in 1..(n - 1) /\ i + 1 \in 1..(n - 1)
    BY <1>1
  <2> QED
    BY <1>1, <1>2, <2>1 DEF Waiting
<1>4. Innermost(states, plugins, deps)'
  <2> SUFFICES ASSUME stack' # <<>> PROVE Innermost(states, plugins, deps)'
    BY DEF Innermost
  <2>1. n - 1 \in 1..(n - 1) /\ n - 1 \in 1..n /\ n \in 1..n /\ n - 1 < n /\ (n - 1) + 1 = n
    BY <1>1, <1>2
  <2>2. PICK f \in FrameType : f = stack[n - 1]
    BY <1>1, <2>1
  <2>3. Top' = f
    BY <1>2, <2>1, <2>2 DEF Top, Last
  <2>4. WaitsOK(f, Top, states, plugins, deps)
    BY <1>1, <2>1, <2>2 DEF Waiting
  <2>5. MayCallOp(f.op, Top.op) /\ PlaceOK(f) /\ f.at \notin {"enter", "done", "failed"}
    BY <1>1, <2>1, <2>2
  <2>6. f.op \in Single => Present(f.p)
    BY <1>1, <2>1, <2>2, <2>5 DEF HereOK
  <2>7. WaitsFor(f) /\ Len(stack) > 1
    BY <1>1, <2>1, <2>4, <2>5, <2>6 DEF WaitsFor
  <2> QED
    BY <2>2, <2>3, <2>7 DEF Innermost
<1> QED
  BY <1>3, <1>4

\* The state of one plugin changes.
Others(p, st) == \A q \in Plugins : q # p => st[q] = states[q]

\* Calls under way that load a plugin.
LEMMA LoadWaiting ==
    ASSUME TypeInv, nested = 0, stack # <<>>, Top.op = "load", Waiting(states, plugins, deps),
           NEW st, Others(Top.p, st), states[Top.p] # "active", st[Top.p] # "active"
    PROVE  Waiting(st, plugins, deps)
<1>1. PICK n \in Nat \ {0} :
             /\ n = Len(stack) /\ Top = stack[n] /\ stack \in Seq(FrameType)
             /\ \A i, j \in 1..n : i < j => MayCallOp(stack[i].op, stack[j].op)
  BY NestFacts
<1>2. ASSUME NEW i \in 1..(n - 1) PROVE WaitsOK(stack[i], stack[i + 1], st, plugins, deps)
  <2>1. PICK f \in FrameType, g \in FrameType : f = stack[i] /\ g = stack[i + 1]
    BY <1>1
  <2> SUFFICES WaitsOK(f, g, st, plugins, deps)
    BY <2>1
  <2>2. WaitsOK(f, g, states, plugins, deps)
    BY <1>1, <2>1 DEF Waiting
  <2>3. MayCallOp(f.op, "load")
    <3>1. i \in 1..n /\ n \in 1..n /\ i < n
      BY <1>1
    <3> QED
      BY <1>1, <2>1, <3>1
  <2>4. f.op \in {"load", "start", "initialize", "reload"}
    BY <2>3 DEF MayCallOp
  <2>5. f.op \in Single => f.p \in Plugins /\ deps[f.p] \in Seq(Plugins)
    <3>1. PlaceOK(f)
      BY <1>1, <2>1 DEF TypeInv, CallsOK, Structure, FramesOK
    <3> QED
      BY <3>1 DEF PlaceOK, TypeInv, TableOK
  <2>6. CASE f.op = "load"
    BY <2>2, <2>5, <2>6 DEF WaitsOK, Others, Single
  <2>7. CASE f.op = "start"
    <3>1. ToSet(deps[f.p]) \subseteq Plugins /\ f.p \in Plugins
      BY <2>5, <2>7, ToSetType DEF Single
    <3>2. st[f.p] # "active"
      BY <2>2, <2>7, <3>1 DEF WaitsOK, Others
    <3>3. \A d \in ToSet(deps[f.p]) : states[d] = "active" => st[d] = "active"
      BY <3>1 DEF Others
    <3> QED
      BY <2>2, <2>7, <3>2, <3>3 DEF WaitsOK
  <2>8. CASE f.op = "initialize" \/ f.op = "reload"
    BY <2>2, <2>8 DEF WaitsOK
  <2> QED
    BY <2>1, <2>4, <2>6, <2>7, <2>8
<1> QED
  BY <1>1, <1>2 DEF Waiting

\* No start of a plugin whose dependencies are ACTIVE is inside another one.
LEMMA StartWaiting ==
    ASSUME TypeInv, nested = 0, stack # <<>>, Top.op = "start", Waiting(states, plugins, deps),
           states[Top.p] # "active", \A d \in ToSet(deps[Top.p]) : states[d] = "active",
           NEW st, Others(Top.p, st)
    PROVE  Waiting(st, plugins, deps)
<1>1. PICK n \in Nat \ {0} :
             /\ n = Len(stack) /\ Top = stack[n] /\ stack \in Seq(FrameType)
             /\ \A i, j \in 1..n : i < j => MayCallOp(stack[i].op, stack[j].op)
  BY NestFacts
<1>2. ASSUME NEW i \in 1..(n - 1) PROVE WaitsOK(stack[i], stack[i + 1], st, plugins, deps)
  <2>1. PICK f \in FrameType, g \in FrameType : f = stack[i] /\ g = stack[i + 1]
    BY <1>1
  <2> SUFFICES WaitsOK(f, g, st, plugins, deps)
    BY <2>1
  <2>2. WaitsOK(f, g, states, plugins, deps)
    BY <1>1, <2>1 DEF Waiting
  <2>3. MayCallOp(f.op, "start")
    <3>1. i \in 1..n /\ n \in 1..n /\ i < n
      BY <1>1
    <3> QED
      BY <1>1, <2>1, <3>1
  <2>4. f.op \in {"start", "reload"}
    BY <2>3 DEF MayCallOp
  <2>5. CASE f.op = "start"
    <3>1. PlaceOK(f)
      BY <1>1, <2>1 DEF TypeInv, CallsOK, Structure, FramesOK
    <3>2. f.p \in Plugins /\ deps[f.p] \in Seq(Plugins)
      BY <2>5, <3>1 DEF PlaceOK, TypeInv, TableOK, Single
    <3>3. ToSet(deps[f.p]) \subseteq Plugins
      BY <3>2, ToSetType
    <3>4. g.op = "start"
      <4>1. CASE i + 1 = n
        BY <1>1, <2>1, <4>1
      <4>2. CASE i + 1 # n
        <5>1. i \in 1..n /\ i + 1 \in 1..n /\ n \in 1..n /\ i < i + 1 /\ i + 1 < n
          BY <1>1, <4>2
        <5>2. MayCallOp(f.op, g.op) /\ MayCallOp(g.op, "start")
          BY <1>1, <2>1, <5>1
        <5> QED
          BY <2>5, <5>2 DEF MayCallOp
      <4> QED
        BY <4>1, <4>2
    <3>5. g.p \in ToSet(deps[f.p])
      BY <2>2, <2>5, <3>4 DEF WaitsOK
    <3>6. states[g.p] # "active"
      <4>1. CASE i + 1 = n
        BY <1>1, <2>1, <4>1
      <4>2. CASE i + 1 # n
        <5>1. i + 1 \in 1..(n - 1)
          BY <1>1, <4>2
        <5>2. WaitsOK(g, stack[i + 2], states, plugins, deps)
          BY <1>1, <2>1, <5>1 DEF Waiting
        <5> QED
          BY <3>4, <5>2 DEF WaitsOK
      <4> QED
        BY <4>1, <4>2
    <3>7. f.p # Top.p
      BY <3>5, <3>6
    <3>8. st[f.p] # "active"
      BY <2>2, <2>5, <3>2, <3>7 DEF WaitsOK, Others
    <3>9. \A d \in ToSet(deps[f.p]) : states[d] = "active" => st[d] = "active"
      BY <3>3 DEF Others
    <3> QED
      BY <2>2, <2>5, <3>8, <3>9 DEF WaitsOK
  <2>6. CASE f.op = "reload"
    BY <2>6, ReloadWaits
  <2> QED
    BY <2>1, <2>4, <2>5, <2>6
<1> QED
  BY <1>1, <1>2 DEF Waiting

\* Who waits for a stop, or for an unload.
LEMMA StopWaiting ==
    ASSUME TypeInv, nested = 0, stack # <<>>, Top.op = "stop", Waiting(states, plugins, deps),
           NEW st, Others(Top.p, st), states[Top.p] = "active"
    PROVE  Waiting(st, plugins, deps)
<1>1. PICK n \in Nat \ {0} :
             /\ n = Len(stack) /\ Top = stack[n] /\ stack \in Seq(FrameType)
             /\ \A i, j \in 1..n : i < j => MayCallOp(stack[i].op, stack[j].op)
             /\ \A i \in 1..n : i < n \/ raised =>
                   stack[i].at \notin {"enter", "done", "failed"} /\ PlaceOK(stack[i])
  BY NestFacts
<1>2. ASSUME NEW i \in 1..(n - 1) PROVE WaitsOK(stack[i], stack[i + 1], st, plugins, deps)
  <2>1. PICK f \in FrameType, g \in FrameType : f = stack[i] /\ g = stack[i + 1]
    BY <1>1
  <2> SUFFICES WaitsOK(f, g, st, plugins, deps)
    BY <2>1
  <2>2. WaitsOK(f, g, states, plugins, deps)
    BY <1>1, <2>1 DEF Waiting
  <2>0. i \in 1..n /\ n \in 1..n /\ i < n
    BY <1>1
  <2>3. MayCallOp(f.op, "stop") /\ f.at # "enter" /\ PlaceOK(f)
    BY <1>1, <2>0, <2>1
  <2>4. f.op \in {"unload", "unregister", "shutdown", "reload"}
    BY <2>3 DEF MayCallOp
  <2>5. CASE f.op = "shutdown"
    <3>1. f.at \in {"each", "unload"}
      BY <2>3, <2>5 DEF PlaceOK
    <3>2. CASE i + 1 = n
      <4>1. g = Top /\ g.op = "stop"
        BY <1>1, <2>1, <3>2
      <4>2. f.at = "unload"
        BY <2>2, <2>5, <3>1, <4>1 DEF WaitsOK
      <4>3. AllDownBut(ToSet(f.todo) \cup {g.p}, st)
        BY <2>2, <2>5, <4>1 DEF WaitsOK, AllDownBut, Others
      <4> QED
        BY <2>2, <2>5, <4>2, <4>3 DEF WaitsOK
    <3>3. CASE i + 1 # n
      <4>1. i + 1 \in 1..n /\ i + 1 < n /\ i + 1 \in 1..(n - 1) /\ i < i + 1
        BY <1>1, <3>3
      <4>2. MayCallOp(f.op, g.op) /\ MayCallOp(g.op, "stop")
        BY <1>1, <2>0, <2>1, <4>1
      <4>3. g.op = "unload"
        BY <2>5, <4>2 DEF MayCallOp
      <4>4. f.at = "each" /\ states[g.p] # "active"
        BY <2>2, <2>5, <3>1, <4>3 DEF WaitsOK
      <4>5. PICK h \in FrameType : h = stack[i + 2]
        BY <1>1, <4>1
      <4>6. h.p = g.p
        <5>1. (i + 1) + 1 = i + 2
          OBVIOUS
        <5>2. WaitsOK(g, h, states, plugins, deps)
          BY <1>1, <2>1, <4>1, <4>5, <5>1 DEF Waiting
        <5> QED
          BY <4>3, <5>2 DEF WaitsOK
      <4>7. i + 2 = n
        <5> SUFFICES ASSUME i + 2 # n PROVE FALSE
          OBVIOUS
        <5>1. i + 2 \in 1..n /\ i + 2 < n /\ i + 1 < i + 2
          BY <1>1, <4>1
        <5>2. MayCallOp("unload", h.op) /\ MayCallOp(h.op, "stop")
          BY <1>1, <2>0, <2>1, <4>1, <4>3, <4>5, <5>1
        <5> QED
          BY <5>2 DEF MayCallOp
      <4> QED
        BY <1>1, <4>4, <4>5, <4>6, <4>7
    <3> QED
      BY <2>1, <3>2, <3>3
  <2>6. CASE f.op # "shutdown"
    BY <2>2, <2>4, <2>6 DEF WaitsOK
  <2> QED
    BY <2>1, <2>5, <2>6
<1> QED
  BY <1>1, <1>2 DEF Waiting

\* Who waits for an unload: unregister, shutdown and reload.
LEMMA UnloadWaiting ==
    ASSUME TypeInv, nested = 0, stack # <<>>, Top.op = "unload", Waiting(states, plugins, deps),
           NEW st, Others(Top.p, st), st[Top.p] # "active"
    PROVE  Waiting(st, plugins, deps)
<1>1. PICK n \in Nat \ {0} :
             /\ n = Len(stack) /\ Top = stack[n] /\ stack \in Seq(FrameType)
             /\ \A i, j \in 1..n : i < j => MayCallOp(stack[i].op, stack[j].op)
  BY NestFacts
<1>2. ASSUME NEW i \in 1..(n - 1) PROVE WaitsOK(stack[i], stack[i + 1], st, plugins, deps)
  <2>1. PICK f \in FrameType, g \in FrameType : f = stack[i] /\ g = stack[i + 1]
    BY <1>1
  <2> SUFFICES WaitsOK(f, g, st, plugins, deps)
    BY <2>1
  <2>2. WaitsOK(f, g, states, plugins, deps)
    BY <1>1, <2>1 DEF Waiting
  <2>0. i \in 1..n /\ n \in 1..n /\ i < n
    BY <1>1
  <2>3. MayCallOp(f.op, "unload")
    BY <1>1, <2>0, <2>1
  <2>4. f.op \in {"unregister", "shutdown", "reload"}
    BY <2>3 DEF MayCallOp
  <2>5. CASE f.op = "shutdown"
    <3>1. i + 1 = n
      <4> SUFFICES ASSUME i + 1 # n PROVE FALSE
        OBVIOUS
      <4>1. i + 1 \in 1..n /\ i + 1 < n /\ i < i + 1
        BY <1>1
      <4>2. MayCallOp(f.op, g.op) /\ MayCallOp(g.op, "unload")
        BY <1>1, <2>0, <2>1, <4>1
      <4> QED
        BY <2>5, <4>2 DEF MayCallOp
    <3>2. g = Top
      BY <1>1, <2>1, <3>1
    <3>3. AllDownBut(ToSet(f.todo) \cup {g.p}, st)
      BY <2>2, <2>5, <3>2 DEF WaitsOK, AllDownBut, Others
    <3> QED
      BY <2>1, <2>2, <2>5, <3>2, <3>3 DEF WaitsOK
  <2>6. CASE f.op # "shutdown"
    BY <2>1, <2>2, <2>4, <2>6 DEF WaitsOK
  <2> QED
    BY <2>5, <2>6
<1> QED
  BY <1>1, <1>2 DEF Waiting

\* initialize is called by clients or by reload.
LEMMA InitializeWaiting ==
    ASSUME TypeInv, nested = 0, stack # <<>>, Top.op = "initialize", NEW st
    PROVE  Waiting(st, plugins, deps)
<1>1. PICK n \in Nat \ {0} :
             /\ n = Len(stack) /\ Top = stack[n] /\ stack \in Seq(FrameType)
             /\ \A i, j \in 1..n : i < j => MayCallOp(stack[i].op, stack[j].op)
  BY NestFacts
<1>2. ASSUME NEW i \in 1..(n - 1) PROVE WaitsOK(stack[i], stack[i + 1], st, plugins, deps)
  <2>1. i \in 1..n /\ n \in 1..n /\ i < n
    BY <1>1
  <2>2. MayCallOp(stack[i].op, "initialize")
    BY <1>1, <2>1
  <2>3. stack[i].op = "reload"
    BY <2>2 DEF MayCallOp
  <2> QED
    BY <2>3, ReloadWaits
<1> QED
  BY <1>1, <1>2 DEF Waiting

\* A sweep is called by clients or by reload, so the stack is not deep.
LEMMA SweepIsShallow ==
    ASSUME TypeInv, nested = 0, stack # <<>>, Top.op \in {"initialize", "shutdown"}
    PROVE  Len(stack) < MaxDepth
<1>1. PICK n \in Nat \ {0} :
             /\ n = Len(stack) /\ Top = stack[n] /\ stack \in Seq(FrameType)
             /\ \A i, j \in 1..n : i < j => MayCallOp(stack[i].op, stack[j].op)
  BY NestFacts
<1>2. n <= 2
  <2> SUFFICES ASSUME n > 2 PROVE FALSE
    BY <1>1
  <2>1. 1 \in 1..n /\ 2 \in 1..n /\ n \in 1..n /\ 1 < 2 /\ 2 < n
    BY <1>1
  <2>2. MayCallOp(stack[1].op, stack[2].op) /\ MayCallOp(stack[2].op, Top.op)
    BY <1>1, <2>1
  <2> QED
    BY <2>2 DEF MayCallOp
<1>3. MaxDepth \in Nat /\ MaxDepth > 3
  BY PluginAssumption
<1> QED
  BY <1>1, <1>2, <1>3

\* Nobody but a client unregisters a plugin.
LEMMA UnregisterIsAlone ==
    ASSUME TypeInv, nested = 0, stack # <<>>, Top.op \in {"unregister", "reload"}
    PROVE  Len(stack) = 1
<1>1. PICK n \in Nat \ {0} :
             /\ n = Len(stack) /\ Top = stack[n] /\ stack \in Seq(FrameType)
             /\ \A i, j \in 1..n : i < j => MayCallOp(stack[i].op, stack[j].op)
  BY NestFacts
<1>2. n = 1
  <2> SUFFICES ASSUME n # 1 PROVE FALSE
    OBVIOUS
  <2>1. 1 \in 1..n /\ n \in 1..n /\ 1 < n
    BY <1>1
  <2>2. MayCallOp(stack[1].op, Top.op)
    BY <1>1, <2>1
  <2> QED
    BY <2>2 DEF MayCallOp
<1> QED
  BY <1>1, <1>2

\* The frames after a step are about registered plugins.
LEMMA HereSet ==
    ASSUME TypeInv, HereOK, stack # <<>>, NEW f \in FrameType, stack' = Replace(f), plugins' = plugins,
           f.op \in Single /\ f.at # "enter" => Present(f.p),
           \A p \in Plugins : states'[p] # "none" => Present(p)
    PROVE  HereOK'
<1>1. PICK n \in Nat \ {0} : n = Len(stack) /\ stack \in Seq(FrameType)
  BY TopOf DEF TypeInv, CallsOK, Structure, FramesOK
<1>2. /\ Len(stack') = n /\ stack'[n] = f
      /\ \A i \in 1..(n - 1) : stack'[i] = stack[i]
  BY <1>1, SetOK DEF SetTo, Below
<1>3. \A i \in 1..n : i = n \/ (i \in 1..(n - 1) /\ stack'[i] = stack[i])
  BY <1>2
<1>4. \A p : Present(p)' <=> Present(p)
  BY DEF Present
<1>5. \A i \in 1..n : stack'[i].op \in Single /\ stack'[i].at # "enter" => Present(stack'[i].p)
  BY <1>1, <1>2, <1>3 DEF HereOK
<1> QED
  BY <1>2, <1>4, <1>5 DEF HereOK

\* They are when another call is made.
LEMMA HerePush ==
    ASSUME TypeInv, HereOK, stack # <<>>, NEW f \in FrameType, NEW g \in FrameType,
           stack' = Append(Replace(f), g), plugins' = plugins, states' = states, g.at = "enter",
           f.op \in Single /\ f.at # "enter" => Present(f.p)
    PROVE  HereOK'
<1>1. PICK n \in Nat \ {0} : n = Len(stack) /\ stack \in Seq(FrameType)
  BY TopOf DEF TypeInv, CallsOK, Structure, FramesOK
<1>2. /\ Len(stack') = n + 1 /\ stack'[n] = f /\ stack'[n + 1] = g
      /\ \A i \in 1..(n - 1) : stack'[i] = stack[i]
  BY <1>1, PushOK DEF PushedOn, Below
<1>3. \A i \in 1..(n + 1) : i = n + 1 \/ i = n \/ (i \in 1..n /\ stack'[i] = stack[i])
  BY <1>2
<1>4. \A p : Present(p)' <=> Present(p)
  BY DEF Present
<1>5. \A i \in 1..(n + 1) : stack'[i].op \in Single /\ stack'[i].at # "enter" => Present(stack'[i].p)
  BY <1>1, <1>2, <1>3 DEF HereOK
<1>6. \A p \in Plugins : states'[p] # "none" => Present(p)
  BY DEF HereOK
<1> QED
  BY <1>2, <1>4, <1>5, <1>6 DEF HereOK

\* They are when the innermost call ends.
LEMMA HerePop ==
    ASSUME TypeInv, HereOK, stack # <<>>, Leave \/ Throw, plugins' = plugins, states' = states
    PROVE  HereOK'
<1>1. PICK n \in Nat \ {0} : n = Len(stack) /\ stack \in Seq(FrameType)
  BY TopOf DEF TypeInv, CallsOK, Structure, FramesOK
<1>2. Len(stack') = n - 1 /\ \A i \in 1..(n - 1) : stack'[i] = stack[i] /\ i \in 1..n
  BY <1>1, PopOK DEF Popped, Below, Leave, Throw
<1>3. \A p : Present(p)' <=> Present(p)
  BY DEF Present
<1>4. \A i \in 1..(n - 1) : stack'[i].op \in Single /\ stack'[i].at # "enter" => Present(stack'[i].p)
  BY <1>1, <1>2 DEF HereOK
<1>5. \A p \in Plugins : states'[p] # "none" => Present(p)
  BY DEF HereOK
<1> QED
  BY <1>2, <1>3, <1>4, <1>5 DEF HereOK

\* Who is registered and what is admitted does not change with the states.
LEMMA SameGraph ==
    ASSUME plugins' = plugins, deps' = deps /\ admitted' = admitted
    PROVE  /\ Grounded(ToSet(plugins))' = Grounded(ToSet(plugins))
           /\ \A p : AdmitsVersion(p)' <=> AdmitsVersion(p)
<1>1. Grounded(ToSet(plugins))' = Grounded(ToSet(plugins))
  BY DEF Grounded, Closed
<1>2. \A p : AdmitsVersion(p)' <=> AdmitsVersion(p)
  BY DEF AdmitsVersion, RestsOn
<1> QED
  BY <1>1, <1>2

\* An ACTIVE plugin that the version admits is valid.
LEMMA AdmittedIsValid ==
    ASSUME TypeInv, NEW p \in Grounded(ToSet(plugins)), AdmitsVersion(p)
    PROVE  p \in ValidPlugins
<1>1. PICK S \in SUBSET admitted : p \in S /\ \A q \in S : ToSet(deps[q]) \subseteq S
  BY DEF AdmitsVersion, RestsOn
<1>2. S \subseteq Plugins /\ ToSet(plugins) \subseteq Plugins /\ deps \in [Plugins -> Seq(Plugins)]
  BY ToSetType DEF TypeInv, TableOK
<1>3. ASSUME NEW V \in SUBSET Plugins, Closed(V, ToSet(plugins) \cap admitted)
      PROVE  p \in V
  <2>1. PICK W : W = V \cup (Plugins \ S)
    OBVIOUS
  <2>2. ASSUME NEW q \in ToSet(plugins), ToSet(deps[q]) \subseteq W
        PROVE  q \in W
    <3>1. CASE q \notin S
      BY <1>2, <2>1, <3>1
    <3>2. CASE q \in S
      <4>1. ToSet(deps[q]) \subseteq V
        BY <1>1, <2>1, <2>2, <3>2
      <4>2. q \in V
        BY <1>1, <1>3, <3>2, <4>1 DEF Closed
      <4> QED
        BY <2>1, <4>2
    <3> QED
      BY <3>1, <3>2
  <2>3. Closed(W, ToSet(plugins)) /\ W \in SUBSET Plugins
    BY <1>2, <2>1, <2>2 DEF Closed
  <2>4. p \in W
    BY <2>3 DEF Grounded
  <2> QED
    BY <1>1, <2>1, <2>4
<1>4. p \in Plugins
  BY DEF Grounded
<1> QED
  BY <1>3, <1>4 DEF ValidPlugins, Grounded

\* A registered plugin with everything it depends on ACTIVE is grounded.
LEMMA StartIsGrounded ==
    ASSUME TypeInv, GroundedOK, NEW p \in Plugins, Present(p),
           \A d \in ToSet(deps[p]) : states[d] = "active" /\ d \notin outdated
    PROVE  p \in Grounded(ToSet(plugins))
<1>1. ToSet(deps[p]) \subseteq Plugins
  BY ToSetType DEF TypeInv, TableOK
<1>2. ToSet(deps[p]) \subseteq Grounded(ToSet(plugins))
  BY <1>1 DEF GroundedOK, ActivePlugins
<1>3. ASSUME NEW V \in SUBSET Plugins, Closed(V, ToSet(plugins))
      PROVE  p \in V
  <2>1. ToSet(deps[p]) \subseteq V
    BY <1>2, <1>3 DEF Grounded
  <2> QED
    BY <1>3, <2>1 DEF Closed, Present
<1> QED
  BY <1>3 DEF Grounded

\* No plugin is ACTIVE afterwards that was not before.
LEMMA FewerActive ==
    ASSUME GroundedOK, plugins' = plugins, deps' = deps /\ admitted' = admitted, outdated' = outdated,
           ActivePlugins' \subseteq ActivePlugins
    PROVE  GroundedOK'
BY SameGraph DEF GroundedOK

\* With the same plugins ACTIVE and running, what runs is as true as it was.
LEMMA SameRunning ==
    ASSUME RunningIsActive, nested' = nested, deps' = deps /\ admitted' = admitted, plugins' = plugins,
           running' = running /\ outdated' = outdated, ActivePlugins' = ActivePlugins
    PROVE  RunningIsActive'
BY SameGraph DEF RunningIsActive

\* The innermost call goes on, with the state of a plugin changed.
LEMMA QuietSet ==
    ASSUME TypeInv, Quiet, nested = 0, stack # <<>>, NEW f \in FrameType, stack' = Replace(f),
           f.op = Top.op, f.p = Top.p \/ Top.op = "initialize", plugins' = plugins, deps' = deps /\ admitted' = admitted,
           Waiting(states', plugins, deps),
           IF raised' THEN RaisedOK(f, states', plugins, deps) ELSE TopOK(f, states', plugins, deps),
           f.op \in Single /\ f.at # "enter" => Present(f.p),
           \A p \in Plugins : states'[p] # "none" => Present(p),
           GroundedOK', RunningIsActive'
    PROVE  Quiet'
<1>1. Waiting(states, plugins, deps)' /\ Innermost(states, plugins, deps)'
  BY SetQuiet
<1>2. HereOK'
  BY HereSet DEF Quiet
<1> QED
  BY <1>1, <1>2 DEF Quiet

\* The innermost call goes on, and the table stays as it is.
LEMMA QuietContinue ==
    ASSUME TypeInv, Quiet, nested = 0, stack # <<>>, UnchangedTable, NEW f \in FrameType, Continue(f),
           f.op = Top.op, f.p = Top.p \/ Top.op = "initialize", TopOK(f, states, plugins, deps),
           f.op \in Single /\ f.at # "enter" => Present(f.p)
    PROVE  Quiet'
<1>1. /\ plugins' = plugins /\ deps' = deps /\ admitted' = admitted
      /\ states' = states /\ running' = running /\ outdated' = outdated /\ nested' = nested
      /\ ActivePlugins' = ActivePlugins /\ stack' = Replace(f) /\ raised' = FALSE
  BY DEF UnchangedTable, tableVars, tallyVars, ActivePlugins, Continue
<1>2. GroundedOK' /\ RunningIsActive'
  BY <1>1, FewerActive, SameRunning DEF Quiet
<1>3. /\ Waiting(states', plugins, deps) /\ \A p \in Plugins : states'[p] # "none" => Present(p)
  BY <1>1 DEF Quiet, HereOK
<1> QED
  BY <1>1, <1>2, <1>3, QuietSet

\* The innermost call makes another one, or finds the stack too deep for it.
LEMMA QuietInvoke ==
    ASSUME TypeInv, Quiet, nested = 0, stack # <<>>, NEW f \in FrameType,
           NEW op \in Ops, NEW p \in Plugins \cup {NoPlugin}, Invoke(f, op, p),
           plugins' = plugins, deps' = deps, admitted' = admitted,
           states' = states, running' = running /\ outdated' = outdated, nested' = nested,
           f.op = Top.op, f.p = Top.p \/ Top.op = "initialize",
           \A g \in FrameType : g.op = op /\ g.p = p => WaitsOK(f, g, states, plugins, deps),
           Len(stack) < MaxDepth \/ RaisedOK(f, states, plugins, deps),
           f.op \in Single /\ f.at # "enter" => Present(f.p)
    PROVE  Quiet'
<1>1. ActivePlugins' = ActivePlugins
  BY DEF ActivePlugins
<1>2. GroundedOK' /\ RunningIsActive'
  BY <1>1, FewerActive, SameRunning DEF Quiet
<1>3. Waiting(states, plugins, deps) /\ HereOK
  BY DEF Quiet
<1>4. CASE Len(stack) < MaxDepth
  <2>1. stack' = Append(Replace(f), Frame(op, p, "code")) /\ raised' = FALSE
    BY <1>4 DEF Invoke
  <2>2. PICK g \in FrameType : g = Frame(op, p, "code") /\ g.op = op /\ g.p = p /\ g.at = "enter"
    BY NewFrameOK
  <2>3. WaitsOK(f, g, states, plugins, deps)
    BY <2>2
  <2>4. stack' = Append(Replace(f), g)
    BY <2>1, <2>2
  <2>5. Waiting(states, plugins, deps)' /\ Innermost(states, plugins, deps)'
    BY <1>3, <2>1, <2>2, <2>3, <2>4, PushQuiet
  <2>6. HereOK'
    BY <1>3, <2>2, <2>4, HerePush
  <2> QED
    BY <1>2, <2>5, <2>6 DEF Quiet
<1>5. CASE ~ (Len(stack) < MaxDepth)
  <2>1. stack' = Replace(f) /\ raised' = TRUE
    BY <1>5 DEF Invoke
  <2>2. RaisedOK(f, states', plugins, deps) /\ Waiting(states', plugins, deps)
    BY <1>3, <1>5
  <2>3. \A q \in Plugins : states'[q] # "none" => Present(q)
    BY <1>3 DEF HereOK
  <2> QED
    BY <1>2, <2>1, <2>2, <2>3, QuietSet
<1> QED
  BY <1>4, <1>5

\* The innermost call ends, and its caller finds what it relies on.
LEMMA QuietPop ==
    ASSUME TypeInv, Quiet, nested = 0, stack # <<>>, UnchangedTable, Leave \/ Throw,
           Len(stack) > 1 => \A f \in FrameType : WaitsFor(f) =>
              IF raised' THEN RaisedOK(f, states, plugins, deps) ELSE TopOK(f, states, plugins, deps)
    PROVE  Quiet'
<1>1. /\ plugins' = plugins /\ deps' = deps /\ admitted' = admitted
      /\ states' = states /\ running' = running /\ outdated' = outdated /\ nested' = nested
      /\ ActivePlugins' = ActivePlugins
  BY DEF UnchangedTable, tableVars, tallyVars, ActivePlugins
<1>2. GroundedOK' /\ RunningIsActive'
  BY <1>1, FewerActive, SameRunning DEF Quiet
<1>3. Waiting(states, plugins, deps)' /\ Innermost(states, plugins, deps)'
  BY <1>1, PopQuiet DEF Quiet
<1>4. HereOK'
  BY <1>1, HerePop DEF Quiet
<1> QED
  BY <1>2, <1>3, <1>4 DEF Quiet

\* An exception of an inner call reaches the one that made it.
LEMMA ThrowReaches ==
    ASSUME TypeInv, nested = 0, stack # <<>>, Len(stack) > 1, Throw
    PROVE  raised' = TRUE
<1>1. PICK n \in Nat \ {0} :
             /\ n = Len(stack) /\ Top = stack[n]
             /\ \A i \in 1..n : i > 1 => stack[i].by = "code"
  BY NestFacts
<1>2. Top.by = "code"
  BY <1>1
<1> QED
  BY <1>2 DEF Throw

\* Without an exception the caller goes on, with one it gets it.
LEMMA Returns ==
    ASSUME TypeInv, Quiet, nested = 0, stack # <<>>, UnchangedTable,
           \/ /\ Leave
              /\ \A f \in FrameType : WaitsFor(f) => TopOK(f, states, plugins, deps)
           \/ /\ Throw
              /\ \A f \in FrameType : WaitsFor(f) => RaisedOK(f, states, plugins, deps)
    PROVE  Quiet'
<1>1. CASE /\ Leave
           /\ \A f \in FrameType : WaitsFor(f) => TopOK(f, states, plugins, deps)
  <2>1. raised' = FALSE
    BY <1>1 DEF Leave
  <2> QED
    BY <1>1, <2>1, QuietPop
<1>2. CASE /\ Throw
           /\ \A f \in FrameType : WaitsFor(f) => RaisedOK(f, states, plugins, deps)
  <2>1. Len(stack) > 1 => raised' = TRUE
    BY <1>2, ThrowReaches
  <2> QED
    BY <1>2, <2>1, QuietPop
<1> QED
  BY <1>1, <1>2

\* What the end of a call means for its caller.  The end of a load.
LEMMA LoadReturns ==
    ASSUME Top.op = "load", NEW f \in FrameType, WaitsFor(f)
    PROVE  /\ TopOK(f, states, plugins, deps)
           /\ states[Top.p] # "active" \/ ~Present(Top.p) => RaisedOK(f, states, plugins, deps)
<1>1. f.op \in {"load", "start", "initialize", "reload"}
  BY DEF WaitsFor, MayCallOp
<1>2. CASE f.op \in {"load", "reload"}
  BY <1>2 DEF WaitsFor, WaitsOK, TopOK, RaisedOK
<1>3. CASE f.op = "start"
  BY <1>3 DEF WaitsFor, WaitsOK, TopOK, RaisedOK, PlaceOK
<1>4. CASE f.op = "initialize"
  BY <1>4 DEF WaitsFor, WaitsOK, TopOK, RaisedOK, Present
<1> QED
  BY <1>1, <1>2, <1>3, <1>4

\* The end of a start: without an exception the plugin is ACTIVE.
LEMMA StartReturns ==
    ASSUME Top.op = "start", NEW f \in FrameType, WaitsFor(f)
    PROVE  /\ states[Top.p] = "active" => TopOK(f, states, plugins, deps)
           /\ RaisedOK(f, states, plugins, deps)
<1>1. f.op \in {"start", "reload"}
  BY DEF WaitsFor, MayCallOp
<1>2. CASE f.op = "reload"
  BY <1>2 DEF WaitsFor, WaitsOK, TopOK, RaisedOK
<1>3. CASE f.op = "start"
  BY <1>3 DEF WaitsFor, WaitsOK, TopOK, RaisedOK, PlaceOK
<1> QED
  BY <1>1, <1>2, <1>3

\* The end of a stop: without an exception the plugin is not ACTIVE.
LEMMA StopReturns ==
    ASSUME Top.op = "stop", NEW f \in FrameType, WaitsFor(f)
    PROVE  /\ states[Top.p] # "active" => TopOK(f, states, plugins, deps)
           /\ states[Top.p] = "failed" \/ ~Present(Top.p) => RaisedOK(f, states, plugins, deps)
<1>1. f.op \in {"unload", "unregister", "shutdown", "reload"}
  BY DEF WaitsFor, MayCallOp
<1>2. CASE f.op \in {"unregister", "reload"}
  BY <1>2 DEF WaitsFor, WaitsOK, TopOK, RaisedOK
<1>3. CASE f.op = "unload"
  BY <1>3 DEF WaitsFor, WaitsOK, TopOK, RaisedOK, PlaceOK, Single
<1>4. CASE f.op = "shutdown"
  <2>1. f.at = "unload" /\ f.todo # <<>> /\ f.todo \in Seq(Plugins)
    BY <1>4 DEF WaitsFor, WaitsOK, PlaceOK, FrameType
  <2>2. ToSet(f.todo) = ToSet(Tail(f.todo)) \cup {Head(f.todo)}
    BY <2>1, HeadAndTail
  <2>3. /\ Top.p = Head(f.todo) /\ ToSet(f.todo) \subseteq ToSet(plugins)
        /\ AllDownBut(ToSet(f.todo) \cup {Top.p}, states)
    BY <1>4, <2>1 DEF WaitsFor, WaitsOK
  <2>4. AllDownBut(ToSet(f.todo), states)
    BY <2>2, <2>3 DEF AllDownBut
  <2>5. states[Top.p] # "active" => TopOK(f, states, plugins, deps)
    BY <1>4, <2>1, <2>3, <2>4 DEF TopOK
  <2>6. Present(Top.p)
    BY <2>2, <2>3 DEF Present
  <2>7. states[Top.p] = "failed" => AllDownBut(ToSet(Tail(f.todo)), states)
    BY <2>2, <2>3 DEF AllDownBut, Down
  <2>8. states[Top.p] = "failed" => RaisedOK(f, states, plugins, deps)
    BY <1>4, <2>1, <2>3, <2>7 DEF RaisedOK
  <2> QED
    BY <2>5, <2>6, <2>8
<1> QED
  BY <1>1, <1>2, <1>3, <1>4

\* The end of an unload: without an exception the plugin is down.
LEMMA UnloadReturns ==
    ASSUME Top.op = "unload", NEW f \in FrameType, WaitsFor(f)
    PROVE  /\ states[Top.p] \in Down => TopOK(f, states, plugins, deps)
           /\ states[Top.p] \in {"active", "failed"} \/ ~Present(Top.p) => RaisedOK(f, states, plugins, deps)
<1>1. f.op \in {"unregister", "shutdown", "reload"}
  BY DEF WaitsFor, MayCallOp
<1>2. CASE f.op \in {"unregister", "reload"}
  BY <1>2 DEF WaitsFor, WaitsOK, TopOK, RaisedOK
<1>3. CASE f.op = "shutdown"
  <2>1. f.at = "each"
    BY <1>3 DEF WaitsFor, WaitsOK, PlaceOK
  <2>2. /\ ToSet(f.todo) \subseteq ToSet(plugins) /\ states[Top.p] # "active" /\ Present(Top.p)
        /\ AllDownBut(ToSet(f.todo) \cup {Top.p}, states)
    BY <1>3, <2>1 DEF WaitsFor, WaitsOK, Present
  <2>3. states[Top.p] \in Down => AllDownBut(ToSet(f.todo), states)
    BY <2>2 DEF AllDownBut
  <2>4. states[Top.p] \in Down => TopOK(f, states, plugins, deps)
    BY <1>3, <2>1, <2>2, <2>3 DEF TopOK
  <2>5. states[Top.p] \in Down => RaisedOK(f, states, plugins, deps)
    BY <1>3, <2>1, <2>2, <2>3 DEF RaisedOK
  <2>6. "failed" \in Down
    BY DEF Down
  <2> QED
    BY <2>2, <2>4, <2>5, <2>6
<1> QED
  BY <1>1, <1>2, <1>3

\* The end of a sweep, for the reload that called it.
LEMMA SweepReturns ==
    ASSUME Top.op \in {"initialize", "shutdown"}, NEW f \in FrameType, WaitsFor(f)
    PROVE  TopOK(f, states, plugins, deps)
<1>1. f.op = "reload"
  BY DEF WaitsFor, MayCallOp
<1> QED
  BY <1>1 DEF TopOK


-----------------------------------------------------------------------------
(* Every step without handlers that call back keeps what the calls rely on. *)

\* The innermost call, as long as no handler calls back.
LEMMA Here ==
    ASSUME TypeInv, Quiet, stack # <<>>
    PROVE  /\ Top.op \in Single /\ Top.at # "enter" => Present(Top.p)
           /\ ~raised => TopOK(Top, states, plugins, deps)
           /\ raised => RaisedOK(Top, states, plugins, deps) /\ Top.at # "enter"
<1>1. PICK n \in Nat \ {0} : n = Len(stack) /\ Top = stack[n]
  BY TopOf DEF TypeInv, CallsOK, Structure, FramesOK
<1>2. Top.op \in Single /\ Top.at # "enter" => Present(Top.p)
  BY <1>1 DEF Quiet, HereOK
<1>3. raised => HasCalled(Top)
  BY TopFacts
<1> QED
  BY <1>2, <1>3 DEF Quiet, Innermost, HasCalled

\* One plugin gets another state.
LEMMA OneState ==
    ASSUME TypeInv, NEW p \in Plugins, NEW s, SetState(p, s)
    PROVE  Others(p, states') /\ states'[p] = s
BY DEF TypeInv, TableOK, SetState, Others

\* A plugin that is not ACTIVE gets another state that is not ACTIVE.
LEMMA OtherState ==
    ASSUME TypeInv, Quiet, NEW p \in Plugins, Present(p), NEW s, SetState(p, s),
           states[p] # "active", s # "active",
           plugins' = plugins, deps' = deps, admitted' = admitted,
           running' = running /\ outdated' = outdated, nested' = nested
    PROVE  /\ GroundedOK' /\ RunningIsActive'
           /\ \A q \in Plugins : states'[q] # "none" => Present(q)
<1>1. Others(p, states') /\ states'[p] = s
  BY OneState
<1>2. ActivePlugins' = ActivePlugins
  BY <1>1 DEF Others, ActivePlugins
<1>3. GroundedOK' /\ RunningIsActive'
  BY <1>2, FewerActive, SameRunning DEF Quiet
<1> QED
  BY <1>1, <1>3 DEF Quiet, HereOK, Others

\* The handlers of the last event have returned.
LEMMA ReturnQuiet == ASSUME TypeInv, Quiet, nested = 0, Return  PROVE Quiet'
<1>1. stack # <<>> /\ ~raised /\ UnchangedTable /\ TopOK(Top, states, plugins, deps) /\ PlaceOK(Top)
  BY Here, TopFacts DEF Return
<1>2. CASE Top.at = "done" /\ Leave
  <2>1. Top.op \in {"load", "start", "stop", "unload"}
    BY <1>1, <1>2, TopFacts DEF PlaceOK, Ops, Single
  <2>2. ASSUME NEW f \in FrameType, WaitsFor(f)
        PROVE  TopOK(f, states, plugins, deps)
    <3>1. CASE Top.op = "load"
      BY <2>2, <3>1, LoadReturns
    <3>2. CASE Top.op = "start"
      BY <1>1, <1>2, <2>2, <3>2, StartReturns DEF TopOK
    <3>3. CASE Top.op = "stop"
      BY <1>1, <1>2, <2>2, <3>3, StopReturns DEF TopOK
    <3>4. CASE Top.op = "unload"
      BY <1>1, <1>2, <2>2, <3>4, UnloadReturns DEF TopOK, Down
    <3> QED
      BY <2>1, <3>1, <3>2, <3>3, <3>4
  <2> QED
    BY <1>1, <1>2, <2>2, Returns
<1>3. CASE Top.at = "failed" /\ Throw
  <2>1. Top.op \in {"load", "start", "stop", "unload"}
    BY <1>1, <1>3, TopFacts DEF PlaceOK, Ops, Single
  <2>2. ASSUME NEW f \in FrameType, WaitsFor(f)
        PROVE  RaisedOK(f, states, plugins, deps)
    <3>1. CASE Top.op = "load"
      BY <1>1, <1>3, <2>2, <3>1, LoadReturns DEF TopOK
    <3>2. CASE Top.op = "start"
      BY <2>2, <3>2, StartReturns
    <3>3. CASE Top.op = "stop"
      BY <1>1, <1>3, <2>2, <3>3, StopReturns DEF TopOK
    <3>4. CASE Top.op = "unload"
      BY <1>1, <1>3, <2>2, <3>4, UnloadReturns DEF TopOK
    <3> QED
      BY <2>1, <3>1, <3>2, <3>3, <3>4
  <2> QED
    BY <1>1, <1>3, <2>2, Returns
<1> QED
  BY <1>2, <1>3 DEF Return

\* The call is about a plugin that is not ACTIVE, and gives it another state.
LEMMA LoadSets ==
    ASSUME TypeInv, Quiet, nested = 0, stack # <<>>, Top.op = "load", Present(Top.p),
           states[Top.p] # "active", NEW s, s # "active", SetState(Top.p, s),
           NEW at \in {"done", "failed"}, Continue(At(at)),
           plugins' = plugins, deps' = deps, admitted' = admitted,
           running' = running /\ outdated' = outdated, nested' = nested
    PROVE  Quiet'
<1>1. Top.p \in Plugins /\ Top \in FrameType
  BY TopFacts DEF Single
<1>2. Others(Top.p, states') /\ states'[Top.p] = s
  BY <1>1, OneState
<1>3. /\ GroundedOK' /\ RunningIsActive'
      /\ \A q \in Plugins : states'[q] # "none" => Present(q)
  BY <1>1, OtherState
<1>4. Waiting(states', plugins, deps)
  BY <1>2, LoadWaiting DEF Quiet
<1>5. PICK f \in FrameType : f = At(at) /\ f.op = "load" /\ f.p = Top.p /\ f.at = at
  BY <1>1, AtFacts DEF Ats
<1>6. TopOK(f, states', plugins, deps)
  BY <1>2, <1>5 DEF TopOK
<1>7. stack' = Replace(f) /\ raised' = FALSE
  BY <1>5 DEF Continue
<1> QED
  BY <1>3, <1>4, <1>5, <1>6, <1>7, QuietSet

\* load_plugin
LEMMA LoadQuiet ==
    ASSUME TypeInv, Quiet, nested = 0, LoadEnter \/ LoadDependency \/ LoadHooks \/ LoadCatches
    PROVE  Quiet'
<1>1. stack # <<>> /\ Top.op = "load"
  BY DEF LoadEnter, LoadDependency, LoadHooks, LoadCatches, In, Caught, TypeInv, CallsOK
<1>2. PICK p \in Plugins : /\ p = Top.p /\ deps[p] \in Seq(Plugins) /\ Top.todo \in Seq(Plugins)
                           /\ Top \in FrameType /\ PlaceOK(Top)
  BY <1>1, TopFacts DEF Single
<1>3. {"deps", "done", "failed"} \subseteq Ats /\ "load" \in Ops \cap Single
  BY DEF Ats, Ops, Single
<1>4. /\ plugins' = plugins /\ deps' = deps /\ admitted' = admitted
      /\ running' = running /\ outdated' = outdated /\ nested' = nested
  BY DEF LoadEnter, LoadDependency, LoadHooks, LoadCatches, UnchangedTable, tableVars, tallyVars
<1>5. CASE LoadEnter
  <2>1. CASE ~Present(p) /\ Throw /\ UNCHANGED <<states, errors>>
    <3>1. UnchangedTable
      BY <1>5, <2>1 DEF LoadEnter, UnchangedTable, tableVars
    <3> QED
      BY <1>1, <1>2, <2>1, <3>1, Returns, LoadReturns
  <2>2. CASE Leave /\ UNCHANGED <<states, errors>>
    <3>1. UnchangedTable
      BY <1>5, <2>2 DEF LoadEnter, UnchangedTable, tableVars
    <3> QED
      BY <1>1, <2>2, <3>1, Returns, LoadReturns
  <2>3. CASE Present(p) /\ StateOf(p) = "registered" /\ Fails(p) /\ Continue(At("failed"))
    BY <1>1, <1>2, <1>4, <2>3, LoadSets DEF Fails, StateOf
  <2>4. CASE /\ Present(p) /\ StateOf(p) = "registered"
             /\ Continue([At("deps") EXCEPT !.todo = deps[p]]) /\ UNCHANGED <<states, errors>>
    <3>1. UnchangedTable
      BY <1>5, <2>4 DEF LoadEnter, UnchangedTable, tableVars
    <3>2. PICK s \in Seq(Plugins) : s = deps[p]
      BY <1>2
    <3>3. PICK f : f = [At("deps") EXCEPT !.todo = s]
      OBVIOUS
    <3>4. f \in FrameType /\ f.op = "load" /\ f.p = p
      BY <1>1, <1>2, <1>3, <3>3, AtTodoFacts
    <3>5. TopOK(f, states, plugins, deps)
      BY <2>4, <3>4 DEF TopOK, StateOf
    <3> QED
      BY <1>1, <1>2, <2>4, <3>1, <3>2, <3>3, <3>4, <3>5, QuietContinue
  <2> QED
    BY <1>2, <1>5, <2>1, <2>2, <2>3, <2>4 DEF LoadEnter
<1>6. CASE LoadDependency
  <2>1. /\ Top.todo # <<>> /\ Top.at = "deps" /\ ~raised /\ UnchangedTable
        /\ Present(p) /\ states[p] # "active"
    BY <1>1, <1>2, <1>3, <1>6, Here DEF LoadDependency, In, TopOK
  <2>2. PICK f \in FrameType, d \in Plugins :
          f = Rest /\ f.op = "load" /\ f.p = p /\ f.at = "deps" /\ d = Head(Top.todo)
    BY <1>1, <1>2, <2>1, RestFacts
  <2>3. CASE Invoke(f, "load", d)
    <3>1. \A g \in FrameType : WaitsOK(f, g, states, plugins, deps)
      BY <2>1, <2>2 DEF WaitsOK
    <3>2. RaisedOK(f, states, plugins, deps)
      BY <2>1, <2>2 DEF RaisedOK
    <3>3. states' = states
      BY <2>1 DEF UnchangedTable, tableVars
    <3> QED
      BY <1>1, <1>2, <1>3, <1>4, <2>1, <2>2, <2>3, <3>1, <3>2, <3>3, QuietInvoke
  <2>4. CASE Continue(f)
    <3>1. TopOK(f, states, plugins, deps)
      BY <2>1, <2>2 DEF TopOK
    <3> QED
      BY <1>1, <1>2, <2>1, <2>2, <2>4, <3>1, QuietContinue
  <2> QED
    BY <1>6, <2>2, <2>3, <2>4 DEF LoadDependency
<1>7. CASE LoadHooks
  <2>1. Present(p) /\ states[p] # "active"
    BY <1>1, <1>2, <1>3, <1>7, Here DEF LoadHooks, In, TopOK
  <2> QED
    BY <1>1, <1>2, <1>4, <1>7, <2>1, LoadSets DEF LoadHooks, Fails
<1>8. CASE LoadCatches
  <2>1. Present(p) /\ states[p] # "active"
    BY <1>1, <1>2, <1>3, <1>8, Here DEF LoadCatches, Caught, RaisedOK
  <2> QED
    BY <1>1, <1>2, <1>4, <1>8, <2>1, LoadSets DEF LoadCatches, Fails
<1> QED
  BY <1>5, <1>6, <1>7, <1>8

\* start_plugin
LEMMA StartQuiet ==
    ASSUME TypeInv, Quiet, nested = 0, StartEnter \/ StartDependency \/ StartHook \/ StartThrows
    PROVE  Quiet'
<1>1. stack # <<>> /\ Top.op = "start"
  BY DEF StartEnter, StartDependency, StartHook, StartThrows, In, Caught, TypeInv, CallsOK
<1>2. PICK p \in Plugins : /\ p = Top.p /\ deps[p] \in Seq(Plugins) /\ Top.todo \in Seq(Plugins)
                           /\ Top \in FrameType /\ PlaceOK(Top)
  BY <1>1, TopFacts DEF Single
<1>3. {"deps", "done", "failed"} \subseteq Ats /\ {"load", "start"} \subseteq Ops \cap Single
  BY DEF Ats, Ops, Single
<1>4. plugins' = plugins /\ deps' = deps /\ admitted' = admitted /\ nested' = nested
  BY DEF StartEnter, StartDependency, StartHook, StartThrows, UnchangedTable, tableVars, tallyVars
<1>5. CASE StartEnter
  <2>1. UnchangedTable
    BY <1>5 DEF StartEnter
  <2>2. CASE ~Present(p) /\ Throw
    BY <1>1, <1>2, <2>1, <2>2, Returns, StartReturns
  <2>3. CASE StateOf(p) = "active" /\ Leave
    <3>1. states[p] = "active"
      BY <2>3 DEF StateOf
    <3> QED
      BY <1>1, <1>2, <2>1, <2>3, <3>1, Returns, StartReturns
  <2>4. PICK s \in Seq(Plugins) : s = deps[p]
    BY <1>2
  <2>5. PICK f : f = [At("deps") EXCEPT !.todo = s]
    OBVIOUS
  <2>6. f \in FrameType /\ f.op = "start" /\ f.p = p /\ f.at = "deps" /\ f.todo = s
    BY <1>1, <1>2, <1>3, <2>5, AtTodoFacts
  <2>7. CASE Present(p) /\ StateOf(p) = "registered" /\ Invoke(f, "load", p)
    <3>1. \A g \in FrameType : g.op = "load" => WaitsOK(f, g, states, plugins, deps)
      BY <2>4, <2>6, <2>7 DEF WaitsOK, StateOf
    <3>2. RaisedOK(f, states, plugins, deps)
      BY <2>6 DEF RaisedOK
    <3>3. states' = states /\ running' = running /\ outdated' = outdated
      BY <2>1 DEF UnchangedTable, tableVars, tallyVars
    <3> QED
      BY <1>1, <1>2, <1>3, <1>4, <2>1, <2>6, <2>7, <3>1, <3>2, <3>3, QuietInvoke
  <2>8. CASE Present(p) /\ StateOf(p) \in {"loaded", "stopped", "failed"} /\ Continue(f)
    <3>1. TopOK(f, states, plugins, deps)
      BY <2>4, <2>6, <2>8 DEF TopOK, StateOf
    <3> QED
      BY <1>1, <1>2, <2>1, <2>6, <2>8, <3>1, QuietContinue
  <2> QED
    BY <1>2, <1>5, <2>2, <2>3, <2>4, <2>5, <2>7, <2>8 DEF StartEnter
<1>6. CASE StartDependency
  <2>1. /\ Top.todo # <<>> /\ Top.at = "deps" /\ ~raised /\ UnchangedTable
        /\ Present(p) /\ states[p] # "active" /\ ToSet(Top.todo) \subseteq ToSet(deps[p])
        /\ \A d \in ToSet(deps[p]) : d \in ToSet(Top.todo) \/ states[d] = "active"
    BY <1>1, <1>2, <1>3, <1>6, Here DEF StartDependency, In, TopOK
  <2>2. PICK f \in FrameType, d \in Plugins :
          /\ f = Rest /\ f.op = "start" /\ f.p = p /\ f.at = "deps" /\ d = Head(Top.todo)
          /\ ToSet(Top.todo) = ToSet(f.todo) \cup {d}
    BY <1>1, <1>2, <2>1, RestFacts
  <2>3. CASE Invoke(f, "start", d)
    <3>1. ASSUME NEW g \in FrameType, g.op = "start" /\ g.p = d
          PROVE  WaitsOK(f, g, states, plugins, deps)
      BY <2>1, <2>2, <3>1 DEF WaitsOK
    <3>2. RaisedOK(f, states, plugins, deps)
      BY <2>2 DEF RaisedOK
    <3>3. states' = states /\ running' = running /\ outdated' = outdated
      BY <2>1 DEF UnchangedTable, tableVars, tallyVars
    <3> QED
      BY <1>1, <1>2, <1>3, <1>4, <2>1, <2>2, <2>3, <3>1, <3>2, <3>3, QuietInvoke
  <2>4. CASE StateOf(d) = "active" /\ Continue(f)
    <3>1. TopOK(f, states, plugins, deps)
      BY <2>1, <2>2, <2>4 DEF TopOK, StateOf
    <3> QED
      BY <1>1, <1>2, <2>1, <2>2, <2>4, <3>1, QuietContinue
  <2> QED
    BY <1>6, <2>2, <2>3, <2>4 DEF StartDependency
<1>7. CASE StartHook
  <2>1. /\ ~raised /\ Present(p) /\ states[p] # "active" /\ stack # <<>>
        /\ \A d \in ToSet(deps[p]) : states[d] = "active"
    BY <1>1, <1>2, <1>3, <1>7, Here, ToSetType DEF StartHook, In, TopOK
  <2>2. ASSUME NEW st, Others(p, st)
        PROVE  Waiting(st, plugins, deps)
    BY <1>1, <1>2, <2>1, <2>2, StartWaiting DEF Quiet
  <2>3. CASE /\ SetState(p, "active") /\ running' = running \cup {p} /\ Continue(At("done"))
             /\ outdated' = IF ToSet(deps[p]) \cap outdated = {} THEN outdated \ {p} ELSE outdated \cup {p}
    <3>1. Others(p, states') /\ states'[p] = "active"
      BY <2>3, OneState
    <3>2. ActivePlugins' = ActivePlugins \cup {p}
      BY <3>1 DEF Others, ActivePlugins
    <3>3. GroundedOK'
      <4>1. Grounded(ToSet(plugins))' = Grounded(ToSet(plugins))
        BY <1>4, SameGraph
      <4>2. ToSet(deps[p]) \cap outdated = {} => p \in Grounded(ToSet(plugins))
        BY <1>2, <2>1, StartIsGrounded DEF Quiet
      <4> QED
        BY <2>3, <3>2, <4>1, <4>2 DEF GroundedOK, Quiet
    <3>4. RunningIsActive'
      BY <1>4, <2>3, <3>2, SameGraph DEF RunningIsActive, Quiet
    <3>5. \A q \in Plugins : states'[q] # "none" => Present(q)
      BY <2>1, <3>1 DEF Quiet, HereOK, Others
    <3>6. PICK f \in FrameType : f = At("done") /\ f.op = "start" /\ f.p = p /\ f.at = "done"
      BY <1>1, <1>2, <1>3, AtFacts
    <3>7. TopOK(f, states', plugins, deps)
      BY <3>1, <3>6 DEF TopOK
    <3>8. stack' = Replace(f) /\ raised' = FALSE
      BY <2>3, <3>6 DEF Continue
    <3> QED
      BY <1>1, <1>2, <1>4, <2>1, <2>2, <3>1, <3>3, <3>4, <3>5, <3>6, <3>7, <3>8, QuietSet
  <2>4. CASE Fails(p) /\ Continue(At("failed")) /\ running' = running /\ outdated' = outdated
    <3>1. Others(p, states') /\ states'[p] = "failed"
      BY <2>4, OneState DEF Fails
    <3>2. /\ GroundedOK' /\ RunningIsActive'
          /\ \A q \in Plugins : states'[q] # "none" => Present(q)
      BY <1>4, <2>1, <2>4, OtherState DEF Fails
    <3>3. PICK f \in FrameType : f = At("failed") /\ f.op = "start" /\ f.p = p /\ f.at = "failed"
      BY <1>1, <1>2, <1>3, AtFacts
    <3>4. TopOK(f, states', plugins, deps)
      BY <3>3 DEF TopOK
    <3>5. stack' = Replace(f) /\ raised' = FALSE
      BY <2>4, <3>3 DEF Continue
    <3> QED
      BY <1>1, <1>2, <1>4, <2>1, <2>2, <3>1, <3>2, <3>3, <3>4, <3>5, QuietSet
  <2> QED
    BY <1>2, <1>7, <2>3, <2>4 DEF StartHook
<1>8. CASE StartThrows
  BY <1>1, <1>8, Returns, StartReturns DEF StartThrows
<1> QED
  BY <1>5, <1>6, <1>7, <1>8

\* stop_plugin
LEMMA StopQuiet == ASSUME TypeInv, Quiet, nested = 0, Stop  PROVE Quiet'
<1>1. stack # <<>> /\ Top.op = "stop" /\ ~raised
  BY DEF Stop, In
<1>2. PICK p \in Plugins : p = Top.p /\ Top \in FrameType
  BY <1>1, TopFacts DEF Single
<1>3. {"done", "failed"} \subseteq Ats
  BY DEF Ats
<1>4. /\ plugins' = plugins /\ deps' = deps /\ admitted' = admitted
      /\ outdated' = outdated /\ nested' = nested
  BY DEF Stop, tallyVars
<1>5. CASE /\ UNCHANGED <<states, errors, running, faults>>
           /\ (~Present(p) /\ Throw) \/ (StateOf(p) # "active" /\ Leave)
  <2>1. UnchangedTable
    BY <1>5 DEF Stop, UnchangedTable, tableVars
  <2>2. CASE ~Present(p) /\ Throw
    BY <1>1, <1>2, <2>1, <2>2, Returns, StopReturns
  <2>3. CASE StateOf(p) # "active" /\ Leave
    <3>1. states[p] # "active"
      BY <2>3 DEF StateOf
    <3> QED
      BY <1>1, <1>2, <2>1, <2>3, <3>1, Returns, StopReturns
  <2> QED
    BY <1>5, <2>2, <2>3
<1>6. ASSUME Present(p), StateOf(p) = "active", running' = running \ {p},
             NEW s \in {"stopped", "failed"}, SetState(p, s),
             NEW at, Continue(At(at)), (s = "stopped" /\ at = "done") \/ (s = "failed" /\ at = "failed")
      PROVE  Quiet'
  <2>1. states[p] = "active"
    BY <1>6 DEF StateOf
  <2>2. Others(p, states') /\ states'[p] = s
    BY <1>6, OneState
  <2>3. Waiting(states', plugins, deps)
    BY <1>1, <1>2, <2>1, <2>2, StopWaiting DEF Quiet
  <2>4. ActivePlugins' = ActivePlugins \ {p}
    BY <2>2 DEF Others, ActivePlugins
  <2>5. GroundedOK'
    BY <1>4, <2>4, FewerActive DEF Quiet
  <2>6. RunningIsActive'
    BY <1>4, <1>6, <2>4, SameGraph DEF RunningIsActive, Quiet
  <2>7. \A q \in Plugins : states'[q] # "none" => Present(q)
    BY <1>6, <2>2 DEF Quiet, HereOK, Others
  <2>8. PICK f \in FrameType : f = At(at) /\ f.op = "stop" /\ f.p = p /\ f.at = at
    BY <1>1, <1>2, <1>3, <1>6, AtFacts
  <2>9. TopOK(f, states', plugins, deps)
    BY <1>6, <2>2, <2>8 DEF TopOK
  <2>10. stack' = Replace(f) /\ raised' = FALSE
    BY <1>6, <2>8 DEF Continue
  <2> QED
    BY <1>1, <1>2, <1>4, <1>6, <2>3, <2>5, <2>6, <2>7, <2>8, <2>9, <2>10, QuietSet
<1>7. CASE /\ Present(p) /\ StateOf(p) = "active" /\ running' = running \ {p}
           /\ SetState(p, "stopped") /\ Continue(At("done"))
  BY <1>6, <1>7
<1>8. CASE /\ Present(p) /\ StateOf(p) = "active" /\ running' = running \ {p}
           /\ Fails(p) /\ Continue(At("failed"))
  BY <1>6, <1>8 DEF Fails
<1> QED
  BY <1>2, <1>5, <1>7, <1>8 DEF Stop

\* unload_plugin
LEMMA UnloadQuiet ==
    ASSUME TypeInv, Quiet, nested = 0, UnloadEnter \/ UnloadHook \/ UnloadThrows
    PROVE  Quiet'
<1>1. stack # <<>> /\ Top.op = "unload"
  BY DEF UnloadEnter, UnloadHook, UnloadThrows, In, Caught, TypeInv, CallsOK
<1>2. PICK p \in Plugins : p = Top.p /\ Top \in FrameType
  BY <1>1, TopFacts DEF Single
<1>3. {"hook", "done", "failed"} \subseteq Ats /\ {"stop", "unload"} \subseteq Ops \cap Single
  BY DEF Ats, Ops, Single
<1>4. /\ plugins' = plugins /\ deps' = deps /\ admitted' = admitted
      /\ running' = running /\ outdated' = outdated /\ nested' = nested
  BY DEF UnloadEnter, UnloadHook, UnloadThrows, UnchangedTable, tableVars, tallyVars
<1>5. CASE UnloadEnter
  <2>1. UnchangedTable /\ states' = states
    BY <1>5 DEF UnloadEnter, UnchangedTable, tableVars
  <2>2. CASE ~Present(p) /\ Throw
    BY <1>1, <1>2, <2>1, <2>2, Returns, UnloadReturns
  <2>3. CASE StateOf(p) = "registered" /\ Leave
    <3>1. states[p] \in Down
      BY <2>3 DEF StateOf, Down
    <3> QED
      BY <1>1, <1>2, <2>1, <2>3, <3>1, Returns, UnloadReturns
  <2>4. PICK f \in FrameType : f = At("hook") /\ f.op = "unload" /\ f.p = p /\ f.at = "hook"
    BY <1>1, <1>2, <1>3, AtFacts
  <2>5. CASE Present(p) /\ StateOf(p) = "active" /\ Invoke(f, "stop", p)
    <3>1. \A g \in FrameType : g.p = p => WaitsOK(f, g, states, plugins, deps)
      BY <2>4 DEF WaitsOK
    <3>2. RaisedOK(f, states, plugins, deps)
      BY <2>4, <2>5 DEF RaisedOK, StateOf
    <3> QED
      BY <1>1, <1>2, <1>3, <1>4, <2>1, <2>4, <2>5, <3>1, <3>2, QuietInvoke
  <2>6. CASE Present(p) /\ StateOf(p) \in {"loaded", "stopped", "failed"} /\ Continue(f)
    <3>1. TopOK(f, states, plugins, deps)
      BY <2>4, <2>6 DEF TopOK, StateOf
    <3> QED
      BY <1>1, <1>2, <2>1, <2>4, <2>6, <3>1, QuietContinue
  <2> QED
    BY <1>2, <1>5, <2>2, <2>3, <2>4, <2>5, <2>6 DEF UnloadEnter
<1>6. CASE UnloadHook
  <2>1. Present(p) /\ states[p] # "active"
    BY <1>1, <1>2, <1>3, <1>6, Here DEF UnloadHook, In, TopOK
  <2>2. ASSUME NEW s, SetState(p, s), NEW at, Continue(At(at)),
               (s = "registered" /\ at = "done") \/ (s = "failed" /\ at = "failed")
        PROVE  Quiet'
    <3>1. Others(p, states') /\ states'[p] = s /\ s # "active"
      BY <2>2, OneState
    <3>2. Waiting(states', plugins, deps)
      BY <1>1, <1>2, <3>1, UnloadWaiting DEF Quiet
    <3>3. /\ GroundedOK' /\ RunningIsActive'
          /\ \A q \in Plugins : states'[q] # "none" => Present(q)
      BY <1>4, <2>1, <2>2, OtherState
    <3>4. PICK f \in FrameType : f = At(at) /\ f.op = "unload" /\ f.p = p /\ f.at = at
      BY <1>1, <1>2, <1>3, <2>2, AtFacts
    <3>5. TopOK(f, states', plugins, deps)
      BY <2>2, <3>1, <3>4 DEF TopOK
    <3>6. stack' = Replace(f) /\ raised' = FALSE
      BY <2>2, <3>4 DEF Continue
    <3> QED
      BY <1>1, <1>2, <1>4, <2>1, <3>2, <3>3, <3>4, <3>5, <3>6, QuietSet
  <2> QED
    BY <1>2, <1>6, <2>2 DEF UnloadHook, Fails
<1>7. CASE UnloadThrows
  <2>1. UnchangedTable /\ Throw /\ states[Top.p] \in {"active", "failed"}
    BY <1>1, <1>7, Here DEF UnloadThrows, Caught, RaisedOK
  <2> QED
    BY <1>1, <2>1, Returns, UnloadReturns
<1> QED
  BY <1>5, <1>6, <1>7

\* Nothing waits for a call that clients make.
LEMMA AlonePop ==
    ASSUME TypeInv, Quiet, nested = 0, stack # <<>>, Top.op \in {"unregister", "reload"},
           UnchangedTable, Leave \/ Throw
    PROVE  Quiet'
<1>1. Len(stack) = 1
  BY UnregisterIsAlone
<1> QED
  BY <1>1, QuietPop

\* A plugin that nothing depends on is removed.
LEMMA RemoveIsGrounded ==
    ASSUME TypeInv, NEW p \in Plugins, NEW q \in Grounded(ToSet(plugins)), q # p, deps' = deps /\ admitted' = admitted,
           \A r \in ToSet(plugins) \ {p} : p \notin ToSet(deps[r]),
           ToSet(plugins') = ToSet(plugins) \ {p}
    PROVE  q \in Grounded(ToSet(plugins))'
<1>1. ASSUME NEW V \in SUBSET Plugins, Closed(V, ToSet(plugins) \ {p})
      PROVE  q \in V
  <2>1. PICK W \in SUBSET Plugins : W = V \cup {p}
    OBVIOUS
  <2>2. ASSUME NEW r \in ToSet(plugins), ToSet(deps[r]) \subseteq W
        PROVE  r \in W
    BY <1>1, <2>1, <2>2 DEF Closed
  <2>3. Closed(W, ToSet(plugins))
    BY <2>2 DEF Closed
  <2> QED
    BY <2>1, <2>3 DEF Grounded
<1>2. \A V : Closed(V, ToSet(plugins))' <=> Closed(V, ToSet(plugins) \ {p})
  BY DEF Closed
<1>3. q \in Plugins
  BY DEF Grounded
<1> QED
  BY <1>1, <1>2, <1>3 DEF Grounded

\* unregister
LEMMA UnregisterQuiet ==
    ASSUME TypeInv, Quiet, nested = 0,
           UnregisterEnter \/ UnregisterUnload \/ UnregisterRemove \/ UnregisterCatches
    PROVE  Quiet'
<1>1. stack # <<>> /\ Top.op = "unregister"
  BY DEF UnregisterEnter, UnregisterUnload, UnregisterRemove, UnregisterCatches, In, Caught, TypeInv, CallsOK
<1>2. PICK p \in Plugins : p = Top.p /\ Top \in FrameType
  BY <1>1, TopFacts DEF Single
<1>3. /\ {"unload", "remove"} \subseteq Ats /\ {"unregister", "stop", "unload"} \subseteq Ops \cap Single
      /\ "enter" \notin {"unload", "remove"}
  BY DEF Ats, Ops, Single
<1>4. deps' = deps /\ admitted' = admitted /\ nested' = nested
  BY DEF UnregisterEnter, UnregisterUnload, UnregisterRemove, UnregisterCatches, UnchangedTable,
         tableVars, tallyVars
<1>5. ASSUME Present(p), \A q \in ToSet(plugins) \ {p} : p \notin ToSet(deps[q]), UnchangedTable,
             NEW at \in {"unload", "remove"}, NEW op \in {"stop", "unload"},
             Invoke(At(at), op, p) \/ Continue(At(at))
      PROVE  Quiet'
  <2>1. PICK f \in FrameType : f = At(at) /\ f.op = "unregister" /\ f.p = p
    BY <1>1, <1>2, <1>3, AtFacts
  <2>2. \A g \in FrameType : WaitsOK(f, g, states, plugins, deps)
    BY <1>5, <2>1 DEF WaitsOK
  <2>3. RaisedOK(f, states, plugins, deps) /\ TopOK(f, states, plugins, deps)
    BY <1>5, <2>1 DEF RaisedOK, TopOK
  <2>4. plugins' = plugins /\ states' = states /\ running' = running /\ outdated' = outdated
    BY <1>5 DEF UnchangedTable, tableVars, tallyVars
  <2>5. CASE Invoke(f, op, p)
    BY <1>1, <1>2, <1>3, <1>4, <1>5, <2>1, <2>2, <2>3, <2>4, <2>5, QuietInvoke
  <2>6. CASE Continue(f)
    BY <1>1, <1>2, <1>5, <2>1, <2>3, <2>6, QuietContinue
  <2> QED
    BY <1>5, <2>1, <2>5, <2>6
<1>6. CASE UnregisterEnter
  <2>1. UnchangedTable
    BY <1>6 DEF UnregisterEnter
  <2>2. Dependents(p) = {} => \A q \in ToSet(plugins) \ {p} : p \notin ToSet(deps[q])
    BY DEF Dependents
  <2>3. CASE Throw
    BY <1>1, <2>1, <2>3, AlonePop
  <2> QED
    BY <1>2, <1>5, <1>6, <2>1, <2>2, <2>3 DEF UnregisterEnter
<1>7. CASE UnregisterUnload
  <2>1. Present(p) /\ \A q \in ToSet(plugins) \ {p} : p \notin ToSet(deps[q])
    BY <1>1, <1>2, <1>3, <1>7, Here DEF UnregisterUnload, In, TopOK
  <2> QED
    BY <1>2, <1>5, <1>7, <2>1 DEF UnregisterUnload
<1>8. CASE UnregisterRemove
  <2>1. ~raised /\ \A q \in ToSet(plugins) \ {p} : p \notin ToSet(deps[q])
    BY <1>1, <1>2, <1>3, <1>8, Here DEF UnregisterRemove, In, TopOK
  <2>2. CASE ~Present(p)
    <3>1. UnchangedTable /\ Throw
      BY <1>2, <1>8, <2>2 DEF UnregisterRemove, UnchangedTable, tableVars
    <3> QED
      BY <1>1, <3>1, AlonePop
  <2>3. CASE Present(p)
    <3>1. /\ plugins' = Kept(plugins, Plugins \ {p}) /\ SetState(p, "none")
          /\ running' = running \ {p} /\ Leave
      BY <1>2, <1>8, <2>3 DEF UnregisterRemove
    <3>2. Len(stack) = 1 /\ stack \in Seq(FrameType)
      BY <1>1, UnregisterIsAlone DEF TypeInv, CallsOK, Structure, FramesOK
    <3>3. Len(stack') = 0 /\ stack' = <<>>
      BY <1>1, <3>1, <3>2, PopOK DEF Popped, Leave
    <3>4. Waiting(states, plugins, deps)' /\ Innermost(states, plugins, deps)'
      BY <3>3 DEF Waiting, Innermost
    <3>5. Others(p, states') /\ states'[p] = "none"
      BY <3>1, OneState
    <3>6. ActivePlugins' = ActivePlugins \ {p}
      BY <3>5 DEF Others, ActivePlugins
    <3>7. IsList(plugins) /\ ToSet(plugins) \subseteq Plugins
      BY ToSetType DEF TypeInv, TableOK, IsList
    <3>8. ToSet(plugins') = ToSet(plugins) \ {p}
      BY <3>1, <3>7, KeptOK
    <3>9. HereOK'
      BY <3>3, <3>5, <3>8 DEF HereOK, Quiet, Others, Present
    <3>0. outdated' = outdated
      BY <1>8 DEF UnregisterRemove, tallyVars
    <3>10. GroundedOK'
      BY <3>0, <1>4, <2>1, <3>6, <3>8, RemoveIsGrounded DEF GroundedOK, Quiet
    <3>11. \A q : AdmitsVersion(q)' <=> AdmitsVersion(q)
      BY <1>4 DEF AdmitsVersion, RestsOn
    <3>12. RunningIsActive'
      BY <1>4, <3>0, <3>1, <3>6, <3>11 DEF RunningIsActive, Quiet
    <3> QED
      BY <3>4, <3>9, <3>10, <3>12 DEF Quiet
  <2> QED
    BY <2>2, <2>3
<1>9. CASE UnregisterCatches
  <2>1. /\ UnchangedTable /\ Continue(Top) /\ Present(p) /\ RaisedOK(Top, states, plugins, deps)
    BY <1>1, <1>2, <1>3, <1>9, Here DEF UnregisterCatches, Caught
  <2>2. TopOK(Top, states, plugins, deps)
    BY <1>1, <2>1 DEF TopOK, RaisedOK
  <2> QED
    BY <1>1, <1>2, <2>1, <2>2, QuietContinue
<1> QED
  BY <1>6, <1>7, <1>8, <1>9

\* initialize and shutdown begin.
LEMMA BeganQuiet ==
    ASSUME TypeInv, Quiet, nested = 0, Began("initialize", plugins) \/ Began("shutdown", Reverse(plugins))
    PROVE  Quiet'
<1>1. stack # <<>> /\ Top.op \in {"initialize", "shutdown"} /\ UnchangedTable
  BY DEF Began, In
<1>2. Top \in FrameType /\ plugins \in Seq(Plugins)
  BY <1>1, TopFacts DEF TypeInv, TableOK
<1>3. PICK list \in Seq(Plugins) :
        /\ ToSet(list) = ToSet(plugins)
        /\ Continue([At("each") EXCEPT !.todo = list])
  BY <1>2, ReverseOK DEF Began
<1>4. PICK f : f = [At("each") EXCEPT !.todo = list]
  OBVIOUS
<1>5. f \in FrameType /\ f.op = Top.op /\ f.p = Top.p /\ f.at = "each" /\ f.todo = list
  BY <1>2, <1>4, AtTodoFacts DEF Ats
<1>6. AllDownBut(ToSet(plugins), states)
  BY DEF Quiet, HereOK, AllDownBut, Down, Present
<1>7. TopOK(f, states, plugins, deps)
  BY <1>1, <1>3, <1>5, <1>6 DEF TopOK
<1>8. f.op \notin Single
  BY <1>1, <1>5 DEF Single
<1> QED
  BY <1>1, <1>3, <1>4, <1>5, <1>7, <1>8, QuietContinue

\* initialize
LEMMA InitializeQuiet ==
    ASSUME TypeInv, Quiet, nested = 0, InitializeEach \/ InitializeCatches
    PROVE  Quiet'
<1>1. stack # <<>> /\ Top.op = "initialize"
  BY DEF InitializeEach, InitializeCatches, In, Caught, TypeInv, CallsOK
<1>2. Top \in FrameType /\ "load" \in Ops /\ "initialize" \notin Single
  BY <1>1, TopFacts DEF Ops, Single
<1>3. /\ plugins' = plugins /\ deps' = deps /\ admitted' = admitted
      /\ running' = running /\ outdated' = outdated /\ nested' = nested
  BY DEF InitializeEach, InitializeCatches, tallyVars
<1>4. CASE InitializeEach
  <2>1. ~raised /\ Top.at = "each" /\ ToSet(Top.todo) \subseteq ToSet(plugins)
    BY <1>1, <1>4, Here DEF InitializeEach, In, TopOK
  <2>2. CASE Leave /\ UNCHANGED <<states, errors>>
    <3>1. UnchangedTable
      BY <1>4, <2>2 DEF InitializeEach, UnchangedTable, tableVars
    <3> QED
      BY <1>1, <2>2, <3>1, Returns, SweepReturns
  <2>3. CASE Top.todo # <<>>
    <3>1. PICK p \in Plugins : p = Head(Top.todo) /\ Present(p)
      BY <1>2, <2>1, <2>3, RestFacts DEF Present
    <3>2. PICK r \in FrameType : /\ r = Rest /\ r.op = "initialize" /\ r.p = Top.p
                                 /\ ToSet(r.todo) \subseteq ToSet(plugins)
      BY <1>1, <1>2, <2>1, <2>3, RestFacts
    <3>3. CASE Invoke([Rest EXCEPT !.p = p], "load", p) /\ UNCHANGED <<states, errors>>
      <4>1. PICK f : f = [Rest EXCEPT !.p = p]
        OBVIOUS
      <4>2. f \in FrameType /\ f.op = "initialize" /\ f.p = p /\ f.todo = Tail(Top.todo)
        BY <1>1, <1>2, <2>3, <4>1, RestEdits
      <4>3. ToSet(f.todo) \subseteq ToSet(plugins)
        BY <1>2, <2>1, <2>3, <4>2, RestFacts
      <4>4. ASSUME NEW g \in FrameType, g.op = "load" /\ g.p = p
            PROVE  WaitsOK(f, g, states, plugins, deps)
        BY <3>1, <4>2, <4>3, <4>4 DEF WaitsOK, Present
      <4>5. Len(stack) < MaxDepth
        BY <1>1, SweepIsShallow
      <4>6. states' = states /\ f.op \notin Single /\ Invoke(f, "load", p)
        BY <1>2, <3>3, <4>1, <4>2
      <4>7. \A g \in FrameType : g.op = "load" /\ g.p = p => WaitsOK(f, g, states, plugins, deps)
        BY <4>4
      <4> QED
        BY <1>1, <1>2, <1>3, <4>2, <4>5, <4>6, <4>7, QuietInvoke
    <3>4. CASE p \notin ValidPlugins /\ Fails(p) /\ Continue(Rest)
      <4>1. Others(p, states') /\ states'[p] = "failed"
        BY <3>4, OneState DEF Fails
      <4>2. ActivePlugins' = ActivePlugins \ {p}
        BY <4>1 DEF Others, ActivePlugins
      <4>3. GroundedOK'
        BY <1>3, <4>2, FewerActive DEF Quiet
      <4>4. ~(p \in ActivePlugins \ outdated /\ AdmitsVersion(p))
        BY <3>4, AdmittedIsValid DEF Quiet, GroundedOK
      <4>5. RunningIsActive'
        BY <1>3, <4>2, <4>4, SameGraph DEF RunningIsActive, Quiet
      <4>6. \A q \in Plugins : states'[q] # "none" => Present(q)
        BY <3>1, <4>1 DEF Quiet, HereOK, Others
      <4>7. Waiting(states', plugins, deps)
        BY <1>1, InitializeWaiting
      <4>8. TopOK(r, states', plugins, deps)
        BY <3>2 DEF TopOK
      <4>9. stack' = Replace(r) /\ raised' = FALSE
        BY <3>2, <3>4 DEF Continue
      <4> QED
        BY <1>1, <1>2, <1>3, <3>2, <4>3, <4>5, <4>6, <4>7, <4>8, <4>9, QuietSet
    <3> QED
      BY <1>4, <2>3, <3>1, <3>3, <3>4 DEF InitializeEach
  <2> QED
    BY <1>4, <2>2, <2>3 DEF InitializeEach
<1>5. CASE InitializeCatches
  <2>1. RaisedOK(Top, states, plugins, deps) /\ HasCalled(Top)
    BY <1>1, <1>5, Here, TopFacts DEF InitializeCatches, Caught
  <2>2. PICK p \in Plugins : p = Top.p /\ states[p] # "active" /\ Present(p) /\ ToSet(Top.todo) \subseteq ToSet(plugins)
    BY <1>1, <2>1 DEF RaisedOK, HasCalled, Present
  <2>3. Fails(p) /\ Continue(Top)
    BY <1>5, <2>2 DEF InitializeCatches
  <2>4. /\ GroundedOK' /\ RunningIsActive'
        /\ \A q \in Plugins : states'[q] # "none" => Present(q)
    BY <1>3, <2>2, <2>3, OtherState DEF Fails
  <2>5. Waiting(states', plugins, deps)
    BY <1>1, InitializeWaiting
  <2>6. TopOK(Top, states', plugins, deps)
    BY <1>1, <2>2 DEF TopOK
  <2>7. stack' = Replace(Top) /\ raised' = FALSE
    BY <2>3 DEF Continue
  <2> QED
    BY <1>1, <1>2, <1>3, <2>4, <2>5, <2>6, <2>7, QuietSet
<1> QED
  BY <1>4, <1>5

\* shutdown
LEMMA ShutdownQuiet ==
    ASSUME TypeInv, Quiet, nested = 0, ShutdownEach \/ ShutdownUnload \/ ShutdownCatches
    PROVE  Quiet'
<1>1. stack # <<>> /\ Top.op = "shutdown" /\ UnchangedTable
  BY DEF ShutdownEach, ShutdownUnload, ShutdownCatches, In, Caught, TypeInv, CallsOK
<1>2. Top \in FrameType /\ {"stop", "unload"} \subseteq Ops /\ "shutdown" \notin Single
      /\ "unload" \in Ats /\ PlaceOK(Top) /\ states \in [Plugins -> PluginState \cup {"none"}]
  BY <1>1, TopFacts DEF Ops, Single, Ats, TypeInv, TableOK
<1>3. /\ plugins' = plugins /\ deps' = deps /\ admitted' = admitted
      /\ states' = states /\ running' = running /\ outdated' = outdated /\ nested' = nested
  BY <1>1 DEF UnchangedTable, tableVars, tallyVars
<1>4. Len(stack) < MaxDepth
  BY <1>1, SweepIsShallow
<1>5. CASE ShutdownEach
  <2>1. ~raised /\ ToSet(Top.todo) \subseteq ToSet(plugins) /\ AllDownBut(ToSet(Top.todo), states)
    BY <1>1, <1>5, Here DEF ShutdownEach, In, TopOK
  <2>2. CASE Leave
    BY <1>1, <2>2, Returns, SweepReturns
  <2>3. PICK f \in FrameType : /\ f = At("unload") /\ f.op = "shutdown" /\ f.p = Top.p
                               /\ f.at = "unload" /\ f.todo = Top.todo
    BY <1>1, <1>2, AtFacts
  <2>4. CASE Top.todo # <<>>
    <3>1. PICK p \in Plugins : p = Head(Top.todo)
      BY <1>2, <2>4, RestFacts
    <3>2. CASE Invoke(f, "stop", p)
      <4>1. AllDownBut(ToSet(Top.todo) \cup {p}, states)
        BY <2>1 DEF AllDownBut
      <4>2. ASSUME NEW g \in FrameType, g.op = "stop" /\ g.p = p
            PROVE  WaitsOK(f, g, states, plugins, deps)
        BY <2>1, <2>3, <3>1, <4>1, <4>2 DEF WaitsOK
      <4> QED
        BY <1>1, <1>2, <1>3, <1>4, <2>3, <3>2, <4>2, QuietInvoke
    <3>3. CASE states[p] # "active" /\ Continue(f)
      <4>1. TopOK(f, states, plugins, deps)
        BY <2>1, <2>3, <3>1, <3>3 DEF TopOK
      <4> QED
        BY <1>1, <1>2, <2>3, <3>3, <4>1, QuietContinue
    <3> QED
      BY <1>5, <2>3, <2>4, <3>1, <3>2, <3>3 DEF ShutdownEach
  <2> QED
    BY <1>5, <2>2, <2>4 DEF ShutdownEach
<1>6. ASSUME Top.at = "unload"
      PROVE  \E f \in FrameType, p \in Plugins :
               /\ f = [Rest EXCEPT !.at = "each"] /\ f.op = "shutdown" /\ f.p = Top.p /\ f.at = "each"
               /\ f.todo = Tail(Top.todo) /\ p = Head(Top.todo)
               /\ ToSet(Top.todo) = ToSet(f.todo) \cup {p}
  <2>1. Top.todo # <<>>
    BY <1>1, <1>2, <1>6 DEF PlaceOK
  <2>2. PICK f : f = [Rest EXCEPT !.at = "each"]
    OBVIOUS
  <2>3. /\ f \in FrameType /\ f.op = "shutdown" /\ f.p = Top.p /\ f.at = "each"
        /\ f.todo = Tail(Top.todo)
    BY <1>1, <1>2, <2>1, <2>2, RestEdits
  <2>4. /\ Head(Top.todo) \in Plugins
        /\ ToSet(Top.todo) = ToSet(Tail(Top.todo)) \cup {Head(Top.todo)}
    BY <1>2, <2>1, RestFacts
  <2> QED
    BY <2>2, <2>3, <2>4
<1>7. CASE ShutdownUnload
  <2>1. /\ ~raised /\ Top.at = "unload" /\ ToSet(Top.todo) \subseteq ToSet(plugins)
        /\ AllDownBut(ToSet(Top.todo), states) /\ states[Head(Top.todo)] # "active"
    BY <1>1, <1>7, Here DEF ShutdownUnload, In, TopOK
  <2>2. PICK f \in FrameType, p \in Plugins :
               /\ f = [Rest EXCEPT !.at = "each"] /\ f.op = "shutdown" /\ f.p = Top.p /\ f.at = "each"
               /\ f.todo = Tail(Top.todo) /\ p = Head(Top.todo)
               /\ ToSet(Top.todo) = ToSet(f.todo) \cup {p}
    BY <1>6, <2>1
  <2>3. CASE states[p] \in {"loaded", "stopped"} /\ Invoke(f, "unload", p)
    <3>1. ASSUME NEW g \in FrameType, g.op = "unload" /\ g.p = p
          PROVE  WaitsOK(f, g, states, plugins, deps)
      BY <2>1, <2>2, <2>3, <3>1 DEF WaitsOK
    <3>2. \A g \in FrameType : g.op = "unload" /\ g.p = p => WaitsOK(f, g, states, plugins, deps)
      BY <3>1
    <3>3. Invoke(f, "unload", p) /\ f.op \notin Single
      BY <1>2, <2>2, <2>3
    <3>4. f.op = Top.op /\ f.p = Top.p
      BY <1>1, <2>2
    <3> QED
      BY <1>1, <1>2, <1>3, <1>4, <3>2, <3>3, <3>4, QuietInvoke
  <2>4. CASE states[p] \notin {"loaded", "stopped"} /\ Continue(f)
    <3>1. states[p] \in Down
      BY <1>2, <2>1, <2>2, <2>4 DEF Down, PluginState
    <3>2. AllDownBut(ToSet(f.todo), states) /\ ToSet(f.todo) \subseteq ToSet(plugins)
      BY <2>1, <2>2, <3>1 DEF AllDownBut
    <3>3. TopOK(f, states, plugins, deps)
      BY <2>2, <3>2 DEF TopOK
    <3> QED
      BY <1>1, <1>2, <2>2, <2>4, <3>3, QuietContinue
  <2> QED
    BY <1>7, <2>2, <2>3, <2>4 DEF ShutdownUnload
<1>8. CASE ShutdownCatches
  <2>1. RaisedOK(Top, states, plugins, deps) /\ Top.at \in {"each", "unload"}
    BY <1>1, <1>2, <1>8, Here DEF ShutdownCatches, Caught, PlaceOK
  <2>2. CASE Top.at = "unload"
    <3>1. PICK f \in FrameType, p \in Plugins :
               /\ f = [Rest EXCEPT !.at = "each"] /\ f.op = "shutdown" /\ f.p = Top.p /\ f.at = "each"
               /\ f.todo = Tail(Top.todo) /\ p = Head(Top.todo)
               /\ ToSet(Top.todo) = ToSet(f.todo) \cup {p}
      BY <1>6, <2>2
    <3>2. TopOK(f, states, plugins, deps)
      BY <1>1, <2>1, <2>2, <3>1 DEF TopOK, RaisedOK
    <3>3. Continue(f)
      BY <1>8, <2>2, <3>1 DEF ShutdownCatches
    <3> QED
      BY <1>1, <1>2, <3>1, <3>2, <3>3, QuietContinue
  <2>3. CASE Top.at = "each"
    <3>1. TopOK(Top, states, plugins, deps)
      BY <1>1, <2>1, <2>3 DEF TopOK, RaisedOK
    <3>2. Continue(Top)
      BY <1>8, <2>3 DEF ShutdownCatches
    <3> QED
      BY <1>1, <1>2, <3>1, <3>2, QuietContinue
  <2> QED
    BY <2>1, <2>2, <2>3
<1> QED
  BY <1>5, <1>7, <1>8

\* reload
LEMMA ReloadQuiet ==
    ASSUME TypeInv, Quiet, nested = 0,
           ReloadShutdown \/ ReloadInitialize \/ ReloadStart \/ ReloadCatches
    PROVE  Quiet'
<1>1. stack # <<>> /\ Top.op = "reload"
  BY DEF ReloadShutdown, ReloadInitialize, ReloadStart, ReloadCatches, In, Caught, TypeInv, CallsOK
<1>2. /\ Top \in FrameType /\ {"shutdown", "initialize", "start"} \subseteq Ops /\ "reload" \notin Single
      /\ {"init", "each"} \subseteq Ats
  BY <1>1, TopFacts DEF Ops, Single, Ats
<1>3. /\ plugins' = plugins /\ deps' = deps /\ admitted' = admitted
      /\ states' = states /\ running' = running /\ outdated' = outdated /\ nested' = nested
  BY DEF ReloadShutdown, ReloadInitialize, ReloadStart, ReloadCatches, UnchangedTable, tableVars, tallyVars
<1>4. ASSUME NEW f \in FrameType, f.op = "reload", f.p = Top.p,
             NEW op \in Ops, NEW p \in Plugins \cup {NoPlugin}, Invoke(f, op, p)
      PROVE  Quiet'
  <2>1. \A g \in FrameType : WaitsOK(f, g, states, plugins, deps)
    BY <1>4, ReloadWaits
  <2>2. RaisedOK(f, states, plugins, deps)
    BY <1>4 DEF RaisedOK
  <2> QED
    BY <1>1, <1>2, <1>3, <1>4, <2>1, <2>2, QuietInvoke
<1>5. ASSUME NEW f \in FrameType, f.op = "reload", f.p = Top.p, Continue(f), UnchangedTable
      PROVE  Quiet'
  <2>1. TopOK(f, states, plugins, deps)
    BY <1>5 DEF TopOK
  <2> QED
    BY <1>1, <1>2, <1>5, <2>1, QuietContinue
<1>6. CASE ReloadShutdown
  <2>1. PICK s \in Seq(Plugins) : s = Kept(plugins, ActivePlugins)
    BY KeptOK DEF TypeInv, TableOK, IsList
  <2>2. PICK f : f = [At("init") EXCEPT !.todo = s]
    OBVIOUS
  <2>3. f \in FrameType /\ f.op = "reload" /\ f.p = Top.p
    BY <1>1, <1>2, <2>2, AtTodoFacts
  <2> QED
    BY <1>2, <1>4, <1>6, <2>1, <2>2, <2>3 DEF ReloadShutdown
<1>7. CASE ReloadInitialize
  <2>1. PICK f \in FrameType : f = At("each") /\ f.op = "reload" /\ f.p = Top.p
    BY <1>1, <1>2, AtFacts
  <2> QED
    BY <1>2, <1>4, <1>7, <2>1 DEF ReloadInitialize
<1>8. CASE ReloadStart
  <2>1. CASE Leave
    BY <1>1, <1>8, <2>1, AlonePop DEF ReloadStart
  <2>2. CASE Top.todo # <<>>
    <3>1. PICK f \in FrameType, p \in Plugins : f = Rest /\ f.op = "reload" /\ f.p = Top.p /\ p = Head(Top.todo)
      BY <1>1, <1>2, <2>2, RestFacts
    <3> QED
      BY <1>2, <1>4, <1>5, <1>8, <2>2, <3>1 DEF ReloadStart
  <2> QED
    BY <1>8, <2>1, <2>2 DEF ReloadStart
<1>9. CASE ReloadCatches
  <2>1. CASE Continue(Top)
    BY <1>1, <1>2, <1>5, <1>9, <2>1 DEF ReloadCatches
  <2>2. CASE Throw
    BY <1>1, <1>9, <2>2, AlonePop DEF ReloadCatches
  <2> QED
    BY <1>9, <2>1, <2>2 DEF ReloadCatches
<1> QED
  BY <1>6, <1>7, <1>8, <1>9

\* What is registered only grows, unless a plugin is unregistered.
LEMMA MoreGrounded ==
    ASSUME deps' = deps /\ admitted' = admitted, ToSet(plugins) \subseteq ToSet(plugins')
    PROVE  Grounded(ToSet(plugins)) \subseteq Grounded(ToSet(plugins))'
<1>1. \A V : Closed(V, ToSet(plugins))' => Closed(V, ToSet(plugins))
  BY DEF Closed
<1> QED
  BY <1>1 DEF Grounded

\* What does not rest on the plugin replaced stays grounded and keeps its version.
LEMMA ReplacedBelowOthers ==
    ASSUME TypeInv, NEW p \in Plugins, Instance(p), ToSet(plugins) \subseteq ToSet(plugins'),
           NEW q \in Plugins, RestsOn(q, Plugins \ {p})
    PROVE  /\ q \in Grounded(ToSet(plugins)) => q \in Grounded(ToSet(plugins))'
           /\ AdmitsVersion(q)' => AdmitsVersion(q)
<1>1. PICK T \in SUBSET (Plugins \ {p}) : q \in T /\ \A r \in T : ToSet(deps[r]) \subseteq T
  BY DEF RestsOn
<1>2. \A r \in T : deps'[r] = deps[r]
  BY <1>1 DEF Instance, TypeInv, TableOK
<1>3. \A r \in T : r \in admitted' => r \in admitted
  BY <1>1 DEF Instance
<1>4. ASSUME q \in Grounded(ToSet(plugins)), NEW V \in SUBSET Plugins, Closed(V, ToSet(plugins))'
      PROVE  q \in V
  <2>1. PICK W \in SUBSET Plugins : W = V \cup (Plugins \ T)
    OBVIOUS
  <2>2. ToSet(plugins) \subseteq Plugins
    BY ToSetType DEF TypeInv, TableOK
  <2>3. ASSUME NEW r \in ToSet(plugins), ToSet(deps[r]) \subseteq W, r \in T
        PROVE  r \in V
    <3>1. ToSet(deps[r]) \subseteq V /\ deps'[r] = deps[r] /\ r \in ToSet(plugins')
      BY <1>1, <1>2, <2>1, <2>3
    <3> QED
      BY <1>4, <3>1 DEF Closed
  <2>4. Closed(W, ToSet(plugins))
    BY <2>1, <2>2, <2>3 DEF Closed
  <2> QED
    BY <1>1, <1>4, <2>1, <2>4 DEF Grounded
<1>5. ASSUME AdmitsVersion(q)'
      PROVE  AdmitsVersion(q)
  <2>1. PICK S \in SUBSET admitted' : q \in S /\ \A r \in S : ToSet(deps'[r]) \subseteq S
    BY <1>5 DEF AdmitsVersion, RestsOn
  <2>2. S \cap T \in SUBSET admitted /\ q \in S \cap T
    BY <1>1, <1>3, <2>1
  <2>3. \A r \in S \cap T : ToSet(deps[r]) \subseteq S \cap T
    BY <1>1, <1>2, <2>1
  <2> QED
    BY <2>2, <2>3 DEF AdmitsVersion, RestsOn
<1> QED
  BY <1>4, <1>5 DEF Grounded

\* A plugin that runs, is not out of date afterwards and has not been replaced is
\* as grounded as it was.
LEMMA ReplacedIsGrounded ==
    ASSUME TypeInv, NEW p \in Plugins, Instance(p), ToSet(plugins) \subseteq ToSet(plugins'),
           NEW q \in running, q # p, q \notin outdated'
    PROVE  /\ q \in Plugins /\ q \notin outdated
           /\ q \in Grounded(ToSet(plugins)) => q \in Grounded(ToSet(plugins))'
           /\ AdmitsVersion(q)' => AdmitsVersion(q)
<1>1. q \in Plugins
  BY DEF TypeInv, TableOK
<1>2. CASE <<deps, admitted>>' = <<deps, admitted>>
  <2>1. outdated' = outdated /\ deps' = deps /\ admitted' = admitted
    BY <1>2, Zenon DEF Instance
  <2>2. AdmitsVersion(q)' => AdmitsVersion(q)
    BY <2>1 DEF AdmitsVersion, RestsOn
  <2> QED
    BY <1>1, <2>1, <2>2, MoreGrounded
<1>3. CASE ~(<<deps, admitted>>' = <<deps, admitted>>)
  <2>1. PICK S : S = {r \in running \ {p} : ~RestsOn(r, Plugins \ {p})}
    OBVIOUS
  <2>2. outdated' = outdated \cup S
    BY <1>3, <2>1, Zenon DEF Instance
  <2>3. q \notin outdated /\ RestsOn(q, Plugins \ {p})
    BY <2>1, <2>2
  <2> QED
    BY <1>1, <2>3, ReplacedBelowOthers
<1> QED
  BY <1>2, <1>3

\* Clients call when no call is under way.
LEMMA ClientQuiet == ASSUME TypeInv, Quiet, nested = 0, Client, nested' = 0  PROVE Quiet'
<1>0. nested = 0
  OBVIOUS
<1>1. stack = <<>> /\ Len(stack) = 0 /\ raised = FALSE
  BY DEF Client, discover, Register, Call, MayCall, TypeInv, CallsOK
<1>2. ASSUME NEW p \in Plugins, Register(p)
      PROVE  Quiet'
  <2>1. /\ SetState(p, "registered") /\ running' = running \ {p} /\ Instance(p) /\ stack' = stack
        /\ plugins' = IF Present(p) THEN plugins ELSE Append(plugins, p)
    BY <1>2 DEF Register, callVars
  <2>2. ToSet(plugins') = ToSet(plugins) \cup {p}
    <3>1. CASE Present(p)
      BY <2>1, <3>1 DEF Present
    <3>2. CASE ~Present(p)
      BY <2>1, <3>2, AppendToList DEF Present, TypeInv, TableOK, IsList
    <3> QED
      BY <3>1, <3>2
  <2>3. Others(p, states') /\ states'[p] = "registered"
    BY <2>1, OneState
  <2>4. ActivePlugins' = ActivePlugins \ {p}
    BY <2>3 DEF Others, ActivePlugins
  <2>5. Waiting(states, plugins, deps)' /\ Innermost(states, plugins, deps)'
    BY <1>1, <2>1 DEF Waiting, Innermost
  <2>6. HereOK'
    BY <1>1, <2>1, <2>2, <2>3 DEF HereOK, Quiet, Others, Present
  <2>7. ASSUME NEW q \in running \ {p}, q \notin outdated'
        PROVE  /\ q \notin outdated /\ (AdmitsVersion(q)' => AdmitsVersion(q))
               /\ (q \in Grounded(ToSet(plugins)) => q \in Grounded(ToSet(plugins))')
    BY <2>1, <2>2, <2>7, ReplacedIsGrounded
  <2>8. GroundedOK' /\ ActivePlugins \subseteq running
    BY <1>0, <2>4, <2>7 DEF GroundedOK, RunningIsActive, Quiet
  <2>9. RunningIsActive'
    BY <1>0, <2>1, <2>4, <2>7, <2>8 DEF RunningIsActive, Quiet
  <2> QED
    BY <2>5, <2>6, <2>8, <2>9 DEF Quiet
<1>3. ASSUME NEW op \in Ops, NEW p \in Plugins \cup {NoPlugin}, Call(op, p)
      PROVE  Quiet'
  <2>1. /\ stack' = Append(stack, Frame(op, p, "client")) /\ raised' = raised
        /\ plugins' = plugins /\ deps' = deps /\ admitted' = admitted /\ states' = states /\ running' = running /\ outdated' = outdated
    BY <1>3 DEF Call, tableVars
  <2>2. PICK g \in FrameType : g = Frame(op, p, "client") /\ g.at = "enter" /\ g.op = op
    BY NewFrameOK
  <2>3. stack' = <<g>> /\ Len(stack') = 1 /\ stack'[1] = g
    BY <1>1, <2>1, <2>2
  <2>4. Top' = g
    BY <2>3 DEF Top, Last
  <2>5. Waiting(states, plugins, deps)'
    BY <2>3 DEF Waiting
  <2>6. Innermost(states, plugins, deps)'
    BY <1>1, <2>1, <2>2, <2>4 DEF Innermost, TopOK
  <2>7. HereOK'
    BY <2>1, <2>2, <2>3 DEF HereOK, Quiet, Present
  <2>8. GroundedOK' /\ RunningIsActive'
    BY <2>1, SameGraph DEF GroundedOK, RunningIsActive, ActivePlugins, Quiet
  <2> QED
    BY <2>5, <2>6, <2>7, <2>8 DEF Quiet
<1>4. \A op \in {"load", "start", "stop", "unload", "unregister"} : op \in Ops
  BY DEF Ops, Single
<1>5. \A op \in {"initialize", "shutdown", "reload"} : op \in Ops
  BY DEF Ops, Single
<1> QED
  BY <1>2, <1>3, <1>4, <1>5 DEF Client, discover

-----------------------------------------------------------------------------
(* The theorems *)

\* Only handlers' calls count as nested.
LEMMA StepsKeepTallies == PluginStep => nested' = nested
<1>1. LoadEnter \/ LoadDependency \/ LoadHooks \/ LoadCatches => nested' = nested
  BY DEF LoadEnter, LoadDependency, LoadHooks, LoadCatches, UnchangedTable, tallyVars
<1>2. StartEnter \/ StartDependency \/ StartHook \/ StartThrows \/ Return => nested' = nested
  BY DEF StartEnter, StartDependency, StartHook, StartThrows, Return, UnchangedTable, tallyVars
<1>3. Stop \/ UnloadEnter \/ UnloadHook \/ UnloadThrows => nested' = nested
  BY DEF Stop, UnloadEnter, UnloadHook, UnloadThrows, UnchangedTable, tallyVars
<1>4. UnregisterEnter \/ UnregisterUnload \/ UnregisterRemove \/ UnregisterCatches => nested' = nested
  BY DEF UnregisterEnter, UnregisterUnload, UnregisterRemove, UnregisterCatches, UnchangedTable, tallyVars
<1>5. Began("initialize", plugins) \/ Began("shutdown", Reverse(plugins)) => nested' = nested
  BY DEF Began, UnchangedTable, tallyVars
<1>6. InitializeEach \/ InitializeCatches => nested' = nested
  BY DEF InitializeEach, InitializeCatches, tallyVars
<1>7. ShutdownEach \/ ShutdownUnload \/ ShutdownCatches => nested' = nested
  BY DEF ShutdownEach, ShutdownUnload, ShutdownCatches, UnchangedTable, tallyVars
<1>8. ReloadShutdown \/ ReloadInitialize \/ ReloadStart \/ ReloadCatches => nested' = nested
  BY DEF ReloadShutdown, ReloadInitialize, ReloadStart, ReloadCatches, UnchangedTable, tallyVars
<1> QED
  BY <1>1, <1>2, <1>3, <1>4, <1>5, <1>6, <1>7, <1>8 DEF PluginStep

\* What a call that is under way relies on is there after every step.
LEMMA InvariantKept == PluginInv /\ [PluginNext]_pluginVars => PluginInv'
<1> SUFFICES ASSUME PluginInv, [PluginNext]_pluginVars  PROVE PluginInv'
  OBVIOUS
<1>1. TypeInv /\ (nested = 0 => Quiet) /\ TypeInv'
  BY TypesKept DEF PluginInv
<1>2. ASSUME nested' = 0
      PROVE  Quiet'
  <2>1. CASE PluginStep
    <3>1. nested = 0 /\ Quiet
      BY <1>1, <1>2, <2>1, StepsKeepTallies
    <3> QED
      BY <1>1, <2>1, <3>1, ReturnQuiet, LoadQuiet, StartQuiet, StopQuiet, UnloadQuiet, UnregisterQuiet,
         BeganQuiet, InitializeQuiet, ShutdownQuiet, ReloadQuiet DEF PluginStep
  <2>2. CASE Client
    <3>1. nested \in Nat /\ (nested' = nested \/ nested' = nested + 1)
      BY <1>1, <2>2 DEF Client, discover, Register, Call, MayCall, TypeInv, TableOK
    <3>2. nested = 0
      BY <1>2, <3>1
    <3> QED
      BY <1>1, <1>2, <2>2, <3>2, ClientQuiet
  <2>3. CASE UNCHANGED pluginVars
    <3>1. nested = 0 /\ Quiet
      BY <1>1, <1>2, <2>3 DEF pluginVars, tallyVars
    <3>2. Waiting(states, plugins, deps)' /\ Innermost(states, plugins, deps)' /\ HereOK'
      BY <2>3, <3>1 DEF Quiet, Waiting, Innermost, HereOK, Present, Top, pluginVars, tableVars, callVars
    <3>3. GroundedOK' /\ RunningIsActive'
      BY <2>3, <3>1, SameGraph
         DEF Quiet, GroundedOK, RunningIsActive, ActivePlugins, pluginVars, tableVars, tallyVars
    <3> QED
      BY <3>2, <3>3 DEF Quiet
  <2> QED
    BY <2>1, <2>2, <2>3 DEF PluginNext
<1> QED
  BY <1>1, <1>2 DEF PluginInv

\* Nothing is under way, ACTIVE or running at first.
LEMMA InvariantBegins == PluginInit => PluginInv
<1> SUFFICES ASSUME PluginInit  PROVE PluginInv
  OBVIOUS
<1>1. stack = <<>> /\ Len(stack) = 0 /\ running = {}
  BY DEF PluginInit
<1>2. \A p \in Plugins : states[p] # "active" /\ (states[p] # "none" => Present(p))
  BY DEF PluginInit
<1>3. ActivePlugins = {}
  BY <1>2 DEF ActivePlugins
<1>4. Waiting(states, plugins, deps) /\ Innermost(states, plugins, deps) /\ HereOK
  BY <1>1, <1>2 DEF Waiting, Innermost, HereOK
<1>5. GroundedOK /\ RunningIsActive
  BY <1>1, <1>3 DEF GroundedOK, RunningIsActive
<1> QED
  BY <1>4, <1>5, TypesBegin DEF PluginInv, Quiet

\* The invariant holds in every state.
LEMMA PluginInvHolds == PluginSpec => []PluginInv
<1> QED
  BY InvariantBegins, InvariantKept, PTL DEF PluginSpec

\* The registry tells the truth about its plugins, whatever hooks raise and
\* whatever instances are replaced by ones with other dependencies: what is
\* ACTIVE runs, what runs is ACTIVE unless its version is refused or an instance
\* below it has been replaced since, and what is FAILED has an error, also with
\* handlers that call back (registry.py:57-63, 297-376).
THEOREM RegistryStaysTrue == PluginSpec => []RegistryIsTrue
<1>1. PluginInv => RegistryIsTrue
  <2> SUFFICES ASSUME PluginInv  PROVE RegistryIsTrue
    OBVIOUS
  <2>1. TypeInv
    BY DEF PluginInv
  <2>2. PluginTypeOK
    <3>1. raised => stack # <<>>
      BY <2>1 DEF TypeInv, CallsOK
    <3> QED
      BY <2>1, <3>1 DEF TypeInv, TableOK, CallsOK, PluginTypeOK
  <2>3. RunningIsActive
    BY DEF PluginInv, Quiet, RunningIsActive
  <2> QED
    BY <2>1, <2>2, <2>3 DEF RegistryIsTrue, TypeInv, TableOK
<1> QED
  BY <1>1, PluginInvHolds, PTL

\* No step but that of a start hook makes a plugin ACTIVE.
LEMMA OnlyStartsActivate ==
    ASSUME TypeInv, PluginNext, ~StartHook
    PROVE  ActivePlugins' \subseteq ActivePlugins
<1>1. CASE states' = states
  BY <1>1 DEF ActivePlugins
<1>2. ASSUME NEW p, NEW s, SetState(p, s), s # "active"
      PROVE  ActivePlugins' \subseteq ActivePlugins
  BY <1>2 DEF SetState, ActivePlugins, TypeInv, TableOK
<1>3. ASSUME NEW p, Fails(p)
      PROVE  ActivePlugins' \subseteq ActivePlugins
  BY <1>2, <1>3 DEF Fails
<1>4. UnchangedTable => states' = states
  BY DEF UnchangedTable, tableVars
<1>5. CASE LoadEnter \/ LoadDependency \/ LoadHooks \/ LoadCatches
  BY <1>1, <1>2, <1>3, <1>4, <1>5 DEF LoadEnter, LoadDependency, LoadHooks, LoadCatches
<1>6. CASE StartEnter \/ StartDependency \/ StartThrows \/ Return
  BY <1>1, <1>4, <1>6 DEF StartEnter, StartDependency, StartThrows, Return
<1>7. CASE Stop \/ UnloadEnter \/ UnloadHook \/ UnloadThrows
  BY <1>1, <1>2, <1>3, <1>4, <1>7 DEF Stop, UnloadEnter, UnloadHook, UnloadThrows
<1>8. CASE UnregisterEnter \/ UnregisterUnload \/ UnregisterRemove \/ UnregisterCatches
  BY <1>1, <1>2, <1>4, <1>8 DEF UnregisterEnter, UnregisterUnload, UnregisterRemove, UnregisterCatches
<1>9. CASE Began("initialize", plugins) \/ Began("shutdown", Reverse(plugins))
  BY <1>1, <1>4, <1>9 DEF Began
<1>10. CASE InitializeEach \/ InitializeCatches
  BY <1>1, <1>3, <1>10 DEF InitializeEach, InitializeCatches
<1>11. CASE ShutdownEach \/ ShutdownUnload \/ ShutdownCatches
  BY <1>1, <1>4, <1>11 DEF ShutdownEach, ShutdownUnload, ShutdownCatches
<1>12. CASE ReloadShutdown \/ ReloadInitialize \/ ReloadStart \/ ReloadCatches
  BY <1>1, <1>4, <1>12 DEF ReloadShutdown, ReloadInitialize, ReloadStart, ReloadCatches, tableVars
<1>13. CASE Client
  BY <1>1, <1>2, <1>13 DEF Client, discover, Register, Call, tableVars
<1> QED
  BY <1>5, <1>6, <1>7, <1>8, <1>9, <1>10, <1>11, <1>12, <1>13 DEF PluginNext, PluginStep

\* A plugin is started only when everything it depends on is ACTIVE, whatever
\* failed before, as long as no handler calls back (registry.py:301-305).
THEOREM DependenciesStartFirst == PluginSpec => StartsAfterDependencies
<1>1. ASSUME PluginInv, PluginNext, NEW p \in Plugins, states[p] # "active", states'[p] = "active",
             nested = 0
      PROVE  \A d \in ToSet(deps[p]) : states[d] = "active"
  <2>1. TypeInv /\ Quiet
    BY <1>1 DEF PluginInv
  <2>2. StartHook
    BY <1>1, <2>1, OnlyStartsActivate DEF ActivePlugins
  <2>3. stack # <<>> /\ ~raised /\ Top.op = "start" /\ Top.at = "deps" /\ Top.todo = <<>>
    BY <2>2 DEF StartHook, In
  <2>4. \A d \in ToSet(deps[Top.p]) : states[d] = "active"
    <3>1. ToSet(Top.todo) = {} /\ TopOK(Top, states, plugins, deps)
      BY <2>1, <2>3, Here, TopFacts, ToSetType
    <3> QED
      BY <2>3, <3>1 DEF TopOK
  <2>5. \A s : SetState(Top.p, s) => p = Top.p
    BY <1>1, <2>1 DEF SetState, TypeInv, TableOK
  <2>6. p = Top.p
    BY <2>2, <2>5 DEF StartHook, Fails
  <2> QED
    BY <2>4, <2>6
<1>2. ASSUME PluginInv, [PluginNext]_pluginVars
      PROVE  [\A p \in Plugins : states[p] # "active" /\ states'[p] = "active" /\ nested = 0 =>
                 \A d \in ToSet(deps[p]) : states[d] = "active"]_pluginVars
  BY <1>1, <1>2
<1> QED
  BY <1>2, PluginInvHolds, PTL DEF PluginSpec, StartsAfterDependencies

\* When shutdown returns, no plugin is left LOADED, ACTIVE or STOPPED, although
\* the exceptions of single plugins are swallowed (registry.py:356-367).
THEOREM ShutdownsBringAllDown == PluginSpec => [][ShutdownBringsAllDown]_pluginVars
<1>1. ASSUME PluginInv, PluginNext, stack # <<>>, Len(stack') < Len(stack), Top.op = "shutdown", nested = 0
      PROVE  \A p \in Plugins : states[p] \in {"registered", "failed", "none"}
  <2>1. TypeInv /\ Quiet /\ stack \in Seq(FrameType)
    BY <1>1 DEF PluginInv, TypeInv, CallsOK, Structure, FramesOK
  <2>2. /\ Top \in FrameType /\ PlaceOK(Top) /\ Len(stack) \in Nat
        /\ {"stop", "unload"} \subseteq Ops /\ {"each", "unload"} \subseteq Ats
    BY <1>1, <2>1, TopFacts DEF Ops, Single, Ats
  <2>3. ASSUME NEW f \in FrameType, Continue(f)
        PROVE  FALSE
    BY <1>1, <2>1, <2>2, <2>3, SetOK DEF Continue, SetTo
  <2>4. ASSUME NEW f \in FrameType, NEW op \in {"stop", "unload"}, NEW p \in Plugins, Invoke(f, op, p)
        PROVE  FALSE
    <3>1. CASE stack' = Replace(f)
      BY <1>1, <2>1, <2>2, <3>1, SetOK DEF SetTo
    <3>2. CASE stack' = Append(Replace(f), Frame(op, p, "code"))
      <4>1. PICK g \in FrameType : g = Frame(op, p, "code")
        BY <2>2, NewFrameOK
      <4> QED
        BY <1>1, <2>1, <2>2, <3>2, <4>1, PushOK DEF PushedOn
    <3> QED
      BY <2>4, <3>1, <3>2 DEF Invoke
  <2>5. ~Client
    BY <1>1, <2>1, <2>2 DEF Client, discover, Register, Call, callVars
  <2>6. ~Return
    BY <1>1, <2>2 DEF Return, PlaceOK
  <2>7. ~Began("shutdown", Reverse(plugins))
    <3>1. PICK s \in Seq(Plugins) : s = Reverse(plugins)
      BY <2>1, ReverseOK DEF TypeInv, TableOK
    <3>2. [At("each") EXCEPT !.todo = s] \in FrameType
      BY <2>2, AtTodoFacts
    <3> QED
      BY <2>3, <3>1, <3>2 DEF Began
  <2>8. Top.at = "unload" => [Rest EXCEPT !.at = "each"] \in FrameType /\ Head(Top.todo) \in Plugins
    BY <1>1, <2>2, RestEdits, RestFacts DEF PlaceOK
  <2>9. ~ShutdownUnload
    BY <2>3, <2>4, <2>8 DEF ShutdownUnload, In
  <2>10. ~ShutdownCatches
    BY <2>2, <2>3, <2>8 DEF ShutdownCatches
  <2>11. ShutdownEach
    BY <1>1, <2>5, <2>6, <2>7, <2>9, <2>10
       DEF PluginNext, PluginStep, In, Caught, Began,
           LoadEnter, LoadDependency, LoadHooks, LoadCatches, StartEnter, StartDependency, StartHook,
           StartThrows, Stop, UnloadEnter, UnloadHook, UnloadThrows, UnregisterEnter, UnregisterUnload,
           UnregisterRemove, UnregisterCatches, InitializeEach, InitializeCatches,
           ReloadShutdown, ReloadInitialize, ReloadStart, ReloadCatches
  <2>12. At("unload") \in FrameType /\ (Top.todo # <<>> => Head(Top.todo) \in Plugins)
    BY <2>2, AtFacts, RestFacts
  <2>13. Top.todo = <<>>
    BY <2>3, <2>4, <2>11, <2>12 DEF ShutdownEach
  <2>14. AllDownBut(ToSet(Top.todo), states)
    BY <1>1, <2>1, <2>11, Here DEF ShutdownEach, In, TopOK
  <2>15. ToSet(Top.todo) = {}
    BY <1>1, <2>1, <2>13, TopFacts, ToSetType
  <2> QED
    BY <2>14, <2>15 DEF AllDownBut, Down
<1>2. ASSUME PluginInv, [PluginNext]_pluginVars
      PROVE  [ShutdownBringsAllDown]_pluginVars
  BY <1>1, <1>2 DEF ShutdownBringsAllDown
<1> QED
  BY <1>2, PluginInvHolds, PTL DEF PluginSpec
=============================================================================
