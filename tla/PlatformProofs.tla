--------------------------- MODULE PlatformProofs ---------------------------
(***************************************************************************)
(* Proofs about the components that share no state with one another: the   *)
(* configuration, the container, the providers, the lock programs of the   *)
(* runtime, and the gateway with the agent runtime.  Each theorem is about *)
(* the specification of one component.                                     *)
(***************************************************************************)
EXTENDS RuntimeLocks, Gateway, Providers, DIContainer, Configuration, SequenceTheorems,
        FiniteSetTheorems, WellFoundedInduction, TLAPS

-----------------------------------------------------------------------------
(* Sequences *)

\* All but the last element.
LEMMA FrontOfSeq ==
    ASSUME NEW S, NEW s \in Seq(S), s # <<>>
    PROVE  /\ Front(s) \in Seq(S) /\ Len(Front(s)) = Len(s) - 1
           /\ \A i \in 1..(Len(s) - 1) : Front(s)[i] = s[i]
<1>1. Len(s) \in Nat \ {0}
  OBVIOUS
<1> DEFINE n == Len(s) - 1
<1>2. n \in Int /\ 1 \in Int /\ \A i \in 1..n : s[i] \in S
  BY <1>1
<1>3. n \in Nat
  BY <1>1
<1> HIDE DEF n
<1>4. /\ SubSeq(s, 1, n) \in Seq(S)
      /\ Len(SubSeq(s, 1, n)) = IF 1 <= n THEN n - 1 + 1 ELSE 0
      /\ \A i \in 1..n - 1 + 1 : SubSeq(s, 1, n)[i] = s[1 + i - 1]
  BY <1>2, SubSeqProperties
<1>5. /\ SubSeq(s, 1, n) \in Seq(S) /\ Len(SubSeq(s, 1, n)) = n
      /\ \A i \in 1..n : SubSeq(s, 1, n)[i] = s[i]
  <2>1. n - 1 + 1 = n /\ (1 <= n \/ n = 0) /\ \A i \in 1..n : 1 + i - 1 = i
    BY <1>3
  <2> QED
    BY <1>3, <1>4, <2>1
<1> QED
  BY <1>5 DEF n, Front

-----------------------------------------------------------------------------
(* The configuration *)

\* What is merged is what the four layers say, and the overrides are the
\* values that were set: no reload and no schema touches them.
ConfigInv ==
    /\ layers \in [defaults : Layers, file : Layers, env : Layers, overrides : Layers]
    /\ yaml \in Layers /\ file \in Layers /\ env \in Layers
    /\ schemas \in [ConfigKeys -> SchemaRules \cup {NoRule}]
    /\ merged = Merged(layers)
    /\ lastSet = layers.overrides
    /\ RaisedMeansInvalid /\ EnvironmentInForce

\* An operation ends with the layers merged, validated and remembered.
LEMMA EndsKeepsInv ==
    ASSUME NEW op, NEW l, NEW ss, Ends(op, l, ss), UNCHANGED <<yaml, file, env>>, ConfigInv,
           op \in {"schema", "plugin_schema", "set"},
           l \in [defaults : Layers, file : Layers, env : Layers, overrides : Layers],
           ss \in [ConfigKeys -> SchemaRules \cup {NoRule}], lastSet' = l.overrides
    PROVE  ConfigInv'
<1>1. RaisedMeansInvalid'
  BY DEF Ends, RaisedMeansInvalid
<1>2. EnvironmentInForce'
  BY DEF Ends, EnvironmentInForce
<1> QED
  BY <1>1, <1>2 DEF Ends, ConfigInv

\* Every operation keeps the layers and what is merged from them together.
LEMMA NextConfigInv == ConfigInv /\ [CfNext]_cfVars => ConfigInv'
<1> SUFFICES ASSUME ConfigInv, [CfNext]_cfVars PROVE ConfigInv'
  OBVIOUS
<1>1. CASE UNCHANGED cfVars
  BY <1>1 DEF cfVars, ConfigInv, RaisedMeansInvalid, EnvironmentInForce, Valid, Obeys
<1> USE ConfigAssumption
<1>2. CASE Outside
  <2>1. RaisedMeansInvalid' /\ EnvironmentInForce'
    BY <1>2 DEF Outside, RaisedMeansInvalid, EnvironmentInForce
  <2> QED
    BY <1>2, <2>1 DEF Outside, ConfigInv
<1>3. ASSUME reload, UNCHANGED <<yaml, file, env>> PROVE ConfigInv'
  <2>1. /\ layers' = [defaults |-> yaml, file |-> file, env |-> EnvLoaded(yaml),
                      overrides |-> layers.overrides]
        /\ merged' = Merged(layers') /\ UNCHANGED <<schemas, lastSet>>
        /\ last' = [op |-> "reload", raised |-> ~Valid(merged', schemas)]
    BY <1>3 DEF reload, Ends, Loaded
  <2>2. EnvLoaded(yaml) \in Layers
    BY DEF EnvLoaded, Layers, ConfigInv
  <2>3. RaisedMeansInvalid'
    BY <2>1 DEF RaisedMeansInvalid
  <2>4. EnvironmentInForce'
    BY <1>3, <2>1 DEF EnvironmentInForce, Merged, EnvLoaded, Known
  <2> QED
    BY <1>3, <2>1, <2>2, <2>3, <2>4 DEF ConfigInv
<1> USE DEF Layers, Settings
<1>4. ASSUME NEW k \in ConfigKeys, NEW s \in SchemaRules, register_schema(k, s),
             UNCHANGED <<yaml, file, env>>
      PROVE  ConfigInv'
  <2> DEFINE l == [layers EXCEPT !.defaults = WithDefault(@, k, s)]
             ss == [schemas EXCEPT ![k] = s]
  <2>1. WithDefault(layers.defaults, k, s) \in Layers
    BY DEF WithDefault, ConfigInv
  <2>2. /\ l \in [defaults : Layers, file : Layers, env : Layers, overrides : Layers]
        /\ l.overrides = layers.overrides
    BY <2>1 DEF ConfigInv
  <2>3. ss \in [ConfigKeys -> SchemaRules \cup {NoRule}]
    BY DEF ConfigInv
  <2>4. Ends("schema", l, ss) /\ lastSet' = l.overrides
    BY <1>4, <2>2 DEF register_schema, ConfigInv
  <2> QED
    BY <1>4, <2>2, <2>3, <2>4, EndsKeepsInv
<1>5. ASSUME NEW k \in ConfigKeys, NEW v \in Settings, set(k, v), UNCHANGED <<yaml, file, env>>
      PROVE  ConfigInv'
  <2> DEFINE l == [layers EXCEPT !.overrides[k] = v]
  <2>1. /\ l \in [defaults : Layers, file : Layers, env : Layers, overrides : Layers]
        /\ l.overrides = [layers.overrides EXCEPT ![k] = v]
    BY DEF ConfigInv
  <2>2. Ends("set", l, schemas) /\ lastSet' = l.overrides
    BY <1>5, <2>1 DEF set, ConfigInv
  <2>3. schemas \in [ConfigKeys -> SchemaRules \cup {NoRule}]
    BY DEF ConfigInv
  <2> QED
    BY <1>5, <2>1, <2>2, <2>3, EndsKeepsInv
<1>6. ASSUME NEW d \in Values, PluginDefaults(d), UNCHANGED <<yaml, file, env>>
      PROVE  ConfigInv'
  <2>1. /\ layers' \in [defaults : Layers, file : Layers, env : Layers, overrides : Layers]
        /\ layers'.overrides = layers.overrides
    BY <1>6 DEF PluginDefaults, ConfigInv
  <2>2. RaisedMeansInvalid' /\ EnvironmentInForce'
    BY <1>6 DEF PluginDefaults, RaisedMeansInvalid, EnvironmentInForce
  <2> QED
    BY <1>6, <2>1, <2>2 DEF PluginDefaults, ConfigInv
<1>7. ASSUME NEW d \in Values \cup {Absent}, NEW s \in SchemaRules, PluginSchemas(d, s),
             UNCHANGED <<yaml, file, env>>
      PROVE  ConfigInv'
  <2> DEFINE Of(n, k) == \E i \in 1..n : PluginKeys[i] = k
             Ss(n) == [k \in ConfigKeys |-> IF Of(n, k) THEN s ELSE schemas[k]]
             Given == [k \in ConfigKeys |-> IF Contains(PluginKeys, k) /\ d # Absent
                                              THEN d ELSE layers.defaults[k]]
             D(n) == [k \in ConfigKeys |-> IF Of(n, k) THEN WithDefault(Given, k, s)[k] ELSE Given[k]]
             Ls(n) == [layers EXCEPT !.defaults = D(n)]
  <2>1. PICK n \in DOMAIN PluginKeys : Ends("plugin_schema", Ls(n), Ss(n))
    BY <1>7 DEF PluginSchemas
  <2>2. Given \in Layers
    BY DEF ConfigInv
  <2> HIDE DEF Given, Of
  <2>3. D(n) \in Layers
    BY <2>2 DEF WithDefault
  <2> HIDE DEF D
  <2>4. /\ Ls(n) \in [defaults : Layers, file : Layers, env : Layers, overrides : Layers]
        /\ Ls(n).overrides = layers.overrides
    BY <2>3 DEF ConfigInv
  <2>5. Ss(n) \in [ConfigKeys -> SchemaRules \cup {NoRule}]
    BY DEF ConfigInv
  <2>6. lastSet' = Ls(n).overrides
    BY <1>7, <2>4 DEF PluginSchemas, ConfigInv
  <2> QED
    BY <1>7, <2>1, <2>4, <2>5, <2>6, EndsKeepsInv
<1> QED
  BY <1>1, <1>2, <1>3, <1>4, <1>5, <1>6, <1>7 DEF CfNext

\* The layers take precedence as documented, validation misses nothing and a
\* reload brings the environment into force, for any keys, files, environments
\* and schemas (settings.py:60-330).
THEOREM ConfigurationInForce == CfSpec => []LayersInForce
<1>1. CfInit => ConfigInv
  <2> SUFFICES ASSUME CfInit PROVE ConfigInv
    OBVIOUS
  <2> USE ConfigAssumption DEF Layers, Settings
  <2>1. /\ yaml \in Layers /\ file \in Layers /\ env \in Layers /\ lastSet = layers.overrides
        /\ layers \in [defaults : Layers, file : Layers, env : Layers, overrides : Layers]
        /\ schemas \in [ConfigKeys -> SchemaRules \cup {NoRule}] /\ merged = Merged(layers)
    BY DEF CfInit, Empty
  <2>2. RaisedMeansInvalid
    BY DEF CfInit, RaisedMeansInvalid, Valid
  <2>3. EnvironmentInForce
    BY DEF CfInit, EnvironmentInForce, Merged, Empty
  <2> QED
    BY <2>1, <2>2, <2>3 DEF ConfigInv
<1>2. ConfigInv => LayersInForce
  BY DEF ConfigInv, LayersInForce, OverridesSurvive, Merged
<1> QED
  BY <1>1, <1>2, NextConfigInv, PTL DEF CfSpec

-----------------------------------------------------------------------------
(* The container *)

Frame == [key : Keys, reg : Keys \cup {NoKey}, next : Nat \ {0}]

\* The stack fs of a thread that resolves.  No singleton on it is cached; no
\* key is on it twice; a frame waits at the parameter that the next one
\* resolves; and of two frames for the same registration, reached by
\* different keys, the upper one cannot get past the parameter where the lower
\* one waits: there it would ask for a key that is being resolved.
StackOK(fs) ==
    /\ fs \in Seq(Frame)
    /\ \A i \in 1..Len(fs) :
          IF fs[i].reg = NoKey THEN i = 1
          ELSE fs[i].reg \in Found(fs[i].key) /\ ~Cached(fs[i].reg)
    /\ \A i, j \in 1..Len(fs) : fs[i].key = fs[j].key => i = j
    /\ \A i \in 1..(Len(fs) - 1) :
          /\ fs[i].next <= Len(Params[Rule(fs[i])])
          /\ Wanted(Params[Rule(fs[i])][fs[i].next]) = fs[i + 1].key
    /\ \A i, j \in 1..Len(fs) :
          i < j /\ fs[i].reg = fs[j].reg /\ fs[i].reg # NoKey => fs[j].next <= fs[i].next

\* Only the holder of the lock has resolves under way, and the keys that the
\* thread is resolving are those of its frames.
ThreadsOK ==
    /\ holder \in Threads \cup {NoThread}
    /\ frames \in [Threads -> Seq(Frame)] /\ resolving \in [Threads -> Seq(Keys)]
    /\ \A h \in Threads :
          /\ holder # h => frames[h] = <<>>
          /\ Len(resolving[h]) = Len(frames[h])
          /\ \A i \in 1..Len(frames[h]) : resolving[h][i] = frames[h][i].key
          /\ StackOK(frames[h])

\* A singleton that is not cached has not been built.
SingletonsOK == \A k \in Keys : reg[k].life = "singleton" =>
                   built[k] <= 1 /\ (~reg[k].inst => built[k] = 0)

Registration == [life : {"none", "singleton", "transient"}, factory : BOOLEAN, inst : BOOLEAN]

ContainerInv == /\ reg \in [Keys -> Registration] /\ order \in Seq(Keys) /\ built \in [Keys -> Nat]
                /\ ThreadsOK /\ SingletonsOK

\* What is found for a key is one registered key.
LEMMA FoundIsOne ==
    ASSUME order \in Seq(Keys), NEW k \in Keys
    PROVE  Found(k) \subseteq Keys /\ \A f, g \in Found(k) : f = g
<1> DEFINE Fits(i) == k \in Classes /\ order[i] \in Subclasses[k] \cap Classes
           First == {i \in DOMAIN order : Fits(i) /\ \A j \in 1..(i - 1) : ~Fits(j)}
<1>1. DOMAIN order = 1..Len(order) /\ Len(order) \in Nat
  OBVIOUS
<1>2. \A i, j \in First : i = j
  <2> SUFFICES ASSUME NEW i \in First, NEW j \in First, i < j PROVE FALSE
    BY <1>1
  <2> QED
    BY <1>1
<1>3. \A i \in First : order[i] \in Keys
  BY <1>1
<1>4. Found(k) = {k} \/ Found(k) = {order[i] : i \in First}
  BY Zenon DEF Found
<1> HIDE DEF First
<1> QED
  BY <1>2, <1>3, <1>4

\* It depends on what is registered, not on what has been built.
LEMMA FoundIsKept ==
    ASSUME order' = order, NEW k \in Keys, reg'[k].life = reg[k].life
    PROVE  Found(k)' = Found(k)
  BY DEF Found

\* A parameter is looked for by keys.
LEMMA ParameterKeys ==
    ASSUME NEW k \in Keys, NEW i \in Nat \ {0}, i <= Len(Params[k])
    PROVE  Params[k][i].type \in Keys /\ Params[k][i].name \in Keys
<1>1. PICK s : s = Params[k]
  OBVIOUS
<1>2. PICK P : P = [type : Keys, name : Keys, default : BOOLEAN]
  OBVIOUS
<1>3. s \in Seq(P)
  BY <1>1, <1>2, DIAssumption
<1>4. s[i] \in P
  BY <1>1, <1>3
<1> QED
  BY <1>1, <1>2, <1>4

\* A frame is left.
LEMMA PopKeepsStack ==
    ASSUME NEW fs, StackOK(fs), fs # <<>>
    PROVE  /\ StackOK(Front(fs)) /\ Len(Front(fs)) = Len(fs) - 1
           /\ \A i \in 1..(Len(fs) - 1) : Front(fs)[i] = fs[i]
<1> DEFINE g == Front(fs)
<1>1. fs \in Seq(Frame) /\ Len(fs) \in Nat \ {0}
  BY DEF StackOK
<1>2. /\ g \in Seq(Frame) /\ Len(g) = Len(fs) - 1
      /\ \A i \in 1..(Len(fs) - 1) : g[i] = fs[i]
  BY <1>1, FrontOfSeq
<1> HIDE DEF g
<1>3. PICK n \in Nat : n = Len(g) /\ Len(fs) = n + 1
  BY <1>1, <1>2
<1>4. \A i \in 1..n : i \in 1..Len(fs) /\ g[i] = fs[i]
  BY <1>2, <1>3
<1>5. \A i \in 1..(n - 1) : i \in 1..(Len(fs) - 1) /\ i \in 1..n /\ i + 1 \in 1..n
  BY <1>3
<1>6. \A i \in 1..n : IF g[i].reg = NoKey THEN i = 1 ELSE g[i].reg \in Found(g[i].key) /\ ~ Cached(g[i].reg)
  BY <1>4 DEF StackOK
<1>7. \A i, j \in 1..n : g[i].key = g[j].key => i = j
  BY <1>4 DEF StackOK
<1>8. \A i \in 1..(n - 1) : /\ g[i].next <= Len(Params[Rule(g[i])])
                            /\ Wanted(Params[Rule(g[i])][g[i].next]) = g[i + 1].key
  <2> TAKE i \in 1..(n - 1)
  <2>1. i \in 1..(Len(fs) - 1) /\ g[i] = fs[i] /\ g[i + 1] = fs[i + 1]
    BY <1>4, <1>5
  <2> QED
    BY <2>1, Zenon DEF StackOK
<1>9. \A i, j \in 1..n : i < j /\ g[i].reg = g[j].reg /\ g[i].reg # NoKey => g[j].next <= g[i].next
  BY <1>4 DEF StackOK
<1>10. StackOK(g)
  BY <1>2, <1>3, <1>6, <1>7, <1>8, <1>9 DEF StackOK
<1> QED
  BY <1>2, <1>10 DEF g

\* The frame of a parameter is entered.
LEMMA PushKeepsStack ==
    ASSUME NEW fs, StackOK(fs), NEW k \in Keys, NEW f \in Keys \cup {NoKey}, ~Cached(f),
           f # NoKey => f \in Found(k), f = NoKey => fs = <<>>,
           \A i \in 1..Len(fs) : fs[i].key # k,
           fs # <<>> => LET top == fs[Len(fs)] IN
                           /\ top.next <= Len(Params[Rule(top)])
                           /\ Wanted(Params[Rule(top)][top.next]) = k
    PROVE  StackOK(Append(fs, [key |-> k, reg |-> f, next |-> 1]))
<1> DEFINE e == [key |-> k, reg |-> f, next |-> 1]
           g == Append(fs, e)
<1>1. fs \in Seq(Frame) /\ Len(fs) \in Nat
  BY DEF StackOK
<1>2. e \in Frame /\ e.key = k /\ e.reg = f /\ e.next = 1
  BY DEF Frame
<1> HIDE DEF e
<1>3. /\ g \in Seq(Frame) /\ Len(g) = Len(fs) + 1
      /\ \A i \in 1..Len(fs) : g[i] = fs[i]
      /\ g[Len(fs) + 1] = e
  BY <1>1, <1>2, AppendProperties
<1>4. \A i \in 1..Len(fs) : fs[i].next \in Nat \ {0}
  <2>1. \A i \in 1..Len(fs) : fs[i] \in Frame
    BY <1>1
  <2> QED
    BY <2>1 DEF Frame
<1> HIDE DEF g
<1>5. \A i \in 1..Len(g) : IF g[i].reg = NoKey THEN i = 1
                           ELSE g[i].reg \in Found(g[i].key) /\ ~Cached(g[i].reg)
  <2>1. \A i \in 1..Len(fs) : IF g[i].reg = NoKey THEN i = 1
                              ELSE g[i].reg \in Found(g[i].key) /\ ~Cached(g[i].reg)
    BY <1>3 DEF StackOK
  <2>2. IF e.reg = NoKey THEN Len(fs) + 1 = 1 ELSE e.reg \in Found(e.key) /\ ~Cached(e.reg)
    <3>1. CASE f = NoKey
      BY <1>2, <3>1
    <3>2. CASE f # NoKey
      BY <1>2, <3>2
    <3> QED
      BY <3>1, <3>2
  <2> QED
    BY <1>1, <1>3, <2>1, <2>2
<1>6. \A i, j \in 1..Len(g) : g[i].key = g[j].key => i = j
  BY <1>1, <1>2, <1>3 DEF StackOK
<1>7. \A i \in 1..(Len(g) - 1) : /\ g[i].next <= Len(Params[Rule(g[i])])
                                 /\ Wanted(Params[Rule(g[i])][g[i].next]) = g[i + 1].key
  <2> SUFFICES ASSUME NEW i \in 1..Len(fs)
               PROVE  /\ fs[i].next <= Len(Params[Rule(fs[i])])
                      /\ Wanted(Params[Rule(fs[i])][fs[i].next]) = g[i + 1].key
    BY <1>1, <1>3
  <2>1. CASE i = Len(fs)
    BY <1>2, <1>3, <2>1
  <2>2. CASE i < Len(fs)
    BY <1>1, <1>3, <2>2 DEF StackOK
  <2> QED
    BY <1>1, <2>1, <2>2
<1>8. \A i, j \in 1..Len(g) : i < j /\ g[i].reg = g[j].reg /\ g[i].reg # NoKey => g[j].next <= g[i].next
  BY SMTT(30), <1>1, <1>2, <1>3, <1>4 DEF StackOK
<1> QED
  BY <1>3, <1>5, <1>6, <1>7, <1>8 DEF StackOK, g, e

\* The top frame goes on with its next parameter: it may, if every frame below
\* it for the same registration waits at a later one.
LEMMA StepKeepsStack ==
    ASSUME NEW fs, StackOK(fs), fs # <<>>,
           \A i \in 1..(Len(fs) - 1) :
              fs[i].reg = fs[Len(fs)].reg /\ fs[i].reg # NoKey => fs[Len(fs)].next # fs[i].next
    PROVE  LET g == [fs EXCEPT ![Len(fs)].next = @ + 1] IN
           /\ StackOK(g) /\ Len(g) = Len(fs)
           /\ \A i \in 1..Len(fs) : g[i].key = fs[i].key /\ g[i].reg = fs[i].reg
<1> DEFINE n == Len(fs)
           e == [fs[n] EXCEPT !.next = @ + 1]
           g == [fs EXCEPT ![n] = e]
<1>1. fs \in Seq(Frame) /\ n \in Nat \ {0}
  BY DEF StackOK
<1>2. fs[n] \in Frame
  BY <1>1
<1>3. e \in Frame /\ e.key = fs[n].key /\ e.reg = fs[n].reg /\ e.next = fs[n].next + 1
  BY <1>2 DEF Frame
<1>4. g = [fs EXCEPT ![Len(fs)].next = @ + 1]
  OBVIOUS
<1> HIDE DEF e
<1>5. /\ g \in Seq(Frame) /\ Len(g) = n
      /\ \A i \in 1..n : g[i] = IF i = n THEN e ELSE fs[i]
  BY <1>1, <1>3, ExceptSeq
<1> HIDE DEF g
<1>6. \A i \in 1..n : g[i].key = fs[i].key /\ g[i].reg = fs[i].reg /\ (i # n => g[i] = fs[i])
  BY <1>3, <1>5
<1>7. \A i \in 1..n : fs[i].next \in Nat
  <2>1. \A i \in 1..n : fs[i] \in Frame
    BY <1>1
  <2> QED
    BY <2>1 DEF Frame
<1>8. \A i, j \in 1..n : i < j /\ g[i].reg = g[j].reg /\ g[i].reg # NoKey => g[j].next <= g[i].next
  <2> SUFFICES ASSUME NEW i \in 1..n, NEW j \in 1..n, i < j, g[i].reg = g[j].reg, g[i].reg # NoKey
               PROVE  g[j].next <= g[i].next
    OBVIOUS
  <2>1. fs[j].next <= fs[i].next /\ g[i] = fs[i]
    BY <1>1, <1>6 DEF StackOK
  <2>2. CASE j = n
    BY <1>1, <1>3, <1>5, <1>6, <1>7, <2>1, <2>2
  <2>3. CASE j # n
    BY <1>6, <2>1, <2>3
  <2> QED
    BY <2>2, <2>3
<1>9. \A i \in 1..(n - 1) : /\ g[i].next <= Len(Params[Rule(g[i])])
                            /\ Wanted(Params[Rule(g[i])][g[i].next]) = g[i + 1].key
  BY <1>1, <1>6 DEF StackOK
<1>10. StackOK(g)
  BY <1>1, <1>5, <1>6, <1>8, <1>9 DEF StackOK
<1> QED
  BY <1>4, <1>5, <1>6, <1>10

\* The same stack is in order after a step that registers nothing and caches
\* none of its singletons.
LEMMA StackStays ==
    ASSUME NEW fs, StackOK(fs), order' = order, \A k \in Keys : reg'[k].life = reg[k].life,
           \A i \in 1..Len(fs) : fs[i].reg # NoKey => ~Cached(fs[i].reg)'
    PROVE  StackOK(fs)'
<1>1. \A i \in 1..Len(fs) : fs[i] \in Frame
  BY DEF StackOK
<1>2. \A i \in 1..Len(fs) : Found(fs[i].key)' = Found(fs[i].key)
  <2> TAKE i \in 1..Len(fs)
  <2>1. fs[i].key \in Keys
    BY <1>1 DEF Frame
  <2> QED
    BY <2>1, FoundIsKept
<1>3. \A i \in 1..Len(fs) : Rule(fs[i])' = Rule(fs[i])
  BY DEF Rule
<1>4. \A i \in 1..(Len(fs) - 1) : LET p == Params[Rule(fs[i])][fs[i].next] IN Wanted(p)' = Wanted(p)
  <2> TAKE i \in 1..(Len(fs) - 1)
  <2>1. PICK t : t = fs[i]
    OBVIOUS
  <2>2. t \in Frame /\ t.next <= Len(Params[Rule(t)])
    <3>1. i \in 1..Len(fs)
      BY DEF StackOK
    <3> QED
      BY <1>1, <2>1, <3>1 DEF StackOK
  <2>3. Rule(t) \in Keys /\ t.next \in Nat \ {0}
    BY <2>2 DEF Frame, Rule
  <2>4. Params[Rule(t)][t.next].type \in Keys
    BY <2>2, <2>3, ParameterKeys
  <2>5. Found(Params[Rule(t)][t.next].type)' = Found(Params[Rule(t)][t.next].type)
    BY <2>4, FoundIsKept
  <2> QED
    BY <2>1, <2>5 DEF Wanted, has
<1> QED
  BY <1>2, <1>3, <1>4 DEF StackOK

\* The top frame asks for key k.
Asks(fs, k) == /\ fs[Len(fs)].next <= Len(Params[Rule(fs[Len(fs)])])
               /\ Wanted(Params[Rule(fs[Len(fs)])][fs[Len(fs)].next]) = k

\* It may go on with its next parameter.
MayStep(fs) == \A i \in 1..(Len(fs) - 1) :
                  fs[i].reg = fs[Len(fs)].reg /\ fs[i].reg # NoKey => fs[Len(fs)].next # fs[i].next

\* If what it asks for is cached or not registered, no frame below waits for it.
LEMMA AskedIsNotPending ==
    ASSUME NEW fs, StackOK(fs), fs # <<>>, NEW k \in Keys, Asks(fs, k),
           \A f \in Found(k) : Cached(f)
    PROVE  MayStep(fs)
<1> SUFFICES ASSUME NEW i \in 1..(Len(fs) - 1), fs[i].reg = fs[Len(fs)].reg, fs[i].reg # NoKey,
                    fs[Len(fs)].next = fs[i].next
             PROVE  FALSE
  BY DEF MayStep
<1>1. Len(fs) \in Nat
  BY DEF StackOK
<1>2. Rule(fs[i]) = Rule(fs[Len(fs)])
  BY DEF Rule
<1>3. fs[i + 1].key = k
  BY <1>2 DEF StackOK, Asks
<1>4. i + 1 \in 1..Len(fs) /\ i + 1 # 1
  BY <1>1
<1>5. fs[i + 1].reg \in Found(k) /\ ~Cached(fs[i + 1].reg)
  BY <1>3, <1>4 DEF StackOK
<1> QED
  BY <1>5

\* When a frame is left, the one below may go on: nobody else waits for the key.
LEMMA LeftIsNotPending ==
    ASSUME NEW fs, StackOK(fs), fs # <<>>, Front(fs) # <<>>
    PROVE  MayStep(Front(fs))
<1> DEFINE n == Len(fs)
           g == Front(fs)
<1>1. n \in Nat /\ n # 0 /\ fs \in Seq(Frame)
  BY DEF StackOK
<1>2. g \in Seq(Frame) /\ Len(g) = n - 1 /\ \A i \in 1..(n - 1) : g[i] = fs[i]
  BY <1>1, FrontOfSeq
<1>3. n - 1 \in 1..(n - 1) /\ n - 1 # 0
  <2>1. Len(g) # 0
    BY <1>2
  <2> QED
    BY <1>1, <1>2, <2>1
<1> SUFFICES ASSUME NEW i \in 1..(n - 2), fs[i].reg = fs[n - 1].reg, fs[i].reg # NoKey,
                    fs[n - 1].next = fs[i].next
             PROVE  FALSE
  BY <1>1, <1>2, <1>3 DEF MayStep
<1>4. i \in 1..(n - 1) /\ i + 1 \in 1..n /\ i + 1 # n /\ n \in 1..n
  BY <1>1
<1>5. Rule(fs[i]) = Rule(fs[n - 1])
  BY DEF Rule
<1>6. Wanted(Params[Rule(fs[i])][fs[i].next]) = fs[i + 1].key
  BY <1>4 DEF StackOK
<1>7. Wanted(Params[Rule(fs[n - 1])][fs[n - 1].next]) = fs[n].key
  <2>1. Wanted(Params[Rule(fs[n - 1])][fs[n - 1].next]) = fs[(n - 1) + 1].key
    BY <1>3 DEF StackOK
  <2>2. (n - 1) + 1 = n
    BY <1>1
  <2> QED
    BY <2>1, <2>2
<1>8. fs[i + 1].key = fs[n].key
  BY <1>5, <1>6, <1>7
<1> QED
  BY <1>4, <1>8 DEF StackOK

\* The new stack G and the new list R of keys of one thread are in order; the
\* other threads have none.
LEMMA ThreadsStayOK ==
    ASSUME ContainerInv, NEW h \in Threads, holder \in {h, NoThread}, NEW G, NEW R \in Seq(Keys),
           frames' = [frames EXCEPT ![h] = G], resolving' = [resolving EXCEPT ![h] = R],
           holder' \in {h, NoThread}, G # <<>> => holder' = h, StackOK(G)', Len(R) = Len(G),
           \A i \in 1..Len(G) : R[i] = G[i].key
    PROVE  ThreadsOK'
<1>1. G \in Seq(Frame)
  BY DEF StackOK
<1>2. /\ frames'[h] = G /\ resolving'[h] = R
      /\ \A u \in Threads \ {h} : frames'[u] = frames[u] /\ resolving'[u] = resolving[u]
      /\ frames' \in [Threads -> Seq(Frame)] /\ resolving' \in [Threads -> Seq(Keys)]
  BY <1>1 DEF ContainerInv, ThreadsOK
<1>3. \A u \in Threads \ {h} : frames[u] = <<>> /\ Len(resolving[u]) = 0
  BY DIAssumption DEF ContainerInv, ThreadsOK
<1>5. \A u \in Threads : StackOK(frames[u])'
  <2> TAKE u \in Threads
  <2>1. CASE u = h
    BY <1>2, <2>1 DEF StackOK
  <2>2. CASE u # h
    <3>1. frames'[u] = <<>>
      BY <1>2, <1>3, <2>2
    <3>2. Len(frames'[u]) = 0 /\ frames'[u] \in Seq(Frame)
      BY <1>2, <3>1
    <3>3. \A i \in 1..Len(frames'[u]) : FALSE
      BY <3>2
    <3>4. \A i \in 1..(Len(frames'[u]) - 1) : FALSE
      BY <3>2
    <3> QED
      BY <3>2, <3>3, <3>4 DEF StackOK
  <2> QED
    BY <2>1, <2>2
<1>6. \A u \in Threads : /\ holder' # u => frames'[u] = <<>>
                         /\ Len(resolving'[u]) = Len(frames'[u])
                         /\ \A i \in 1..Len(frames'[u]) : resolving'[u][i] = frames'[u][i].key
  <2> TAKE u \in Threads
  <2>1. CASE u = h
    BY <1>2, <2>1
  <2>2. CASE u # h
    BY <1>2, <1>3, <2>2
  <2> QED
    BY <2>1, <2>2
<1> QED
  BY <1>2, <1>5, <1>6 DEF ThreadsOK

\* No stack at all is in order.
LEMMA EmptyStack == StackOK(<<>>)'
<1>1. Len(<<>>) = 0 /\ <<>> \in Seq(Frame)
  OBVIOUS
<1>2. \A i \in 1..Len(<<>>) : FALSE
  BY <1>1
<1>3. \A i \in 1..(Len(<<>>) - 1) : FALSE
  BY <1>1
<1> QED
  BY <1>1, <1>2, <1>3 DEF StackOK

\* A value is returned to the frames fs.
LEMMA ReturnsOK ==
    ASSUME ContainerInv, NEW h \in Threads, holder \in {h, NoThread}, NEW fs, NEW R \in Seq(Keys),
           Returns(h, fs), resolving' = [resolving EXCEPT ![h] = R],
           StackOK(fs), Len(R) = Len(fs), \A i \in 1..Len(fs) : R[i] = fs[i].key,
           fs # <<>> => holder = h /\ MayStep(fs),
           order' = order, \A k \in Keys : reg'[k].life = reg[k].life,
           \A i \in 1..Len(fs) : fs[i].reg # NoKey => ~Cached(fs[i].reg)'
    PROVE  ThreadsOK'
<1>1. CASE fs = <<>>
  <2>1. frames' = [frames EXCEPT ![h] = <<>>] /\ holder' = NoThread
    BY <1>1 DEF Returns
  <2> QED
    BY <1>1, <2>1, EmptyStack, ThreadsStayOK
<1>2. CASE fs # <<>>
  <2>1. PICK G : G = [fs EXCEPT ![Len(fs)].next = @ + 1]
    OBVIOUS
  <2>2. frames' = [frames EXCEPT ![h] = G] /\ holder' = h
    BY <1>2, <2>1 DEF Returns
  <2>3. /\ StackOK(G) /\ Len(G) = Len(fs)
        /\ \A i \in 1..Len(fs) : G[i].key = fs[i].key /\ G[i].reg = fs[i].reg
    BY <1>2, <2>1, StepKeepsStack DEF MayStep
  <2>4. \A i \in 1..Len(G) : G[i].reg # NoKey => ~Cached(G[i].reg)'
    BY <2>3 DEF Cached
  <2>5. StackOK(G)'
    BY <2>3, <2>4, StackStays
  <2> QED
    BY <2>2, <2>3, <2>5, ThreadsStayOK
<1> QED
  BY <1>1, <1>2

\* An exception leaves every frame of the thread and forgets every key.
LEMMA RaisesOK ==
    ASSUME ContainerInv, NEW h \in Threads, holder \in {h, NoThread}, NEW error, NEW k,
           Raises(h, error, k)
    PROVE  ThreadsOK'
<1>1. Len(resolving[h]) = Len(frames[h]) /\ Len(frames[h]) \in Nat /\ resolving[h] \in Seq(Keys)
  BY DEF ContainerInv, ThreadsOK
<1>2. SubSeq(resolving[h], 1, Len(resolving[h]) - Len(frames[h])) = <<>>
  BY <1>1
<1>3. /\ frames' = [frames EXCEPT ![h] = <<>>] /\ holder' = NoThread
      /\ resolving' = [resolving EXCEPT ![h] = <<>>]
  BY <1>2 DEF Raises
<1>4. PICK G : G = <<>>
  OBVIOUS
<1>5. G \in Seq(Keys) /\ Len(G) = 0 /\ \A i \in 1..Len(G) : G[i] = G[i].key
  BY <1>4
<1>6. StackOK(G)'
  BY <1>4, EmptyStack
<1> QED
  BY <1>3, <1>4, <1>5, <1>6, ThreadsStayOK

\* A key is entered from outside or for the parameter that the top frame asks for.
LEMMA EnterOK ==
    ASSUME ContainerInv, NEW h \in Threads, holder \in {h, NoThread}, NEW k \in Keys,
           NEW f \in Keys \cup {NoKey}, Enter(h, k, f), order' = order, reg' = reg,
           f # NoKey => f \in Found(k), f = NoKey => frames[h] = <<>>,
           frames[h] # <<>> => holder = h /\ Asks(frames[h], k)
    PROVE  ThreadsOK'
<1>1. PICK F : F = frames[h]
  OBVIOUS
<1>2. PICK R : R = resolving[h]
  OBVIOUS
<1>3. /\ StackOK(F) /\ R \in Seq(Keys) /\ Len(R) = Len(F) /\ \A i \in 1..Len(F) : R[i] = F[i].key
      /\ frames \in [Threads -> Seq(Frame)] /\ resolving \in [Threads -> Seq(Keys)]
  BY <1>1, <1>2 DEF ContainerInv, ThreadsOK
<1>4. \A g : Cached(g)' = Cached(g)
  BY DEF Cached
<1>5. \A i \in 1..Len(F) : F[i].reg # NoKey => ~Cached(F[i].reg)'
  BY <1>3, <1>4 DEF StackOK
<1>6. CASE Cached(f) /\ Returns(h, frames[h]) /\ UNCHANGED resolving
  <2>1. \A g \in Found(k) : Cached(g)
    <3>1. f \in Found(k) /\ \A g \in Found(k) : g = f
      BY <1>6, FoundIsOne DEF ContainerInv, Cached
    <3> QED
      BY <1>6, <3>1
  <2>2. F # <<>> => holder = h /\ MayStep(F)
    BY <1>1, <1>3, <2>1, AskedIsNotPending
  <2>3. resolving' = [resolving EXCEPT ![h] = R] /\ Returns(h, F)
    BY <1>1, <1>2, <1>3, <1>6
  <2> QED
    BY <1>3, <1>5, <2>2, <2>3, ReturnsOK
<1>7. CASE Raises(h, "circular", k)
  BY <1>7, RaisesOK
<1>8. CASE /\ ~Cached(f) /\ ~Contains(resolving[h], k)
           /\ frames' = [frames EXCEPT ![h] = Append(@, [key |-> k, reg |-> f, next |-> 1])]
           /\ resolving' = [resolving EXCEPT ![h] = Append(@, k)]
           /\ holder' = h
  <2>1. PICK e : e = [key |-> k, reg |-> f, next |-> 1]
    OBVIOUS
  <2>2. PICK G : G = Append(F, e)
    OBVIOUS
  <2>3. PICK Q : Q = Append(R, k)
    OBVIOUS
  <2>4. frames' = [frames EXCEPT ![h] = G] /\ resolving' = [resolving EXCEPT ![h] = Q] /\ holder' = h
    BY <1>1, <1>2, <1>8, <2>1, <2>2, <2>3
  <2>5. \A i \in 1..Len(F) : F[i].key # k
    BY <1>2, <1>3, <1>8 DEF Contains
  <2>6. StackOK(G)
    BY <1>1, <1>3, <1>8, <2>1, <2>2, <2>5, PushKeepsStack DEF Asks
  <2>7. StackOK(G)'
    <3>1. \A i \in 1..Len(G) : G[i].reg # NoKey => ~Cached(G[i].reg)'
      BY <1>4, <2>6 DEF StackOK
    <3> QED
      BY <2>6, <3>1, StackStays
  <2>8. e.key = k /\ e \in Frame
    BY <2>1 DEF Frame
  <2>9. Q \in Seq(Keys) /\ Len(Q) = Len(G) /\ \A i \in 1..Len(G) : Q[i] = G[i].key
    <3>1. F \in Seq(Frame) /\ Len(F) \in Nat
      BY <1>3 DEF StackOK
    <3>2. Len(G) = Len(F) + 1 /\ (\A i \in 1..Len(F) : G[i] = F[i]) /\ G[Len(F) + 1] = e
      BY <2>2, <2>8, <3>1, AppendProperties
    <3>3. Q \in Seq(Keys) /\ Len(Q) = Len(R) + 1 /\ (\A i \in 1..Len(R) : Q[i] = R[i]) /\ Q[Len(R) + 1] = k
      BY <1>3, <2>3, AppendProperties
    <3> QED
      BY <1>3, <2>8, <3>1, <3>2, <3>3
  <2> QED
    BY <2>4, <2>7, <2>9, ThreadsStayOK
<1> QED
  BY <1>6, <1>7, <1>8 DEF Enter

\* A registration: nobody resolves meanwhile, and nothing of it has been built.
LEMMA RegistersOK ==
    ASSUME ContainerInv, NEW k \in Keys, NEW r \in Registration, Registers(k, r)
    PROVE  ContainerInv'
<1>1. /\ reg' = [reg EXCEPT ![k] = r] /\ built' = [built EXCEPT ![k] = 0] /\ holder = NoThread
      /\ holder' = holder /\ frames' = frames /\ resolving' = resolving
      /\ order' = IF Contains(order, k) THEN order ELSE Append(order, k)
  BY DEF Registers
<1>2. order' \in Seq(Keys)
  <2>1. order \in Seq(Keys) /\ Append(order, k) \in Seq(Keys)
    BY DEF ContainerInv
  <2> QED
    BY <1>1, <2>1
<1>3. reg' \in [Keys -> Registration] /\ built' \in [Keys -> Nat] /\ SingletonsOK'
  BY <1>1 DEF ContainerInv, SingletonsOK
<1>4. \A u \in Threads : frames[u] = <<>>
  BY <1>1, DIAssumption DEF ContainerInv, ThreadsOK
<1>5. \A u \in Threads : StackOK(frames[u])'
  <2> TAKE u \in Threads
  <2>1. Len(frames'[u]) = 0 /\ frames'[u] \in Seq(Frame)
    BY <1>1, <1>4 DEF ContainerInv, ThreadsOK
  <2>2. \A i \in 1..Len(frames'[u]) : FALSE
    BY <2>1
  <2>3. \A i \in 1..(Len(frames'[u]) - 1) : FALSE
    BY <2>1
  <2> QED
    BY <2>1, <2>2, <2>3 DEF StackOK
<1>6. ThreadsOK'
  BY <1>1, <1>5 DEF ContainerInv, ThreadsOK
<1> QED
  BY <1>2, <1>3, <1>6 DEF ContainerInv

\* A step that builds nothing keeps what is said of the registrations.
LEMMA NothingBuilt ==
    ASSUME ContainerInv, UNCHANGED <<reg, order, built>>, ThreadsOK'
    PROVE  ContainerInv'
  BY DEF ContainerInv, SingletonsOK

\* What the invariant says of the thread that works, with names for its stack
\* and its keys.
LEMMA WorkingStack ==
    ASSUME ContainerInv, NEW h \in Threads, Working(h), NEW F, F = frames[h], NEW R, R = resolving[h]
    PROVE  /\ StackOK(F) /\ F # <<>> /\ F \in Seq(Frame) /\ Len(F) \in Nat \ {0}
           /\ R \in Seq(Keys) /\ Len(R) = Len(F) /\ \A i \in 1..Len(F) : R[i] = F[i].key
           /\ Top(h) = F[Len(F)] /\ F[Len(F)] \in Frame /\ F[Len(F)].key \in Keys
           /\ F[Len(F)].reg \in Keys \cup {NoKey} /\ F[Len(F)].next \in Nat
           /\ Rule(F[Len(F)]) \in Keys
<1>1. StackOK(F) /\ F # <<>> /\ R \in Seq(Keys) /\ Len(R) = Len(F) /\ \A i \in 1..Len(F) : R[i] = F[i].key
  BY DEF ContainerInv, ThreadsOK, Working
<1>2. F \in Seq(Frame) /\ Len(F) \in Nat \ {0}
  BY <1>1 DEF StackOK
<1>3. F[Len(F)] \in Frame
  BY <1>2
<1>4. /\ F[Len(F)].key \in Keys /\ F[Len(F)].reg \in Keys \cup {NoKey} /\ F[Len(F)].next \in Nat
      /\ Rule(F[Len(F)]) \in Keys
  BY <1>3 DEF Frame, Rule
<1> QED
  BY <1>1, <1>2, <1>3, <1>4 DEF Top, Last

\* A frame is left with a value: what is cached then is on no other frame.
LEMMA PopOK ==
    ASSUME ContainerInv, NEW h \in Threads, Working(h), Returns(h, Front(frames[h])), Pops(h),
           order' = order, \A k \in Keys : reg'[k].life = reg[k].life, NEW F, F = frames[h],
           \A i \in 1..(Len(F) - 1) : F[i].reg # NoKey => ~Cached(F[i].reg)'
    PROVE  ThreadsOK'
<1>2. PICK R : R = resolving[h]
  OBVIOUS
<1>3. /\ StackOK(F) /\ F # <<>> /\ F \in Seq(Frame) /\ Len(F) \in Nat \ {0}
      /\ R \in Seq(Keys) /\ Len(R) = Len(F) /\ \A i \in 1..Len(F) : R[i] = F[i].key
  BY <1>2, WorkingStack
<1>4. PICK G : G = Front(F)
  OBVIOUS
<1>5. PICK Q : Q = Front(R)
  OBVIOUS
<1>6. StackOK(G) /\ Len(G) = Len(F) - 1 /\ \A i \in 1..(Len(F) - 1) : G[i] = F[i]
  BY <1>3, <1>4, PopKeepsStack
<1>7. Q \in Seq(Keys) /\ Len(Q) = Len(R) - 1 /\ \A i \in 1..(Len(R) - 1) : Q[i] = R[i]
  BY <1>3, <1>5, FrontOfSeq
<1>8. Len(Q) = Len(G) /\ \A i \in 1..Len(G) : Q[i] = G[i].key
  BY <1>3, <1>6, <1>7
<1>9. G # <<>> => holder = h /\ MayStep(G)
  BY <1>3, <1>4, LeftIsNotPending DEF Working
<1>10. \A i \in 1..Len(G) : G[i].reg # NoKey => ~Cached(G[i].reg)'
  BY <1>6 DEF Cached
<1>11. Returns(h, G) /\ resolving' = [resolving EXCEPT ![h] = Q]
  BY <1>2, <1>4, <1>5 DEF Pops
<1>12. holder \in {h, NoThread}
  BY DEF Working
<1> QED
  BY <1>6, <1>7, <1>8, <1>9, <1>10, <1>11, <1>12, ReturnsOK

\* A parameter is looked for.
LEMMA InjectOK ==
    ASSUME ContainerInv, NEW h \in Threads, Inject(h)
    PROVE  ContainerInv'
<1>1. PICK F : F = frames[h]
  OBVIOUS
<1>2. PICK R : R = resolving[h]
  OBVIOUS
<1> DEFINE t == F[Len(F)]
<1>3. /\ StackOK(F) /\ F # <<>> /\ F \in Seq(Frame)
      /\ R \in Seq(Keys) /\ Len(R) = Len(F) /\ \A i \in 1..Len(F) : R[i] = F[i].key
      /\ Top(h) = t /\ t.next \in Nat /\ Rule(t) \in Keys /\ t \in Frame
  BY <1>1, <1>2, WorkingStack DEF Inject
<1>4. t.next \in 1..Len(Params[Rule(t)])
  <2>1. t.next \in Nat \ {0}
    BY <1>3 DEF Frame
  <2> QED
    BY <1>3, <2>1 DEF Inject
<1>5. PICK p : p = Params[Rule(t)][t.next]
  OBVIOUS
<1>6. Wanted(p) \in Keys
  BY <1>3, <1>4, <1>5, ParameterKeys DEF Wanted
<1>7. Asks(F, Wanted(p))
  BY <1>4, <1>5 DEF Asks
<1>8. /\ holder = h /\ reg' = reg /\ order' = order /\ built' = built
      /\ \/ \E f \in Found(Wanted(p)) : Enter(h, Wanted(p), f)
         \/ Found(Wanted(p)) = {} /\ Returns(h, F) /\ UNCHANGED resolving
         \/ \E error \in {"unresolved"} : Raises(h, error, Wanted(p))
  BY <1>1, <1>3, <1>5 DEF Inject, Working, has
<1>9. CASE \E f \in Found(Wanted(p)) : Enter(h, Wanted(p), f)
  <2>1. PICK f \in Found(Wanted(p)) : Enter(h, Wanted(p), f)
    BY <1>9
  <2>2. f \in Keys /\ f # NoKey
    BY <1>6, <2>1, FoundIsOne, DIAssumption DEF ContainerInv
  <2>3. ThreadsOK'
    BY <1>1, <1>3, <1>6, <1>7, <1>8, <2>1, <2>2, EnterOK
  <2> QED
    BY <1>8, <2>3, NothingBuilt
<1>10. CASE Found(Wanted(p)) = {} /\ Returns(h, F) /\ UNCHANGED resolving
  <2>1. MayStep(F)
    BY <1>3, <1>6, <1>7, <1>10, AskedIsNotPending
  <2>2. \A i \in 1..Len(F) : F[i].reg # NoKey => ~Cached(F[i].reg)'
    BY <1>3, <1>8 DEF StackOK, Cached
  <2>3. resolving' = [resolving EXCEPT ![h] = R]
    BY <1>2, <1>10 DEF ContainerInv, ThreadsOK
  <2>4. ThreadsOK'
    BY <1>3, <1>8, <1>10, <2>1, <2>2, <2>3, ReturnsOK
  <2> QED
    BY <1>8, <2>4, NothingBuilt
<1>11. CASE \E error \in {"unresolved"} : Raises(h, error, Wanted(p))
  BY <1>8, <1>11, RaisesOK, NothingBuilt
<1> QED
  BY <1>8, <1>9, <1>10, <1>11

\* The factory or the class is called.
LEMMA ConstructOK ==
    ASSUME ContainerInv, NEW h \in Threads, Construct(h)
    PROVE  ContainerInv'
<1>1. PICK F : F = frames[h]
  OBVIOUS
<1>2. PICK R : R = resolving[h]
  OBVIOUS
<1>3. PICK t : t = F[Len(F)]
  OBVIOUS
<1>4. /\ StackOK(F) /\ F # <<>> /\ F \in Seq(Frame) /\ Len(F) \in Nat \ {0}
      /\ Top(h) = t /\ t.next \in Nat /\ Rule(t) \in Keys /\ t.reg \in Keys \cup {NoKey}
  BY <1>1, <1>2, <1>3, WorkingStack DEF Construct
<1>5. holder = h /\ Working(h) /\ t.next > Len(Params[Rule(t)]) /\ order' = order
  BY <1>4 DEF Construct, Working
<1>6. CASE \E error \in {"failed"} : Raises(h, error, t.key) /\ UNCHANGED <<reg, built>>
  BY <1>5, <1>6, RaisesOK, NothingBuilt
<1>7. ASSUME NEW some \in BOOLEAN,
             reg' = IF t.reg = NoKey THEN reg ELSE [reg EXCEPT ![t.reg] = Kept(@, some)],
             built' = IF t.reg = NoKey \/ ~some THEN built ELSE [built EXCEPT ![t.reg] = @ + 1],
             Returns(h, Front(frames[h])), Pops(h)
      PROVE  ContainerInv'
  <2>1. CASE t.reg = NoKey
    <3>1. UNCHANGED <<reg, order, built>>
      BY <1>5, <1>7, <2>1
    <3>2. \A i \in 1..(Len(F) - 1) : F[i].reg # NoKey => ~Cached(F[i].reg)'
      BY <1>4, <3>1 DEF StackOK, Cached
    <3> QED
      BY <1>1, <1>5, <1>7, <3>1, <3>2, PopOK, NothingBuilt
  <2>2. CASE t.reg # NoKey
    <3>1. t.reg \in Keys /\ ~Cached(t.reg) /\ Len(F) \in 1..Len(F)
      BY <1>3, <1>4, <2>2 DEF StackOK
    <3>2. /\ reg' = [reg EXCEPT ![t.reg] = Kept(@, some)]
          /\ built' = IF some THEN [built EXCEPT ![t.reg] = @ + 1] ELSE built
      BY <1>7, <2>2
    <3>3. Kept(reg[t.reg], some) \in Registration /\ Kept(reg[t.reg], some).life = reg[t.reg].life
      <4>1. reg[t.reg] \in Registration
        BY <3>1 DEF ContainerInv
      <4> QED
        BY <4>1 DEF Kept, Registration
    <3>4. reg' \in [Keys -> Registration] /\ \A k \in Keys : reg'[k].life = reg[k].life
      BY <3>1, <3>2, <3>3 DEF ContainerInv
    <3>5. \A i \in 1..(Len(F) - 1) : F[i].reg # t.reg
      <4> SUFFICES ASSUME NEW i \in 1..(Len(F) - 1), F[i].reg = t.reg PROVE FALSE
        OBVIOUS
      <4>1. i \in 1..Len(F) /\ i < Len(F)
        BY <1>4
      <4>2. t.next <= F[i].next /\ F[i].next <= Len(Params[Rule(F[i])])
        BY <1>3, <1>4, <2>2, <3>1, <4>1 DEF StackOK
      <4>3. Rule(F[i]) = Rule(t)
        BY <2>2 DEF Rule
      <4>4. F[i] \in Frame
        BY <1>4, <4>1
      <4>5. F[i].next \in Nat /\ Len(Params[Rule(t)]) \in Nat
        BY <1>4, <4>4, DIAssumption DEF Frame
      <4> QED
        BY <1>4, <1>5, <4>2, <4>3, <4>5
    <3>6. \A i \in 1..(Len(F) - 1) : F[i].reg # NoKey => ~Cached(F[i].reg)'
      <4> SUFFICES ASSUME NEW i \in 1..(Len(F) - 1), F[i].reg # NoKey PROVE ~Cached(F[i].reg)'
        OBVIOUS
      <4>1. i \in 1..Len(F) /\ F[i] \in Frame
        BY <1>4
      <4>2. F[i].reg \in Keys /\ F[i].reg # t.reg /\ ~Cached(F[i].reg)
        BY <1>4, <3>5, <4>1 DEF Frame, StackOK
      <4>3. reg'[F[i].reg] = reg[F[i].reg]
        BY <3>2, <4>2 DEF ContainerInv
      <4> QED
        BY <4>2, <4>3 DEF Cached
    <3>7. ThreadsOK'
      BY <1>1, <1>5, <1>7, <3>4, <3>6, PopOK
    <3>8. CASE ~some
      <4>1. built' = built /\ Kept(reg[t.reg], some) = reg[t.reg]
        BY <3>2, <3>8 DEF Kept
      <4>2. reg' = reg
        BY <3>1, <3>2, <4>1 DEF ContainerInv
      <4> QED
        BY <1>5, <3>7, <4>1, <4>2, NothingBuilt
    <3>9. CASE some
      <4>1. built' = [built EXCEPT ![t.reg] = @ + 1]
        BY <3>2, <3>9
      <4>2. /\ built' \in [Keys -> Nat] /\ built'[t.reg] = built[t.reg] + 1
            /\ \A k \in Keys \ {t.reg} : built'[k] = built[k] /\ reg'[k] = reg[k]
            /\ reg'[t.reg] = Kept(reg[t.reg], some)
        BY <3>1, <3>2, <4>1 DEF ContainerInv
      <4>3. reg[t.reg].life = "singleton" => built[t.reg] = 0 /\ reg'[t.reg].inst = TRUE
        <5>1. reg[t.reg] \in Registration
          BY <3>1 DEF ContainerInv
        <5>2. reg[t.reg].life = "singleton" => ~reg[t.reg].inst
          BY <2>2, <3>1 DEF Cached
        <5>3. reg[t.reg].life = "singleton" => Kept(reg[t.reg], some).inst = TRUE
          BY <3>9, <5>1 DEF Kept, Registration
        <5> QED
          BY <3>1, <4>2, <5>2, <5>3 DEF ContainerInv, SingletonsOK
      <4>4. SingletonsOK'
        BY <3>1, <3>4, <4>2, <4>3 DEF ContainerInv, SingletonsOK
      <4> QED
        BY <1>5, <3>4, <3>7, <4>2, <4>4 DEF ContainerInv
    <3> QED
      BY <3>8, <3>9
  <2> QED
    BY <2>1, <2>2
<1> QED
  BY <1>4, <1>6, <1>7 DEF Construct

\* Every step of the container keeps its invariant.
LEMMA NextContainerInv == ContainerInv /\ [DiNext]_diVars => ContainerInv'
<1> SUFFICES ASSUME ContainerInv, [DiNext]_diVars PROVE ContainerInv'
  OBVIOUS
<1>1. ASSUME NEW k \in Keys, \/ register_singleton(k) \/ register_transient(k)
                             \/ \E given \in BOOLEAN : register_instance(k, given)
      PROVE  ContainerInv'
  <2>1. \E r \in Registration : Registers(k, r)
    BY <1>1 DEF register_singleton, register_transient, register_instance, Registration
  <2> QED
    BY <2>1, RegistersOK
<1>2. ASSUME NEW k \in Keys, NEW h \in Threads, resolve(h, k) PROVE ContainerInv'
  <2>1. PICK f \in IF has(k) THEN Found(k) ELSE {NoKey} : Enter(h, k, f)
    BY <1>2 DEF resolve
  <2>2. f \in Keys \cup {NoKey} /\ (f # NoKey => f \in Found(k))
    BY <2>1, FoundIsOne DEF ContainerInv, has
  <2>3. holder = NoThread /\ UNCHANGED <<reg, order, built>>
    BY <1>2 DEF resolve
  <2>4. frames[h] = <<>>
    BY <2>3, DIAssumption DEF ContainerInv, ThreadsOK
  <2>5. ThreadsOK'
    BY <2>1, <2>2, <2>3, <2>4, EnterOK
  <2> QED
    BY <2>3, <2>5, NothingBuilt
<1>3. ASSUME NEW h \in Threads, Unresolvable(h) PROVE ContainerInv'
  <2>1. \E error \in {"unresolved"} : \E k \in {Top(h).key} : Raises(h, error, k)
    BY <1>3 DEF Unresolvable
  <2>2. holder = h /\ UNCHANGED <<reg, order, built>>
    BY <1>3 DEF Unresolvable, Working
  <2> QED
    BY <2>1, <2>2, RaisesOK, NothingBuilt
<1>4. ASSUME NEW h \in Threads, ReturnNone(h) PROVE ContainerInv'
  <2>1. Working(h) /\ Returns(h, Front(frames[h])) /\ Pops(h) /\ UNCHANGED <<reg, order, built>>
    BY <1>4 DEF ReturnNone
  <2>2. PICK F : F = frames[h]
    OBVIOUS
  <2>3. StackOK(F) /\ Len(F) \in Nat
    BY <2>1, <2>2, WorkingStack
  <2>4. \A i \in 1..(Len(F) - 1) : F[i].reg # NoKey => ~Cached(F[i].reg)'
    BY <2>1, <2>3 DEF StackOK, Cached
  <2>5. ThreadsOK'
    BY <2>1, <2>2, <2>4, PopOK
  <2> QED
    BY <2>1, <2>5, NothingBuilt
<1>5. CASE UNCHANGED diVars
  <2>1. PICK fr : fr = frames
    OBVIOUS
  <2>2. UNCHANGED <<reg, order, built, holder, frames, resolving>>
    BY <1>5 DEF diVars
  <2>3. \A u \in Threads : StackOK(fr[u])'
    <3> TAKE u \in Threads
    <3>1. StackOK(fr[u])
      BY <2>1 DEF ContainerInv, ThreadsOK
    <3>2. \A i \in 1..Len(fr[u]) : fr[u][i].reg # NoKey => ~Cached(fr[u][i].reg)'
      BY <2>2, <3>1 DEF StackOK, Cached
    <3> QED
      BY <2>2, <3>1, <3>2, StackStays
  <2>4. \A u \in Threads : StackOK(frames[u])'
    BY <2>1, <2>2, <2>3 DEF StackOK
  <2>5. ThreadsOK'
    BY <2>2, <2>4 DEF ContainerInv, ThreadsOK
  <2> QED
    BY <2>2, <2>5, NothingBuilt
<1> QED
  BY <1>1, <1>2, <1>3, <1>4, <1>5, InjectOK, ConstructOK DEF DiNext

\* SingletonBuiltOnce for any keys, parameters and threads: a singleton is
\* built once, however resolves nest, fail and ask for it by a base class.
THEOREM SingletonsAreBuiltOnce == DiSpec => []SingletonBuiltOnce
<1>1. DiInit => ContainerInv
  <2> SUFFICES ASSUME DiInit PROVE ContainerInv
    OBVIOUS
  <2>1. \A u \in Threads : StackOK(frames[u])
    <3> TAKE u \in Threads
    <3>1. Len(frames[u]) = 0 /\ frames[u] \in Seq(Frame)
      BY DEF DiInit
    <3>2. \A i \in 1..Len(frames[u]) : FALSE
      BY <3>1
    <3>3. \A i \in 1..(Len(frames[u]) - 1) : FALSE
      BY <3>1
    <3> QED
      BY <3>1, <3>2, <3>3 DEF StackOK
  <2>2. ThreadsOK
    BY <2>1 DEF DiInit, ThreadsOK
  <2> QED
    BY <2>2 DEF DiInit, ContainerInv, SingletonsOK, Unregistered, Registration
<1>2. ContainerInv => SingletonBuiltOnce
  BY DEF ContainerInv, SingletonsOK, SingletonBuiltOnce
<1> QED
  BY <1>1, <1>2, NextContainerInv, PTL DEF DiSpec

-----------------------------------------------------------------------------
(* The gateway and the agent runtime *)

TaskRecord ==
    [pc : {"new", "lookup", "check", "start", "starting", "execute", "save", "return"},
     name : AgentNames, subject : BOOLEAN, status : {"pending", "running", "completed", "failed"},
     checked : Agents \cup {NoAgent}, agent : Agents \cup {NoAgent}, next : Nat \ {0},
     granted : SUBSET Permissions]

\* An agent is given to a task only after its check, and while a check is under
\* way the permissions before the next one have been granted.
TaskOK(r) ==
    /\ r.pc \in {"new", "lookup", "check"} => r.agent = NoAgent
    /\ r.pc = "new" => r.status = "pending"
    /\ r.pc \in {"new", "lookup"} => r.next = 1
    /\ r.pc = "check" =>
          /\ r.checked \in Agents
          /\ r.subject => \A i \in DOMAIN Needs[r.checked] : i < r.next => Needs[r.checked][i] \in r.granted
    /\ r.pc \in {"start", "starting", "execute"} => r.agent \in Agents
    /\ r.pc = "save" => r.status = "completed"
    /\ r.pc = "return" => r.status \in {"completed", "failed"}
    /\ r.agent # NoAgent /\ r.subject =>
          \A i \in DOMAIN Needs[r.checked] : Needs[r.checked][i] \in r.granted

TasksOK == /\ task \in [Tasks -> TaskRecord] /\ \A t \in Tasks : TaskOK(task[t])
           /\ longMem \subseteq shortMem /\ shortMem \subseteq Tasks
           /\ \A t \in shortMem : task[t].status = "completed" /\ task[t].pc \in {"save", "return"}

\* A sweep marks an agent that it has still to do, and marks it running only
\* when its start() has returned.
SweepsOK == /\ agents \in [AgentNames -> Agents \cup {NoAgent}]
            /\ running \in [Agents -> BOOLEAN] /\ started \in [Agents -> BOOLEAN]
            /\ sweep \in [op : {"none", "start", "stop"}, todo : SUBSET Agents, now : Agents \cup {NoAgent}]
            /\ sweep.now # NoAgent => sweep.now \in sweep.todo
            /\ sweep.now # NoAgent /\ sweep.op = "start" => started[sweep.now]
            /\ RunningMeansStarted

AuditOK == /\ roles \subseteq Permissions
           /\ audit \in Seq({"SUCCESS", "GRANTED", "DENIED"}) /\ Len(audit) <= MaxAudit

Statuses == {0, 200, 201, 400, 401, 403, 404, 500}

RequestRecord ==
    [pc : {"idle", "handle", "execute", "reply"}, route : Routes \cup {Unrouted},
     token : Tokens \cup {NoToken}, form : Forms, called : BOOLEAN, status : Statuses]

\* What is known of a request r for the task k of its thread: only one that was
\* admitted reaches the client, and the task is new until then.
RequestOK(r, k) ==
    /\ r.called \/ r.pc \in {"handle", "execute"} => r.route \in Routes /\ authenticate(r.token) = 200
    /\ r.pc = "handle" => k.pc = "new"
    /\ r.pc = "execute" => r.route \in ExecuteRoutes
    /\ r.pc = "reply" /\ r.route \in ExecuteRoutes =>
          IF r.status = 200 THEN k.pc = "return" ELSE k.pc = "new"

RequestsOK == /\ auth \in [required : BOOLEAN, allowed : SUBSET Tokens]
              /\ req \in [Servers -> RequestRecord] /\ \A t \in Servers : RequestOK(req[t], task[t])

GatewayInv == TasksOK /\ SweepsOK /\ AuditOK /\ RequestsOK

\* Every set of natural numbers that has an element has a least one.
LEMMA LeastNatural ==
    ASSUME NEW S, S \subseteq Nat, S # {}
    PROVE  \E m \in S : \A n \in S : m <= n
<1>1. \E m \in S : \A n \in S : ~ (<<n, m>> \in OpToRel(<, Nat))
  BY NatLessThanWellFounded, WFMin
<1>2. \A m, n \in S : n < m => <<n, m>> \in OpToRel(<, Nat)
  BY DEF OpToRel
<1>3. \E m \in S : \A n \in S : ~ (n < m)
  BY <1>1, <1>2, Zenon
<1> QED
  BY <1>3

AuditEvents == {"SUCCESS", "GRANTED", "DENIED"}

\* log_event keeps the length of the history within its limit.
LEMMA LoggedIsBounded ==
    ASSUME NEW h \in Seq(AuditEvents), NEW es \in Seq(AuditEvents)
    PROVE  Logged(h, es) \in Seq(AuditEvents) /\ Len(Logged(h, es)) <= MaxAudit
<1>1. PICK s : s = h \o es
  OBVIOUS
<1>2. s \in Seq(AuditEvents) /\ Len(s) \in Nat
  BY <1>1
<1>3. PICK a : a = Len(s) - MaxAudit + 1
  OBVIOUS
<1>4. a \in Int /\ MaxAudit \in Nat \ {0}
  BY <1>2, <1>3, AgentAssumption
<1>5. PICK m : m = Max({1, a})
  OBVIOUS
<1>6. m \in {1, a} /\ m >= 1 /\ m >= a
  <2>1. \E x \in {1, a} : \A y \in {1, a} : x >= y
    BY <1>4
  <2>2. m \in {1, a} /\ \A y \in {1, a} : m >= y
    BY <1>5, <2>1 DEF Max
  <2> QED
    BY <2>2
<1>7. Logged(h, es) = SubSeq(s, m, Len(s))
  BY <1>1, <1>3, <1>5 DEF Logged
<1>8. PICK n : n = Len(s)
  OBVIOUS
<1>9. m \in Int /\ n \in Int /\ \A i \in m..n : s[i] \in AuditEvents
  BY <1>2, <1>4, <1>6, <1>8
<1>10. /\ SubSeq(s, m, n) \in Seq(AuditEvents)
       /\ Len(SubSeq(s, m, n)) = IF m <= n THEN n - m + 1 ELSE 0
  BY <1>9, SubSeqProperties
<1> QED
  BY <1>2, <1>3, <1>4, <1>6, <1>7, <1>8, <1>10

\* A decision, and the decisions about a list, are events of the history.
LEMMA VerdictsAreEvents ==
    ASSUME NEW ps \in Seq(Permissions)
    PROVE  Verdicts(ps) \in Seq(AuditEvents)
<1> DEFINE denied == {i \in 1..Len(ps) : ~Grants(ps[i])}
           S == denied \cup {Len(ps)}
<1>1. Len(ps) \in Nat
  OBVIOUS
<1>2. S \subseteq Nat /\ S # {}
  BY <1>1
<1>3. Min(S) \in Nat
  <2> HIDE DEF S
  <2>1. \E m \in S : \A n \in S : m <= n
    BY <1>2, LeastNatural
  <2>2. Min(S) \in S
    BY <2>1 DEF Min
  <2> QED
    BY <1>2, <2>2
<1>4. Verdicts(ps) = [i \in 1..Min(S) |-> Verdict(ps[i])]
  BY DEF Verdicts
<1>5. PICK n \in Nat : n = Min(S)
  BY <1>3
<1>6. \A p : Verdict(p) \in AuditEvents
  BY DEF Verdict, AuditEvents
<1> HIDE DEF S
<1>7. Verdicts(ps) = [i \in 1..n |-> Verdict(ps[i])]
  BY <1>4, <1>5
<1> QED
  BY <1>5, <1>6, <1>7

\* One task goes on.
LEMMA TaskGoes ==
    ASSUME TasksOK, NEW t \in Tasks, NEW r \in TaskRecord, TaskOK(r), Goes(t, r),
           UNCHANGED <<shortMem, longMem>>,
           t \in shortMem => r.status = "completed" /\ r.pc \in {"save", "return"}
    PROVE  TasksOK'
<1>1. /\ task' \in [Tasks -> TaskRecord] /\ task'[t] = r
      /\ \A u \in Tasks \ {t} : task'[u] = task[u]
  BY DEF TasksOK, Goes
<1>2. \A u \in Tasks : TaskOK(task'[u])
  <2> TAKE u \in Tasks
  <2>1. CASE u = t
    BY <1>1, <2>1
  <2>2. CASE u # t
    BY <1>1, <2>2 DEF TasksOK
  <2> QED
    BY <2>1, <2>2
<1>3. \A u \in Tasks : TaskOK(task[u])'
  BY <1>2 DEF TaskOK
<1>4. \A u \in shortMem : task'[u].status = "completed" /\ task'[u].pc \in {"save", "return"}
  BY <1>1 DEF TasksOK
<1> QED
  BY <1>1, <1>3, <1>4 DEF TasksOK

\* A task that has not been saved fails.
LEMMA TaskFails ==
    ASSUME TasksOK, NEW t \in Tasks, Fails(t), task[t].pc \notin {"new", "save", "return"},
           UNCHANGED <<shortMem, longMem>>
    PROVE  TasksOK'
<1>1. PICK r : r = [task[t] EXCEPT !.pc = "return", !.status = "failed"]
  OBVIOUS
<1>2. task[t] \in TaskRecord /\ TaskOK(task[t]) /\ t \notin shortMem
  BY DEF TasksOK
<1>3. r \in TaskRecord
  BY <1>1, <1>2 DEF TaskRecord
<1>4. TaskOK(r)
  BY <1>1, <1>2 DEF TaskRecord, TaskOK
<1> QED
  BY <1>1, <1>2, <1>3, <1>4, TaskGoes DEF Fails

\* The steps of a task keep what is known of the tasks.
LEMMA StepKeepsTasks ==
    ASSUME TasksOK, agents \in [AgentNames -> Agents \cup {NoAgent}], roles \subseteq Permissions,
           NEW t \in Tasks, ExecuteStep(t)
    PROVE  TasksOK' /\ task[t].pc \notin {"new", "return"} /\ \A u \in Tasks \ {t} : task'[u] = task[u]
<1>1. PICK k : k = task[t]
  OBVIOUS
<1>2. k \in TaskRecord /\ TaskOK(k)
  BY <1>1 DEF TasksOK
<1>3. /\ k.pc \notin {"new", "return"} /\ \A u \in Tasks \ {t} : task'[u] = task[u]
  BY <1>1 DEF ExecuteStep, Lookup, Check, Plan, Ensure, StartAgent, Execute, Save, At, Goes, Fails, TasksOK
<1> SUFFICES TasksOK'
  BY <1>1, <1>3
<1>4. k.pc \notin {"save", "return"} => t \notin shortMem
  BY <1>1 DEF TasksOK
<1>5. ASSUME NEW r \in TaskRecord, TaskOK(r), Goes(t, r), UNCHANGED <<shortMem, longMem>>,
             k.pc \notin {"save", "return"}
      PROVE  TasksOK'
  BY <1>4, <1>5, TaskGoes
<1>6. ASSUME Fails(t), UNCHANGED <<shortMem, longMem>>, k.pc \notin {"save", "return"} PROVE TasksOK'
  BY <1>1, <1>3, <1>6, TaskFails
<1>7. CASE Lookup(t)
  <2>1. k.pc = "lookup" /\ UNCHANGED <<shortMem, longMem>>
    BY <1>1, <1>7 DEF Lookup, At, Rest
  <2>2. PICK a : a = agents[k.name]
    OBVIOUS
  <2>3. CASE a # NoAgent /\ Goes(t, [k EXCEPT !.pc = "check", !.checked = a])
    <3>1. a \in Agents
      BY <1>2, <2>2, <2>3 DEF TaskRecord
    <3>2. PICK r : r = [k EXCEPT !.pc = "check", !.checked = a]
      OBVIOUS
    <3>3. r \in TaskRecord
      BY <1>2, <3>1, <3>2 DEF TaskRecord
    <3>4. DOMAIN Needs[a] = 1..Len(Needs[a]) /\ Len(Needs[a]) \in Nat
      BY <3>1, AgentAssumption
    <3>5. /\ r.pc = "check" /\ r.checked = a /\ r.agent = k.agent /\ r.next = k.next
          /\ k.agent = NoAgent /\ k.next = 1
      BY <1>2, <2>1, <3>2 DEF TaskRecord, TaskOK
    <3>6. TaskOK(r)
      BY <3>1, <3>4, <3>5 DEF TaskOK
    <3> QED
      BY <1>5, <2>1, <2>3, <3>2, <3>3, <3>6
  <2> QED
    BY <1>1, <1>6, <1>7, <2>1, <2>2, <2>3 DEF Lookup
<1>8. CASE Check(t)
  <2>1. k.pc = "check" /\ UNCHANGED <<shortMem, longMem>>
    BY <1>1, <1>8 DEF Check, At, Rest
  <2>2. PICK p : p = Needs[k.checked][k.next]
    OBVIOUS
  <2>3. k.checked \in Agents /\ k.next \in Nat \ {0} /\ k.next <= Len(Needs[k.checked])
    BY <1>1, <1>2, <1>8, <2>1 DEF Check, TaskOK, TaskRecord
  <2>4. p \in Permissions
    BY <2>2, <2>3, AgentAssumption
  <2>5. CASE ~k.subject /\ Goes(t, [k EXCEPT !.next = @ + 1])
    <3>1. PICK r : r = [k EXCEPT !.next = @ + 1]
      OBVIOUS
    <3>2. r \in TaskRecord
      BY <1>2, <3>1 DEF TaskRecord
    <3>3. TaskOK(r)
      BY <1>2, <2>1, <2>5, <3>1 DEF TaskRecord, TaskOK
    <3> QED
      BY <1>5, <2>1, <2>5, <3>1, <3>2, <3>3
  <2>6. CASE p \in roles /\ Goes(t, [k EXCEPT !.next = @ + 1, !.granted = k.granted \cup {p}])
    <3>1. PICK r : r = [k EXCEPT !.next = @ + 1, !.granted = k.granted \cup {p}]
      OBVIOUS
    <3>2. r \in TaskRecord
      <4>1. PICK q : q = k.granted \cup {p}
        OBVIOUS
      <4>2. k.granted \in SUBSET Permissions
        BY <1>2 DEF TaskRecord
      <4>3. q \in SUBSET Permissions
        BY <2>4, <4>1, <4>2
      <4>4. PICK r0 : r0 = [k EXCEPT !.next = @ + 1]
        OBVIOUS
      <4>5. r0 \in TaskRecord
        BY <1>2, <4>4 DEF TaskRecord
      <4>6. r = [r0 EXCEPT !.granted = q]
        BY <1>2, <3>1, <4>1, <4>4 DEF TaskRecord
      <4> QED
        BY <4>3, <4>5, <4>6 DEF TaskRecord
    <3>3. /\ r.pc = "check" /\ r.agent = k.agent /\ r.checked = k.checked /\ r.next = k.next + 1
          /\ r.granted = k.granted \cup {p} /\ r.subject = k.subject
      BY <1>2, <2>1, <3>1 DEF TaskRecord
    <3>4. DOMAIN Needs[k.checked] = 1..Len(Needs[k.checked]) /\ Len(Needs[k.checked]) \in Nat
      BY <2>3, AgentAssumption
    <3>5. k.subject => \A i \in DOMAIN Needs[k.checked] : i < k.next + 1 => Needs[k.checked][i] \in k.granted \cup {p}
      BY <1>2, <2>1, <2>2, <2>3, <3>4 DEF TaskOK
    <3>6. k.agent = NoAgent
      BY <1>2, <2>1 DEF TaskOK
    <3>7. TaskOK(r)
      BY <2>3, <3>3, <3>5, <3>6 DEF TaskOK
    <3> QED
      BY <1>5, <2>1, <2>6, <3>1, <3>2, <3>7
  <2>7. \/ ~k.subject /\ Goes(t, [k EXCEPT !.next = @ + 1])
        \/ p \in roles /\ Goes(t, [k EXCEPT !.next = @ + 1, !.granted = k.granted \cup {p}])
        \/ Fails(t)
    BY <1>1, <1>8, <2>2 DEF Check, Grants
  <2> QED
    BY <1>6, <2>1, <2>5, <2>6, <2>7
<1>9. CASE Plan(t)
  <2>1. k.pc = "check" /\ UNCHANGED <<shortMem, longMem>>
    BY <1>1, <1>9 DEF Plan, At, Rest
  <2>2. PICK a : a = agents[k.name]
    OBVIOUS
  <2>3. CASE a # NoAgent /\ Goes(t, [k EXCEPT !.pc = "start", !.status = "running", !.agent = a])
    <3>1. a \in Agents
      BY <1>2, <2>2, <2>3 DEF TaskRecord
    <3>2. PICK r : r = [k EXCEPT !.pc = "start", !.status = "running", !.agent = a]
      OBVIOUS
    <3>3. r \in TaskRecord
      BY <1>2, <3>1, <3>2 DEF TaskRecord
    <3>4. /\ r.pc = "start" /\ r.agent = a /\ r.checked = k.checked /\ r.granted = k.granted
          /\ r.subject = k.subject /\ k.next \in Nat
      BY <1>2, <3>2 DEF TaskRecord
    <3>5. k.checked \in Agents /\ k.next > Len(Needs[k.checked])
      BY <1>1, <1>2, <1>9, <2>1 DEF Plan, TaskOK
    <3>6. DOMAIN Needs[k.checked] = 1..Len(Needs[k.checked]) /\ Len(Needs[k.checked]) \in Nat
      BY <3>5, AgentAssumption
    <3>7. k.subject => \A i \in DOMAIN Needs[k.checked] : Needs[k.checked][i] \in k.granted
      BY <1>2, <2>1, <3>4, <3>5, <3>6 DEF TaskOK
    <3>8. TaskOK(r)
      BY <3>1, <3>4, <3>7 DEF TaskOK
    <3> QED
      BY <1>5, <2>1, <2>3, <3>2, <3>3, <3>8
  <2> QED
    BY <1>1, <1>6, <1>9, <2>1, <2>2, <2>3 DEF Plan
<1>10. CASE Ensure(t)
  <2>1. k.pc = "start" /\ UNCHANGED <<shortMem, longMem>>
    BY <1>1, <1>10 DEF Ensure, At, Rest
  <2>2. PICK pc \in {"execute", "starting"} : Goes(t, [k EXCEPT !.pc = pc])
    BY <1>1, <1>10 DEF Ensure
  <2>3. PICK r : r = [k EXCEPT !.pc = pc]
    OBVIOUS
  <2>4. r \in TaskRecord
    BY <1>2, <2>3 DEF TaskRecord
  <2>5. TaskOK(r)
    BY <1>2, <2>1, <2>3 DEF TaskRecord, TaskOK
  <2> QED
    BY <1>5, <2>1, <2>2, <2>3, <2>4, <2>5
<1>11. CASE StartAgent(t)
  <2>1. /\ k.pc = "starting" /\ UNCHANGED <<shortMem, longMem>>
        /\ Goes(t, [k EXCEPT !.pc = "execute"]) \/ Fails(t)
    BY <1>1, <1>11 DEF StartAgent, At
  <2>2. CASE Goes(t, [k EXCEPT !.pc = "execute"])
    <3>1. PICK r : r = [k EXCEPT !.pc = "execute"]
      OBVIOUS
    <3>2. r \in TaskRecord
      BY <1>2, <3>1 DEF TaskRecord
    <3>3. TaskOK(r)
      BY <1>2, <2>1, <3>1 DEF TaskRecord, TaskOK
    <3> QED
      BY <1>5, <2>1, <2>2, <3>1, <3>2, <3>3
  <2> QED
    BY <1>6, <2>1, <2>2
<1>12. CASE Execute(t)
  <2>1. /\ k.pc = "execute" /\ UNCHANGED <<shortMem, longMem>>
        /\ Goes(t, [k EXCEPT !.pc = "save", !.status = "completed"]) \/ Fails(t)
    BY <1>1, <1>12 DEF Execute, At, Rest
  <2>2. CASE Goes(t, [k EXCEPT !.pc = "save", !.status = "completed"])
    <3>1. PICK r : r = [k EXCEPT !.pc = "save", !.status = "completed"]
      OBVIOUS
    <3>2. r \in TaskRecord
      BY <1>2, <3>1 DEF TaskRecord
    <3>3. TaskOK(r)
      BY <1>2, <2>1, <3>1 DEF TaskRecord, TaskOK
    <3> QED
      BY <1>5, <2>1, <2>2, <3>1, <3>2, <3>3
  <2> QED
    BY <1>6, <2>1, <2>2
<1>13. CASE Save(t)
  <2>1. k.pc = "save" /\ k.status = "completed"
    BY <1>1, <1>2, <1>13 DEF Save, At, TaskOK
  <2>2. PICK r : r = [k EXCEPT !.pc = "return"]
    OBVIOUS
  <2>3. r \in TaskRecord /\ r.pc = "return" /\ r.status = "completed"
    BY <1>2, <2>1, <2>2 DEF TaskRecord
  <2>4. TaskOK(r)
    BY <1>2, <2>1, <2>2 DEF TaskRecord, TaskOK
  <2>5. CASE shortMem' = shortMem \cup {t} /\ task' = task /\ longMem' = longMem
    BY <1>1, <2>1, <2>5 DEF TasksOK, TaskOK
  <2>6. CASE t \in shortMem /\ longMem' = longMem \cup {t} /\ shortMem' = shortMem /\ Goes(t, r)
    <3>1. /\ task' \in [Tasks -> TaskRecord] /\ task'[t] = r
          /\ \A u \in Tasks \ {t} : task'[u] = task[u]
      BY <2>3, <2>6 DEF TasksOK, Goes
    <3>2. \A u \in Tasks : TaskOK(task'[u])
      <4> TAKE u \in Tasks
      <4>1. CASE u = t
        BY <2>4, <3>1, <4>1
      <4>2. CASE u # t
        BY <3>1, <4>2 DEF TasksOK
      <4> QED
        BY <4>1, <4>2
    <3>3. \A u \in Tasks : TaskOK(task[u])'
      BY <3>2 DEF TaskOK
    <3> QED
      BY <2>3, <2>6, <3>1, <3>3 DEF TasksOK
  <2>7. CASE Goes(t, r) /\ UNCHANGED <<shortMem, longMem>>
    BY <2>3, <2>4, <2>7, TaskGoes
  <2> QED
    BY <1>1, <1>13, <2>2, <2>5, <2>6, <2>7 DEF Save
<1> QED
  BY <1>7, <1>8, <1>9, <1>10, <1>11, <1>12, <1>13 DEF ExecuteStep

\* The executor starts an agent while a sweep may be under way.
LEMMA StartKeepsSweeps ==
    ASSUME SweepsOK, NEW a \in Agents, started' = [started EXCEPT ![a] = TRUE],
           running' = [running EXCEPT ![a] = @ \/ a \in SelfMarking], UNCHANGED <<agents, sweep>>
    PROVE  SweepsOK'
<1>1. running \in [Agents -> BOOLEAN] /\ started \in [Agents -> BOOLEAN]
  BY DEF SweepsOK
<1>2. running' \in [Agents -> BOOLEAN] /\ started' \in [Agents -> BOOLEAN]
  BY <1>1, Zenon
<1>3. /\ started'[a] = TRUE
      /\ \A b \in Agents \ {a} : started'[b] = started[b] /\ running'[b] = running[b]
  BY <1>1
<1>4. RunningMeansStarted'
  BY <1>3 DEF SweepsOK, RunningMeansStarted
<1>5. sweep.now # NoAgent /\ sweep.op = "start" => started'[sweep.now]
  BY <1>3 DEF SweepsOK
<1> QED
  BY <1>2, <1>4, <1>5 DEF SweepsOK

\* start_agents and stop_agents, one agent at a step.
LEMMA SweepKeepsSweeps ==
    ASSUME SweepsOK, EndSweep \/ \E a \in Agents : SweepOne(a) \/ MarkOne(a)
    PROVE  SweepsOK'
<1>1. /\ running \in [Agents -> BOOLEAN] /\ started \in [Agents -> BOOLEAN]
      /\ sweep \in [op : {"none", "start", "stop"}, todo : SUBSET Agents, now : Agents \cup {NoAgent}]
  BY DEF SweepsOK
<1>2. /\ NoSweep.op = "none" /\ NoSweep.todo = {} /\ NoSweep.now = NoAgent
      /\ NoSweep \in [op : {"none", "start", "stop"}, todo : SUBSET Agents, now : Agents \cup {NoAgent}]
  BY DEF NoSweep
<1>3. ASSUME sweep' = NoSweep, sweep.now = NoAgent, UNCHANGED <<agents, running, started>>
      PROVE  SweepsOK'
  BY <1>2, <1>3, AgentAssumption DEF SweepsOK, RunningMeansStarted
<1>4. CASE EndSweep
  <2>1. sweep' = NoSweep /\ sweep.todo = {} /\ UNCHANGED <<agents, running, started>>
    BY <1>4 DEF EndSweep
  <2>2. sweep.now = NoAgent
    BY <2>1 DEF SweepsOK
  <2> QED
    BY <1>3, <2>1, <2>2
<1>5. ASSUME NEW a \in Agents, MarkOne(a) PROVE SweepsOK'
  <2>1. /\ sweep.now = a /\ running' = [running EXCEPT ![a] = (sweep.op = "start")]
        /\ sweep' = [sweep EXCEPT !.todo = @ \ {a}, !.now = NoAgent] /\ UNCHANGED <<agents, started>>
    BY <1>5 DEF MarkOne
  <2>2. running' \in [Agents -> BOOLEAN]
    BY <1>1, <2>1, Zenon
  <2>3. /\ running'[a] = (sweep.op = "start") /\ \A b \in Agents \ {a} : running'[b] = running[b]
    BY <1>1, <2>1
  <2>4. /\ sweep' \in [op : {"none", "start", "stop"}, todo : SUBSET Agents, now : Agents \cup {NoAgent}]
        /\ sweep'.now = NoAgent /\ sweep'.op = sweep.op
    BY <1>1, <2>1
  <2>5. a # NoAgent
    BY AgentAssumption
  <2>6. sweep.op = "start" => started[a]
    BY <2>1, <2>5 DEF SweepsOK
  <2>7. \A b \in Agents : running'[b] => started[b]
    BY <2>1, <2>3, <2>6 DEF SweepsOK, RunningMeansStarted
  <2> QED
    BY <2>1, <2>2, <2>4, <2>7 DEF SweepsOK, RunningMeansStarted
<1>6. ASSUME NEW a \in Agents, SweepOne(a) PROVE SweepsOK'
  <2>1. a \in sweep.todo /\ sweep.now = NoAgent /\ UNCHANGED agents
    BY <1>6 DEF SweepOne
  <2>2. \A b \in Agents : running[b] => started[b]
    BY <2>1, AgentAssumption DEF SweepsOK, RunningMeansStarted
  <2>3. \/ sweep.op = "start" /\ StartOne(a)
        \/ sweep.op = "stop" /\ StopOne(a)
        \/ sweep' = [sweep EXCEPT !.todo = @ \ {a}] /\ UNCHANGED <<running, started>>
    BY <1>6 DEF SweepOne
  <2>4. CASE sweep' = NoSweep /\ UNCHANGED <<running, started>>
    BY <1>3, <2>1, <2>4
  <2>5. ASSUME NEW b \in BOOLEAN, sweep.op = IF b THEN "start" ELSE "stop", Hooked(a),
               started' = [started EXCEPT ![a] = b], UNCHANGED running
        PROVE  SweepsOK'
    <3>1. /\ sweep' \in [op : {"none", "start", "stop"}, todo : SUBSET Agents, now : Agents \cup {NoAgent}]
          /\ sweep'.now = a /\ sweep'.op = sweep.op /\ sweep'.todo = sweep.todo
      BY <1>1, <2>5 DEF Hooked
    <3>2. started' \in [Agents -> BOOLEAN]
      BY <1>1, <2>5, Zenon
    <3>3. started'[a] = b /\ \A c \in Agents \ {a} : started'[c] = started[c]
      BY <1>1, <2>5
    <3>4. RunningMeansStarted'
      <4>1. CASE b = TRUE
        BY <2>2, <2>5, <3>3, <4>1 DEF RunningMeansStarted
      <4>2. CASE b = FALSE
        BY <2>2, <2>5, <3>1, <3>3, <4>2 DEF RunningMeansStarted
      <4> QED
        BY <4>1, <4>2, Zenon
    <3>5. sweep'.op = "start" => started'[a]
      BY <2>5, <3>1, <3>3
    <3> QED
      BY <2>1, <2>5, <3>1, <3>2, <3>4, <3>5 DEF SweepsOK
  <2>6. CASE sweep' = [sweep EXCEPT !.todo = @ \ {a}] /\ UNCHANGED <<running, started>>
    <3>1. /\ sweep' \in [op : {"none", "start", "stop"}, todo : SUBSET Agents, now : Agents \cup {NoAgent}]
          /\ sweep'.now = NoAgent
      BY <1>1, <2>1, <2>6
    <3> QED
      BY <1>1, <2>1, <2>2, <2>6, <3>1 DEF SweepsOK, RunningMeansStarted
  <2> QED
    BY <2>3, <2>4, <2>5, <2>6 DEF StartOne, StopOne
<1> QED
  BY <1>4, <1>5, <1>6

\* What the tasks and the sweeps say does not depend on the audit and the roles.
LEMMA TasksStay == TasksOK /\ UNCHANGED <<task, shortMem, longMem>> => TasksOK'
  BY DEF TasksOK, TaskOK

\* What the sweeps say survives any change of the table of agents.
LEMMA SweepsStay ==
    SweepsOK /\ UNCHANGED <<running, started, sweep>> /\ agents' \in [AgentNames -> Agents \cup {NoAgent}]
      => SweepsOK'
  BY DEF SweepsOK, RunningMeansStarted

\* Registering, removing and sweeping agents, changing roles and asking for
\* permissions.
LEMMA ManageKeeps ==
    ASSUME TasksOK, SweepsOK, AuditOK, Manage
    PROVE  TasksOK' /\ SweepsOK' /\ AuditOK' /\ task' = task
<1>1. agents \in [AgentNames -> Agents \cup {NoAgent}]
  BY DEF SweepsOK
<1>2. ASSUME NEW es \in Seq(AuditEvents), audit' = Logged(audit, es), roles' \subseteq Permissions
      PROVE  AuditOK'
  <2>1. audit \in Seq(AuditEvents)
    BY DEF AuditOK, AuditEvents
  <2>2. Logged(audit, es) \in Seq(AuditEvents) /\ Len(Logged(audit, es)) <= MaxAudit
    BY <2>1, LoggedIsBounded
  <2> QED
    BY <1>2, <2>2 DEF AuditOK, AuditEvents
<1>3. \A p : <<Verdict(p)>> \in Seq(AuditEvents) /\ <<"SUCCESS">> \in Seq(AuditEvents) /\ <<"DENIED">> \in Seq(AuditEvents)
  BY DEF Verdict, AuditEvents
<1>4. task' = task /\ UNCHANGED <<shortMem, longMem>>
  BY DEF Manage, register_role, validate_access, validate_api_access, register_agent, remove_agent,
         BeginSweep, EndSweep, SweepOne, MarkOne
<1>5. TasksOK'
  BY <1>4, TasksStay
<1>6. ASSUME UNCHANGED <<roles, audit>> PROVE AuditOK'
  BY <1>6 DEF AuditOK
<1>7. ASSUME NEW ps \in SUBSET Permissions, register_role(ps) PROVE SweepsOK' /\ AuditOK'
  BY <1>1, <1>2, <1>3, <1>7, SweepsStay DEF register_role
<1>8. ASSUME NEW p \in Permissions, validate_access(p) PROVE SweepsOK' /\ AuditOK'
  BY <1>1, <1>2, <1>3, <1>8, SweepsStay DEF validate_access, AuditOK
<1>9. ASSUME NEW p \in Permissions, NEW known \in BOOLEAN, validate_api_access(p, known)
      PROVE  SweepsOK' /\ AuditOK'
  <2>1. \/ audit' = Logged(audit, <<Verdict(p)>>) \/ audit' = Logged(audit, <<"DENIED">>)
    BY <1>9 DEF validate_api_access
  <2>2. UNCHANGED <<agents, running, started, sweep, roles>>
    BY <1>9 DEF validate_api_access
  <2> QED
    BY <1>1, <1>2, <1>3, <2>1, <2>2, SweepsStay DEF AuditOK
<1>10. ASSUME NEW a \in Agents, NEW subject \in BOOLEAN, register_agent(a, subject)
       PROVE  SweepsOK' /\ AuditOK'
  <2>1. UNCHANGED <<running, started, sweep, roles>>
    BY <1>10 DEF register_agent
  <2>2. agents' = agents \/ agents' = [agents EXCEPT ![NameOf[a]] = a]
    BY <1>10, Zenon DEF register_agent
  <2>3. agents' \in [AgentNames -> Agents \cup {NoAgent}]
    <3>1. CASE agents' = agents
      BY <1>1, <3>1
    <3>2. CASE agents' = [agents EXCEPT ![NameOf[a]] = a]
      BY <1>1, <3>2
    <3> QED
      BY <2>2, <3>1, <3>2
  <2>4. audit' = audit \/ audit' = Logged(audit, Verdicts(Needs[a]))
    BY <1>10, Zenon DEF register_agent
  <2>5. Verdicts(Needs[a]) \in Seq(AuditEvents)
    BY VerdictsAreEvents, AgentAssumption
  <2>6. AuditOK'
    BY <1>2, <1>6, <2>1, <2>4, <2>5 DEF AuditOK
  <2> QED
    BY <2>1, <2>3, <2>6, SweepsStay
<1>11. ASSUME NEW n \in AgentNames, remove_agent(n) PROVE SweepsOK' /\ AuditOK'
  <2>1. /\ UNCHANGED <<running, started, sweep, roles, audit>>
        /\ agents' = [agents EXCEPT ![n] = NoAgent]
    BY <1>11 DEF remove_agent
  <2>2. agents' \in [AgentNames -> Agents \cup {NoAgent}]
    BY <1>1, <2>1
  <2> QED
    BY <1>6, <2>1, <2>2, SweepsStay
<1>12. ASSUME NEW op \in {"start", "stop"}, BeginSweep(op) PROVE SweepsOK' /\ AuditOK'
  <2>1. /\ UNCHANGED <<agents, running, started, roles, audit>> /\ Unlocked
        /\ sweep' = [op |-> op, todo |-> Registered, now |-> NoAgent]
    BY <1>12 DEF BeginSweep
  <2>2. Registered \subseteq Agents
    BY <1>1 DEF Registered
  <2>3. /\ sweep' \in [op : {"none", "start", "stop"}, todo : SUBSET Agents, now : Agents \cup {NoAgent}]
        /\ sweep'.now = NoAgent
    BY <2>1, <2>2
  <2>4. sweep.op = "none"
    BY <2>1 DEF Unlocked, NoSweep
  <2> QED
    BY <1>6, <2>1, <2>3, <2>4 DEF SweepsOK, RunningMeansStarted
<1>13. ASSUME EndSweep \/ \E a \in Agents : SweepOne(a) \/ MarkOne(a) PROVE SweepsOK' /\ AuditOK'
  <2>1. UNCHANGED <<roles, audit>>
    BY <1>13 DEF EndSweep, SweepOne, MarkOne
  <2> QED
    BY <1>6, <1>13, <2>1, SweepKeepsSweeps
<1> QED
  BY <1>4, <1>5, <1>7, <1>8, <1>9, <1>10, <1>11, <1>12, <1>13 DEF Manage

\* A step of a task.
LEMMA StepKeepsRest ==
    ASSUME TasksOK, SweepsOK, AuditOK, NEW t \in Tasks, ExecuteStep(t)
    PROVE  SweepsOK' /\ AuditOK'
<1>1. agents \in [AgentNames -> Agents \cup {NoAgent}]
  BY DEF SweepsOK
<1>2. UNCHANGED <<agents, sweep, roles>>
  BY DEF ExecuteStep, Lookup, Check, Plan, Ensure, StartAgent, Execute, Save, Rest
<1>3. audit' = audit \/ \E p : audit' = Logged(audit, <<Verdict(p)>>)
  <2>1. CASE Check(t)
    BY <2>1 DEF Check
  <2>2. CASE ~Check(t)
    BY <2>2 DEF ExecuteStep, Lookup, Plan, Ensure, StartAgent, Execute, Save
  <2> QED
    BY <2>1, <2>2
<1>4. AuditOK'
  <2>1. CASE audit' = audit
    BY <1>2, <2>1 DEF AuditOK
  <2>2. ASSUME NEW p, audit' = Logged(audit, <<Verdict(p)>>) PROVE AuditOK'
    <3>1. audit \in Seq(AuditEvents) /\ <<Verdict(p)>> \in Seq(AuditEvents)
      BY DEF AuditOK, AuditEvents, Verdict
    <3>2. audit' \in Seq(AuditEvents) /\ Len(audit') <= MaxAudit
      BY <2>2, <3>1, LoggedIsBounded
    <3> QED
      BY <1>2, <3>2 DEF AuditOK, AuditEvents
  <2> QED
    BY <1>3, <2>1, <2>2
<1>5. SweepsOK'
  <2>1. CASE UNCHANGED <<running, started>>
    BY <1>1, <1>2, <2>1, SweepsStay
  <2>2. CASE StartAgent(t)
    <3>1. task[t].agent \in Agents
      BY <2>2 DEF StartAgent, At, TasksOK, TaskOK
    <3> QED
      BY <1>2, <2>1, <2>2, <3>1, StartKeepsSweeps DEF StartAgent
  <2>3. CASE ~StartAgent(t)
    BY <2>1, <2>3 DEF ExecuteStep, Lookup, Check, Plan, Ensure, Execute, Save, Rest
  <2> QED
    BY <2>2, <2>3
<1> QED
  BY <1>4, <1>5

\* A task is submitted.
LEMMA SubmitKeeps ==
    ASSUME TasksOK, SweepsOK, AuditOK, NEW t \in Tasks, NEW n \in AgentNames, NEW subject \in BOOLEAN,
           Submit(t, n, subject)
    PROVE  /\ TasksOK' /\ SweepsOK' /\ AuditOK'
           /\ task[t].pc = "new" /\ \A u \in Tasks \ {t} : task'[u] = task[u]
<1>1. PICK r : r = [task[t] EXCEPT !.pc = "lookup", !.name = n, !.subject = subject]
  OBVIOUS
<1>2. task[t] \in TaskRecord /\ TaskOK(task[t])
  BY DEF TasksOK
<1>3. r \in TaskRecord
  BY <1>1, <1>2 DEF TaskRecord
<1>4. /\ task[t].pc = "new" /\ Goes(t, r) /\ UNCHANGED <<shortMem, longMem>>
      /\ UNCHANGED <<agents, running, started, sweep, roles, audit>>
  BY <1>1 DEF Submit, At, Rest
<1>5. t \notin shortMem
  BY <1>4 DEF TasksOK
<1>6. TaskOK(r)
  BY <1>1, <1>2, <1>4 DEF TaskRecord, TaskOK
<1>7. TasksOK'
  BY <1>3, <1>4, <1>5, <1>6, TaskGoes
<1>8. SweepsOK' /\ AuditOK'
  BY <1>4, SweepsStay DEF SweepsOK, AuditOK
<1> QED
  BY <1>4, <1>7, <1>8 DEF Goes, TasksOK

\* One request goes on, and at most the task of its thread.
LEMMA RequestGoes ==
    ASSUME RequestsOK, NEW t \in Servers, NEW r \in RequestRecord, req' = [req EXCEPT ![t] = r],
           auth' = auth, RequestOK(r, task'[t]), \A u \in Servers \ {t} : task'[u] = task[u]
    PROVE  RequestsOK'
<1>1. /\ req' \in [Servers -> RequestRecord] /\ req'[t] = r
      /\ \A u \in Servers \ {t} : req'[u] = req[u]
  BY DEF RequestsOK
<1>2. \A u \in Servers : RequestOK(req'[u], task'[u])
  <2> TAKE u \in Servers
  <2>1. CASE u = t
    BY <1>1, <2>1
  <2>2. CASE u # t
    BY <1>1, <2>2 DEF RequestsOK
  <2> QED
    BY <2>1, <2>2
<1>3. \A u \in Servers : RequestOK(req[u], task[u])'
  BY <1>2 DEF RequestOK, authenticate
<1> QED
  BY <1>1, <1>3 DEF RequestsOK

\* No request goes on, and no task whose server thread waits for its start or
\* has seen its end.
LEMMA RequestsStay ==
    ASSUME RequestsOK, UNCHANGED gwVars,
           \A u \in Servers : task'[u] = task[u] \/ task[u].pc \notin {"new", "return"}
    PROVE  RequestsOK'
<1>1. \A u \in Servers : RequestOK(req'[u], task'[u])
  <2> TAKE u \in Servers
  <2>1. RequestOK(req[u], task[u]) /\ req'[u] = req[u]
    BY DEF RequestsOK, gwVars
  <2>2. CASE task'[u] = task[u]
    BY <2>1, <2>2
  <2>3. CASE task[u].pc \notin {"new", "return"}
    BY <2>1, <2>3 DEF RequestOK
  <2> QED
    BY <2>2, <2>3
<1>2. \A u \in Servers : RequestOK(req[u], task[u])'
  BY <1>1 DEF RequestOK, authenticate, gwVars
<1> QED
  BY <1>2 DEF RequestsOK, gwVars

\* What the handlers make of a request is a request.
LEMMA RequestTypes ==
    ASSUME NEW r \in RequestRecord
    PROVE  /\ \A s \in Statuses : [r EXCEPT !.pc = "reply", !.status = s] \in RequestRecord
           /\ \A s \in Statuses : [r EXCEPT !.pc = "reply", !.status = s, !.called = TRUE] \in RequestRecord
           /\ [r EXCEPT !.pc = "execute", !.called = TRUE] \in RequestRecord
  BY DEF RequestRecord

\* The same, for what a handler makes of a request.
LEMMA ReplyType ==
    ASSUME NEW r \in RequestRecord, NEW s \in Statuses, NEW q,
           \/ q = [r EXCEPT !.pc = "reply", !.status = s]
           \/ q = [r EXCEPT !.pc = "reply", !.status = s, !.called = TRUE]
           \/ q = [r EXCEPT !.pc = "execute", !.called = TRUE]
    PROVE  q \in RequestRecord
<1>1. CASE q = [r EXCEPT !.pc = "reply", !.status = s]
  BY <1>1, RequestTypes, Zenon
<1>2. CASE q = [r EXCEPT !.pc = "reply", !.status = s, !.called = TRUE]
  BY <1>2, RequestTypes, Zenon
<1>3. CASE q = [r EXCEPT !.pc = "execute", !.called = TRUE]
  BY <1>3, RequestTypes, Zenon
<1> QED
  BY <1>1, <1>2, <1>3

\* A thread without a request.
LEMMA NoRequestOK == \A k : NoRequest \in RequestRecord /\ RequestOK(NoRequest, k)
<1>1. 0 \in Statuses
  BY DEF Statuses
<1>2. "complete" \in Forms
  BY DEF Forms
<1>3. NoRequest \in RequestRecord
  BY <1>1, <1>2 DEF NoRequest, RequestRecord
<1>4. \A k : RequestOK(NoRequest, k)
  BY DEF NoRequest, RequestOK
<1> QED
  BY <1>3, <1>4

\* The handlers of the gateway.
LEMMA HandlersKeep ==
    ASSUME GatewayInv, NEW t \in Servers,
           \/ Dispatch(t) \/ FieldMissing(t) \/ HandleCall(t) \/ HandleExecute(t) \/ Executed(t) \/ Respond(t)
    PROVE  GatewayInv'
<1>1. PICK r : r = req[t]
  OBVIOUS
<1>2. /\ RequestsOK /\ r \in RequestRecord /\ RequestOK(r, task[t]) /\ t \in Tasks
      /\ req \in [Servers -> RequestRecord]
  BY <1>1, GatewayAssumption DEF GatewayInv, RequestsOK
<1> DEFINE StatusList == {0, 200, 201, 400, 401, 403, 404, 500}
<1>0. StatusList \subseteq Statuses
  BY DEF Statuses
<1>3. ASSUME UNCHANGED agVars, RequestsOK' PROVE GatewayInv'
  <2>1. UNCHANGED <<agents, running, started, sweep, roles, audit, task, shortMem, longMem>>
    BY <1>3 DEF agVars
  <2> QED
    BY <1>3, <2>1, TasksStay, SweepsStay DEF GatewayInv, SweepsOK, AuditOK
<1>4. ASSUME NEW q \in RequestRecord, RequestOK(q, task[t]), req' = [req EXCEPT ![t] = q],
             UNCHANGED <<auth, agVars>>
      PROVE  GatewayInv'
  <2>1. task' = task
    BY <1>4 DEF agVars
  <2>2. RequestsOK'
    BY <1>2, <1>4, <2>1, RequestGoes
  <2> QED
    BY <1>3, <1>4, <2>2
<1>5. CASE Dispatch(t)
  <2> DEFINE status(o) == IF o.form = "malformed" THEN 400
                          ELSE IF authenticate(o.token) # 200 THEN authenticate(o.token)
                          ELSE IF o.route \notin Routes THEN 404 ELSE 0
             made(o) == [pc |-> IF status(o) = 0 THEN "handle" ELSE "reply", route |-> o.route,
                         token |-> o.token, form |-> o.form, status |-> status(o), called |-> FALSE]
  <2>0. PICK o \in Offered : req' = [req EXCEPT ![t] = made(o)]
    BY <1>5, Zenon DEF Dispatch
  <2> HIDE DEF status, made
  <2>9. PICK s : s = status(o)
    OBVIOUS
  <2>10. PICK q : q = made(o)
    OBVIOUS
  <2>11. req' = [req EXCEPT ![t] = q]
    BY <2>0, <2>10
  <2>1. /\ s = IF o.form = "malformed" THEN 400
               ELSE IF authenticate(o.token) # 200 THEN authenticate(o.token)
               ELSE IF o.route \notin Routes THEN 404 ELSE 0
        /\ q = [pc |-> IF s = 0 THEN "handle" ELSE "reply", route |-> o.route, token |-> o.token,
                form |-> o.form, status |-> s, called |-> FALSE]
    BY <2>9, <2>10, Zenon DEF status, made
  <2>2. o \in [route : Routes \cup {Unrouted}, token : Tokens \cup {NoToken}, form : Forms]
    BY OfferedAssumption
  <2>3. authenticate(o.token) \in {200, 401, 403}
    BY DEF authenticate
  <2>4. s \in {0, 400, 401, 403, 404} /\ (s = 0 => authenticate(o.token) = 200 /\ o.route \in Routes)
    BY <2>1, <2>3
  <2>5. q \in RequestRecord
    <3>1. s \in Statuses
      BY <1>0, <2>4
    <3>2. PICK pc \in {"handle", "reply"} :
            q = [pc |-> pc, route |-> o.route, token |-> o.token, form |-> o.form, status |-> s, called |-> FALSE]
      BY <2>1
    <3> QED
      BY <2>2, <3>1, <3>2 DEF RequestRecord
  <2>6. task[t].pc = "new" /\ UNCHANGED <<auth, agVars>>
    BY <1>5 DEF Dispatch, At
  <2>7. RequestOK(q, task[t])
    BY <2>1, <2>4, <2>6 DEF RequestOK
  <2> QED
    BY <1>4, <2>5, <2>6, <2>7, <2>11
<1>6. CASE FieldMissing(t)
  <2>0. PICK s \in {400, 500} : Replies(t, s) /\ r.pc = "handle" /\ UNCHANGED <<auth, agVars>>
    BY <1>1, <1>6, Zenon DEF FieldMissing
  <2>1. PICK q : q = [r EXCEPT !.pc = "reply", !.status = s]
    OBVIOUS
  <2>2. q \in RequestRecord
    <3>1. s \in Statuses
      BY <1>0
    <3>2. r \in RequestRecord
      BY <1>2
    <3> QED
      BY <2>1, <3>1, <3>2, ReplyType, ZenonT(40)
  <2>3. req' = [req EXCEPT ![t].pc = "reply", ![t].status = s]
    BY <2>0 DEF Replies
  <2>4. req' = [req EXCEPT ![t] = q]
    BY <1>1, <1>2, <2>1, <2>3, ZenonT(40) DEF RequestRecord
  <2>5. RequestOK(q, task[t])
    BY <1>2, <2>0, <2>1 DEF RequestOK, RequestRecord
  <2> QED
    BY <1>4, <2>0, <2>2, <2>4, <2>5
<1>7. CASE HandleCall(t)
  <2>0. PICK s \in {IF req[t].route \in Creating THEN 201 ELSE 200, 400, 500} :
           req' = [req EXCEPT ![t].pc = "reply", ![t].status = s, ![t].called = TRUE]
    BY <1>7 DEF HandleCall
  <2>1. PICK q : q = [r EXCEPT !.pc = "reply", !.status = s, !.called = TRUE]
    OBVIOUS
  <2>2. q \in RequestRecord
    <3>1. s \in StatusList
      BY <2>0
    <3> QED
      <4>1. s \in Statuses
        BY <1>0, <3>1
      <4>2. r \in RequestRecord
        BY <1>2
      <4> QED
        BY <2>1, <4>1, <4>2, ReplyType, ZenonT(40)
  <2>5. req' = [req EXCEPT ![t] = q]
    BY ZenonT(40), <1>1, <1>2, <2>0, <2>1 DEF RequestRecord
  <2>3. r.pc = "handle" /\ r.route \notin ExecuteRoutes /\ UNCHANGED <<auth, agVars>>
    BY <1>1, <1>7 DEF HandleCall
  <2>4. RequestOK(q, task[t])
    BY <1>2, <2>1, <2>3 DEF RequestOK, RequestRecord
  <2> QED
    BY <1>4, <2>2, <2>3, <2>4, <2>5
<1>8. CASE HandleExecute(t)
  <2>1. r.pc = "handle" /\ r.route \in ExecuteRoutes /\ auth' = auth
    BY <1>1, <1>8 DEF HandleExecute
  <2>2. CASE Replies(t, 500) /\ UNCHANGED agVars
    <3>1. PICK q : q = [r EXCEPT !.pc = "reply", !.status = 500]
      OBVIOUS
    <3>2. q \in RequestRecord
      <4>1. 500 \in Statuses
        BY <1>0
      <4>2. r \in RequestRecord
        BY <1>2
      <4> QED
        BY <3>1, <4>1, <4>2, ReplyType, ZenonT(40)
    <3>3. req' = [req EXCEPT ![t] = q]
      BY ZenonT(40), <1>1, <1>2, <2>2, <3>1 DEF Replies
    <3>4. RequestOK(q, task[t])
      BY <1>2, <2>1, <3>1 DEF RequestOK, RequestRecord
    <3> QED
      BY <1>4, <2>1, <2>2, <3>2, <3>3, <3>4
  <2>3. CASE /\ \E n \in AgentNames : Submit(t, n, FALSE)
             /\ req' = [req EXCEPT ![t].pc = "execute", ![t].called = TRUE]
    <3>1. PICK q : q = [r EXCEPT !.pc = "execute", !.called = TRUE]
      OBVIOUS
    <3>2. q \in RequestRecord
      <4>1. 500 \in Statuses
        BY <1>0
      <4>2. r \in RequestRecord
        BY <1>2
      <4> QED
        BY <3>1, <4>1, <4>2, ReplyType, ZenonT(40)
    <3>3. req' = [req EXCEPT ![t] = q]
      BY <1>1, <1>2, <2>3, <3>1
    <3>4. /\ TasksOK' /\ SweepsOK' /\ AuditOK' /\ \A u \in Tasks \ {t} : task'[u] = task[u]
      BY <1>2, <2>3, SubmitKeeps DEF GatewayInv
    <3>5. RequestOK(q, task'[t])
      BY <1>2, <2>1, <3>1 DEF RequestOK, RequestRecord
    <3>6. RequestsOK'
      BY <1>2, <2>1, <3>2, <3>3, <3>4, <3>5, GatewayAssumption, RequestGoes
    <3> QED
      BY <3>4, <3>6 DEF GatewayInv
  <2> QED
    BY <1>8, <2>2, <2>3 DEF HandleExecute
<1>9. CASE Executed(t)
  <2>1. PICK q : q = [r EXCEPT !.pc = "reply", !.status = 200]
    OBVIOUS
  <2>2. q \in RequestRecord
    <3>1. 200 \in Statuses
      BY <1>0
    <3>2. r \in RequestRecord
      BY <1>2
    <3> QED
      BY <2>1, <3>1, <3>2, ReplyType, ZenonT(40)
  <2>3. /\ r.pc = "execute" /\ task[t].pc = "return" /\ UNCHANGED <<auth, agVars>>
        /\ req' = [req EXCEPT ![t] = q]
    BY <1>1, <1>2, <1>9, <2>1 DEF Executed, Replies, At
  <2>4. RequestOK(q, task[t])
    BY <1>2, <2>1, <2>3 DEF RequestOK, RequestRecord
  <2> QED
    BY <1>4, <2>2, <2>3, <2>4
<1>10. CASE Respond(t)
  <2>1. NoRequest \in RequestRecord /\ RequestOK(NoRequest, task[t])
    BY NoRequestOK
  <2>2. UNCHANGED <<auth, agVars>> /\ req' = [req EXCEPT ![t] = NoRequest]
    BY <1>10 DEF Respond
  <2> QED
    BY <1>4, <2>1, <2>2
<1> QED
  BY <1>5, <1>6, <1>7, <1>8, <1>9, <1>10

\* Every step of the gateway, the tasks' own included, keeps its invariant.
LEMMA NextGatewayInv == GatewayInv /\ [GatewayNext]_gatewayVars => GatewayInv'
<1> SUFFICES ASSUME GatewayInv, [GatewayNext]_gatewayVars PROVE GatewayInv'
  OBVIOUS
<1>1. TasksOK /\ SweepsOK /\ AuditOK /\ RequestsOK /\ Servers \subseteq Tasks
  BY GatewayAssumption DEF GatewayInv
<1>2. ASSUME NEW t \in Tasks \ Servers, NEW n \in AgentNames, NEW subject \in BOOLEAN,
             Submit(t, n, subject), UNCHANGED gwVars
      PROVE  GatewayInv'
  BY <1>1, <1>2, SubmitKeeps, RequestsStay DEF GatewayInv
<1>3. ASSUME NEW t \in Tasks, ExecuteStep(t), UNCHANGED gwVars PROVE GatewayInv'
  <2>1. TasksOK' /\ task[t].pc \notin {"new", "return"} /\ \A u \in Tasks \ {t} : task'[u] = task[u]
    BY <1>1, <1>3, StepKeepsTasks DEF SweepsOK, AuditOK
  <2> QED
    BY <1>1, <1>3, <2>1, StepKeepsRest, RequestsStay DEF GatewayInv
<1>4. CASE Manage /\ UNCHANGED gwVars
  BY <1>1, <1>4, ManageKeeps, RequestsStay DEF GatewayInv
<1>5. CASE UNCHANGED gatewayVars
  <2>1. UNCHANGED <<agents, running, started, sweep, roles, audit, task, shortMem, longMem>> /\ UNCHANGED gwVars
    BY <1>5 DEF gatewayVars, agVars
  <2> QED
    BY <1>1, <2>1, TasksStay, SweepsStay, RequestsStay DEF GatewayInv, SweepsOK, AuditOK
<1> QED
  BY <1>2, <1>3, <1>4, <1>5, HandlersKeep DEF GatewayNext

\* The gateway starts in its invariant.
LEMMA InitGatewayInv == GatewayInit => GatewayInv
<1> SUFFICES ASSUME GatewayInit PROVE GatewayInv
  OBVIOUS
<1>1. \A t \in Tasks : NewTask(t) \in TaskRecord /\ TaskOK(NewTask(t))
  <2>1. (CHOOSE n \in AgentNames : TRUE) \in AgentNames
    BY AgentAssumption
  <2> QED
    BY <2>1 DEF NewTask, TaskRecord, TaskOK
<1>2. TasksOK
  BY <1>1 DEF GatewayInit, AgInit, TasksOK
<1>3. SweepsOK
  <2>1. /\ NoSweep.now = NoAgent
        /\ NoSweep \in [op : {"none", "start", "stop"}, todo : SUBSET Agents, now : Agents \cup {NoAgent}]
    BY DEF NoSweep
  <2>2. /\ agents \in [AgentNames -> Agents \cup {NoAgent}] /\ sweep = NoSweep
        /\ running = [a \in Agents |-> FALSE] /\ started = [a \in Agents |-> FALSE]
    BY DEF GatewayInit, AgInit
  <2>3. running \in [Agents -> BOOLEAN] /\ started \in [Agents -> BOOLEAN]
    BY <2>2, Zenon
  <2> QED
    BY <2>1, <2>2, <2>3 DEF SweepsOK, RunningMeansStarted
<1>4. AuditOK
  BY AgentAssumption DEF GatewayInit, AgInit, AuditOK
<1>5. RequestsOK
  <2>1. \A k : NoRequest \in RequestRecord /\ RequestOK(NoRequest, k)
    BY NoRequestOK
  <2> QED
    BY <2>1, GatewayAssumption DEF GatewayInit, GwInit, RequestsOK
<1> QED
  BY <1>2, <1>3, <1>4, <1>5 DEF GatewayInv

\* AgentsInOrder for any agents, tasks, roles and limit of the audit: an agent
\* marked running was started, a task got past its check only with every
\* permission granted, and memory holds the results of completed tasks.
THEOREM AgentsStayInOrder == GatewaySpec => []AgentsInOrder
<1>1. GatewayInv => AgentsInOrder
  <2> SUFFICES ASSUME GatewayInv PROVE AgentsInOrder
    OBVIOUS
  <2>1. TasksOK /\ SweepsOK /\ AuditOK /\ RequestsOK
    BY DEF GatewayInv
  <2>2. AgentTypeOK
    <3>1. \A t \in Tasks : task[t].status \in {"pending", "running", "completed", "failed"}
      BY <2>1 DEF TasksOK, TaskRecord
    <3>2. \A t \in Servers : req[t].status \in {0, 200, 201, 400, 401, 403, 404, 500}
      <4>1. \A t \in Servers : req[t].status \in Statuses
        BY <2>1 DEF RequestsOK, RequestRecord
      <4> QED
        BY <4>1 DEF Statuses
    <3>3. sweep.todo \subseteq Agents
      BY <2>1 DEF SweepsOK
    <3> QED
      BY <2>1, <3>1, <3>2, <3>3 DEF AgentTypeOK, SweepsOK, AuditOK
  <2>3. ExecutedWasGranted
    BY <2>1 DEF TasksOK, TaskOK, ExecutedWasGranted
  <2> QED
    BY <2>1, <2>2, <2>3 DEF AgentsInOrder, SweepsOK, TasksOK, MemoryInOrder
<1> QED
  BY <1>1, InitGatewayInv, NextGatewayInv, PTL DEF GatewaySpec

\* RequestsInOrder for any tokens, configurations and requests: only a request
\* with a token that the configuration accepts reaches the client, and the
\* answer to an execute request is the final state of its task.
THEOREM RequestsStayInOrder == GatewaySpec => []RequestsInOrder
<1>1. GatewayInv => RequestsInOrder
  <2> SUFFICES ASSUME GatewayInv PROVE RequestsInOrder
    OBVIOUS
  <2>1. TasksOK /\ RequestsOK /\ Servers \subseteq Tasks
    BY GatewayAssumption DEF GatewayInv
  <2>2. ReachedWasAdmitted
    BY <2>1 DEF RequestsOK, RequestOK, ReachedWasAdmitted, authenticate
  <2>3. AnswerIsFinal
    BY <2>1 DEF RequestsOK, RequestOK, AnswerIsFinal, TasksOK, TaskOK, At
  <2> QED
    BY <2>2, <2>3 DEF RequestsInOrder
<1> QED
  BY <1>1, InitGatewayInv, NextGatewayInv, PTL DEF GatewaySpec

-----------------------------------------------------------------------------
(* The providers *)

CallRecord ==
    [pc : {"new", "route", "take", "look", "try", "count", "count_error",
           "returned", "raised", "unrouted", "abandoned"},
     noted : ProviderNames, tries : Seq(Providers \cup {NoProvider}),
     look : Nat \ {0}, at : Nat \ {0}, ok : BOOLEAN, failed : SUBSET Providers]

\* The providers before the one that is tried have failed, and so has that one
\* once its error is to be counted; only the first candidate can be None.
CallOK(r, c) ==
    /\ IsInjective(c.tries)
    /\ \A j \in 1..Len(c.tries) : c.tries[j] = NoProvider => j = 1
    /\ c.pc \in {"new", "route", "take"} => c.look = 1
    /\ c.pc = "look" => c.at = 1
    /\ c.pc \in {"look", "try", "count", "count_error"} => c.at \in 1..Len(c.tries)
    /\ c.pc \in {"count", "count_error"} => c.tries[c.at] \in Providers
    /\ c.pc = "try" => \A j \in 1..(c.at - 1) : c.tries[j] \in c.failed
    /\ c.pc = "count" => \A j \in 1..(c.at - 1) : c.tries[j] \in c.failed
    /\ (c.pc = "count" /\ ~c.ok) \/ c.pc = "count_error" => \A j \in 1..c.at : c.tries[j] \in c.failed
    /\ c.pc = "raised" /\ KindOf[r] = "response" =>
          Head(c.tries) = NoProvider \/ \A j \in 1..Len(c.tries) : c.tries[j] \in c.failed

\* The chain has been looked up as far as look, and to its end before the first
\* attempt; what is settled and registered since is to be tried.  A call that
\* found the table empty has no such name.
ChainOK(r, c) ==
    /\ c.pc \notin {"new", "route", "take", "unrouted", "look"} /\ KindOf[r] = "response" =>
          c.look > Len(Fallbacks[r])
    /\ c.pc # "unrouted" =>
          \A i \in DOMAIN Fallbacks[r] : i < c.look /\ Fallbacks[r][i] \in settled[r] \cap Live =>
              \E j \in 1..Len(c.tries) : c.tries[j] = registry[Fallbacks[r][i]]
    /\ c.pc = "unrouted" /\ KindOf[r] = "response" => settled[r] \cap Live = {}

\* An error is counted after its request.
CountersOK ==
    /\ requests \in [ProviderNames -> Nat] /\ errors \in [ProviderNames -> Nat]
    /\ ended \in [ProviderNames -> Nat]
    /\ lost \in [ProviderNames -> Nat] /\ strays \in [ProviderNames -> Nat]
    /\ \A n \in ProviderNames : /\ ended[n] = lost[n] + requests[n] + Cardinality(Counting(n))
                                /\ errors[n] + Cardinality(Failing(n)) <= requests[n] + strays[n]

CallsOK == /\ registry \in [ProviderNames -> Providers \cup {NoProvider}]
           /\ settled \in [Requests -> SUBSET ProviderNames]
           /\ ai \in [Requests -> CallRecord]
           /\ \A r \in Requests : CallOK(r, ai[r]) /\ ChainOK(r, ai[r])

ProvidersInv == CallsOK /\ CountersOK

\* The calls that wait to count a request or an error change only by the call
\* that goes on.
LEMMA WaitingMoves ==
    ASSUME CallsOK, NEW r \in Requests, NEW c, AiGoes(r, c), NEW n
    PROVE  /\ Counting(n)' = IF c.pc = "count" /\ ProviderName[c.tries[c.at]] = n
                               THEN Counting(n) \cup {r} ELSE Counting(n) \ {r}
           /\ Failing(n)' = IF c.pc = "count_error" /\ ProviderName[c.tries[c.at]] = n
                              THEN Failing(n) \cup {r} ELSE Failing(n) \ {r}
<1>1. ai'[r] = c /\ \A u \in Requests \ {r} : ai'[u] = ai[u]
  BY DEF CallsOK, AiGoes
<1> QED
  BY <1>1 DEF Counting, Failing, AiAt, Trying

\* The calls that are still to be counted can be counted.
LEMMA WaitingIsFinite ==
    \A n : /\ IsFiniteSet(Counting(n)) /\ Cardinality(Counting(n)) \in Nat
           /\ IsFiniteSet(Failing(n)) /\ Cardinality(Failing(n)) \in Nat
<1> TAKE n
<1>1. Counting(n) \in SUBSET Requests /\ Failing(n) \in SUBSET Requests
  BY DEF Counting, Failing
<1>2. IsFiniteSet(Requests)
  BY ProvidersAssumption
<1> QED
  BY <1>1, <1>2, FS_Subset, FS_CardinalityType

\* A step that neither begins nor ends a count leaves the counters in order.
LEMMA NothingCounted ==
    ASSUME CallsOK, CountersOK, NEW r \in Requests, NEW c, AiGoes(r, c),
           ai[r].pc \notin {"count", "count_error"}, c.pc \notin {"count", "count_error"},
           UNCHANGED <<requests, errors, ended, lost, strays>>
    PROVE  CountersOK'
<1>1. \A n : Counting(n)' = Counting(n) /\ Failing(n)' = Failing(n)
  <2> TAKE n
  <2>1. r \notin Counting(n) /\ r \notin Failing(n)
    BY DEF Counting, Failing, AiAt
  <2>2. Counting(n)' = Counting(n) \ {r} /\ Failing(n)' = Failing(n) \ {r}
    BY WaitingMoves
  <2> QED
    BY <2>1, <2>2
<1> QED
  BY <1>1 DEF CountersOK

\* A call goes on.
LEMMA CallGoes ==
    ASSUME CallsOK, NEW r \in Requests, NEW c \in CallRecord, CallOK(r, c), AiGoes(r, c),
           registry' = registry,
           settled' = settled \/ settled' = [settled EXCEPT ![r] = ProviderNames],
           ChainOK(r, c)'
    PROVE  CallsOK'
<1>1. /\ ai' \in [Requests -> CallRecord] /\ ai'[r] = c
      /\ \A u \in Requests \ {r} : ai'[u] = ai[u]
  BY DEF CallsOK, AiGoes
<1>2. /\ settled' \in [Requests -> SUBSET ProviderNames]
      /\ \A u \in Requests \ {r} : settled'[u] = settled[u]
  BY DEF CallsOK
<1>3. \A u \in Requests : CallOK(u, ai[u])'
  <2>1. \A u \in Requests : CallOK(u, ai'[u])
    <3> TAKE u \in Requests
    <3>1. CASE u = r
      BY <1>1, <3>1
    <3>2. CASE u # r
      BY <1>1, <3>2 DEF CallsOK
    <3> QED
      BY <3>1, <3>2
  <2> QED
    BY <2>1 DEF CallOK
<1>4. \A u \in Requests : ChainOK(u, ai[u])'
  <2> TAKE u \in Requests
  <2>1. CASE u = r
    BY <1>1, <2>1 DEF ChainOK
  <2>2. CASE u # r
    <3>1. ChainOK(u, ai[u])
      BY DEF CallsOK
    <3> QED
      BY <1>1, <1>2, <2>2, <3>1 DEF ChainOK, Live
  <2> QED
    BY <2>1, <2>2
<1> QED
  BY <1>1, <1>2, <1>3, <1>4 DEF CallsOK

\* What a call has tried stands while table and settled calls stay.
LEMMA ChainStays ==
    ASSUME NEW r \in Requests, NEW c, registry' = registry, settled' = settled, ChainOK(r, c)
    PROVE  ChainOK(r, c)'
  BY DEF ChainOK, Live

\* A step of a call that counts nothing and leaves the table alone.
LEMMA QuietStep ==
    ASSUME ProvidersInv, NEW r \in Requests, NEW c \in CallRecord, CallOK(r, c), ChainOK(r, c)',
           AiGoes(r, c), ai[r].pc \notin {"count", "count_error"}, c.pc \notin {"count", "count_error"},
           UNCHANGED <<registry, requests, errors, ended, lost, strays>>,
           settled' = settled \/ settled' = [settled EXCEPT ![r] = ProviderNames]
    PROVE  ProvidersInv'
  BY CallGoes, NothingCounted DEF ProvidersInv

\* A call that took what it found for its provider, None included.
LEMMA ChosenKeeps ==
    ASSUME ProvidersInv, NEW r \in Requests, NEW p \in Providers \cup {NoProvider},
           ai[r].pc \in {"route", "take"}, AiGoes(r, Chosen(r, p)),
           UNCHANGED <<registry, settled, requests, errors, ended, lost, strays>>
    PROVE  ProvidersInv'
<1>1. PICK k : k = ai[r]
  OBVIOUS
<1>2. k \in CallRecord /\ CallOK(r, k) /\ k.pc \in {"route", "take"} /\ k.look = 1
  <2>1. k \in CallRecord /\ CallOK(r, k) /\ k.pc \in {"route", "take"}
    BY <1>1 DEF ProvidersInv, CallsOK
  <2> QED
    BY <2>1 DEF CallOK
<1>3. KindOf[r] \in {"response", "stream"}
  BY ProvidersAssumption
<1>4. CASE KindOf[r] = "stream" /\ p = NoProvider
  <2>1. PICK c : c = [k EXCEPT !.pc = "unrouted"]
    OBVIOUS
  <2>2. /\ c \in CallRecord /\ c.pc = "unrouted" /\ c.tries = k.tries
    BY <1>2, <2>1 DEF CallRecord
  <2>3. CallOK(r, c)
    BY <1>2, <2>2 DEF CallOK
  <2>4. AiGoes(r, c)
    BY <1>1, <1>4, <2>1 DEF Chosen
  <2>5. ChainOK(r, c)'
    BY <1>4, <2>2 DEF ChainOK
  <2> QED
    BY <1>1, <1>2, <2>2, <2>3, <2>4, <2>5, QuietStep
<1>5. CASE ~ (KindOf[r] = "stream" /\ p = NoProvider)
  <2>1. PICK pc \in {"try", "look"} : pc = IF KindOf[r] = "stream" THEN "try" ELSE "look"
    OBVIOUS
  <2>2. PICK s : s = <<p>>
    OBVIOUS
  <2>3. s \in Seq(Providers \cup {NoProvider}) /\ Len(s) = 1 /\ s[1] = p /\ IsInjective(s)
    BY <2>2 DEF IsInjective
  <2>4. PICK c : c = [k EXCEPT !.pc = pc, !.at = 1, !.tries = s]
    OBVIOUS
  <2>5. c \in CallRecord /\ c.pc = pc /\ c.tries = s /\ c.at = 1 /\ c.look = 1
    BY <1>2, <2>3, <2>4 DEF CallRecord
  <2>6. CallOK(r, c)
    <3>1. c.at \in 1..Len(c.tries) /\ \A j \in 1..Len(c.tries) : j = 1
      <4>1. c.at = 1 /\ Len(c.tries) = 1
        BY <2>3, <2>5, Zenon
      <4> QED
        BY <4>1
    <3>2. IsInjective(c.tries)
      BY <2>3, <2>5, Zenon
    <3>3. \A j \in 1..(c.at - 1) : FALSE
      BY <2>5
    <3>4. c.pc \in {"try", "look"}
      BY <2>1, <2>5
    <3> QED
      BY <2>5, <3>1, <3>2, <3>3, <3>4 DEF CallOK
  <2>7. AiGoes(r, c)
    <3>1. Chosen(r, p) = c
      BY <1>1, <1>3, <1>5, <2>1, <2>2, <2>4 DEF Chosen
    <3> QED
      BY <3>1
  <2>8. ChainOK(r, c)'
    <3>1. \A i \in DOMAIN Fallbacks[r] : ~ (i < 1)
      BY ProvidersAssumption
    <3> QED
      BY <1>3, <2>1, <2>5, <3>1 DEF ChainOK
  <2> QED
    BY <1>1, <1>2, <2>1, <2>5, <2>6, <2>7, <2>8, QuietStep
<1> QED
  BY <1>4, <1>5

\* A call begins.
LEMMA BeginKeeps ==
    ASSUME ProvidersInv, NEW r \in Requests, Begin(r)
    PROVE  ProvidersInv'
<1>1. PICK k : k = ai[r]
  OBVIOUS
<1>2. k \in CallRecord /\ CallOK(r, k) /\ k.pc = "new"
  BY <1>1 DEF ProvidersInv, CallsOK, Begin, AiAt
<1>3. k.look = 1
  BY <1>2 DEF CallOK
<1>4. /\ settled' = [settled EXCEPT ![r] = ProviderNames]
      /\ UNCHANGED <<registry, requests, errors, ended, lost, strays>>
  BY DEF Begin, NoCount
<1>5. ASSUME NEW c \in CallRecord, c.pc \in {"route", "take"}, c.tries = k.tries, c.look = k.look,
             AiGoes(r, c)
      PROVE  ProvidersInv'
  <2>1. CallOK(r, c)
    BY <1>2, <1>5 DEF CallOK
  <2>2. ChainOK(r, c)'
    <3>1. \A i \in DOMAIN Fallbacks[r] : ~ (i < 1)
      BY ProvidersAssumption
    <3> QED
      BY <1>3, <1>5, <3>1 DEF ChainOK
  <2> QED
    BY <1>1, <1>2, <1>4, <1>5, <2>1, <2>2, QuietStep
<1>6. CASE AiGoes(r, [ai[r] EXCEPT !.pc = "route"])
  <2>1. PICK c : c = [k EXCEPT !.pc = "route"]
    OBVIOUS
  <2>2. c \in CallRecord /\ c.pc = "route" /\ c.tries = k.tries /\ c.look = k.look
    BY <1>2, <2>1 DEF CallRecord
  <2>3. AiGoes(r, c)
    BY <1>1, <1>6, <2>1
  <2> QED
    BY <1>5, <2>2, <2>3
<1>7. CASE /\ KindOf[r] = "stream" /\ Wishes[r] # <<>>
           /\ AiGoes(r, [ai[r] EXCEPT !.pc = "take", !.noted = Head(Wishes[r])])
  <2>1. PICK n : n = Head(Wishes[r])
    OBVIOUS
  <2>2. n \in ProviderNames
    BY <1>7, <2>1, ProvidersAssumption
  <2>3. PICK c : c = [k EXCEPT !.pc = "take", !.noted = n]
    OBVIOUS
  <2>4. c \in CallRecord /\ c.pc = "take" /\ c.tries = k.tries /\ c.look = k.look
    BY <1>2, <2>2, <2>3 DEF CallRecord
  <2>5. AiGoes(r, c)
    BY <1>1, <1>7, <2>1, <2>3
  <2> QED
    BY <1>5, <2>4, <2>5
<1> QED
  BY <1>6, <1>7 DEF Begin

\* The preferences are looked up one by one.
LEMMA RouteKeeps ==
    ASSUME ProvidersInv, NEW r \in Requests, Route(r)
    PROVE  ProvidersInv'
<1>1. PICK k : k = ai[r]
  OBVIOUS
<1>2. k \in CallRecord /\ CallOK(r, k) /\ ChainOK(r, k) /\ k.pc = "route" /\ k.look = 1
  <2>1. k \in CallRecord /\ CallOK(r, k) /\ ChainOK(r, k) /\ k.pc = "route"
    BY <1>1 DEF ProvidersInv, CallsOK, Route, AiAt
  <2> QED
    BY <2>1 DEF CallOK
<1>3. /\ k.at <= Len(Preferences(r))
      /\ UNCHANGED <<registry, settled, requests, errors, ended, lost, strays>>
  BY <1>1 DEF Route, NoCount
<1>4. PICK p : p = registry[Preferences(r)[k.at]]
  OBVIOUS
<1>5. p \in Providers \cup {NoProvider}
  <2>1. PICK w : w = Preferences(r)
    OBVIOUS
  <2>2. Wishes[r] \in Seq(ProviderNames) /\ <<DefaultName, MockName>> \in Seq(ProviderNames)
    BY ProvidersAssumption
  <2>3. w \in Seq(ProviderNames)
    BY <2>1, <2>2, ConcatProperties DEF Preferences
  <2>4. k.at \in 1..Len(w)
    BY <1>2, <1>3, <2>1, <2>3 DEF CallRecord
  <2>5. w[k.at] \in ProviderNames
    BY <2>3, <2>4
  <2> QED
    BY <1>4, <2>1, <2>5 DEF ProvidersInv, CallsOK
<1>6. CASE p = NoProvider
  <2>1. PICK q : q = k.at + 1
    OBVIOUS
  <2>2. q \in Nat \ {0}
    BY <1>2, <2>1 DEF CallRecord
  <2>3. PICK c : c = [k EXCEPT !.at = q]
    OBVIOUS
  <2>4. c \in CallRecord /\ c.pc = "route" /\ c.tries = k.tries /\ c.look = 1
    BY <1>2, <2>2, <2>3 DEF CallRecord
  <2>5. AiGoes(r, c)
    BY <1>1, <1>4, <1>6, <2>1, <2>3 DEF Route
  <2>6. CallOK(r, c)
    BY <1>2, <2>4 DEF CallOK
  <2>7. ChainOK(r, c)'
    <3>1. \A i \in DOMAIN Fallbacks[r] : ~ (i < 1)
      BY ProvidersAssumption
    <3> QED
      BY <2>4, <3>1 DEF ChainOK
  <2> QED
    BY <1>1, <1>2, <1>3, <2>4, <2>5, <2>6, <2>7, QuietStep
<1>7. CASE p # NoProvider
  <2>1. AiGoes(r, Chosen(r, p))
    BY <1>1, <1>4, <1>7 DEF Route
  <2> QED
    BY <1>1, <1>2, <1>3, <1>5, <2>1, ChosenKeeps
<1> QED
  BY <1>6, <1>7

\* A name of the table is noted, or the table is empty: then no name is left
\* that is settled and registered.
LEMMA ListKeeps ==
    ASSUME ProvidersInv, NEW r \in Requests, ListProviders(r)
    PROVE  ProvidersInv'
<1>1. PICK k : k = ai[r]
  OBVIOUS
<1>2. k \in CallRecord /\ CallOK(r, k) /\ k.pc = "route" /\ k.look = 1
  <2>1. k \in CallRecord /\ CallOK(r, k) /\ k.pc = "route"
    BY <1>1, Zenon DEF ProvidersInv, CallsOK, ListProviders, AiAt
  <2> QED
    BY <2>1 DEF CallOK
<1>3. UNCHANGED <<registry, settled, requests, errors, ended, lost, strays>>
  BY Zenon DEF ListProviders, NoCount
<1>4. CASE Live = {} /\ AiGoes(r, [ai[r] EXCEPT !.pc = "unrouted"])
  <2>1. PICK c : c = [k EXCEPT !.pc = "unrouted"]
    OBVIOUS
  <2>2. c \in CallRecord /\ c.pc = "unrouted" /\ c.tries = k.tries
    BY <1>2, <2>1 DEF CallRecord
  <2>3. CallOK(r, c)
    BY <1>2, <2>2 DEF CallOK
  <2>4. AiGoes(r, c)
    BY <1>1, <1>4, <2>1
  <2>5. ChainOK(r, c)'
    <3>1. Live' = {}
      BY <1>3, <1>4 DEF Live
    <3> QED
      BY <2>2, <3>1 DEF ChainOK
  <2> QED
    BY <1>1, <1>2, <1>3, <2>2, <2>3, <2>4, <2>5, QuietStep
<1>5. CASE \E n \in Live : AiGoes(r, [ai[r] EXCEPT !.pc = "take", !.noted = n])
  <2>1. PICK n \in Live : AiGoes(r, [ai[r] EXCEPT !.pc = "take", !.noted = n])
    BY <1>5, Zenon
  <2>2. PICK c : c = [k EXCEPT !.pc = "take", !.noted = n]
    OBVIOUS
  <2>3. c \in CallRecord /\ c.pc = "take" /\ c.tries = k.tries /\ c.look = 1
    BY <1>2, <2>2 DEF CallRecord, Live
  <2>4. CallOK(r, c)
    BY <1>2, <2>3 DEF CallOK
  <2>5. AiGoes(r, c)
    BY <1>1, <2>1, <2>2
  <2>6. ChainOK(r, c)'
    <3>1. \A i \in DOMAIN Fallbacks[r] : ~ (i < 1)
      BY ProvidersAssumption
    <3> QED
      BY <2>3, <3>1 DEF ChainOK
  <2> QED
    BY <1>1, <1>2, <1>3, <2>3, <2>4, <2>5, <2>6, QuietStep
<1> QED
  BY <1>4, <1>5, Zenon DEF ListProviders

\* The noted name is looked up.
LEMMA TakeKeeps ==
    ASSUME ProvidersInv, NEW r \in Requests, Take(r)
    PROVE  ProvidersInv'
<1>1. ai[r].pc = "take" /\ UNCHANGED <<registry, settled, requests, errors, ended, lost, strays>>
  BY DEF Take, AiAt, NoCount
<1>2. ai[r] \in CallRecord
  BY DEF ProvidersInv, CallsOK
<1>3. registry[ai[r].noted] \in Providers \cup {NoProvider}
  BY <1>2 DEF ProvidersInv, CallsOK, CallRecord
<1>4. AiGoes(r, Chosen(r, registry[ai[r].noted]))
  BY DEF Take
<1> QED
  BY <1>1, <1>3, <1>4, ChosenKeeps

\* The chain is looked up.
LEMMA LookUpKeeps ==
    ASSUME ProvidersInv, NEW r \in Requests, LookUp(r)
    PROVE  ProvidersInv'
<1>1. PICK k : k = ai[r]
  OBVIOUS
<1>2. k \in CallRecord /\ CallOK(r, k) /\ ChainOK(r, k) /\ CallsOK /\ CountersOK
  BY <1>1 DEF ProvidersInv, CallsOK
<1>3. /\ k.pc = "look" /\ UNCHANGED <<registry, settled, requests, errors, ended, lost, strays>>
      /\ k.look <= Len(Fallbacks[r])
  BY <1>1 DEF LookUp, AiAt, NoCount
<1>4. /\ k.look \in DOMAIN Fallbacks[r] /\ Fallbacks[r][k.look] \in ProviderNames
      /\ k.look \in Nat \ {0} /\ k.at = 1 /\ k.tries \in Seq(Providers \cup {NoProvider}) /\ Len(k.tries) \in Nat \ {0}
  <2>1. Fallbacks[r] \in Seq(ProviderNames) /\ k.look \in Nat \ {0} /\ k.tries \in Seq(Providers \cup {NoProvider})
    BY <1>2, ProvidersAssumption DEF CallRecord
  <2>2. k.look \in DOMAIN Fallbacks[r] /\ Fallbacks[r][k.look] \in ProviderNames
    BY <1>3, <2>1
  <2>3. k.at = 1 /\ k.at \in 1..Len(k.tries)
    BY <1>2, <1>3 DEF CallOK
  <2> QED
    BY <2>1, <2>2, <2>3
<1>5. PICK p : p = registry[Fallbacks[r][k.look]]
  OBVIOUS
<1>6. p \in Providers \cup {NoProvider}
  BY <1>2, <1>4, <1>5 DEF CallsOK
<1>7. PICK s : s = IF p = NoProvider \/ Contains(k.tries, p) THEN k.tries ELSE Append(k.tries, p)
  OBVIOUS
<1>8. /\ s \in Seq(Providers \cup {NoProvider}) /\ Len(s) \in Nat \ {0} /\ IsInjective(s)
      /\ \A j \in 1..Len(k.tries) : j \in 1..Len(s) /\ s[j] = k.tries[j]
      /\ p # NoProvider => \E j \in 1..Len(s) : s[j] = p
      /\ \A j \in 1..Len(s) : s[j] = NoProvider => j = 1
  <2>1. CASE p = NoProvider \/ Contains(k.tries, p)
    BY <1>2, <1>4, <1>7, <2>1 DEF Contains, CallOK
  <2>2. CASE ~(p = NoProvider \/ Contains(k.tries, p))
    <3>1. p \in Providers /\ s = Append(k.tries, p)
      BY <1>6, <1>7, <2>2
    <3>2. /\ s \in Seq(Providers \cup {NoProvider}) /\ Len(s) = Len(k.tries) + 1
          /\ (\A j \in 1..Len(k.tries) : s[j] = k.tries[j]) /\ s[Len(k.tries) + 1] = p
      BY <1>4, <3>1, AppendProperties
    <3>3. \A j \in 1..Len(k.tries) : k.tries[j] # p
      BY <2>2 DEF Contains
    <3>4. IsInjective(s)
      <4>1. \A i, j \in 1..Len(k.tries) : k.tries[i] = k.tries[j] => i = j
        BY <1>2, <1>4 DEF CallOK, IsInjective
      <4>2. DOMAIN s = 1..(Len(k.tries) + 1)
        BY <3>2
      <4>3. \A i, j \in 1..(Len(k.tries) + 1) : s[i] = s[j] => i = j
        BY <1>4, <3>2, <3>3, <4>1
      <4> QED
        BY <4>2, <4>3 DEF IsInjective
    <3>5. \A j \in 1..(Len(k.tries) + 1) : s[j] = NoProvider => j = 1
      <4>1. \A j \in 1..Len(k.tries) : s[j] = NoProvider => j = 1
        BY <1>2, <1>4, <3>2 DEF CallOK
      <4>2. s[Len(k.tries) + 1] # NoProvider
        BY <3>1, <3>2, ProvidersAssumption
      <4> QED
        BY <1>4, <4>1, <4>2
    <3> QED
      BY <1>4, <3>2, <3>4, <3>5
  <2> QED
    BY <2>1, <2>2
<1>9. PICK c : c = [k EXCEPT !.look = @ + 1, !.tries = s]
  OBVIOUS
<1>10. /\ c \in CallRecord /\ c.pc = "look" /\ c.look = k.look + 1 /\ c.tries = s /\ c.at = 1
  <2>1. PICK q : q = k.look + 1
    OBVIOUS
  <2>2. q \in Nat \ {0}
    BY <1>4, <2>1
  <2>3. PICK c0 : c0 = [k EXCEPT !.look = q]
    OBVIOUS
  <2>4. c0 \in CallRecord /\ c0.look = q /\ c0.pc = k.pc /\ c0.at = k.at
    BY <1>2, <2>2, <2>3 DEF CallRecord
  <2>5. c = [c0 EXCEPT !.tries = s]
    BY <1>2, <1>9, <2>1, <2>3 DEF CallRecord
  <2> QED
    BY <1>3, <1>4, <1>8, <2>1, <2>4, <2>5 DEF CallRecord
<1>11. AiGoes(r, c)
  BY <1>1, <1>5, <1>7, <1>9 DEF LookUp
<1>12. CallOK(r, c)
  BY <1>8, <1>10 DEF CallOK
<1>13. ChainOK(r, c)
  <2>0. c.pc \notin {"new", "route", "take", "unrouted"}
    BY <1>10
  <2> SUFFICES ASSUME NEW i \in DOMAIN Fallbacks[r], i < k.look + 1,
                      Fallbacks[r][i] \in settled[r] \cap Live
               PROVE  \E j \in 1..Len(s) : s[j] = registry[Fallbacks[r][i]]
    BY <1>10, <2>0 DEF ChainOK
  <2>1. i \in Nat
    BY ProvidersAssumption
  <2>2. CASE i = k.look
    BY <1>5, <1>8, <2>2 DEF Live
  <2>3. CASE i < k.look
    BY <1>2, <1>3, <1>8, <2>3 DEF ChainOK
  <2> QED
    BY <1>4, <2>1, <2>2, <2>3
<1>14. ChainOK(r, c)'
  BY <1>3, <1>13, ChainStays
<1> QED
  BY <1>1, <1>2, <1>3, <1>10, <1>11, <1>12, <1>14, CallGoes, NothingCounted DEF ProvidersInv

\* The end of the lookups and the attempts.
LEMMA AttemptKeeps ==
    ASSUME ProvidersInv, NEW r \in Requests,
           LookedUp(r) \/ Attempt(r) \/ Abandon(r) \/ AttemptNone(r)
    PROVE  ProvidersInv'
<1>1. PICK k : k = ai[r]
  OBVIOUS
<1>2. k \in CallRecord /\ CallOK(r, k) /\ ChainOK(r, k) /\ CallsOK /\ CountersOK
  BY <1>1 DEF ProvidersInv, CallsOK
<1>3. ASSUME NEW c \in CallRecord, CallOK(r, c), ChainOK(r, c), AiGoes(r, c),
             k.pc \notin {"count", "count_error"}, c.pc \notin {"count", "count_error"},
             UNCHANGED <<registry, settled, requests, errors, ended, lost, strays>>
      PROVE  ProvidersInv'
  BY <1>1, <1>2, <1>3, ChainStays, CallGoes, NothingCounted DEF ProvidersInv
<1>4. CASE LookedUp(r)
  <2>1. PICK c : c = [k EXCEPT !.pc = "try"]
    OBVIOUS
  <2>2. /\ k.pc = "look" /\ k.look > Len(Fallbacks[r]) /\ AiGoes(r, c)
        /\ UNCHANGED <<registry, settled, requests, errors, ended, lost, strays>>
    BY <1>1, <1>4, <2>1 DEF LookedUp, AiAt, NoCount
  <2>3. /\ c \in CallRecord /\ c.pc = "try" /\ c.tries = k.tries /\ c.at = k.at /\ c.look = k.look
        /\ c.failed = k.failed
    BY <1>2, <2>1 DEF CallRecord
  <2>4. CallOK(r, c)
    BY <1>2, <2>2, <2>3 DEF CallOK
  <2>5. ChainOK(r, c)
    BY <1>2, <2>2, <2>3 DEF ChainOK
  <2> QED
    BY <1>3, <2>2, <2>3, <2>4, <2>5
<1>5. CASE Abandon(r)
  <2>1. PICK c : c = [k EXCEPT !.pc = "abandoned"]
    OBVIOUS
  <2>2. /\ k.pc = "try" /\ AiGoes(r, c) /\ UNCHANGED <<registry, settled, requests, errors, ended, lost, strays>>
    BY <1>1, <1>5, <2>1 DEF Abandon, AiAt, NoCount
  <2>3. c \in CallRecord /\ c.pc = "abandoned" /\ c.tries = k.tries /\ c.at = k.at /\ c.look = k.look
    BY <1>2, <2>1 DEF CallRecord
  <2>4. CallOK(r, c)
    BY <1>2, <2>2, <2>3 DEF CallOK
  <2>5. ChainOK(r, c)
    BY <1>2, <2>2, <2>3 DEF ChainOK
  <2> QED
    BY <1>3, <2>2, <2>3, <2>4, <2>5
<1>6. CASE AttemptNone(r)
  <2>1. PICK c : c = [k EXCEPT !.pc = "raised"]
    OBVIOUS
  <2>2. /\ k.pc = "try" /\ k.tries[k.at] = NoProvider /\ AiGoes(r, c)
        /\ UNCHANGED <<registry, settled, requests, errors, ended, lost, strays>>
    BY <1>1, <1>6, <2>1 DEF AttemptNone, AiAt, NoCount, Trying
  <2>3. c \in CallRecord /\ c.pc = "raised" /\ c.tries = k.tries /\ c.at = k.at /\ c.look = k.look
    BY <1>2, <2>1 DEF CallRecord
  <2>4. Head(k.tries) = NoProvider
    <3>1. k.at \in 1..Len(k.tries) /\ k.tries \in Seq(Providers \cup {NoProvider})
      BY <1>2, <2>2 DEF CallOK, CallRecord
    <3>2. k.at = 1
      BY <1>2, <2>2, <3>1 DEF CallOK
    <3> QED
      BY <2>2, <3>1, <3>2
  <2>5. CallOK(r, c)
    BY <1>2, <2>3, <2>4 DEF CallOK
  <2>6. ChainOK(r, c)
    BY <1>2, <2>2, <2>3 DEF ChainOK
  <2> QED
    BY <1>3, <2>2, <2>3, <2>5, <2>6
<1>7. CASE Attempt(r)
  <2>1. /\ k.pc = "try" /\ k.tries[k.at] # NoProvider
        /\ UNCHANGED <<registry, settled, requests, errors, lost, strays>>
    BY <1>1, <1>7, Zenon DEF Attempt, AiAt, Trying
  <2>2. PICK p : p = k.tries[k.at]
    OBVIOUS
  <2>3. /\ k.tries \in Seq(Providers \cup {NoProvider}) /\ k.at \in 1..Len(k.tries) /\ k.failed \in SUBSET Providers
        /\ \A j \in 1..(k.at - 1) : k.tries[j] \in k.failed
    BY <1>2, <2>1 DEF CallRecord, CallOK
  <2>4. p \in Providers /\ ProviderName[p] \in ProviderNames
    BY <2>1, <2>2, <2>3, ProvidersAssumption
  <2>5. PICK ok \in BOOLEAN :
           AiGoes(r, [ai[r] EXCEPT !.pc = "count", !.ok = ok,
                                   !.failed = IF ok THEN @ ELSE @ \cup {Trying(r)}])
    BY <1>7, Zenon DEF Attempt
  <2>6. PICK F : F = IF ok THEN k.failed ELSE k.failed \cup {p}
    OBVIOUS
  <2>7. F \in SUBSET Providers /\ k.failed \subseteq F /\ (~ok => p \in F)
    BY <2>3, <2>4, <2>6
  <2>8. PICK c : c = [k EXCEPT !.pc = "count", !.ok = ok, !.failed = F]
    OBVIOUS
  <2>9. AiGoes(r, c)
    BY <1>1, <2>2, <2>5, <2>6, <2>8 DEF Trying
  <2>10. /\ c \in CallRecord /\ c.pc = "count" /\ c.tries = k.tries /\ c.at = k.at /\ c.look = k.look
         /\ c.ok = ok /\ c.failed = F
    <3>1. PICK c0 : c0 = [k EXCEPT !.pc = "count", !.failed = F]
      OBVIOUS
    <3>2. /\ c0 \in CallRecord /\ c0.pc = "count" /\ c0.tries = k.tries /\ c0.at = k.at
          /\ c0.look = k.look /\ c0.failed = F
      BY <1>2, <2>7, <3>1 DEF CallRecord
    <3>3. c = [c0 EXCEPT !.ok = ok]
      BY <1>2, <2>8, <3>1 DEF CallRecord
    <3> QED
      BY <3>2, <3>3 DEF CallRecord
  <2>11. CallOK(r, c)
    <3>1. \A j \in 1..(k.at - 1) : k.tries[j] \in F
      BY <2>3, <2>7
    <3>2. ~ok => \A j \in 1..k.at : k.tries[j] \in F
      BY <2>2, <2>3, <2>7, <3>1
    <3>3. IsInjective(k.tries) /\ \A j \in 1..Len(k.tries) : k.tries[j] = NoProvider => j = 1
      BY <1>2 DEF CallOK
    <3> QED
      BY <2>2, <2>3, <2>4, <2>10, <3>1, <3>2, <3>3 DEF CallOK
  <2>12. ChainOK(r, c)
    BY <1>2, <2>1, <2>10 DEF ChainOK
  <2>13. CallsOK'
    BY <1>2, <2>1, <2>9, <2>10, <2>11, <2>12, ChainStays, CallGoes
  <2>14. ended' = [ended EXCEPT ![ProviderName[p]] = @ + 1]
    BY <1>1, <1>7, <2>2, Zenon DEF Attempt, Add, Trying
  <2>15. CountersOK'
    <3>1. /\ requests' \in [ProviderNames -> Nat] /\ errors' \in [ProviderNames -> Nat]
          /\ ended' \in [ProviderNames -> Nat]
          /\ lost' \in [ProviderNames -> Nat] /\ strays' \in [ProviderNames -> Nat]
      BY <1>2, <2>1, <2>4, <2>14 DEF CountersOK
    <3>2. \A n : r \notin Counting(n) /\ r \notin Failing(n)
      BY <1>1, <2>1 DEF Counting, Failing, AiAt
    <3>3. ASSUME NEW n \in ProviderNames
          PROVE  /\ ended'[n] = lost'[n] + requests'[n] + Cardinality(Counting(n)')
                 /\ errors'[n] + Cardinality(Failing(n)') <= requests'[n] + strays'[n]
      <4>1. Failing(n)' = Failing(n)
        BY <1>2, <2>9, <2>10, <3>2, WaitingMoves
      <4>2. Counting(n)' = IF ProviderName[p] = n THEN Counting(n) \cup {r} ELSE Counting(n)
        BY <1>2, <2>2, <2>9, <2>10, <3>2, WaitingMoves
      <4>3. Cardinality(Counting(n)') = Cardinality(Counting(n)) + IF ProviderName[p] = n THEN 1 ELSE 0
        <5>1. Cardinality(Counting(n) \cup {r}) = Cardinality(Counting(n)) + 1
          BY <3>2, WaitingIsFinite, FS_AddElement
        <5>2. Cardinality(Counting(n)) \in Nat
          BY WaitingIsFinite
        <5>3. CASE ProviderName[p] = n
          BY <4>2, <5>1, <5>2, <5>3
        <5>4. CASE ProviderName[p] # n
          BY <4>2, <5>2, <5>4
        <5> QED
          BY <5>3, <5>4
      <4>4. Cardinality(Counting(n)) \in Nat /\ Cardinality(Failing(n)) \in Nat
        BY WaitingIsFinite
      <4> QED
        BY <1>2, <2>1, <2>4, <2>14, <4>1, <4>3, <4>4 DEF CountersOK
    <3> QED
      BY <3>1, <3>3 DEF CountersOK
  <2> QED
    BY <2>13, <2>15 DEF ProvidersInv
<1> QED
  BY <1>4, <1>5, <1>6, <1>7

\* A request is counted.
LEMMA CountRequestKeeps ==
    ASSUME ProvidersInv, NEW r \in Requests, CountRequest(r)
    PROVE  ProvidersInv'
<1>1. PICK k : k = ai[r]
  OBVIOUS
<1>2. k \in CallRecord /\ CallOK(r, k) /\ ChainOK(r, k) /\ CallsOK /\ CountersOK
  BY <1>1 DEF ProvidersInv, CallsOK
<1>3. k.pc = "count" /\ UNCHANGED <<registry, settled, errors, ended, lost, strays>>
  BY <1>1 DEF CountRequest, AiAt
<1>4. PICK p : p = ProviderName[k.tries[k.at]]
  OBVIOUS
<1>5. p \in ProviderNames
  <2>1. /\ k.tries \in Seq(Providers \cup {NoProvider}) /\ k.at \in 1..Len(k.tries)
        /\ k.tries[k.at] \in Providers
    BY <1>2, <1>3 DEF CallRecord, CallOK
  <2> QED
    BY <1>4, <2>1, ProvidersAssumption
<1>6. requests' = [requests EXCEPT ![p] = @ + 1]
  BY <1>1, <1>4 DEF CountRequest, Add, Trying
<1>7. PICK c : c = [k EXCEPT !.pc = IF k.ok THEN "returned" ELSE "count_error"]
  OBVIOUS
<1>8. /\ c \in CallRecord /\ c.tries = k.tries /\ c.at = k.at /\ c.look = k.look /\ c.failed = k.failed
      /\ c.pc = IF k.ok THEN "returned" ELSE "count_error"
  <2>1. PICK pc \in {"returned", "count_error"} : pc = IF k.ok THEN "returned" ELSE "count_error"
    OBVIOUS
  <2>2. c = [k EXCEPT !.pc = pc]
    BY <1>7, <2>1
  <2> QED
    BY <1>2, <2>1, <2>2 DEF CallRecord
<1>9. AiGoes(r, c)
  BY <1>1, <1>7 DEF CountRequest
<1>10. CallOK(r, c)
  BY <1>2, <1>3, <1>8 DEF CallOK
<1>11. ChainOK(r, c)
  BY <1>2, <1>3, <1>8 DEF ChainOK
<1>12. CallsOK'
  BY <1>2, <1>3, <1>8, <1>9, <1>10, <1>11, ChainStays, CallGoes
<1>13. /\ requests' \in [ProviderNames -> Nat] /\ requests'[p] = requests[p] + 1
       /\ \A n \in ProviderNames \ {p} : requests'[n] = requests[n]
  BY <1>2, <1>5, <1>6 DEF CountersOK
<1>14. \A n : /\ (r \in Counting(n) <=> n = p) /\ r \notin Failing(n)
  BY <1>1, <1>3, <1>4 DEF Counting, Failing, AiAt, Trying
<1>15. ASSUME NEW n \in ProviderNames
       PROVE  /\ ended'[n] = lost'[n] + requests'[n] + Cardinality(Counting(n)')
              /\ errors'[n] + Cardinality(Failing(n)') <= requests'[n] + strays'[n]
  <2>1. /\ ended[n] = lost[n] + requests[n] + Cardinality(Counting(n))
        /\ errors[n] + Cardinality(Failing(n)) <= requests[n] + strays[n]
        /\ requests[n] \in Nat /\ errors[n] \in Nat /\ ended[n] \in Nat
        /\ lost[n] \in Nat /\ strays[n] \in Nat
    BY <1>2 DEF CountersOK
  <2>2. /\ Cardinality(Counting(n)) \in Nat /\ Cardinality(Failing(n)) \in Nat
        /\ IsFiniteSet(Counting(n)) /\ IsFiniteSet(Failing(n))
    BY WaitingIsFinite
  <2>3. Counting(n)' = Counting(n) \ {r}
    BY <1>2, <1>8, <1>9, WaitingMoves
  <2>4. Failing(n)' = Failing(n) \/ (n = p /\ Failing(n)' = Failing(n) \cup {r})
    <3>1. Failing(n) \ {r} = Failing(n)
      BY <1>14
    <3>2. \/ Failing(n)' = Failing(n) \ {r}
          \/ Failing(n)' = Failing(n) \cup {r} /\ ProviderName[c.tries[c.at]] = n
      BY <1>2, <1>9, WaitingMoves
    <3> QED
      BY <1>4, <1>8, <3>1, <3>2
  <2>5. Cardinality(Failing(n) \cup {r}) = Cardinality(Failing(n)) + 1
    BY <1>14, <2>2, FS_AddElement
  <2>6. CASE n = p
    <3>1. Cardinality(Counting(n) \ {r}) = Cardinality(Counting(n)) - 1
      BY <1>14, <2>2, <2>6, FS_RemoveElement
    <3>2. Cardinality(Failing(n)') <= Cardinality(Failing(n)) + 1 /\ Cardinality(Failing(n)') \in Nat
      <4>1. CASE Failing(n)' = Failing(n)
        BY <2>2, <4>1
      <4>2. CASE Failing(n)' = Failing(n) \cup {r}
        <5>1. Cardinality(Failing(n)') = Cardinality(Failing(n)) + 1
          BY <2>5, <4>2
        <5> QED
          BY <2>2, <5>1
      <4> QED
        BY <2>4, <4>1, <4>2
    <3> QED
      BY <1>3, <1>13, <2>1, <2>2, <2>3, <2>6, <3>1, <3>2
  <2>7. CASE n # p
    <3>1. Counting(n) \ {r} = Counting(n)
      BY <1>14, <2>7
    <3> QED
      BY <1>3, <1>13, <2>1, <2>3, <2>4, <2>7, <3>1
  <2> QED
    BY <2>6, <2>7
<1>16. CountersOK'
  BY <1>2, <1>3, <1>13, <1>15 DEF CountersOK
<1> QED
  BY <1>12, <1>16 DEF ProvidersInv

\* An error is counted, and the next provider is tried or the call raises.
LEMMA CountErrorKeeps ==
    ASSUME ProvidersInv, NEW r \in Requests, CountError(r)
    PROVE  ProvidersInv'
<1>1. PICK k : k = ai[r]
  OBVIOUS
<1>2. k \in CallRecord /\ CallOK(r, k) /\ ChainOK(r, k) /\ CallsOK /\ CountersOK
  BY <1>1 DEF ProvidersInv, CallsOK
<1>3. k.pc = "count_error" /\ UNCHANGED <<registry, settled, requests, ended, lost, strays>>
  BY <1>1 DEF CountError, AiAt
<1>4. PICK p : p = ProviderName[k.tries[k.at]]
  OBVIOUS
<1>5. /\ k.tries \in Seq(Providers \cup {NoProvider}) /\ k.at \in 1..Len(k.tries) /\ Len(k.tries) \in Nat
      /\ p \in ProviderNames /\ \A j \in 1..k.at : k.tries[j] \in k.failed
  <2>1. /\ k.tries \in Seq(Providers \cup {NoProvider}) /\ k.at \in 1..Len(k.tries)
        /\ k.tries[k.at] \in Providers
    BY <1>2, <1>3 DEF CallRecord, CallOK
  <2>2. \A j \in 1..k.at : k.tries[j] \in k.failed
    BY <1>2, <1>3 DEF CallOK
  <2> QED
    BY <1>4, <2>1, <2>2, ProvidersAssumption
<1>6. errors' = [errors EXCEPT ![p] = @ + 1]
  BY <1>1, <1>4 DEF CountError, Add, Trying
<1>7. PICK c : c = AfterError(r)
  OBVIOUS
<1>8. AiGoes(r, c)
  BY <1>7 DEF CountError
<1>9. /\ c \in CallRecord /\ CallOK(r, c) /\ ChainOK(r, c) /\ c.pc \in {"try", "raised"}
  <2>1. CASE KindOf[r] = "response" /\ k.at < Len(k.tries)
    <3>1. PICK q : q = k.at + 1
      OBVIOUS
    <3>2. q \in Nat \ {0} /\ q \in 1..Len(k.tries) /\ \A j \in 1..(q - 1) : j \in 1..k.at
      BY <1>5, <2>1, <3>1
    <3>3. c = [k EXCEPT !.pc = "try", !.at = q]
      BY <1>1, <1>7, <2>1, <3>1 DEF AfterError
    <3>4. /\ c \in CallRecord /\ c.pc = "try" /\ c.tries = k.tries /\ c.at = q /\ c.look = k.look
          /\ c.failed = k.failed
      BY <1>2, <3>2, <3>3 DEF CallRecord
    <3>5. CallOK(r, c)
      BY <1>2, <1>5, <3>2, <3>4 DEF CallOK
    <3>6. ChainOK(r, c)
      BY <1>2, <1>3, <3>4 DEF ChainOK
    <3> QED
      BY <3>4, <3>5, <3>6
  <2>2. CASE ~(KindOf[r] = "response" /\ k.at < Len(k.tries))
    <3>1. c = [k EXCEPT !.pc = "raised"]
      BY <1>1, <1>7, <2>2 DEF AfterError
    <3>2. /\ c \in CallRecord /\ c.pc = "raised" /\ c.tries = k.tries /\ c.at = k.at /\ c.look = k.look
          /\ c.failed = k.failed
      BY <1>2, <3>1 DEF CallRecord
    <3>3. KindOf[r] = "response" => \A j \in 1..Len(k.tries) : k.tries[j] \in k.failed
      BY <1>5, <2>2
    <3>4. CallOK(r, c)
      BY <1>2, <3>2, <3>3 DEF CallOK
    <3>5. ChainOK(r, c)
      BY <1>2, <1>3, <3>2 DEF ChainOK
    <3> QED
      BY <3>2, <3>4, <3>5
  <2> QED
    BY <2>1, <2>2
<1>10. CallsOK'
  BY <1>2, <1>3, <1>8, <1>9, ChainStays, CallGoes
<1>11. /\ errors' \in [ProviderNames -> Nat] /\ errors'[p] = errors[p] + 1
       /\ \A n \in ProviderNames \ {p} : errors'[n] = errors[n]
  BY <1>2, <1>5, <1>6 DEF CountersOK
<1>12. \A n : r \notin Counting(n) /\ (r \in Failing(n) <=> n = p)
  BY <1>1, <1>3, <1>4 DEF Counting, Failing, AiAt, Trying
<1>13. ASSUME NEW n \in ProviderNames
       PROVE  /\ ended'[n] = lost'[n] + requests'[n] + Cardinality(Counting(n)')
              /\ errors'[n] + Cardinality(Failing(n)') <= requests'[n] + strays'[n]
  <2>1. /\ ended[n] = lost[n] + requests[n] + Cardinality(Counting(n))
        /\ errors[n] + Cardinality(Failing(n)) <= requests[n] + strays[n]
        /\ requests[n] \in Nat /\ errors[n] \in Nat /\ lost[n] \in Nat /\ strays[n] \in Nat
    BY <1>2 DEF CountersOK
  <2>2. Cardinality(Failing(n)) \in Nat /\ IsFiniteSet(Failing(n))
    BY WaitingIsFinite
  <2>3. Counting(n)' = Counting(n) \ {r} /\ Failing(n)' = Failing(n) \ {r}
    BY <1>2, <1>8, <1>9, WaitingMoves
  <2>4. Counting(n) \ {r} = Counting(n)
    BY <1>12
  <2>5. CASE n = p
    <3>1. Cardinality(Failing(n) \ {r}) = Cardinality(Failing(n)) - 1
      BY <1>12, <2>2, <2>5, FS_RemoveElement
    <3>2. Cardinality(Failing(n)') = Cardinality(Failing(n)) - 1
      BY <2>3, <3>1
    <3>3. Cardinality(Counting(n)') = Cardinality(Counting(n))
      BY <2>3, <2>4
    <3>4. errors'[n] = errors[n] + 1 /\ requests'[n] = requests[n] /\ ended'[n] = ended[n]
      BY <1>3, <1>11, <2>5
    <3>5. requests[n] \in Nat /\ errors[n] \in Nat /\ lost'[n] = lost[n] /\ strays'[n] = strays[n]
      BY <1>3, <2>1
    <3> QED
      BY <2>1, <2>2, <3>2, <3>3, <3>4, <3>5
  <2>6. CASE n # p
    <3>1. Failing(n) \ {r} = Failing(n)
      BY <1>12, <2>6
    <3> QED
      BY <1>3, <1>11, <2>1, <2>3, <2>4, <2>6, <3>1
  <2> QED
    BY <2>5, <2>6
<1>14. CountersOK'
  BY <1>2, <1>3, <1>11, <1>13 DEF CountersOK
<1> QED
  BY <1>10, <1>14 DEF ProvidersInv

\* A registration or a removal: the name is settled for no call any more.
LEMMA PutsKeeps ==
    ASSUME ProvidersInv, NEW n \in ProviderNames, NEW p \in Providers \cup {NoProvider}, Puts(n, p)
    PROVE  ProvidersInv'
<1>1. /\ registry' = [registry EXCEPT ![n] = p] /\ settled' = [r \in Requests |-> settled[r] \ {n}]
      /\ UNCHANGED <<ai, requests, errors, ended, lost, strays>>
  BY DEF Puts
<1>2. /\ registry' \in [ProviderNames -> Providers \cup {NoProvider}]
      /\ \A m \in ProviderNames \ {n} : registry'[m] = registry[m]
      /\ settled' \in [Requests -> SUBSET ProviderNames]
      /\ \A r \in Requests : settled'[r] = settled[r] \ {n}
  BY <1>1 DEF ProvidersInv, CallsOK
<1>3. ASSUME NEW r \in Requests PROVE ChainOK(r, ai[r])'
  <2>1. ChainOK(r, ai[r])
    BY DEF ProvidersInv, CallsOK
  <2>2. \A m \in settled'[r] \cap Live' : m \in settled[r] \cap Live /\ registry'[m] = registry[m]
    BY <1>2 DEF Live, ProvidersInv, CallsOK
  <2>3. ai'[r] = ai[r]
    BY <1>1
  <2>4. settled[r] \cap Live = {} => settled'[r] \cap Live' = {}
    BY <2>2
  <2> QED
    BY <2>1, <2>2, <2>3, <2>4 DEF ChainOK
<1>4. \A r \in Requests : CallOK(r, ai[r])'
  BY <1>1 DEF ProvidersInv, CallsOK, CallOK
<1>5. CallsOK'
  BY <1>1, <1>2, <1>3, <1>4 DEF ProvidersInv, CallsOK
<1>6. CountersOK'
  BY <1>1 DEF ProvidersInv, CountersOK, Counting, Failing, AiAt, Trying
<1> QED
  BY <1>5, <1>6 DEF ProvidersInv

\* A reload erases the counters, and the errors that are still to be counted
\* have lost their requests.
LEMMA ReloadKeeps ==
    ASSUME ProvidersInv, ReloadMetrics
    PROVE  ProvidersInv'
<1>1. /\ UNCHANGED <<registry, ai, ended, settled>> /\ requests' = Zero /\ errors' = Zero
      /\ lost' = [n \in ProviderNames |-> lost[n] + requests[n]]
      /\ strays' = [n \in ProviderNames |-> Cardinality(Failing(n))]
  BY DEF ReloadMetrics
<1>2. CallsOK'
  BY <1>1 DEF ProvidersInv, CallsOK, CallOK, ChainOK, Live
<1>3. \A n : Counting(n)' = Counting(n) /\ Failing(n)' = Failing(n)
  BY <1>1 DEF Counting, Failing, AiAt, Trying
<1>4. \A n \in ProviderNames : requests'[n] = 0 /\ errors'[n] = 0
  BY <1>1 DEF Zero
<1>5. /\ requests' \in [ProviderNames -> Nat] /\ errors' \in [ProviderNames -> Nat]
  BY <1>1 DEF Zero
<1>6. ended' \in [ProviderNames -> Nat] /\ lost' \in [ProviderNames -> Nat]
  BY <1>1 DEF ProvidersInv, CountersOK
<1>7. strays' \in [ProviderNames -> Nat]
  <2>1. \A n \in ProviderNames : Cardinality(Failing(n)) \in Nat
    BY WaitingIsFinite
  <2> QED
    BY <1>1, <2>1
<1>8. ASSUME NEW n \in ProviderNames
      PROVE  /\ ended'[n] = lost'[n] + requests'[n] + Cardinality(Counting(n)')
             /\ errors'[n] + Cardinality(Failing(n)') <= requests'[n] + strays'[n]
  <2>1. /\ ended[n] = lost[n] + requests[n] + Cardinality(Counting(n))
        /\ lost[n] \in Nat /\ requests[n] \in Nat
    BY DEF ProvidersInv, CountersOK
  <2>2. Cardinality(Counting(n)) \in Nat /\ Cardinality(Failing(n)) \in Nat
    BY WaitingIsFinite
  <2>3. lost'[n] = lost[n] + requests[n] /\ strays'[n] = Cardinality(Failing(n)) /\ ended'[n] = ended[n]
    BY <1>1
  <2>4. /\ Cardinality(Counting(n)') = Cardinality(Counting(n))
        /\ Cardinality(Failing(n)') = Cardinality(Failing(n))
    BY <1>3
  <2> QED
    BY <1>4, <2>1, <2>2, <2>3, <2>4
<1>9. CountersOK'
  BY <1>5, <1>6, <1>7, <1>8 DEF CountersOK
<1> QED
  BY <1>2, <1>9 DEF ProvidersInv

\* CallsAccountedFor for any calls, chains and providers: no provider is asked
\* twice; a call raises only when every provider of its chain that stayed has
\* failed, or when the one it was routed to had gone before it was looked up; and
\* the counters add up with the attempts that ended and with what reloads erased.
THEOREM CallsAreAccountedFor == PrSpec => []CallsAccountedFor
<1>1. PrInit => ProvidersInv
  <2> SUFFICES ASSUME PrInit PROVE ProvidersInv
    OBVIOUS
  <2>1. PICK c : c = [pc |-> "new", noted |-> MockName, tries |-> <<>>, look |-> 1, at |-> 1, ok |-> FALSE, failed |-> {}]
    OBVIOUS
  <2>2. \A r \in Requests : ai[r] = c
    BY <2>1 DEF PrInit
  <2>3. c \in CallRecord /\ c.pc = "new" /\ c.tries = <<>> /\ c.look = 1 /\ c.at = 1
    BY <2>1, ProvidersAssumption DEF CallRecord
  <2>4. ai \in [Requests -> CallRecord]
    BY <2>1, <2>3 DEF PrInit
  <2>5. \A r \in Requests : CallOK(r, c)
    BY <2>3 DEF CallOK, IsInjective
  <2>6. \A r \in Requests : ChainOK(r, c)
    <3>1. \A r \in Requests : \A i \in DOMAIN Fallbacks[r] : ~ (i < 1)
      BY ProvidersAssumption
    <3> QED
      BY <2>3, <3>1 DEF ChainOK
  <2>7. CallsOK
    BY <2>2, <2>4, <2>5, <2>6, ProvidersAssumption DEF PrInit, CallsOK
  <2>8. \A n : Counting(n) = {} /\ Failing(n) = {}
    BY <2>2, <2>3 DEF Counting, Failing, AiAt
  <2>9. CountersOK
    <3>1. \A n : Cardinality(Counting(n)) = 0 /\ Cardinality(Failing(n)) = 0
      BY <2>8, FS_EmptySet
    <3>2. \A n \in ProviderNames : /\ requests[n] = 0 /\ errors[n] = 0 /\ ended[n] = 0
                                  /\ lost[n] = 0 /\ strays[n] = 0
      BY DEF PrInit, Zero
    <3>3. /\ requests \in [ProviderNames -> Nat] /\ errors \in [ProviderNames -> Nat]
          /\ ended \in [ProviderNames -> Nat]
          /\ lost \in [ProviderNames -> Nat] /\ strays \in [ProviderNames -> Nat]
      BY DEF PrInit, Zero
    <3> QED
      BY <3>1, <3>2, <3>3 DEF CountersOK
  <2> QED
    BY <2>7, <2>9 DEF ProvidersInv
<1>2. ProvidersInv /\ [PrNext]_prVars => ProvidersInv'
  <2> SUFFICES ASSUME ProvidersInv, [PrNext]_prVars PROVE ProvidersInv'
    OBVIOUS
  <2>1. ASSUME NEW p \in Providers, register_provider(p) PROVE ProvidersInv'
    BY <2>1, PutsKeeps, ProvidersAssumption DEF register_provider
  <2>2. ASSUME NEW n \in ProviderNames, remove_provider(n) PROVE ProvidersInv'
    BY <2>2, PutsKeeps DEF remove_provider
  <2>3. CASE UNCHANGED prVars
    <3>1. UNCHANGED <<registry, ai, requests, errors, ended, lost, strays, settled>>
      BY <2>3 DEF prVars
    <3>2. CallsOK'
      BY <3>1 DEF ProvidersInv, CallsOK, CallOK, ChainOK, Live
    <3>3. CountersOK'
      BY <3>1 DEF ProvidersInv, CountersOK, Counting, Failing, AiAt, Trying
    <3> QED
      BY <3>2, <3>3 DEF ProvidersInv
  <2> QED
    BY <2>1, <2>2, <2>3, ReloadKeeps, BeginKeeps, RouteKeeps, ListKeeps, TakeKeeps, LookUpKeeps,
       AttemptKeeps, CountRequestKeeps, CountErrorKeeps
    DEF PrNext
<1>3. ProvidersInv => CallsAccountedFor
  <2> SUFFICES ASSUME ProvidersInv PROVE CallsAccountedFor
    OBVIOUS
  <2>1. NoProviderTwice
    BY DEF ProvidersInv, CallsOK, CallOK, NoProviderTwice
  <2>2. FailureIsExhaustive
    <3> SUFFICES ASSUME NEW r \in Requests, KindOf[r] = "response",
                        \/ ai[r].pc = "unrouted"
                        \/ ai[r].pc = "raised" /\ Head(ai[r].tries) # NoProvider,
                        NEW i \in DOMAIN Fallbacks[r], Fallbacks[r][i] \in settled[r] \cap Live
                 PROVE  registry[Fallbacks[r][i]] \in ai[r].failed
      BY DEF FailureIsExhaustive, AiAt
    <3>1. /\ CallOK(r, ai[r]) /\ ChainOK(r, ai[r]) /\ ai[r] \in CallRecord
      BY DEF ProvidersInv, CallsOK
    <3>0. ai[r].pc = "raised" /\ Head(ai[r].tries) # NoProvider
      BY <3>1 DEF ChainOK
    <3>2. ai[r].look > Len(Fallbacks[r])
      BY <3>0, <3>1 DEF ChainOK
    <3>3. i < ai[r].look
      <4>1. i \in Nat /\ i <= Len(Fallbacks[r]) /\ Len(Fallbacks[r]) \in Nat
        BY ProvidersAssumption
      <4>2. ai[r].look \in Nat
        BY <3>1 DEF CallRecord
      <4> QED
        BY <3>2, <4>1, <4>2
    <3>4. PICK j \in 1..Len(ai[r].tries) : ai[r].tries[j] = registry[Fallbacks[r][i]]
      BY <3>0, <3>1, <3>3 DEF ChainOK
    <3> QED
      BY <3>0, <3>1, <3>4 DEF CallOK
  <2>3. MetricsAddUp
    <3> SUFFICES ASSUME NEW n \in ProviderNames
                 PROVE  /\ errors[n] <= requests[n] + strays[n]
                        /\ ended[n] = lost[n] + requests[n] + Cardinality(Counting(n))
      BY DEF MetricsAddUp
    <3>1. Cardinality(Failing(n)) \in Nat
      BY WaitingIsFinite
    <3> QED
      BY <3>1 DEF ProvidersInv, CountersOK
  <2> QED
    BY <2>1, <2>2, <2>3 DEF CallsAccountedFor
<1> QED
  BY <1>1, <1>2, <1>3, PTL DEF PrSpec

-----------------------------------------------------------------------------
(* The lock programs *)

\* Locks are taken in the order of their ranks, but for the locks of the nodes:
\* they are taken with the manager's lock held, in any order.
Rank == [orchestrator |-> 1, scheduler |-> 2, manager |-> 3, engine |-> 4, node |-> 5,
         job |-> 6, queue |-> 7, scheduled_job |-> 8, storage |-> 9]

MayTake(l, H) == /\ l \notin H
                 /\ l = "node" => "manager" \in H
                 /\ l # "node" => \A m \in H : Rank[m] < Rank[l]

LockAct == [act : {"acquire", "release"}, lock : Locks]

\* a takes a thread that holds G to holding H.
Moves(a, G, H) ==
    /\ a.act = "acquire" => MayTake(a.lock, G) /\ H = G \cup {a.lock}
    /\ a.act = "release" => /\ a.lock \in G /\ H = G \ {a.lock}
                            /\ a.lock = "manager" => "node" \notin G

\* The acts s take a thread that holds G to holding K.
Runs(s, G, K) ==
    \E h \in [0..Len(s) -> SUBSET Locks] :
        h[0] = G /\ h[Len(s)] = K /\ \A i \in 1..Len(s) : Moves(s[i], h[i - 1], h[i])

Held(c) == {l \in Locks : owner[l] = c}

LocksInv == /\ todo \in [Callers -> Seq(LockAct)] /\ owner \in [Locks -> Callers \cup {Nobody}]
            /\ depth = [l \in Locks |-> IF owner[l] = Nobody THEN 0 ELSE 1]
            /\ \A c \in Callers : Runs(todo[c], Held(c), {})
            /\ \A c \in Callers : "node" \in Held(c) => "manager" \in Held(c)

\* An empty program ends with the locks it started with.
LEMMA RunsNothing == \A G \in SUBSET Locks : Runs(<<>>, G, G)
<1> TAKE G \in SUBSET Locks
<1>1. Len(<<>>) = 0
  OBVIOUS
<1>2. PICK h : h = [i \in 0..0 |-> G]
  OBVIOUS
<1>3. h \in [0..0 -> SUBSET Locks] /\ h[0] = G /\ \A i \in 1..0 : FALSE
  BY <1>2
<1> QED
  BY <1>1, <1>3 DEF Runs

\* ... and with no others.
LEMMA NothingRuns == \A G, K : Runs(<<>>, G, K) => G = K
  BY DEF Runs

\* A program of one step.
LEMMA RunsOne ==
    ASSUME NEW G \in SUBSET Locks, NEW H \in SUBSET Locks, NEW a, Moves(a, G, H)
    PROVE  Runs(<<a>>, G, H)
<1>1. PICK s : s = <<a>>
  OBVIOUS
<1>2. Len(s) = 1 /\ s[1] = a
  BY <1>1
<1>3. PICK h : h = [i \in 0..1 |-> IF i = 0 THEN G ELSE H]
  OBVIOUS
<1>4. h \in [0..1 -> SUBSET Locks] /\ h[0] = G /\ h[1] = H
  BY <1>3
<1>5. \A i \in 1..1 : Moves(s[i], h[i - 1], h[i])
  <2> TAKE i \in 1..1
  <2>1. i = 1 /\ i - 1 = 0
    OBVIOUS
  <2> QED
    BY <1>2, <1>4, <2>1
<1>6. Runs(s, G, H)
  BY <1>2, <1>4, <1>5 DEF Runs
<1> QED
  BY <1>1, <1>6

\* Acts one after the other.
LEMMA RunsOn ==
    ASSUME NEW s \in Seq(LockAct), NEW t \in Seq(LockAct), NEW G, NEW H, NEW K,
           Runs(s, G, H), Runs(t, H, K)
    PROVE  Runs(s \o t, G, K)
<1>1. PICK m \in Nat : m = Len(s)
  OBVIOUS
<1>2. PICK n \in Nat : n = Len(t)
  OBVIOUS
<1>3. PICK g \in [0..m -> SUBSET Locks] :
         g[0] = G /\ g[m] = H /\ \A i \in 1..m : Moves(s[i], g[i - 1], g[i])
  BY <1>1 DEF Runs
<1>4. PICK h \in [0..n -> SUBSET Locks] :
         h[0] = H /\ h[n] = K /\ \A i \in 1..n : Moves(t[i], h[i - 1], h[i])
  BY <1>2 DEF Runs
<1>5. PICK u : u = s \o t
  OBVIOUS
<1>6. /\ Len(u) = m + n /\ \A i \in 1..m : u[i] = s[i]
      /\ \A i \in (m + 1)..(m + n) : u[i] = t[i - m]
  BY <1>1, <1>2, <1>5
<1>7. PICK f : f = [i \in 0..(m + n) |-> IF i <= m THEN g[i] ELSE h[i - m]]
  OBVIOUS
<1>8. /\ f \in [0..(m + n) -> SUBSET Locks]
      /\ \A i \in 0..m : f[i] = g[i]
      /\ \A i \in m..(m + n) : f[i] = h[i - m]
  <2>1. \A i \in 0..m : f[i] = g[i]
    BY <1>7
  <2>2. ASSUME NEW i \in m..(m + n) PROVE f[i] = h[i - m] /\ i - m \in 0..n
    <3>1. CASE i = m
      BY <1>3, <1>4, <2>1, <3>1
    <3>2. CASE i > m
      BY <1>7, <3>2
    <3> QED
      BY <3>1, <3>2
  <2>3. ASSUME NEW i \in 0..(m + n) PROVE f[i] \in SUBSET Locks
    <3>1. CASE i <= m
      BY <1>3, <2>1, <3>1
    <3>2. CASE i > m
      <4>1. f[i] = h[i - m] /\ i - m \in 0..n
        BY <2>2, <3>2
      <4> QED
        BY <1>4, <4>1
    <3> QED
      BY <3>1, <3>2
  <2>4. f \in [0..(m + n) -> SUBSET Locks]
    <3>1. DOMAIN f = 0..(m + n) /\ f = [i \in 0..(m + n) |-> f[i]]
      BY Zenon, <1>7
    <3> QED
      BY Zenon, <2>3, <3>1
  <2> QED
    BY Zenon, <2>1, <2>2, <2>4
<1>9. f[0] = G /\ f[m + n] = K
  <2>1. m + n \in m..(m + n) /\ (m + n) - m = n
    OBVIOUS
  <2> QED
    BY <1>3, <1>4, <1>8, <2>1
<1>10. \A i \in 1..(m + n) : Moves(u[i], f[i - 1], f[i])
  <2> TAKE i \in 1..(m + n)
  <2>1. CASE i <= m
    <3>1. i \in 1..m /\ i - 1 \in 0..m /\ i \in 0..m
      BY <2>1
    <3> QED
      BY <1>3, <1>6, <1>8, <3>1
  <2>2. CASE i > m
    <3>1. /\ i \in (m + 1)..(m + n) /\ i - m \in 1..n /\ i \in m..(m + n)
          /\ i - 1 \in m..(m + n) /\ (i - 1) - m = (i - m) - 1
      BY <2>2
    <3>2. u[i] = t[i - m] /\ f[i] = h[i - m] /\ f[i - 1] = h[(i - m) - 1]
      BY <1>6, <1>8, <3>1
    <3> QED
      BY <1>4, <3>1, <3>2
  <2> QED
    BY <2>1, <2>2
<1>11. Runs(u, G, K)
  BY <1>6, <1>8, <1>9, <1>10 DEF Runs
<1> QED
  BY <1>5, <1>11

\* The first act, and the rest.
LEMMA RunsFirst ==
    ASSUME NEW s \in Seq(LockAct), s # <<>>, NEW G, NEW K, Runs(s, G, K)
    PROVE  \E H \in SUBSET Locks : Moves(Head(s), G, H) /\ Runs(Tail(s), H, K)
<1>1. PICK n \in Nat : n = Len(s) /\ n >= 1
  OBVIOUS
<1>2. PICK h \in [0..n -> SUBSET Locks] :
         h[0] = G /\ h[n] = K /\ \A i \in 1..n : Moves(s[i], h[i - 1], h[i])
  BY <1>1 DEF Runs
<1>3. PICK t : t = Tail(s)
  OBVIOUS
<1>4. Len(t) = n - 1 /\ \A i \in 1..(n - 1) : t[i] = s[i + 1]
  BY <1>1, <1>3
<1>5. PICK f : f = [i \in 0..(n - 1) |-> h[i + 1]]
  OBVIOUS
<1>6. /\ f \in [0..(n - 1) -> SUBSET Locks] /\ f[0] = h[1] /\ f[n - 1] = K
      /\ \A i \in 1..(n - 1) : f[i] = h[i + 1] /\ f[i - 1] = h[i]
  <2>1. \A i \in 0..(n - 1) : i + 1 \in 0..n
    OBVIOUS
  <2> QED
    BY <1>1, <1>2, <1>5, <2>1
<1>7. \A i \in 1..(n - 1) : Moves(t[i], f[i - 1], f[i])
  <2> TAKE i \in 1..(n - 1)
  <2>1. i + 1 \in 1..n /\ (i + 1) - 1 = i
    OBVIOUS
  <2> QED
    BY <1>2, <1>4, <1>6, <2>1
<1>8. Runs(t, h[1], K)
  BY <1>4, <1>6, <1>7 DEF Runs
<1>9. Moves(s[1], G, h[1]) /\ h[1] \in SUBSET Locks /\ Head(s) = s[1]
  <2>1. 1 \in 1..n /\ 1 - 1 = 0 /\ 1 \in 0..n
    BY <1>1
  <2> QED
    BY <1>2, <2>1
<1> QED
  BY <1>3, <1>8, <1>9

\* A lock is taken, held while the body runs, and released.
LEMMA HoldingRuns ==
    ASSUME NEW l \in Locks, NEW G \in SUBSET Locks, MayTake(l, G), l = "manager" => "node" \notin G,
           NEW body \in Seq(LockAct), Runs(body, G \cup {l}, G \cup {l})
    PROVE  Holding(l, body) \in Seq(LockAct) /\ Runs(Holding(l, body), G, G)
<1> DEFINE a == [act |-> "acquire", lock |-> l]
           b == [act |-> "release", lock |-> l]
           H == G \cup {l}
<1>1. /\ a \in LockAct /\ a.act = "acquire" /\ a.lock = l
      /\ b \in LockAct /\ b.act = "release" /\ b.lock = l
  BY DEF LockAct
<1>2. H \in SUBSET Locks /\ l \in H /\ H \ {l} = G /\ (l = "manager" => "node" \notin H)
  BY DEF MayTake
<1> HIDE DEF a, b
<1>3. Moves(a, G, H) /\ Moves(b, H, G)
  BY <1>1, <1>2 DEF Moves
<1> HIDE DEF H
<1>4. <<a>> \in Seq(LockAct) /\ <<b>> \in Seq(LockAct)
  BY <1>1
<1>5. Runs(<<a>>, G, H) /\ Runs(<<b>>, H, G) /\ Runs(body, H, H)
  BY <1>2, <1>3, RunsOne DEF H
<1> DEFINE s == <<a>>
           t == <<b>>
<1> HIDE DEF s, t
<1>6. s \o body \in Seq(LockAct) /\ Runs(s \o body, G, H)
  <2>1. s \in Seq(LockAct) /\ Runs(s, G, H)
    BY <1>4, <1>5 DEF s
  <2>2. s \o body \in Seq(LockAct)
    BY <2>1
  <2> QED
    BY <1>5, <2>1, <2>2, RunsOn
<1>7. (s \o body) \o t \in Seq(LockAct) /\ Runs((s \o body) \o t, G, G)
  <2>1. t \in Seq(LockAct) /\ Runs(t, H, G)
    BY <1>4, <1>5 DEF t
  <2>2. (s \o body) \o t \in Seq(LockAct)
    BY <1>6, <2>1
  <2> QED
    BY <1>6, <2>1, <2>2, RunsOn
<1> QED
  BY <1>7 DEF Holding, a, b, s, t

\* A lock is taken and released.
LEMMA TouchRuns ==
    ASSUME NEW l \in Locks, NEW G \in SUBSET Locks, MayTake(l, G), l = "manager" => "node" \notin G
    PROVE  Touch(l) \in Seq(LockAct) /\ Runs(Touch(l), G, G)
<1>1. <<>> \in Seq(LockAct) /\ G \cup {l} \in SUBSET Locks
  OBVIOUS
<1> QED
  BY <1>1, RunsNothing, HoldingRuns DEF Touch

\* Two bodies, with the same locks held around them.
LEMMA BothRun ==
    ASSUME NEW s \in Seq(LockAct), NEW t \in Seq(LockAct), NEW G, Runs(s, G, G), Runs(t, G, G)
    PROVE  s \o t \in Seq(LockAct) /\ Runs(s \o t, G, G)
  BY RunsOn

\* An assignment: the manager, and under it the engine's and the node's lock
\* (distributed.py:376-410).
LEMMA AssignJobRuns == AssignJob \in Seq(LockAct) /\ Runs(AssignJob, {}, {})
<1> DEFINE M == {} \cup {"manager"}
           N == M \cup {"node"}
<1>1. /\ M \in SUBSET Locks /\ N \in SUBSET Locks /\ "manager" \in Locks /\ "engine" \in Locks
      /\ "node" \in Locks /\ "job" \in Locks
  BY DEF Locks
<1>2. /\ MayTake("manager", {}) /\ MayTake("engine", M) /\ MayTake("node", M) /\ MayTake("job", N)
  BY DEF MayTake, Rank
<1>3. Touch("job") \in Seq(LockAct) /\ Runs(Touch("job"), N, N)
  BY <1>1, <1>2, TouchRuns
<1>4. GetJob \in Seq(LockAct) /\ Runs(GetJob, M, M)
  BY <1>1, <1>2, TouchRuns DEF GetJob
<1>5. Holding("node", Touch("job")) \in Seq(LockAct) /\ Runs(Holding("node", Touch("job")), M, M)
  BY <1>1, <1>2, <1>3, HoldingRuns
<1>6. /\ GetJob \o Holding("node", Touch("job")) \in Seq(LockAct)
      /\ Runs(GetJob \o Holding("node", Touch("job")), M, M)
  BY <1>4, <1>5, BothRun
<1> QED
  BY <1>1, <1>2, <1>6, HoldingRuns DEF AssignJob

\* A report: the node's lock under the job's, with the manager's held
\* (distributed.py:468-520).
LEMMA ReportJobStatusRuns == ReportJobStatus \in Seq(LockAct) /\ Runs(ReportJobStatus, {}, {})
<1> DEFINE M == {} \cup {"manager"}
           J == M \cup {"job"}
<1>1. /\ M \in SUBSET Locks /\ J \in SUBSET Locks /\ "manager" \in Locks /\ "engine" \in Locks
      /\ "node" \in Locks /\ "job" \in Locks
  BY DEF Locks
<1>2. /\ MayTake("manager", {}) /\ MayTake("engine", M) /\ MayTake("node", M) /\ MayTake("job", M)
      /\ MayTake("node", J)
  BY DEF MayTake, Rank
<1>3. Touch("node") \in Seq(LockAct) /\ Runs(Touch("node"), J, J)
  BY <1>1, <1>2, TouchRuns
<1>4. Holding("job", Touch("node")) \in Seq(LockAct) /\ Runs(Holding("job", Touch("node")), M, M)
  BY <1>1, <1>2, <1>3, HoldingRuns
<1>5. /\ GetJob \in Seq(LockAct) /\ Runs(GetJob, M, M)
      /\ Touch("job") \in Seq(LockAct) /\ Runs(Touch("job"), M, M)
      /\ Touch("node") \in Seq(LockAct) /\ Runs(Touch("node"), M, M)
  BY <1>1, <1>2, TouchRuns DEF GetJob
<1> DEFINE body == GetJob \o Holding("job", Touch("node")) \o Touch("job") \o Touch("node")
<1>6. body \in Seq(LockAct) /\ Runs(body, M, M)
  <2>1. /\ GetJob \o Holding("job", Touch("node")) \in Seq(LockAct)
        /\ Runs(GetJob \o Holding("job", Touch("node")), M, M)
    BY <1>4, <1>5, BothRun
  <2>2. /\ GetJob \o Holding("job", Touch("node")) \o Touch("job") \in Seq(LockAct)
        /\ Runs(GetJob \o Holding("job", Touch("node")) \o Touch("job"), M, M)
    BY <1>5, <2>1, BothRun
  <2> QED
    BY <1>5, <2>2, BothRun
<1> HIDE DEF body
<1>7. Holding("manager", body) \in Seq(LockAct) /\ Runs(Holding("manager", body), {}, {})
  BY <1>1, <1>2, <1>6, HoldingRuns
<1> QED
  BY <1>7 DEF ReportJobStatus, body

\* Every operation but submit_job takes the locks in the order of their ranks,
\* a node's lock only under the manager's, and releases all it took.
LEMMA ProgramsRun ==
    \A o \in DOMAIN Programs \ {"submit_job"} :
        Programs[o] \in Seq(LockAct) /\ Runs(Programs[o], {}, {})
<1> DEFINE M == {} \cup {"manager"}
           E == {} \cup {"engine"}
           S == {} \cup {"scheduler"}
           O == {} \cup {"orchestrator"}
           Good(s, G) == s \in Seq(LockAct) /\ Runs(s, G, G)
<1>1. /\ M \in SUBSET Locks /\ E \in SUBSET Locks /\ S \in SUBSET Locks /\ O \in SUBSET Locks
      /\ {} \in SUBSET Locks
  BY DEF Locks
<1>2. /\ "orchestrator" \in Locks /\ "scheduler" \in Locks /\ "engine" \in Locks
      /\ "manager" \in Locks /\ "node" \in Locks /\ "job" \in Locks /\ "queue" \in Locks
      /\ "scheduled_job" \in Locks /\ "storage" \in Locks
  BY DEF Locks
<1>3. /\ MayTake("manager", {}) /\ MayTake("engine", {}) /\ MayTake("scheduler", {})
      /\ MayTake("orchestrator", {})
  BY DEF MayTake
<1>4. /\ MayTake("job", E) /\ MayTake("queue", E) /\ MayTake("node", M) /\ MayTake("job", M)
      /\ MayTake("queue", M) /\ MayTake("scheduled_job", S) /\ MayTake("storage", S)
      /\ MayTake("scheduler", O) /\ MayTake("manager", O) /\ MayTake("engine", O)
  BY DEF MayTake, Rank
<1>5. "node" \notin O /\ "node" \notin {}
  OBVIOUS
<1> HIDE DEF M, E, S, O
<1>6. /\ Good(Touch("job"), E) /\ Good(Touch("queue"), E)
      /\ Good(Touch("node"), M) /\ Good(Touch("job"), M) /\ Good(Touch("queue"), M)
      /\ Good(Touch("scheduled_job"), S) /\ Good(Touch("storage"), S)
      /\ Good(Touch("scheduler"), O) /\ Good(Touch("manager"), O)
  BY <1>1, <1>2, <1>4, <1>5, TouchRuns
<1>7. Good(CancelJob, {}) /\ Good(ClearJobs, {}) /\ Good(ShutdownEngine, {})
  BY <1>1, <1>2, <1>3, <1>5, <1>6, HoldingRuns DEF CancelJob, ClearJobs, ShutdownEngine, E
<1>8. Good(SendHeartbeat, {})
  BY <1>1, <1>2, <1>3, <1>5, <1>6, HoldingRuns DEF SendHeartbeat, M
<1>9. Good(MonitorWorkers, {})
  <2>1. Good(Touch("node") \o Touch("job"), M)
    BY <1>6, BothRun
  <2>2. Good(Touch("node") \o Touch("job") \o Touch("queue"), M)
    BY <1>6, <2>1, BothRun
  <2> QED
    BY <1>1, <1>2, <1>3, <1>5, <2>2, HoldingRuns DEF MonitorWorkers, M
<1>10. Good(ScheduleJob, {})
  <2>1. Good(Touch("scheduled_job") \o Touch("storage"), S)
    BY <1>6, BothRun
  <2> QED
    BY <1>1, <1>2, <1>3, <1>5, <2>1, HoldingRuns DEF ScheduleJob, S
<1>11. Good(StopRuntime, {})
  <2> DEFINE OE == O \cup {"engine"}
  <2>1. OE \in SUBSET Locks /\ MayTake("queue", OE)
    BY <1>1, <1>2 DEF MayTake, Rank, O
  <2> HIDE DEF OE
  <2>2. Good(Touch("queue"), OE)
    BY <1>2, <2>1, TouchRuns
  <2>3. Good(ShutdownEngine, O)
    BY <1>1, <1>2, <1>4, <1>5, <2>2, HoldingRuns DEF ShutdownEngine, OE
  <2>4. Good(Touch("scheduler") \o Touch("manager"), O)
    BY <1>6, BothRun
  <2>5. Good(Touch("scheduler") \o Touch("manager") \o ShutdownEngine, O)
    BY <2>3, <2>4, BothRun
  <2> QED
    BY <1>1, <1>2, <1>3, <1>5, <2>5, HoldingRuns DEF StopRuntime, O
<1>12. Good(AssignJob, {}) /\ Good(ReportJobStatus, {})
  BY AssignJobRuns, ReportJobStatusRuns
<1> HIDE DEF Good
<1>13. \A o \in DOMAIN Programs \ {"submit_job"} : Good(Programs[o], {})
  BY <1>7, <1>8, <1>9, <1>10, <1>11, <1>12 DEF Programs
<1> QED
  BY <1>13 DEF Good

NoSubmit == "submit_job" \notin Called

\* A thread calls an operation: it holds nothing, and the operation runs from
\* there.
LEMMA CallKeepsLocks ==
    ASSUME LocksInv, NoSubmit, NEW c \in Callers, Call(c)
    PROVE  LocksInv'
<1>1. PICK o \in Called : todo' = [todo EXCEPT ![c] = Programs[o]]
  BY DEF Call
<1>2. Programs[o] \in Seq(LockAct) /\ Runs(Programs[o], {}, {})
  BY CalledAssumption, ProgramsRun DEF NoSubmit
<1>3. Held(c) = {}
  <2>1. todo[c] = <<>> /\ Runs(todo[c], Held(c), {})
    BY DEF Call, LocksInv
  <2> QED
    BY <2>1, NothingRuns
<1>4. /\ todo' \in [Callers -> Seq(LockAct)] /\ todo'[c] = Programs[o]
      /\ \A d \in Callers \ {c} : todo'[d] = todo[d]
  BY <1>1, <1>2 DEF LocksInv
<1>5. UNCHANGED <<owner, depth>> /\ \A d : Held(d)' = Held(d)
  BY DEF Call, Held
<1>6. \A d \in Callers : Runs(todo'[d], Held(d)', {})
  BY <1>2, <1>3, <1>4, <1>5 DEF LocksInv
<1> QED
  BY <1>4, <1>5, <1>6 DEF LocksInv

\* A thread whose next act is a has a way on from what it holds.
LEMMA HeadMoves ==
    ASSUME LocksInv, NEW c \in Callers, todo[c] # <<>>
    PROVE  /\ Head(todo[c]) \in LockAct /\ Tail(todo[c]) \in Seq(LockAct)
           /\ \E H \in SUBSET Locks : Moves(Head(todo[c]), Held(c), H) /\ Runs(Tail(todo[c]), H, {})
<1>1. PICK s \in Seq(LockAct) : s = todo[c] /\ s # <<>> /\ Runs(s, Held(c), {})
  BY DEF LocksInv
<1>2. Head(s) \in LockAct /\ Tail(s) \in Seq(LockAct)
  BY <1>1
<1> QED
  BY <1>1, <1>2, RunsFirst

\* A free lock is acquired: a thread never acquires one it holds.
LEMMA AcquireKeepsLocks ==
    ASSUME LocksInv, NEW c \in Callers, Acquire(c)
    PROVE  LocksInv'
<1> DEFINE a == Head(todo[c])
<1>1. PICK l : l = a.lock
  OBVIOUS
<1>2. PICK H \in SUBSET Locks : Moves(a, Held(c), H) /\ Runs(Tail(todo[c]), H, {})
  BY HeadMoves DEF Acquire, Wants
<1>3. a \in LockAct /\ Tail(todo[c]) \in Seq(LockAct) /\ a.act = "acquire"
  BY HeadMoves DEF Acquire, Wants
<1>4. l \in Locks /\ MayTake(l, Held(c)) /\ H = Held(c) \cup {l}
  BY <1>1, <1>2, <1>3 DEF Moves, LockAct
<1>5. owner[l] = Nobody /\ depth[l] = 0
  <2>1. l \notin Held(c) /\ owner[l] \in {Nobody, c}
    BY <1>1, <1>4 DEF Acquire, MayTake
  <2> QED
    BY <1>4, <2>1 DEF Held, LocksInv
<1>6. /\ owner' = [owner EXCEPT ![l] = c] /\ depth' = [depth EXCEPT ![l] = @ + 1]
      /\ todo' = [todo EXCEPT ![c] = Tail(@)]
  BY <1>1 DEF Acquire
<1>7. /\ owner' \in [Locks -> Callers \cup {Nobody}] /\ owner'[l] = c
      /\ \A m \in Locks \ {l} : owner'[m] = owner[m]
  BY <1>4, <1>6 DEF LocksInv
<1>8. depth' = [m \in Locks |-> IF owner'[m] = Nobody THEN 0 ELSE 1]
  <2>1. c # Nobody /\ 0 + 1 = 1
    BY CalledAssumption
  <2> QED
    BY <1>4, <1>5, <1>6, <1>7, <2>1 DEF LocksInv
<1>9. Held(c)' = H /\ \A d \in Callers \ {c} : Held(d)' = Held(d)
  <2>1. \A d \in Callers \ {c} : Held(d)' = Held(d)
    BY <1>5, <1>7, CalledAssumption DEF Held
  <2>2. Held(c)' = Held(c) \cup {l}
    BY <1>4, <1>7 DEF Held
  <2> QED
    BY <1>4, <2>1, <2>2
<1>10. /\ todo' \in [Callers -> Seq(LockAct)] /\ todo'[c] = Tail(todo[c])
       /\ \A d \in Callers \ {c} : todo'[d] = todo[d]
  BY <1>3, <1>6 DEF LocksInv
<1>11. \A d \in Callers : Runs(todo'[d], Held(d)', {})
  BY <1>2, <1>9, <1>10 DEF LocksInv
<1>12. \A d \in Callers : "node" \in Held(d)' => "manager" \in Held(d)'
  BY <1>4, <1>9 DEF LocksInv, MayTake
<1> QED
  BY <1>7, <1>8, <1>10, <1>11, <1>12 DEF LocksInv

\* A lock that is held is released, the manager's after the nodes'.
LEMMA ReleaseKeepsLocks ==
    ASSUME LocksInv, NEW c \in Callers, Release(c)
    PROVE  LocksInv'
<1> DEFINE a == Head(todo[c])
<1>1. PICK l : l = a.lock
  OBVIOUS
<1>2. PICK H \in SUBSET Locks : Moves(a, Held(c), H) /\ Runs(Tail(todo[c]), H, {})
  BY HeadMoves DEF Release, Wants
<1>3. a \in LockAct /\ Tail(todo[c]) \in Seq(LockAct) /\ a.act = "release"
  BY HeadMoves DEF Release, Wants
<1>4. /\ l \in Locks /\ l \in Held(c) /\ H = Held(c) \ {l}
      /\ l = "manager" => "node" \notin Held(c)
  BY <1>1, <1>2, <1>3 DEF Moves, LockAct
<1>5. owner[l] = c /\ c # Nobody /\ depth[l] = 1
  <2>1. owner[l] = c /\ c # Nobody
    BY <1>4, CalledAssumption DEF Held
  <2> QED
    BY <1>4, <2>1 DEF LocksInv
<1>6. /\ owner' = [owner EXCEPT ![l] = Nobody] /\ depth' = [depth EXCEPT ![l] = @ - 1]
      /\ todo' = [todo EXCEPT ![c] = Tail(@)]
  BY <1>1, <1>5 DEF Release
<1>7. /\ owner' \in [Locks -> Callers \cup {Nobody}] /\ owner'[l] = Nobody
      /\ \A m \in Locks \ {l} : owner'[m] = owner[m]
  BY <1>4, <1>6 DEF LocksInv
<1>8. depth' = [m \in Locks |-> IF owner'[m] = Nobody THEN 0 ELSE 1]
  <2>1. 1 - 1 = 0
    OBVIOUS
  <2> QED
    BY <1>4, <1>5, <1>6, <1>7, <2>1 DEF LocksInv
<1>9. Held(c)' = H /\ \A d \in Callers \ {c} : Held(d)' = Held(d)
  <2>1. \A d \in Callers \ {c} : Held(d)' = Held(d)
    BY <1>5, <1>7, CalledAssumption DEF Held
  <2>2. Held(c)' = Held(c) \ {l}
    BY <1>4, <1>5, <1>7 DEF Held
  <2> QED
    BY <1>4, <2>1, <2>2
<1>10. /\ todo' \in [Callers -> Seq(LockAct)] /\ todo'[c] = Tail(todo[c])
       /\ \A d \in Callers \ {c} : todo'[d] = todo[d]
  BY <1>3, <1>6 DEF LocksInv
<1>11. \A d \in Callers : Runs(todo'[d], Held(d)', {})
  BY <1>2, <1>9, <1>10 DEF LocksInv
<1>12. \A d \in Callers : "node" \in Held(d)' => "manager" \in Held(d)'
  BY <1>4, <1>9 DEF LocksInv
<1> QED
  BY <1>7, <1>8, <1>10, <1>11, <1>12 DEF LocksInv

\* Of threads that wait for one another, none waits for a node's lock, since
\* its holder and the waiting thread would both hold the manager's; and the
\* lock of the greatest rank any of them waits for is held by one that waits
\* for a greater.
LEMMA InOrderNoCircle == ASSUME LocksInv PROVE NoCircularWait
<1> SUFFICES ASSUME NEW S \in SUBSET Callers, S # {},
                    \A c \in S : /\ Wants(c, "acquire")
                                 /\ owner[Head(todo[c]).lock] \in S \ {c}
             PROVE  FALSE
  BY DEF NoCircularWait
<1> DEFINE W(c) == Head(todo[c]).lock
           o(c) == owner[W(c)]
<1>1. ASSUME NEW c \in S
      PROVE  /\ W(c) \in Locks /\ MayTake(W(c), Held(c))
             /\ o(c) \in S /\ o(c) # c /\ W(c) \in Held(o(c))
  <2>1. todo[c] # <<>> /\ Head(todo[c]).act = "acquire" /\ o(c) \in S \ {c}
    BY DEF Wants
  <2>2. Head(todo[c]) \in LockAct /\ MayTake(W(c), Held(c))
    BY <2>1, HeadMoves DEF Moves
  <2>3. W(c) \in Locks
    BY <2>2 DEF LockAct
  <2> QED
    BY <2>1, <2>2, <2>3 DEF Held
<1> HIDE DEF W
<1>2. ASSUME NEW c \in S PROVE W(c) # "node"
  <2> SUFFICES ASSUME W(c) = "node" PROVE FALSE
    OBVIOUS
  <2>1. o(c) \in S /\ o(c) # c /\ "node" \in Held(o(c)) /\ "manager" \in Held(c)
    BY <1>1 DEF MayTake
  <2>2. "manager" \in Held(o(c))
    BY <2>1 DEF LocksInv
  <2> QED
    BY <2>1, <2>2 DEF Held
<1>3. ASSUME NEW c \in S PROVE Rank[W(c)] < Rank[W(o(c))]
  <2>1. o(c) \in S /\ W(c) \in Held(o(c))
    BY <1>1
  <2> QED
    BY <1>1, <1>2, <2>1 DEF MayTake
<1> DEFINE T == {10 - Rank[W(c)] : c \in S}
<1>4. \A l \in Locks : Rank[l] \in 1..9
  BY DEF Rank, Locks
<1>5. T \subseteq Nat /\ T # {}
  BY <1>1, <1>4
<1>6. PICK m \in T : \A n \in T : m <= n
  BY <1>5, LeastNatural
<1>7. PICK c \in S : m = 10 - Rank[W(c)]
  OBVIOUS
<1>8. o(c) \in S /\ 10 - Rank[W(o(c))] \in T
  BY <1>1
<1>9. Rank[W(c)] \in 1..9 /\ Rank[W(o(c))] \in 1..9
  BY <1>1, <1>4, <1>8
<1>10. 10 - Rank[W(c)] <= 10 - Rank[W(o(c))]
  BY <1>6, <1>7, <1>8
<1> QED
  BY <1>3, <1>9, <1>10

\* The threads that call any operations but submit_job, any number of them,
\* never wait for one another in a circle (engine.py, distributed.py,
\* scheduler.py, orchestrator.py; submit_job is the exception that the run of
\* MCRuntimeLocks shows).
THEOREM OtherCallsNeverDeadlock == NoSubmit => (Spec => []NoCircularWait)
<1> SUFFICES ASSUME NoSubmit PROVE Spec => []NoCircularWait
  OBVIOUS
<1>1. Init => LocksInv
  <2> SUFFICES ASSUME Init PROVE LocksInv
    OBVIOUS
  <2>1. \A c \in Callers : Held(c) = {}
    <3>1. \A c \in Callers : c # Nobody
      BY CalledAssumption
    <3>2. \A l \in Locks : owner[l] = Nobody
      BY DEF Init
    <3> QED
      BY Zenon, <3>1, <3>2 DEF Held
  <2>2. <<>> \in Seq(LockAct) /\ Runs(<<>>, {}, {})
    BY RunsNothing
  <2>3. todo \in [Callers -> Seq(LockAct)] /\ \A c \in Callers : todo[c] = <<>>
    BY <2>2 DEF Init
  <2> QED
    BY <2>1, <2>2, <2>3 DEF Init, LocksInv
<1>2. LocksInv /\ [Next]_vars => LocksInv'
  <2> SUFFICES ASSUME LocksInv, [Next]_vars PROVE LocksInv'
    OBVIOUS
  <2>1. CASE UNCHANGED vars
    <3>1. UNCHANGED <<todo, owner, depth>> /\ \A c : Held(c)' = Held(c)
      BY <2>1 DEF vars, Held
    <3> QED
      BY <3>1 DEF LocksInv
  <2> QED
    BY <2>1, CallKeepsLocks, AcquireKeepsLocks, ReleaseKeepsLocks DEF Next
<1> QED
  BY <1>1, <1>2, InOrderNoCircle, PTL DEF Spec
=============================================================================
