--------------------------- MODULE Configuration ---------------------------
(***************************************************************************)
(* ConfigurationManager (config/settings.py): defaults, file, environment  *)
(* and overrides merged in this order, with schemas that add defaults and  *)
(* are checked after every change.  A key stands for a dotted path to a    *)
(* leaf.  Every operation runs under the manager's lock and is one step.   *)
(***************************************************************************)
EXTENDS Integers, Sequences, SequencesExt

CONSTANTS ConfigKeys,
          Underscored,  \* keys with an underscore in one of their parts
          Values,
          Absent,       \* the layer has no such key
          Null,         \* it has, with the value None
          SchemaRules,  \* schemas that may be registered: [required, default, accepts]
          NoRule,
          FilesSeen,    \* contents of the active file
          EnvSeen,      \* values of the YASIN_ variables
          PluginKeys,   \* the keys under plugins.<name>, in schema order
          MaxConfigOps  \* bound: calls and changes of file or environment

Settings == Values \cup {Null}
Layers == [ConfigKeys -> Settings \cup {Absent}]

ASSUME ConfigAssumption ==
    /\ Absent \notin Settings /\ Null \notin Values /\ NoRule \notin SchemaRules
    /\ Underscored \subseteq ConfigKeys /\ PluginKeys \in Seq(ConfigKeys)
    /\ FilesSeen \subseteq Layers /\ EnvSeen \subseteq Layers
    /\ \A s \in SchemaRules : /\ s.required \in BOOLEAN /\ s.accepts \subseteq Values
                              /\ s.default \in Settings

VARIABLES yaml,      \* what default.yaml holds
          file, env, \* what the active file and the environment hold
          layers,    \* _defaults, _file_data, _env_data and _overrides
          merged,    \* _merged_data
          schemas,   \* _schemas: key -> rule
          lastSet,   \* the value of the last set for each key
          last,      \* the last operation and whether it raised
          configOps

cfVars == <<yaml, file, env, layers, merged, schemas, lastSet, last, configOps>>

Empty == [k \in ConfigKeys |-> Absent]

\* _merge_configs: defaults <- file <- environment <- overrides
Merged(l) == [k \in ConfigKeys |->
    IF l.overrides[k] # Absent THEN l.overrides[k] ELSE IF l.env[k] # Absent THEN l.env[k]
    ELSE IF l.file[k] # Absent THEN l.file[k] ELSE l.defaults[k]]

\* keys of defaults and schemas, the ones _set_nested_value matches
Known(defaults) == {k \in ConfigKeys : defaults[k] # Absent \/ schemas[k] # NoRule}

\* _load_env_overrides: the variable of a key with an underscore finds it only
\* when the key is known, and otherwise sets a key nobody asks for
EnvLoaded(defaults) ==
    [k \in ConfigKeys |-> IF k \in Underscored \ Known(defaults) THEN Absent ELSE env[k]]

\* Mutant: the environment is matched against the defaults of before.
LoadedEarly == [defaults |-> yaml, file |-> file, env |-> EnvLoaded(layers.defaults),
                overrides |-> layers.overrides]

\* the layers that reload makes: the schemas' defaults are not put back
Loaded == [defaults |-> yaml, file |-> file, env |-> EnvLoaded(yaml),
           overrides |-> layers.overrides]

\* validate over one rule, and over all
Obeys(m, k, s) == IF m[k] \in {Absent, Null} THEN ~s.required ELSE m[k] \in s.accepts
Valid(m, ss) == \A k \in ConfigKeys : ss[k] # NoRule => Obeys(m, k, ss[k])

CfInit == /\ yaml \in FilesSeen /\ file \in FilesSeen /\ env \in EnvSeen
          /\ schemas = [k \in ConfigKeys |-> NoRule]
          /\ layers = [defaults |-> yaml, file |-> file, overrides |-> Empty,
                       env |-> [k \in ConfigKeys |-> IF k \in Underscored /\ yaml[k] = Absent
                                                      THEN Absent ELSE env[k]]]
          /\ merged = Merged(layers)
          /\ lastSet = Empty /\ last = [op |-> "reload", raised |-> FALSE] /\ configOps = 0

Counted == configOps < MaxConfigOps /\ configOps' = configOps + 1

\* the end of an operation: the layers are merged and validated; an exception
\* leaves what was stored
Ends(op, l, ss) == /\ layers' = l /\ merged' = Merged(l) /\ schemas' = ss
                   /\ last' = [op |-> op, raised |-> ~Valid(Merged(l), ss)]

----------------------------------------------------------------------------
(* Operations                                                              *)

\* the defaults with the default of a schema, which replaces the one of the
\* file without a look at it
WithDefault(d, k, s) == IF s.default = Null THEN d ELSE [d EXCEPT ![k] = s.default]

\* Mutant: only the new rule is checked.
register_schemaAlone(k, s) ==
    LET l == [layers EXCEPT !.defaults = WithDefault(@, k, s)]
    IN  /\ layers' = l /\ merged' = Merged(l) /\ schemas' = [schemas EXCEPT ![k] = s]
        /\ last' = [op |-> "schema", raised |-> ~Obeys(Merged(l), k, s)]
        /\ UNCHANGED lastSet

register_schema(k, s) ==
    /\ Ends("schema", [layers EXCEPT !.defaults = WithDefault(@, k, s)], [schemas EXCEPT ![k] = s])
    /\ UNCHANGED lastSet

\* register_plugin_config without a schema merges and does not validate
PluginDefaults(d) ==
    /\ layers' = [layers EXCEPT !.defaults = [k \in ConfigKeys |-> IF Contains(PluginKeys, k)
                                                                    THEN d ELSE @[k]]]
    /\ merged' = Merged(layers') /\ last' = [op |-> "plugin", raised |-> FALSE]
    /\ UNCHANGED <<schemas, lastSet>>

\* with one it registers the schemas one after the other and stops at the
\* first that raises: the defaults and the first n rules stay
PluginSchemas(d, s) ==
    LET Of(n, k) == \E i \in 1..n : PluginKeys[i] = k
        Ss(n) == [k \in ConfigKeys |-> IF Of(n, k) THEN s ELSE schemas[k]]
        Given == [k \in ConfigKeys |-> IF Contains(PluginKeys, k) /\ d # Absent
                                         THEN d ELSE layers.defaults[k]]
        Ls(n) == [layers EXCEPT !.defaults =
                    [k \in ConfigKeys |-> IF Of(n, k) THEN WithDefault(Given, k, s)[k] ELSE Given[k]]]
    IN  /\ \E n \in DOMAIN PluginKeys :
              /\ \A i \in 1..(n - 1) : Valid(Merged(Ls(i)), Ss(i))
              /\ n = Len(PluginKeys) \/ ~Valid(Merged(Ls(n)), Ss(n))
              /\ Ends("plugin_schema", Ls(n), Ss(n))
        /\ UNCHANGED lastSet

\* Mutant: a reload starts without overrides.
reloadFresh == /\ Ends("reload", [Loaded EXCEPT !.overrides = Empty], schemas)
               /\ UNCHANGED lastSet

\* reload, load, initialize and reload_config
reload == Ends("reload", Loaded, schemas) /\ UNCHANGED lastSet

\* set stores the value before it is validated, and leaves it when it is not valid
set(k, v) == /\ Ends("set", [layers EXCEPT !.overrides[k] = v], schemas)
             /\ lastSet' = [lastSet EXCEPT ![k] = v]

\* somebody edits default.yaml, the active file or the environment (external)
Outside == /\ \/ yaml' \in FilesSeen \ {yaml} /\ UNCHANGED <<file, env>>
              \/ file' \in FilesSeen \ {file} /\ UNCHANGED <<yaml, env>>
              \/ env' \in EnvSeen \ {env} /\ UNCHANGED <<yaml, file>>
           /\ last' = [op |-> "outside", raised |-> FALSE]
           /\ UNCHANGED <<layers, merged, schemas, lastSet>>

CfNext == /\ Counted
          /\ \/ Outside
             \/ /\ UNCHANGED <<yaml, file, env>>
                /\ \/ reload
                   \/ \E k \in ConfigKeys, s \in SchemaRules : register_schema(k, s)
                   \/ \E k \in ConfigKeys, v \in Settings : set(k, v)
                   \/ \E d \in Values : PluginDefaults(d)
                   \/ \E d \in Values \cup {Absent}, s \in SchemaRules : PluginSchemas(d, s)

CfSpec == CfInit /\ [][CfNext]_cfVars

----------------------------------------------------------------------------
(* Properties                                                              *)

\* What was set stays in force until it is set again, through reloads, edits
\* of the file and the environment, schemas with defaults, and operations that
\* raised.
OverridesSurvive == \A k \in ConfigKeys : lastSet[k] # Absent => merged[k] = lastSet[k]

\* An operation that validates raises exactly when it leaves a configuration
\* that breaks a rule, an old one included: nothing invalid is passed over in
\* silence because it was there before.
RaisedMeansInvalid ==
    last.op \in {"schema", "plugin_schema", "set", "reload"} => (last.raised <=> ~Valid(merged, schemas))

\* After a reload the variable of every key that default.yaml or a schema
\* names is in force, unless the key was set.
EnvironmentInForce ==
    last.op = "reload" =>
        \A k \in ConfigKeys :
            (env[k] # Absent /\ layers.overrides[k] = Absent /\ (yaml[k] # Absent \/ schemas[k] # NoRule))
              => merged[k] = env[k]

\* The layers take precedence as documented and validation misses nothing.
LayersInForce == OverridesSurvive /\ RaisedMeansInvalid /\ EnvironmentInForce

\* settings.py:80 "If the schema specifies a default and the key is not in
\* defaults dict, populate it": a default that was there keeps its value.
DefaultsKept ==
    [][last'.op = "schema" => \A k \in ConfigKeys :
          layers.defaults[k] # Absent => layers'.defaults[k] = layers.defaults[k]]_cfVars
============================================================================
