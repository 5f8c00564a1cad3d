----------------------------- MODULE MCPlatform -----------------------------
(***************************************************************************)
(* The components that share no state with one another, in one run: the    *)
(* lock programs of the runtime, the gateway with the agent runtime, the   *)
(* providers, the container and the configuration.  Init picks the one     *)
(* that the behaviour is about; only it moves, so that the states of the   *)
(* components add up instead of multiplying.                               *)
(***************************************************************************)
EXTENDS RuntimeLocks, Gateway, Providers, DIContainer, Configuration, TLC

CONSTANTS a1, a2, use, view, p1, p2, p3, p4, r1, r2, A, B, C, D, k1, k2

VARIABLE focus

platformVars == <<vars, gatewayVars, prVars, diVars, cfVars, focus>>

(* The gateway and the agents: two agents under one name *)
MCNameOf == [a \in Agents |-> "agent"]
MCNeeds == (a1 :> <<use, view>>) @@ (a2 :> <<>>)
MCAuthConfigs == {[required |-> TRUE, allowed |-> {"key"}],
                  [required |-> FALSE, allowed |-> {"key"}]}
Request(route, token, form) == [route |-> route, token |-> token, form |-> form]
MCOffered == {Request("GET /v1/health", "key", "complete"),
              Request(Unrouted, "key", "complete"),
              Request("GET /v1/plugins/list", "", "malformed"),
              Request("POST /v1/context/create", "other", "complete"),
              Request("POST /v1/memory/save", "key", "missing"),
              Request("POST /v1/context/create", "key", "nonobject"),
              Request("POST /v1/tasks/execute", "", "complete"),
              Request("POST /v2/tasks/execute", "key", "unreadable_input")}

(* The providers: p4 replaces p2 under its name, and "other" is not registered *)
MCKindOf == (r1 :> "response") @@ (r2 :> "stream")
MCWishes == (r1 :> <<"other">>) @@ (r2 :> <<"mock">>)
MCFallbacks == (r1 :> <<"mock", "openai", "mock">>) @@ (r2 :> <<>>)
MCProviderName == (p1 :> "local") @@ (p2 :> "mock") @@ (p3 :> "openai")
                    @@ (p4 :> "mock")
MCStandard == [local |-> p1, mock |-> p2, openai |-> p3, other |-> NoProvider]

(* The container: A needs B, or else what is called D; B needs C or a default; *)
(* C and the string D need A                                                   *)
Param(k, n, d) == [type |-> k, name |-> n, default |-> d]
MCParams == (A :> <<Param(B, D, FALSE)>>) @@ (B :> <<Param(C, C, TRUE)>>)
              @@ (C :> <<Param(A, A, FALSE)>>) @@ (D :> <<Param(A, A, FALSE)>>)
MCSubclasses == (A :> {B, C}) @@ (B :> {}) @@ (C :> {}) @@ (D :> {})

(* The configuration: k1 has an underscore *)
Layer(x, y) == (k1 :> x) @@ (k2 :> y)
MCFilesSeen == {Layer(Absent, 1), Layer(1, Absent)}
MCEnvSeen == {Layer(Absent, Absent), Layer(2, 1)}
MCPluginKeys == <<k1, k2>>
MCSchemaRules == {[required |-> TRUE, default |-> Null, accepts |-> {1, 2}],
                  [required |-> FALSE, default |-> 1, accepts |-> {1}]}

----------------------------------------------------------------------------

PlatformInit ==
    /\ focus \in {"locks", "gateway", "providers", "container", "configuration"}
    /\ Init /\ GatewayInit /\ PrInit /\ DiInit /\ CfInit
    /\ focus # "gateway" => auth = CHOOSE x \in AuthConfigs : TRUE
    /\ focus # "configuration" => <<yaml, file, env>> = CHOOSE x \in FilesSeen \X FilesSeen \X EnvSeen : TRUE

PlatformNext ==
    /\ UNCHANGED focus
    /\ \/ /\ focus = "locks" /\ Next
          /\ UNCHANGED <<gatewayVars, prVars, diVars, cfVars>>
       \/ /\ focus = "gateway" /\ GatewayNext
          /\ UNCHANGED <<vars, prVars, diVars, cfVars>>
       \/ /\ focus = "providers" /\ PrNext
          /\ UNCHANGED <<vars, gatewayVars, diVars, cfVars>>
       \/ /\ focus = "container" /\ DiNext
          /\ UNCHANGED <<vars, gatewayVars, prVars, cfVars>>
       \/ /\ focus = "configuration" /\ CfNext
          /\ UNCHANGED <<vars, gatewayVars, prVars, diVars>>

PlatformSpec == PlatformInit /\ [][PlatformNext]_platformVars

CallerSymmetry == Permutations(Callers)
=============================================================================
