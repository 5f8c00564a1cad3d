------------------------------ MODULE Gateway ------------------------------
(***************************************************************************)
(* APIGateway (api/gateway.py) with its authenticator (api/auth.py), in    *)
(* front of the agent runtime.  A server thread takes a request through    *)
(* validation, authentication and routing, the handler checks the fields   *)
(* it needs and calls the client, and every exception becomes a status     *)
(* code.  Executing a task runs AgentRuntime's steps in that thread, among *)
(* those of the other threads; the other client calls are modelled by how  *)
(* they end, what they change being the subject of other modules.          *)
(***************************************************************************)
EXTENDS AgentRuntime

CONSTANTS Servers,     \* the tasks that come as requests, each in a server thread
          Tokens,      \* tokens a request may carry
          NoToken,     \* its absence
          AuthConfigs, \* configurations of APIKeyAuthenticator
          Offered      \* the requests that arrive

ASSUME GatewayAssumption ==
    /\ Servers \subseteq Tasks /\ NoToken \notin Tokens
    /\ AuthConfigs \subseteq [required : BOOLEAN, allowed : SUBSET Tokens]

VARIABLES auth,  \* APIKeyAuthenticator.required and .allowed_keys
          req    \* the request each server thread works on

gwVars == <<auth, req>>
gatewayVars == <<agVars, gwVars>>

(* _register_default_routes, grouped by handler *)
HealthRoutes  == {"GET /v1/health"}
RuntimeRoutes == {"GET /v1/runtime/status", "POST /v1/runtime/start",
                  "POST /v1/runtime/stop", "POST /v1/runtime/reload"}
CreateRoutes  == {"POST /v1/tasks/create"}
ExecuteRoutes == {"POST /v1/tasks/execute", "POST /v2/tasks/execute"}
MemoryRoutes  == {"POST /v1/memory/save", "POST /v2/memory/save", "GET /v1/memory/get"}
ContextRoutes == {"POST /v1/context/create", "GET /v1/context/active",
                  "GET /v1/context/memories"}
PluginRoutes  == {"GET /v1/plugins/list", "GET /v1/plugins/status",
                  "POST /v1/plugins/load", "POST /v1/plugins/unload",
                  "POST /v1/plugins/start", "POST /v1/plugins/stop",
                  "GET /v1/plugins/state"}
EventRoutes   == {"POST /v1/events/publish"}

Routes == HealthRoutes \cup RuntimeRoutes \cup CreateRoutes \cup ExecuteRoutes
            \cup MemoryRoutes \cup ContextRoutes \cup PluginRoutes \cup EventRoutes
Unrouted == "GET /nowhere"

\* handlers that read no field of the body or the query
Fieldless == HealthRoutes \cup RuntimeRoutes
               \cup {"POST /v1/context/create", "GET /v1/context/active",
                     "GET /v1/plugins/list", "GET /v1/plugins/status"}

\* handlers that answer 201
Creating == CreateRoutes \cup {"POST /v1/context/create"}

\* handlers that read the body
BodyRoutes == CreateRoutes \cup ExecuteRoutes \cup EventRoutes
                \cup {r \in MemoryRoutes \cup ContextRoutes \cup PluginRoutes :
                        r \notin {"GET /v1/memory/get", "GET /v1/context/active",
                                 "GET /v1/context/memories", "GET /v1/plugins/list",
                                 "GET /v1/plugins/status", "GET /v1/plugins/state"}}

\* A request is malformed (no method, an empty path, headers that are no
\* dictionary), lacks a field the handler needs (an unreadable JSON body lacks
\* them all), has JSON that is no object for its body, has input_data of a type
\* the runtime cannot read, or is complete.  A path None, which WSGI never
\* passes, raises before the try of handle_request and changes nothing.
Forms == {"malformed", "missing", "nonobject", "unreadable_input", "complete"}

ASSUME OfferedAssumption ==
    Offered \subseteq [route : Routes \cup {Unrouted}, token : Tokens \cup {NoToken}, form : Forms]

NoRequest == [pc |-> "idle", route |-> Unrouted, token |-> NoToken,
              form |-> "complete", status |-> 0, called |-> FALSE]

GwInit == auth \in AuthConfigs /\ req = [t \in Servers |-> NoRequest]

Replies(t, status) == req' = [req EXCEPT ![t].pc = "reply", ![t].status = status]

----------------------------------------------------------------------------
(* Dispatching                                                             *)

\* Mutant: without required, no token is looked at.
authenticateOptional(token) ==
    IF ~auth.required THEN 200 ELSE IF token = NoToken THEN 401
    ELSE IF auth.allowed # {} /\ token \notin auth.allowed THEN 403 ELSE 200

\* APIKeyAuthenticator.authenticate, as the status it leads to; 200 to go on
authenticate(token) ==
    IF ~auth.required /\ auth.allowed = {} THEN 200
    ELSE IF token = NoToken THEN IF auth.required THEN 401 ELSE 200
    ELSE IF auth.allowed # {} /\ token \notin auth.allowed THEN 403 ELSE 200

\* the start of wsgi_app makes an APIRequest of the environment;
\* handle_request validates it, authenticates it and finds the handler
Dispatch(t) ==
    /\ req[t].pc = "idle" /\ At(t, "new")
    /\ \E r \in Offered :
          LET status == IF r.form = "malformed" THEN 400
                        ELSE IF authenticate(r.token) # 200 THEN authenticate(r.token)
                        ELSE IF r.route \notin Routes THEN 404 ELSE 0
          IN  req' = [req EXCEPT ![t] = [pc |-> IF status = 0 THEN "handle" ELSE "reply",
                                         route |-> r.route, token |-> r.token, form |-> r.form,
                                         status |-> status, called |-> FALSE]]
    /\ UNCHANGED <<auth, agVars>>

Complete(t) == CASE req[t].form = "missing"   -> req[t].route \in Fieldless
                 [] req[t].form = "nonobject" -> req[t].route \notin BodyRoutes
                 [] OTHER                     -> TRUE

\* a handler that misses a field raises before it calls anything; of a body
\* that is no object, "in" and get may raise something else
FieldMissing(t) ==
    /\ req[t].pc = "handle" /\ ~Complete(t)
    /\ \/ Replies(t, 400)
       \/ req[t].form = "nonobject" /\ Replies(t, 500)
    /\ UNCHANGED <<auth, agVars>>

\* the handlers that call the client and answer with what it returns; a
\* ValueError of the call is a 400 and any other exception a 500
HandleCall(t) ==
    /\ req[t].pc = "handle" /\ Complete(t) /\ req[t].route \notin ExecuteRoutes
    /\ \E status \in {IF req[t].route \in Creating THEN 201 ELSE 200, 400, 500} :
          req' = [req EXCEPT ![t].pc = "reply", ![t].status = status, ![t].called = TRUE]
    /\ UNCHANGED <<auth, agVars>>

\* the two execute handlers: create_task and execute_task; a server thread has
\* no subject in its context.  The runtime's first statement fails on
\* input_data that is not a dictionary.
HandleExecute(t) ==
    /\ req[t].pc = "handle" /\ Complete(t) /\ req[t].route \in ExecuteRoutes
    /\ IF req[t].form = "unreadable_input"
         THEN Replies(t, 500) /\ UNCHANGED agVars
         ELSE /\ \E n \in AgentNames : Submit(t, n, FALSE)
              /\ req' = [req EXCEPT ![t].pc = "execute", ![t].called = TRUE]
    /\ UNCHANGED auth

\* Mutant: the handler answers without waiting for the task.
ExecutedEarly(t) == /\ req[t].pc = "execute"
                    /\ Replies(t, 200) /\ UNCHANGED <<auth, agVars>>

\* the task came back: its status is in the body of a 200
Executed(t) == /\ req[t].pc = "execute" /\ At(t, "return")
               /\ Replies(t, 200) /\ UNCHANGED <<auth, agVars>>

\* the end of wsgi_app: the response is sent, or json.dumps raises on a
\* result that has no JSON form, outside the try of handle_request, and the
\* server gets none; either way the thread is free again
Respond(t) == /\ req[t].pc = "reply"
              /\ req' = [req EXCEPT ![t] = NoRequest]
              /\ UNCHANGED <<auth, agVars>>

----------------------------------------------------------------------------
(* The threads together                                                    *)

GatewayInit == AgInit /\ GwInit

GatewayNext ==
    \/ \E t \in Servers : \/ Dispatch(t) \/ FieldMissing(t) \/ HandleCall(t)
                          \/ HandleExecute(t) \/ Executed(t) \/ Respond(t)
    \/ \E t \in Tasks \ Servers, n \in AgentNames, subject \in BOOLEAN :
          Submit(t, n, subject) /\ UNCHANGED gwVars
    \/ \E t \in Tasks : ExecuteStep(t) /\ UNCHANGED gwVars
    \/ Manage /\ UNCHANGED gwVars

GatewaySpec == GatewayInit /\ [][GatewayNext]_gatewayVars

----------------------------------------------------------------------------
(* Properties                                                              *)

\* The type of the state.
AgentTypeOK ==
    /\ agents \in [AgentNames -> Agents \cup {NoAgent}]
    /\ sweep.todo \subseteq Agents /\ Len(audit) <= MaxAudit
    /\ \A t \in Tasks : task[t].status \in {"pending", "running", "completed", "failed"}
    /\ \A t \in Servers : req[t].status \in {0, 200, 201, 400, 401, 403, 404, 500}

\* Agents, permissions and memories stay in step while tasks of several
\* threads, sweeps and registrations interleave.
AgentsInOrder == AgentTypeOK /\ RunningMeansStarted /\ ExecutedWasGranted /\ MemoryInOrder

\* A request reaches the client only with a token the configuration accepts:
\* when a token is required it has one, and when keys are configured a token
\* it has is one of them, whether or not one is required.
ReachedWasAdmitted ==
    \A t \in Servers : req[t].called =>
        /\ req[t].route \in Routes
        /\ auth.required => req[t].token # NoToken
        /\ auth.allowed # {} => req[t].token \in auth.allowed \cup {NoToken}

\* The answer to an execute request carries the final status of its task, and
\* a task that completed was answered with 200, whatever happened meanwhile to
\* the agents that could have executed it.
AnswerIsFinal ==
    \A t \in Servers : req[t].route \in ExecuteRoutes /\ req[t].pc = "reply" =>
        /\ req[t].status = 200 => At(t, "return") /\ task[t].status \in {"completed", "failed"}
        /\ task[t].status = "completed" => req[t].status = 200

\* From the token to the answer.
RequestsInOrder == ReachedWasAdmitted /\ AnswerIsFinal
============================================================================
