SPECIFICATION PlatformSpec
CONSTANTS
    Callers = {c1, c2, c3}
    Nobody = Nobody
    Called = {"assign_job", "cancel_job", "clear_jobs", "shutdown", "report_job_status", "send_heartbeat", "monitor_workers", "schedule_job", "stop"}
    a1 = a1  a2 = a2  use = use  view = view
    Tasks = {t1, t2}
    Servers = {t1}
    Agents = {a1, a2}
    AgentNames = {"agent"}
    NameOf <- MCNameOf
    Needs <- MCNeeds
    SelfMarking = {a1}
    Permissions = {use, view}
    NoAgent = NoAgent
    MaxAudit = 1
    MaxManage = 3
    Tokens = {"key", "other"}
    NoToken = ""
    AuthConfigs <- MCAuthConfigs
    Offered <- MCOffered
    p1 = p1  p2 = p2  p3 = p3  p4 = p4  r1 = r1  r2 = r2
    Requests = {r1, r2}
    KindOf <- MCKindOf
    Wishes <- MCWishes
    Fallbacks <- MCFallbacks
    ProviderNames = {"local", "mock", "openai", "other"}
    DefaultName = "mock"
    MockName = "mock"
    Providers = {p1, p2, p3, p4}
    ProviderName <- MCProviderName
    NoProvider = NoProvider
    Standard <- MCStandard
    MaxChanges = 3
    A = A  B = B  C = C  D = D
    Threads = {h1, h2}
    NoThread = NoThread
    Keys = {A, B, C, D}
    NoKey = NoKey
    Classes = {A, B, C}
    Subclasses <- MCSubclasses
    Params <- MCParams
    MaxOps = 4
    k1 = k1  k2 = k2
    ConfigKeys = {k1, k2}
    Underscored = {k1}
    Values = {1, 2}
    Absent = Absent
    Null = Null
    SchemaRules <- MCSchemaRules
    NoRule = NoRule
    FilesSeen <- MCFilesSeen
    EnvSeen <- MCEnvSeen
    PluginKeys <- MCPluginKeys
    MaxConfigOps = 4
SYMMETRY CallerSymmetry
CHECK_DEADLOCK FALSE
INVARIANTS
    NoCircularWait
    AgentsInOrder
    RequestsInOrder
    CallsAccountedFor
    SingletonBuiltOnce
    LayersInForce
PROPERTIES
    CycleIsReal
