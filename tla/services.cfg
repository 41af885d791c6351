SPECIFICATION ServicesSpec
CONSTANTS
    Focuses = {"breaker", "webhooks", "agents", "channels", "leads", "versions", "cleanup", "memory", "limits", "nodes", "videos", "streams", "switches", "sandbox", "validation", "owner"}
    c1 = c1 c2 = c2 c3 = c3 c4 = c4
    Caller = {c1, c2, c3, c4} failure_threshold = 2 recovery_timeout = 1
    half_open_max_calls = 2 MaxTime = 7 MaxFailures = 5 MaxAbandons = 3
    d1 = d1 d2 = d2 d3 = d3 no_header = no_header
    Delivery = {d1, d2, d3} NoHeader = no_header
    Provider <- MCProvider IdHeader <- MCIdHeader BodyOf <- MCBodyOf Signature <- MCSignature
    MaxHookEdits = 1
    r1 = r1 r2 = r2 r3 = r3 i1 = i1 no_thread = no_thread
    Turn = {r1, r2, r3, i1} Thread = {1, 2, 3} NoThread = no_thread
    ApiRequest = {r1, r2, r3} chat_cap = 1 Inbound = {i1} MaxWorkerLoss = 1 MaxOwnerEdits = 1
    t1 = t1 t2 = t2 t3 = t3
    LeadTask = {t1, t2, t3} MessageOf <- MCMessageOf Phone = {"phone1", "phone2"}
    q1 = q1 q2 = q2 q3 = q3 g1 = g1 g2 = g2
    StoreRequest = {q1, q2} Graph = {g1, g2} ValidGraph = {g1} MaxVersions = 3
    e1 = e1 e2 = e2 e3 = e3 x1 = x1 x2 = x2 x3 = x3 m1 = m1
    Execution = {e1, e2, e3} Trace = {x1, x2, x3} Memory = {m1} ExecutionOf <- MCExecutionOf
    batch_size = 1 max_batches = 2 MaxWrites = 1 MaxErrors = 1
    n1 = n1 n2 = n2 MemoryNode = {n1, n2} max_memories = 2 MaxMemories = 4
    history_limit = 2 max_tokens = 2 TokensOf <- MCTokensOf
    Backends = {"memory", "redis"} LimitCaller = {1, 2} Address = {1, 2}
    max_requests = 2 window_s = 2 MaxNow = 4 MaxHits = 5
    max_retries = 3 max_attempts = 3
    j1 = j1 j2 = j2 Job = {j1, j2} JobModes = {TRUE, FALSE} MaxJobFaults = 2
    s1 = s1 s2 = s2 Socket = {s1, s2} NumEvents = 2 MaxListenerErrors = 1
    db1 = db1 db2 = db2 db3 = db3 w1 = w1 w2 = w2
    Switch = {w1, w2} Database = {db1, db2, db3} LocalDatabase = db1 MaxStarts = 2
    Run = {w1, w2} CodeOf <- MCCodeOf remove_container = TRUE
    v1 = v1 v2 = v2 v3 = v3 v4 = v4 nowhere = nowhere
    Vertex = {v1, v2, v3, v4} Dangling = nowhere Typings <- MCTypings
    Gaps = {{}, {v4}} Oddities = {{}, {v4}} MaxEdges = 4
    AdminCall = {1, 2, 3} NumCreds = 2 NumPrompts = 2 MaxTokensMade = 6 MaxAdminFaults = 1
INVARIANTS ServicesTypeOK ProbeBound 
    QuestionFirst CapOverrun  ActiveIsNewest
    MemoriesBounded RollingLimitInMemory NodeAccounts OfferedWorks JobNotLost 
    CompletedIsCopied CleanIsEmpty RunsAccounted  TokensSettled
PROPERTY OpenHolds
CHECK_DEADLOCK FALSE
