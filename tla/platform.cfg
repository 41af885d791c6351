SPECIFICATION PlatformSpec
CONSTANTS
    Focuses = {"schedules", "logic", "templates", "connections", "knowledge", "reports", "library", "sessions", "users"}
    t1 = t1 Schedule = {"c", "i", "o"} kind <- MCKind period <- MCPeriod Draft = {"c"}
    Ticker = {t1} LOOKAHEAD = 1 MAX_PER_TICK = 2 MaxErrors = 2 MaxTime = 5 MaxEdits = 2 MaxFaults = 2
    MaxChain = 2 MaxTries = 2 AiAttempts = 2
    Step = {1, 2, 3} Entry = 1 Target = 3 Wants = "text" MaxTemplateEdits = 3
    LabelOf <- MCLabelOf ShapeOf <- MCShapeOf
    k1 = k1 s1 = s1 s2 = s2 a1 = a1 a2 = a2
    Conn = {k1} ConnCall = {1, 2, 3} Account = {a1, a2} MaxRenewals = 2
    Searcher = {s1, s2} QueryOf <- MCQueryOf SearchUser <- MCSearchUser Ingested <- MCIngested
    cache_ttl = 2 cache_entries = 0 MaxSearchTime = 3
    ReportedRun = {1} RunNodes = {"a", "b"} Period = 1 DayLength = 2 TrendDays = 1 MaxClock = 3
    ShelfRow = {1, 2, 3, 4} Theirs = {4} PageSize = 1 MaxTouches = 2
    Member = {1, 2} Email = {"e", "f", "g"} MemberCall = {1, 2} MaxMoves = 1
    Browser = {1} WebRequest = {1, 2} MaxTokens = 3 MaxSessionFaults = 1
INVARIANTS PlatformTypeOK NeverTooOften 
      StoredCoherent SearchGrounded  
    
CHECK_DEADLOCK FALSE
