SPECIFICATION BackendSpec
CONSTANTS
    Owner = {o1}
    Request = {r1, r2, r3}
    Socket <- Sockets3
    None = None
    Fits = {"extends", "other"}
    MaxStates = 2
    MaxOwnerBytes = 1
    MaxTotalBytes = 2
    TTL = 0
    MaxSize = 1
    MaxTurns = 3
    MaxTime = 0
    MaxRetries = 1
    MaxPool = 2
    CleanupThreshold = 2
    CleanupTarget = 1
    Kinds = {}
    MaxFaults = 0

    Session = {a1, a2}
    Compactor = {r1, r2, r3}
    CodexModel = {codex}
    NoSummary = NoSummary
    MaxCompactions = 1
    MaxHistoryBytes = 3
    MaxRegistryBytes = 5
    HistoryTTL = 1
    HistorySizes = {1, 2, 3}
    MaxAttempts = 2
    MaxMoments = 2

    Absent = Absent
    RecentLimit = 1
    Call = {r1, r2}
    r1 = r1
    r2 = r2
    r3 = r3
    c1 = c1
    c2 = c2
    Client = {c1, c2}
    Workload <- Mixed
    DefaultProvider = "codex"
    MaxSessions = 1
    SessionTTL = 0
    MaxTokens = 2
    MaxClock = 1
    MaxPrunes = 1

    Holder = {r1, r2}
    Path = {w1, w2}
    Extra = {e1, e2}
    MaxMoves = 2

    p1 = p1
    p2 = p2
    p3 = p3
    Caller = {p1, p2, p3}
    Process = {"one", "other"}
    Home <- TwoProcesses
    NoCredential = NoCredential
    MaxCredentials = 2
    MaxRevoked = 1
INVARIANTS
    TurnsSafety CompactionSafety ServerSafety NetworkSafety AuthSafety
CHECK_DEADLOCK FALSE
