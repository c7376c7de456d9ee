SPECIFICATION RequestsSpec
CONSTANTS
    Owner = {o1}
    Request = {r1, r2}
    Socket <- Sockets4
    None = None
    Fits = {"extends"}
    MaxStates = 2
    MaxOwnerBytes = 1
    MaxTotalBytes = 2
    TTL = 0
    MaxSize = 1
    MaxTurns = 2
    MaxTime = 0
    MaxRetries = 1
    MaxPool = 2
    CleanupThreshold = 2
    CleanupTarget = 1
    Kinds = {"unauthorized", "missing", "nostart", "busy", "fatal"}
    MaxFaults = 1

    MaxHttpRetries = 1
    InitialDelay = 2
    LongestDelay = 3
    NotAsked = none
    Asked = {none, 1, 4}
    MaxPathChanges = 2
    MaxBody = 3

    FallbackEnabled = TRUE
INVARIANTS HttpSafety BufferedSafety
PROPERTIES RequestsEnd HttpRequestsEnd
CHECK_DEADLOCK FALSE
