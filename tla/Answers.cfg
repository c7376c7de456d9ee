SPECIFICATION AnswersSpec
CONSTANTS
    Owner = {o1, o2}
    Request = {r1, r2}
    Socket <- Sockets3
    None = None
    Fits = {"extends"}
    MaxStates = 2
    MaxOwnerBytes = 1
    MaxTotalBytes = 1
    TTL = 0
    MaxSize = 1
    MaxTurns = 2
    MaxTime = 0
    MaxRetries = 1
    MaxPool = 1
    CleanupThreshold = 0
    CleanupTarget = 0
    Kinds = {"nostart", "unauthorized"}
    MaxFaults = 1

    Manners <- MCManners
    Settings <- MCSettings
    Config <- MCConfig
    Replies <- MCReplies
    MaxNotes = 1
    MaxAsked = 3
    MaxForeign = 1

    q1 = q1
    q2 = q2
    Relay = {q1, q2}
    Endpoint = {"native", "chat", "chat_stream", "image", "transcription", "search"}
    Permits = 1
    MaxSearchRetries = 1
    MaxChunks = 1
    MaxPaths = 1

    MaxFrame = 4
    MaxBytes = 9
    MaxChunk = 2

    Heads = {"interim", "open", "refused"}
    MaxHead = 3
    MaxRead = 2
    LongestHead = 4
    MaxHeads = 2
    MaxPayload = 2

    Dialler = {q1, q2}
    Spacing = 1
    Cooldown = 2
    ConnectTimeout = 2
    MaxMoment = 4
    MaxChanges = 1

    Budget = 3
    KeepAlive = 2
    MaxExchanges = 2
    MaxSaid = 2
    MaxTrouble = 1
SYMMETRY Symmetry
INVARIANTS TurnsSafety NoDanglingTurn ConversationSafety RelaySafety FramingSafety SocketSafety
PROPERTY NoReplayAfterOutput
CHECK_DEADLOCK FALSE
