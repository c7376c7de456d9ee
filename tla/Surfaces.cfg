SPECIFICATION SurfacesSpec
CONSTANTS
    main = main
    agent = agent
    sol = sol
    opus = opus
    Conversation = {main, agent}
    SessionOf <- SessionOfBoth
    Launch <- LaunchAll
    Request = {r1, r2}
    Codex = {sol}
    Claude = {opus}
    Shadow = shadow
    Judge = judge
    Folds <- Few
    Conversations <- Short
    Nil = Nil
    FramingReserve = 1
    MaxRoutes = 1
    MaxTries = 2
    MaxSends = 2
    MaxHooks = 1
    MaxSwitches = 2
    MaxBridgeFaults = 2

    i1 = i1
    i2 = i2
    i3 = i3
    Item = {i1, i2, i3}
    MaxEvents = 6
    MaxReduced = 5
    MaxShown = 5

    MaxBlocks = 3
    MaxPieces = 1

    Statuses = {0, 400, 401, 403, 429, 500, 529}
    Clocks = {0, 3}

    ca = ca
    cb = cb
    CallId = {ca, cb}
    MaxCallTurns = 4

    MaxHeard = 4
SYMMETRY Interchangeable
INVARIANTS BridgeInOrder ArmsOneFold FastKeepsRoute PlannerIsBest AnswersSafety EndpointsSafety FailureSafety
CHECK_DEADLOCK FALSE
