SPECIFICATION BridgeAlone
CONSTANTS
    main = main
    agent = agent
    sol = sol
    opus = opus
    Conversation = {main, agent}
    SessionOf <- SessionOfBoth
    Launch <- LaunchAll
    Request = {r1, r2}
    Codex = {sol}
    Claude = {opus}
    Shadow = shadow
    Judge = judge
    Folds <- Few
    Conversations <- Short
    Nil = Nil
    FramingReserve = 1
    MaxRoutes = 1
    MaxTries = 2
    MaxSends = 2
    MaxHooks = 1
    MaxSwitches = 2
    MaxBridgeFaults = 1
SYMMETRY Interchangeable
INVARIANT FoldsCodexOnly
CHECK_DEADLOCK FALSE
