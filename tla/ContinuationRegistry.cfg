SPECIFICATION RegistrySpec
CONSTANTS
    Owner = {o1, o2, o3}
    Request = {r1, r2, r3}
    Socket = {s1}
    None = None
    Fits = {"extends", "other"}
    MaxStates = 2
    MaxOwnerBytes = 2
    MaxTotalBytes = 3
    TTL = 0
    MaxSize = 3
    MaxTurns = 4
    MaxTime = 1
SYMMETRY Symmetry
INVARIANTS RegistryInOrder RecordedByCurrentTurn OfferedOnce
PROPERTY ImplementsContinuationService
CHECK_DEADLOCK FALSE
