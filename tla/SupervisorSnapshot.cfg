CONSTANTS
    Launchers = {l1, l2}
    Supervisors = {s1, s2}
    None = None
    MaxFaults = 0
    MaxCrashes = 0
    Deadlines = FALSE
    PollsBeatTimers = FALSE
SPECIFICATION Spec
INVARIANTS
    SnapshotWhileServing
