\* Two sessions, two supervisor processes, one fault, one crash, no deadline.
CONSTANTS
    Launchers = {l1, l2}
    Supervisors = {s1, s2}
    None = None
    MaxFaults = 1
    MaxCrashes = 1
    Deadlines = FALSE
    PollsBeatTimers = FALSE
SPECIFICATION Spec
SYMMETRY Symmetry
INVARIANTS
    RuntimeInOrder
    ServingIsWhole
    LeaseIsBacked
    FreeLockMeansClean
PROPERTIES
    NoDrainUnderLease
    ImplementsLeaseService
