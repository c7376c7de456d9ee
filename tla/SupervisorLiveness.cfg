\* Two sessions that may time out, no fault, no kill, timers slower than polls.
CONSTANTS
    Launchers = {l1, l2}
    Supervisors = {s1, s2}
    None = None
    MaxFaults = 0
    MaxCrashes = 0
    Deadlines = TRUE
    PollsBeatTimers = TRUE
SPECIFICATION FairSpec
PROPERTIES
    AcquireSucceeds
    QuiescentCleanup
