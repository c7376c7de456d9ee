\* The supervisor and one other process, one fault, three tokens; two sessions
\* that check for updates, two update commands, two releases.
SPECIFICATION LocalSpec
CONSTANTS
    Process = {p1}
    Supervisor = sup
    None = None
    MaxTokens = 3
    MaxFaults = 1

    Checker = {c1, c2}
    Updater = {u1, u2}
    NoOne = NoOne
    MaxVersion = 2
    OpensByName = FALSE
INVARIANTS SignInInOrder NeverSpentTwice
PROPERTIES SupervisorCatchesUp RenewsWhatIsStored UpdatesInStep
