SPECIFICATION Spec
CONSTANTS
    Process = {p1}
    Supervisor = sup
    None = None
    MaxTokens = 2
    MaxFaults = 0
INVARIANT AdapterReplaced
