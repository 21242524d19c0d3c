CONSTANTS
    RecordTTL = 4
    reannounceInterval = 3
    None = None
    Nodes = {a, p}
    Owners = {a}
    Lossy = FALSE
SPECIFICATION Spec
INVARIANTS NoExpiryWhileRunning
