SPECIFICATION Spec
CONSTANTS
    a = a
    b = b
    c = c
    Nodes = {a, b, c}
    Deps <- Chain
    Servers = {s1}
    NoServer = NoServer
    NoNode = NoNode
    FailFast = TRUE
    Signals = {"startup", "deadline", "closed"}
    Faults = {"s3"}
    Sweeps = {}
    MaxPokes = 1
    MaxCancels = 1
INVARIANTS
    NoLeftovers
    HistoryIsComplete
PROPERTIES
    FailFastStops
CHECK_DEADLOCK FALSE
