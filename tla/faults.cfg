SPECIFICATION Spec
CONSTANTS
    a = a
    b = b
    c = c
    Nodes = {a}
    Deps <- Chain
    Servers = {s1, s2}
    NoServer = NoServer
    NoNode = NoNode
    FailFast = FALSE
    Signals = {}
    Faults = {"redis", "history", "backplane"}
    Sweeps = {"terminal", "postgres", "kube"}
    MaxPokes = 0
    MaxCancels = 0
INVARIANTS
    ClaimsAreReal
SYMMETRY ServerSymmetry
CHECK_DEADLOCK FALSE
