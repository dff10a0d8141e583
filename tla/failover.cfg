SPECIFICATION Spec
CONSTANTS
    a = a
    b = b
    c = c
    Nodes = {a, b}
    Deps <- Chain
    Servers = {s1, s2}
    NoServer = NoServer
    NoNode = NoNode
    FailFast = FALSE
    Signals = {"startup", "runtime"}
    Faults = {}
    Sweeps = {"terminal", "postgres", "kube"}
    MaxPokes = 0
    MaxCancels = 0
INVARIANTS
    ClaimsAreReal
    RunningNodeHasDeadline
PROPERTIES
    KeepsPromise
SYMMETRY ServerSymmetry
CHECK_DEADLOCK FALSE
