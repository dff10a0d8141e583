SPECIFICATION Spec
CONSTANTS
    a = a
    b = b
    c = c
    Nodes = {a, b}
    Deps <- Chain
    Servers = {s1, s2}
    NoServer = NoServer
    NoNode = NoNode
    FailFast = FALSE
    Signals = {}
    Faults = {}
    Sweeps = {}
    MaxPokes = 0
    MaxCancels = 0
PROPERTIES
    FencedCoordinatorIsPassive
CHECK_DEADLOCK FALSE
