SPECIFICATION Spec
CONSTANTS
    a = a
    b = b
    c = c
    Nodes = {a}
    Deps <- Chain
    Servers = {s1, s2}
    NoServer = NoServer
    NoNode = NoNode
    FailFast = FALSE
    Signals = {}
    Faults = {}
    Sweeps = {}
    MaxPokes = 0
    MaxCancels = 1
PROPERTIES
    VerdictIsFinal
CHECK_DEADLOCK FALSE
