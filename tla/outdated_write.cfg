SPECIFICATION Spec
CONSTANTS
    a = a
    b = b
    c = c
    Nodes = {a}
    Deps <- Chain
    Servers = {s1, s2, s3}
    NoServer = NoServer
    NoNode = NoNode
    FailFast = FALSE
    Signals = {}
    Faults = {}
    Sweeps = {}
    MaxPokes = 0
    MaxCancels = 0
PROPERTIES
    NoOutdatedWrite
CHECK_DEADLOCK FALSE
