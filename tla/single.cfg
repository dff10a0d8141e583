SPECIFICATION Spec
CONSTANTS
    a = a
    b = b
    c = c
    Nodes = {a, b}
    Deps <- Chain
    Servers = {s1}
    NoServer = NoServer
    NoNode = NoNode
    FailFast = FALSE
    Signals = {"startup", "running", "failed", "deadline", "closed"}
    Faults = {"redis","kube"}
    Sweeps = {}
    MaxPokes = 1
    MaxCancels = 0
INVARIANTS
    ClusterTypeOK
    RunningNodeHasDeadline
    WaitsPersisted
    HistoryIsComplete
PROPERTIES
    NoRelaunch
CHECK_DEADLOCK FALSE
