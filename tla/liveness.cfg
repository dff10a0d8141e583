SPECIFICATION FairSpec
CONSTANTS
    a = a
    b = b
    c = c
    Nodes = {a}
    Deps <- Chain
    Servers = {s1, s2}
    NoServer = NoServer
    NoNode = NoNode
    FailFast = FALSE
    Signals = {"startup", "runtime"}
    Faults = {}
    Sweeps = {"terminal", "postgres", "kube"}
    MaxPokes = 0
    MaxCancels = 0
PROPERTIES
    EveryRunEnds
    StrandedJobsAreReaped
CHECK_DEADLOCK FALSE
