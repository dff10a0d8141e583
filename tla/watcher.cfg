SPECIFICATION WatcherSpec
CONSTANTS
    Nodes = {n1}
    Stages <- MCStages
    MaxPods = 2
    MaxBacklog = 2
    MaxDesyncs = 1
    SignalCap = 1
    CmdCap = 2
    InternalCap = 1
INVARIANTS
    WatcherTypeOK
    NoFalseAlarm
    AnnouncementsFit
PROPERTIES
    BrokenPodIsNoticed
    EvictedPodIsNoticed
CHECK_DEADLOCK FALSE
