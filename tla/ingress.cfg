SPECIFICATION IngressSpec
CONSTANTS
    Labels <- MCLabels
    OrgNames <- MCOrgNames
    Blank <- MCBlank
    NoTenant = NoTenant
    None = None
    Null = Null
    VolumeLabels = {"data", "more", "cache"}
    SecretNames = {"KEY"}
    PartSize = 4
    Docs <- MCDocs
    Deliveries <- MCDeliveries
    Owners = {"Red", "Blue", "Fork"}
    Repos = {"app", "copy"}
    RefNames = {"main", "topic", "v1"}
    Installed <- MCInstalled
    Directory <- MCDirectory
    Definition <- MCDefinition
    Frames <- MCFrames
    Handlers = {h1, h2}
    MaxRequests = 3
    MaxAnswered = 1
    MaxFaults = 1
    MaxRuns = 4
INVARIANTS
    IngressTypeOK
    RunProvenance
    NoDoubleLaunch
    SourceIsWhole
    AnsweredInFull
SYMMETRY HandlerSymmetry
CHECK_DEADLOCK FALSE
