SPECIFICATION SessionsSpec
CONSTANTS
    Labels <- MCLabels
    OrgNames <- MCOrgNames
    Blank <- MCBlank
    NoTenant = NoTenant
    Docs <- MCDocs
    Claims <- MCClaims
    Runs <- MCRuns
    TenantOf <- MCTenantOf
    OwnerOf <- MCOwnerOf
    Tabs = {t1, t2}
    Sids = {s1, s2}
    None = None
    MaxLogins = 2
    MaxDeploys = 1
INVARIANTS
    SessionsTypeOK
    AuthIsEarned
    LogoutIsFinal
    ServedIsGranted
    RegistryIsFaithful
SYMMETRY TabSymmetry
CHECK_DEADLOCK FALSE
