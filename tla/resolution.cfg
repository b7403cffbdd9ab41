\* Every sequence of three mappings, one request at a time.
CONSTANTS
    EmptyStem   = EmptyStem
    RootStem    = RootStem
    StemA       = StemA
    StemB       = StemB
    StemC       = StemC
    NoTarget    = NoTarget
    Stems       <- MCStems
    u1          = u1
    u2          = u2
    URLs        <- MCURLs
    Mappings    <- MCMappings
    Paths       <- MCPaths
    Hosts       <- MCHosts
    IgnoreCaseInPath  = TRUE
    AllowRootRedirect = TRUE
    InfoTemplate      = TRUE
    MaxUpdates  = 2
SPECIFICATION Spec
INVARIANTS
    ResolutionTypeOK
    UndisturbedRequest
    TargetWasLive
    PlainRequest
