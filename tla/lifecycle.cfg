\* Three requests, a signal at any time, environments of every kind.
CONSTANTS
    Requests       = {r1, r2, r3}
    MaxUint        = 1023
    Environments  <- MCEnvironments
    DotEnvs       <- MCDotEnvs
    LinkPaths     <- MCLinks
    LocalAssets   <- MCLocal
    EmbeddedAssets <- MCEmbedded
SPECIFICATION FairSpec
CHECK_DEADLOCK FALSE
INVARIANTS
    LifecycleTypeOK
    SharedIsPublished
    HooksMatchRequests
    CacheCoversPeriod
    ForcedUpdatesGuarded
    LinksResolve
    ExitStatus
PROPERTIES
    RequestsEnd
    SignalEnds
