\* A request in flight when the signal comes.
CONSTANTS
    Requests       = {r1}
    MaxUint        = 1023
    Environments  <- MCEnvironments
    DotEnvs       <- MCDotEnvs
    LinkPaths     <- MCLinks
    LocalAssets   <- MCLocal
    EmbeddedAssets <- MCEmbedded
SPECIFICATION FairSpec
CHECK_DEADLOCK FALSE
PROPERTY RequestsDrain
