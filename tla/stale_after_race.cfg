\* A forced update and a background update publish in the wrong order.
CONSTANTS
    channelCapacity = 2
    Loop            = Loop
    ApiCallers      = {c1}
    Updaters        <- MCUpdaters
    FirstVersion    = 1
    LastVersion     = 2
    Skews           <- NoSkew
    EmptyVersions   = {}
    MaxFaults       = 0
    Seeds           = {}
    SnapshotSize    <- MCGrowing
    MaxDiskFaults   = 0
    UseFallbackFile = FALSE
    MaxCalls        = 1
    MaxCrashes      = 0
SPECIFICATION FairSpec
PROPERTY KeptInSync
