\* A failed write, then a failed fetch.
CONSTANTS
    channelCapacity = 2
    Loop            = Loop
    ApiCallers      = {}
    Updaters        <- MCUpdaters
    FirstVersion    = 1
    LastVersion     = 2
    Skews           <- NoSkew
    EmptyVersions   = {}
    MaxFaults       = 2
    Seeds           = {}
    SnapshotSize    <- MCGrowing
    MaxDiskFaults   = 1
    UseFallbackFile = TRUE
    MaxCalls        = 0
    MaxCrashes      = 0
SPECIFICATION Spec
PROPERTY RetainsLastGood
