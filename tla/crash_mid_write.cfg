\* The process ends between truncating and writing the file.
CONSTANTS
    channelCapacity = 2
    Loop            = Loop
    ApiCallers      = {}
    Updaters        <- MCUpdaters
    FirstVersion    = 1
    LastVersion     = 2
    Skews           <- NoSkew
    EmptyVersions   = {}
    MaxFaults       = 1
    Seeds           = {}
    SnapshotSize    <- MCGrowing
    MaxDiskFaults   = 0
    UseFallbackFile = TRUE
    MaxCalls        = 0
    MaxCrashes      = 1
SPECIFICATION Spec
INVARIANT SnapshotLoadable
