\* One updater, the fallback file, failing calls and crashes.
CONSTANTS
    channelCapacity = 2
    Loop            = Loop
    ApiCallers      = {}
    Updaters        <- MCUpdaters
    FirstVersion    = 2
    LastVersion     = 3
    Skews           <- MCSkews
    EmptyVersions   = {}
    MaxFaults       = 2
    Seeds           = {1}
    SnapshotSize    <- MCSnapshot
    MaxDiskFaults   = 0
    UseFallbackFile = TRUE
    MaxCalls        = 0
    MaxCrashes      = 2
SPECIFICATION FairSpec
INVARIANTS
    IInv
    NoEditForgotten
    SnapshotAhead
PROPERTIES
    LiveNeverRegresses
    KeepsPromise
    Converges
    FailureReported
