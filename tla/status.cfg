\* One updater without a fallback file, whose clock is ahead, and one client that
\* polls. The last edit removes all rows.
CONSTANTS
    Loop            = Loop
    ApiCallers      = {}
    Updaters        <- MCUpdaters
    channelCapacity = 1
    FirstVersion    = 1
    LastVersion     = 3
    Skews           <- Ahead
    EmptyVersions   = {3}
    MaxFaults       = 1
    Seeds           = {}
    SnapshotSize    <- MCSizes
    MaxDiskFaults   = 0
    UseFallbackFile = FALSE
    MaxCalls        = 0
    MaxCrashes      = 0
SPECIFICATION StatusSpec
INVARIANTS
    StatusTypeOK
    ReportDated
    LagBounded
PROPERTIES
    ReportsAdvance
    ModifiedTimeSettles
    StatusAnswered
