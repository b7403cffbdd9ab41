\* The background updater and a forced update, publishing into one slot, with an
\* edit, a fallback file that may be older than the sheet, and one thing that goes
\* wrong.
CONSTANTS
    Loop            = Loop
    ApiCallers      = {c1}
    Updaters        <- MCUpdaters
    channelCapacity = 1
    FirstVersion    = 1
    LastVersion     = 2
    Skews           <- NoSkew
    EmptyVersions   = {}
    MaxFaults       = 1
    Seeds           = {1}
    SnapshotSize    <- MCGrowing
    MaxDiskFaults   = 1
    UseFallbackFile = TRUE
    MaxCalls        = 1
    MaxCrashes      = 0
SPECIFICATION FairSpec
CONSTRAINT OneMishap
INVARIANTS
    TypeOK
PROPERTIES
    CallsEnd
    EveryUpdateGoesLive
    EditsReachVisitors
