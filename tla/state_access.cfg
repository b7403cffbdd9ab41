\* Two lookups, the listener and two updaters that share a single slot.
CONSTANTS
    Readers         = {r1, r2}
    Updaters        = {u1, u2}
    Versions        <- MCVersions
    channelCapacity = 1
    MaxMaps         = 2
SPECIFICATION FairAccessSpec
INVARIANTS
    NoMapRace
    FindsOneWholeMap
PROPERTIES
    ImplementsState
    LookupsEnd
    UpdatesLand
