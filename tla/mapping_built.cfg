\* Sheets of up to three rows, their mapping and that of their snapshot.
CONSTANTS
    StemA       = StemA
    u1          = u1
    u2          = u2
    EmptyCell   = EmptyCell
    NumberCell  = NumberCell
    NoCell      = NoCell
    Stems       <- MCStems
    URLs        <- MCURLs
    Rows        <- MCRows
    MaxRows     = 3
SPECIFICATION Spec
CHECK_DEADLOCK FALSE
INVARIANTS
    HooksTypeOK
    LastActiveRowWins
    LinksKept
    Reachable
    SnapshotStable
