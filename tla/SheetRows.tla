----------------------------- MODULE SheetRows -----------------------------
(***************************************************************************)
(* The loop of fetchRedirectMappingInternal, internal/ds/google-sheets.go: *)
(* which rows of the sheet become links.  The range ends with column C, a  *)
(* row ends with its last cell that is not empty, and a number is a        *)
(* float64, as everywhere in decoded JSON.                                 *)
(***************************************************************************)
EXTENDS LinkNames, Sequences

CONSTANTS
    URLs,               \* targets
    EmptyCell,          \* ""
    NumberCell,         \* any number
    NoCell,             \* the row is shorter
    Rows,               \* rows a sheet may have
    MaxRows             \* bound: rows of a sheet

\* Column C: a checkbox, text that ParseBool takes for yes or for no, other text.
Row == [name   : Name \cup {EmptyCell, NumberCell},
        target : URLs \cup {EmptyCell, NumberCell, NoCell},
        active : {"true", "false", "yes", "no", "text", "number", "absent"}]

ASSUME SheetRowsAssumption ==
    /\ Rows \subseteq Row
    /\ \A row \in Rows : row.target = NoCell => row.active = "absent"
    /\ MaxRows \in Nat

VARIABLES
    rows,           \* result.Values
    nextRow,        \* the row the loop comes to
    parseFailed,    \* err of the function, which the loop assigns to
    redirectMap     \* the map under construction

rowVars == <<rows, nextRow, parseFailed, redirectMap>>

RowsInit ==
    /\ rows \in UNION {[1..n -> Rows] : n \in 0..MaxRows}
    /\ nextRow = 1
    /\ parseFailed = FALSE
    /\ redirectMap = << >>

IsText(active) == active \in {"yes", "no", "text"}

\* Mutant: an error is never forgotten.
ParseFailedForGood(row) == parseFailed \/ row.active = "text"

\* err after the third cell was looked at: it is assigned for text only, and a
\* checkbox is judged by the error of an earlier row.
ParseFailed(row) ==
    IF IsText(row.active) THEN row.active = "text" ELSE parseFailed

\* The two lines "if !isActive || err != nil" and what leads there.
IsActive(row) ==
    \/ row.active = "absent"
    \/ row.active \in {"true", "yes"} /\ ~ParseFailed(row)

\* A row becomes a link if it is active, its name is text (the case of an int
\* never applies), its target is text, and neither is empty.
ParseRow ==
    LET row == rows[nextRow] IN
    /\ nextRow =< Len(rows)
    /\ nextRow' = nextRow + 1
    /\ parseFailed' = ParseFailed(row)
    /\ redirectMap' =
          IF IsActive(row) /\ row.name \in Name /\ row.target \in URLs
          THEN [n \in DOMAIN redirectMap \cup {row.name} |->
                   IF n = row.name THEN row.target ELSE redirectMap[n]]
          ELSE redirectMap
    /\ UNCHANGED rows
=============================================================================
