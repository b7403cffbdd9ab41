------------------------------ MODULE MCHooks ------------------------------
(***************************************************************************)
(* Sheets with names of one stem in thirteen spellings, some rows with a   *)
(* third cell of every kind, some with cells that are not text.            *)
(***************************************************************************)
EXTENDS RedirectHooks

CONSTANTS StemA, u1, u2

MCStems == {StemA}
MCURLs  == {u1, u2}

A == Plain(StemA)

Cells(name, target, active) == [name |-> name, target |-> target, active |-> active]

\* The spellings, as rows without a third cell.
Spellings ==
    {Cells(n, u1, "absent") :
        n \in {n \in Name : n.before = "+" => n.after \in {"", "+", "/+"} /\ ~n.upper}}

\* Every third cell, as rows of the same link.
Activities == {Cells(A, u2, c) : c \in {"true", "false", "yes", "no", "text", "number"}}

Oddities ==
    {Cells(A, u2, "absent"), Cells(A, EmptyCell, "true"), Cells(A, NumberCell, "absent"),
     Cells(A, NoCell, "absent"), Cells(NumberCell, u1, "absent"),
     Cells(EmptyCell, u1, "absent")}

MCRows == Spellings \cup Activities \cup Oddities
=============================================================================
