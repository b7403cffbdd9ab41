-------------------------- MODULE MirroredMapping --------------------------
(***************************************************************************)
(* What the update pipeline promises to those who follow a short link:     *)
(* the live mapping mirrors the sheet.  It is empty after a start; then it *)
(* is some state of the sheet, never one older than a state that was live  *)
(* before, in this process or an earlier one; and when the editors stop it *)
(* becomes the last state of the sheet.                                    *)
(***************************************************************************)
EXTENDS Integers

CONSTANT First              \* the sheet at deployment

VARIABLES
    latest,                 \* the sheet
    live,                   \* the live mapping, 0 while it is empty
    served                  \* the newest state that was ever live

mirrorVars == <<latest, live, served>>

MirrorInit == latest = First /\ live = 0 /\ served = 0

Edited ==
    /\ latest' = latest + 1
    /\ UNCHANGED <<live, served>>

Refresh ==
    /\ live' \in served..latest
    /\ live' > live
    /\ served' = live'
    /\ UNCHANGED latest

Restart ==
    /\ live' = 0
    /\ UNCHANGED <<latest, served>>

MirrorNext == Edited \/ Refresh \/ Restart

\* The promise without its liveness.
MirrorSafety == MirrorInit /\ [][MirrorNext]_mirrorVars

MirrorSpec == MirrorSafety /\ WF_mirrorVars(Refresh)
=============================================================================
