--------------------------- MODULE ServedHistory ---------------------------
(***************************************************************************)
(* The update pipeline as an implementation of MirroredMapping: the sheet, *)
(* the live mapping, and the newest mapping that was ever live.            *)
(***************************************************************************)
EXTENDS UpdatePipeline

Mirror == INSTANCE MirroredMapping WITH
    First <- FirstVersion, latest <- edits, live <- mapping

\* The pipeline with one updater keeps the promise: over failing calls, through
\* the fallback file and across restarts the live mapping only moves forward,
\* and it catches up with the sheet.
KeepsPromise == Mirror!MirrorSpec

\* The safety of that promise does not depend on the local clock, nor on whether
\* the sheet has rows: even an instance that overlooks edits never goes back.
KeepsOrder == Mirror!MirrorSafety
=============================================================================
