------------------------ MODULE DocumentedBehaviour ------------------------
(***************************************************************************)
(* What the documentation says of updates, as properties of the pipeline.  *)
(* Each one is refuted by the run that checks it.                          *)
(***************************************************************************)
EXTENDS UpdatePipeline

\* docs/index.md:8-9, of a sheet nobody edits any more: "The application
\* regularly reads the sheet and updates itself automatically, keeping
\* everything in sync."
KeptInSync == <>[](mapping = edits)

\* docs/develop.md:38-39, of failing fetches: "If an update fails, the service
\* retains the last good state".
RetainsLastGood == [][crashes' = crashes => ~ (mapping' < mapping)]_vars

\* docs/admin.md:146, of a start that cannot reach Google: "that file will be
\* loaded instead, containing the last known-good state".
SnapshotLoadable ==
    pc[Loop] = "readFallback" => (Readable \/ file = Absent)
=============================================================================
