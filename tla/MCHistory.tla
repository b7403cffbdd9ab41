----------------------------- MODULE MCHistory -----------------------------
(***************************************************************************)
(* Instances of the pipeline as it runs in production: Setup and the       *)
(* background updater, no update-mapping endpoint (conf/config.go:204).    *)
(***************************************************************************)
EXTENDS ServedHistory, UpdateInvariant

MCUpdaters  == {Loop}
MCSkews     == {-1, 0}
\* A later version of the sheet has more rows, and a longer snapshot.
MCSnapshot  == [v \in Snapshots |-> v]
=============================================================================
