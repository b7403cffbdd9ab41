----------------------------- MODULE MCPipeline -----------------------------
(***************************************************************************)
(* Instances of the pipeline with concurrent updaters, and instances that  *)
(* look for one disagreement with the documentation each.                  *)
(***************************************************************************)
EXTENDS DocumentedBehaviour, FiniteSets

MCUpdaters == ApiCallers \cup {Loop}
NoSkew     == {0}
MCGrowing  == [v \in Snapshots |-> v]

\* Bound: one thing goes wrong, a call to Google, a write or a client that waits
\* too long.
TimedOut  == {c \in ApiCallers : answer[c] = "timeout"}
OneMishap == faults + diskFaults + Cardinality(TimedOut) =< 1
=============================================================================
