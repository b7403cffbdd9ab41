------------------------------ MODULE MCStatus ------------------------------
(***************************************************************************)
(* A client that polls a process without a fallback file.                  *)
(***************************************************************************)
EXTENDS StatusApi

MCUpdaters == {Loop}
Ahead      == {1}
MCSizes    == [v \in Snapshots |-> v]
=============================================================================
