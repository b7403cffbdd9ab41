------------------------------ MODULE MCAccess ------------------------------
(***************************************************************************)
(* Readers and updaters of the state layer.                                *)
(***************************************************************************)
EXTENDS StateAccess, TLC

MCVersions == {1, 2}
=============================================================================
