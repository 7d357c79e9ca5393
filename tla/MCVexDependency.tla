-------------------------- MODULE MCVexDependency --------------------------
(***************************************************************************)
(* A small instance of VexDependency for TLC.                              *)
(***************************************************************************)
EXTENDS VexDependency

=============================================================================
