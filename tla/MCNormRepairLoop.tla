---------------------------- MODULE MCNormRepairLoop ----------------------------
(***************************************************************************)
(* Model-checking instance of NormRepairLoop.                             *)
(***************************************************************************)
EXTENDS NormRepairLoop
=============================================================================
