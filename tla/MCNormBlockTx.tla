---------------------------- MODULE MCNormBlockTx ----------------------------
(***************************************************************************)
(* Model-checking instance of NormBlockTx.                               *)
(***************************************************************************)
EXTENDS NormBlockTx
=============================================================================
