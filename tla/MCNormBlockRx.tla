---------------------------- MODULE MCNormBlockRx ----------------------------
(***************************************************************************)
(* Model-checking instance of NormBlockRx.                               *)
(***************************************************************************)
EXTENDS NormBlockRx
=============================================================================
