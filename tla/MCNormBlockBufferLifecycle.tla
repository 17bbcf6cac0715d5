-------------------- MODULE MCNormBlockBufferLifecycle --------------------
(***************************************************************************)
(* Model-checking instance of NormBlockBufferLifecycle.                   *)
(***************************************************************************)
EXTENDS NormBlockBufferLifecycle
=============================================================================
