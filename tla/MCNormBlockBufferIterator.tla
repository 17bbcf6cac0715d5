---------------------- MODULE MCNormBlockBufferIterator ----------------------
(***************************************************************************)
(* Model-checking instance of NormBlockBufferIterator.                   *)
(***************************************************************************)
EXTENDS NormBlockBufferIterator
=============================================================================
