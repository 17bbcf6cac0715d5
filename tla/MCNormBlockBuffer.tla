-------------------------- MODULE MCNormBlockBuffer --------------------------
(***************************************************************************)
(* Model-checking instance of NormBlockBuffer.  The cfg files choose the  *)
(* id width, the range limit, the tableSize given to Init and the number  *)
(* of blocks the caller owns.                                             *)
(***************************************************************************)
EXTENDS NormBlockBuffer
=============================================================================
