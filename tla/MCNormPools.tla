------------------------------ MODULE MCNormPools ------------------------------
(***************************************************************************)
(* Model-checking instance of NormPools: three segments shared by two     *)
(* blocks of two slots, so the pool runs dry while both blocks are in use.*)
(***************************************************************************)
EXTENDS NormPools

CONSTANTS s1, s2, s3, b1, b2

MCSegs   == {s1, s2, s3}
MCBlocks == {b1, b2}
=============================================================================
