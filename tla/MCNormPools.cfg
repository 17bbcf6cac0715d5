CONSTANTS
  s1 = s1
  s2 = s2
  s3 = s3
  b1 = b1
  b2 = b2
  NULL = NULL
  Segs <- MCSegs
  Blocks <- MCBlocks
  TotalSize = 2
  MaxOverruns = 2
SPECIFICATION PoolSpec
INVARIANT PoolTypeOK
INVARIANT SegmentsConserved
INVARIANT PeakIsMaxUsage
PROPERTY PoolRefinement
