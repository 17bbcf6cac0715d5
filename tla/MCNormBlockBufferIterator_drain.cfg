\* The iteration of MCNormBlockBufferIterator.cfg, checked against spec 4.4's
\* definition of GetNextBlock while the caller removes blocks between calls.
CONSTANTS
  IdBits = 4
  RangeMax = 7
  TableSize = 28
  MaxBlocks = 3
SPECIFICATION IterSpec
PROPERTY IterFindsNext
