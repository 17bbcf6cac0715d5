\* tableSize 20 is not a multiple of 8: Init makes (20 >> 3) + 1 = 3 buckets,
\* hash_mask 2, which is not of the form 2^n - 1.
CONSTANTS
  IdBits = 4
  RangeMax = 6
  TableSize = 20
  MaxBlocks = 3
SPECIFICATION Spec
PROPERTY WindowRefinement
