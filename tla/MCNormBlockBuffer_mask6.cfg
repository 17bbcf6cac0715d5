\* tableSize 41: Init makes (41 >> 3) + 1 = 6 buckets, hash_mask 5.
CONSTANTS
  IdBits = 4
  RangeMax = 6
  TableSize = 41
  MaxBlocks = 3
SPECIFICATION Spec
INVARIANT RemoveReturns
