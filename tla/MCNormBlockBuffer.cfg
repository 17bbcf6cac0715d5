\* 16 ids (wrapping), range_max 6, tableSize 28 -> 4 buckets (hash_mask 3):
\* spans 2..3 take the "range <= hash_mask" reseek, spans 4..6 the full scan.
CONSTANTS
  IdBits = 4
  RangeMax = 6
  TableSize = 28
  MaxBlocks = 4
SPECIFICATION Spec
INVARIANT TypeOK
INVARIANT RangeTight
INVARIANT RemoveReturns
INVARIANT CanInsertAgrees
PROPERTY WindowRefinement
