\* 16 wrapping ids, range_max 7, tableSize 28 -> 4 buckets (hash_mask 3):
\* gaps of up to 6 ids exceed the table, so the scan's fallback is needed.
CONSTANTS
  IdBits = 4
  RangeMax = 7
  TableSize = 28
  MaxBlocks = 3
SPECIFICATION IterSpec
INVARIANT IteratorInOrder
PROPERTY IterFindsNextLive
