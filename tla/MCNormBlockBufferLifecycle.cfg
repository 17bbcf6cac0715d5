\* The constants of the buffer run; Destroy may come after any history.
CONSTANTS
  IdBits = 4
  RangeMax = 6
  TableSize = 28
  MaxBlocks = 4
SPECIFICATION LifeSpec
INVARIANT DestroyReleasesBlocks
\* A destroyed buffer takes no further calls.
CHECK_DEADLOCK FALSE
