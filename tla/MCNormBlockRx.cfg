\* A short block: 5 data + 1 parity symbols in a block Init'ed for 7.
\* Erasures both above and below numParity occur, and an explicit NACK
\* such as the one for pending {0, 1, 3, 4, 5} names an ITEMS request
\* followed by a RANGES request (the form switch of lines 527-533).
CONSTANTS
  NumData = 5
  NumParity = 1
  BlockSize = 7
  XCopy <- XCopyDifference
SPECIFICATION Spec
INVARIANT TypeOK
INVARIANT NackEncodesRepairNeed
 
\* A decoded block has nothing left to do.
CHECK_DEADLOCK FALSE
