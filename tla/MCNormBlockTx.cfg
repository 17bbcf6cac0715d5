\* 3 data + 2 parity symbols, one sent proactively; NACKs carry up to 2
\* erasures, so both "enough fresh parity" and "not enough" occur, and a
\* staged mask such as {0, 2, 3, 4} is advertised as an ITEMS request
\* followed by a RANGES request, the form switch of lines 433-439.
CONSTANTS
  NumData = 3
  NumParity = 2
  AutoParity = 1
  MaxErasures = 2
SPECIFICATION Spec
INVARIANT TxTypeOK
INVARIANT FreshParityUnsent
PROPERTY AdvEncodesRepairMask
