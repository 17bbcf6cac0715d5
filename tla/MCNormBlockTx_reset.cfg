\* TxReset on a block whose pending pattern is already installed while
\* repair is staged.
CONSTANTS
  NumData = 2
  NumParity = 2
  AutoParity = 1
  MaxErasures = 2
SPECIFICATION Spec
PROPERTY StagedRepairKept
