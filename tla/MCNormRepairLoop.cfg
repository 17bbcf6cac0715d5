\* 2 data and 2 parity symbols, one parity sent automatically: a receiver
\* short of one symbol asks for parity and the sender answers with the one
\* fresh parity symbol left.
CONSTANTS
  NumData = 2
  NumParity = 2
  AutoParity = 1
SPECIFICATION LoopSpec
PROPERTY EventuallyDecoded
\* Once the block is decoded and the sender has nothing pending, every
\* party waits for the next block.
CHECK_DEADLOCK FALSE
