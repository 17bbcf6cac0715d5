\* 2 data and 2 parity symbols, both parity symbols sent automatically:
\* no fresh parity is left, so every NACK, for data or for parity, is
\* answered by explicit retransmission of the ids it names.
CONSTANTS
  NumData = 2
  NumParity = 2
  AutoParity = 2
SPECIFICATION LoopSpec
PROPERTY EventuallyDecoded
\* Once the block is decoded and the sender has nothing pending, every
\* party waits for the next block.
CHECK_DEADLOCK FALSE
