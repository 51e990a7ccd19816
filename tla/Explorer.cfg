\* Chunks of two blocks, windows of every length and position.
SPECIFICATION LiveSpec
CONSTANTS
  Log = {0, 1, 2, 3, 4, 5, 6}
  log_block <- LogInEveryBlock
  chunk_size = 2
  U64Max = 7
INVARIANTS TypeOK LoopInv ErrWithoutProgress
PROPERTIES ImplementsContract RequestBounded Returns
