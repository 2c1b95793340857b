SPECIFICATION DmaSpec
CONSTANTS
  start_dma_fn = start_dma_fn
  NoWork = NoWork
  Work = {start_dma_fn}
  Wakers = {}
  MAX_WORKQ = 3
  MaxPending = 2
  MaxPosted = 5
  BURST_LEN = 4
  BLOCK = 2
  Lengths = {8}
  Waits = TRUE
PROPERTY TransferDone
CHECK_DEADLOCK FALSE
