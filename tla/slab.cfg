\* Three pages of heap: bins of 3 cells of 4 bytes, of 1 of 8 bytes, and big ones.
CONSTANTS
  PAGE_SIZE        = 32
  NUM_BINS         = 3
  SMALLEST_BIN_LOG = 2
  bin_header       = 20
  big_bin_header   = 20
  heap_start       = 32
  heap_size        = 128
  Requests        <- MCRequests
SPECIFICATION Spec
INVARIANT CellsAreAccounted ListsHoldBinsWithRoom BlocksSpareHeaders AssertsHold
PROPERTY FreedMemoryIsReused ImplementsHeap
\* the machine stops when the heap is full
CHECK_DEADLOCK FALSE
