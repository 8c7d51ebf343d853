\* Two pages of heap under mem_lock.
CONSTANTS
  PAGE_SIZE        = 32
  NUM_BINS         = 3
  SMALLEST_BIN_LOG = 2
  bin_header       = 20
  big_bin_header   = 20
  heap_start       = 32
  heap_size        = 96
  Requests        <- MCLockedRequests
SPECIFICATION LSpec
INVARIANT LockIsFreeOutside
PROPERTY CallsReturn ImplementsAllocator
\* the machine stops when the heap is full
CHECK_DEADLOCK FALSE
