\* Callers that pass any pointer the allocator gave them to realloc.
CONSTANTS
  PAGE_SIZE        = 32
  NUM_BINS         = 3
  SMALLEST_BIN_LOG = 2
  bin_header       = 20
  big_bin_header   = 20
  heap_start       = 32
  heap_size        = 128
  Requests        <- MCRequests
SPECIFICATION SpecReallocAny
INVARIANT AssertsHold
\* the machine stops when the heap is full
CHECK_DEADLOCK FALSE
