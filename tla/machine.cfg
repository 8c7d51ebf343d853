\* The terminal waits for a user who may do nothing, and a machine that has
\* stopped stays so.
CHECK_DEADLOCK FALSE
SPECIFICATION Spec
CONSTANTS
  PAGE_SIZE = 8
  ENTRIES = 16
  LOW = 32
  MIDDLE = 8
  NIBBLE = 8
  lma = 16
  loader_size = 8
  kernel_code_size = 8
  kernel_data_size = 8
  null_ptr_offset = 1
  VIDEO_BASE_ADDR = 8
  VIDEO_SIZE = 8
  Boots <- MCBoots
  ivt <- MCIvt
  HEADER = 2
  Requests <- MCRequests
  Lengths = {9, 2039, 2047}
  Eax = {0, 4, 5}
  Irqs = {0, 1}
  Vectors = {3, 128, 200}
  MaxIrqs = 2
  MaxCalls = 4
INVARIANT SegmentsAreApart SegmentRegistersHold LayoutHolds BinsLieBelowBreak
INVARIANT AdmittedModuleFits CodeIsWhole ExitStateIsValid TerminalIsItself
PROPERTY InterruptsComeBack
