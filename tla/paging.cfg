\* A kernel with memory for its tables, heap and module, and not much more; each
\* page of the data segment above the window is in the heap, the module or faults.
CONSTANTS
  ENTRIES = 6
  video_page = 0
  module_base = 1
  module_len = 1
  data_base = 2
  data_len = 19
  code_base = 21
  code_len = 9
  data_top = 2
  kernel_code = 1
  MODULE_CODE = 4
  MODULE_DATA = 12
  module_code_pages = 2
  module_data_pages = 6
  Increments <- MCIncrements
  FaultPages <- MCFaultPages
SPECIFICATION Spec
INVARIANT WindowShowsDirectory FramesHaveOneUse UserReachesModuleOnly MemoryNeverRunsOut
PROPERTY OnlySharedPagesMove ImplementsAddressSpace
\* the machine stops when an ASSERT fails
CHECK_DEADLOCK FALSE
