\* The assertion of alloc_page in segments that do not fill their last bitmap byte.
CONSTANTS
  PAGE_SIZE        = 2
  kernel_code_size = 6
  kernel_data_size = 28
  code_segment_len = 10
  data_segment_len = 42
  Residue         <- MCResidue
SPECIFICATION Spec
INVARIANT AssertIndexInSegment
CHECK_DEADLOCK FALSE
