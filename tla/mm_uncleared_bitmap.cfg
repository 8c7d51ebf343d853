\* A data bitmap of two pages, of which init_memory_bitmap clears one.
CONSTANTS
  PAGE_SIZE        = 2
  kernel_code_size = 10
  kernel_data_size = 28
  code_segment_len = 16
  data_segment_len = 48
  Residue         <- MCResidue
SPECIFICATION Spec
INVARIANT OnlyUsedPagesMarked
