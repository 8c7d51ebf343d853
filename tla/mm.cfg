\* A code segment of 5 pages, which leaves spare bits in its bitmap, and a data
\* segment of 24, which leaves none.
CONSTANTS
  PAGE_SIZE        = 2
  kernel_code_size = 6
  kernel_data_size = 28
  code_segment_len = 11
  data_segment_len = 48
  Residue         <- MCResidue
SPECIFICATION Spec
INVARIANT PagesHaveOneUse AssertFailsOnExhaustion
PROPERTY PagesAreConserved ImplementsPageAllocator
\* the machine stops when an ASSERT fails
CHECK_DEADLOCK FALSE
