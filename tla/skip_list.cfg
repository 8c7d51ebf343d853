\* Bins of two sizes, with equal ones among them, on up to three levels.
CONSTANTS
  Bin  <- MCBin
  Size <- MCSize
  SKIP_MAX_LEVEL = 2
SPECIFICATION Spec
INVARIANT ListHoldsFreeBins LevelsAreSublists FoundBinCanBeUnlinked
PROPERTY ImplementsBestFit
\* every bin may be in use, and none left to make
CHECK_DEADLOCK FALSE
