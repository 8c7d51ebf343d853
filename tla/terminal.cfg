\* A screen of two lines of two cells, a command buffer of four bytes.
CONSTANTS
  SCREEN_WIDE = 2
  SCREEN_HIGH = 2
  Keys     <- MCKeys
  Prompt   <- MCPrompt
  HelpText <- MCHelpText
  ClearCmd <- MCClearCmd
  HelpCmd  <- MCHelpCmd
  Quote    <- MCQuote
  Residue  <- MCResidue
  MaxKeys   = 8
SPECIFICATION Spec
INVARIANT ScreenShowsPaper BufferHoldsLine
\* the keys that are typed are bounded
CHECK_DEADLOCK FALSE
