SPECIFICATION FairSpec
CONSTANTS
  DelayDl = 2
  DelayUl = 2
  NofProcs = 2
  MaxRetx = 3
  TtiMod = 12
  DuplicateTimeout = 2
  Sizes = {1}
  GapPeriod = 12
  GapLen = 3
  Lossy <- None
  MaxRefused = 0
PROPERTIES ProcessFreed
