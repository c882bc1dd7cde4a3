SPECIFICATION FairSpec
CONSTANTS
  DelayDl = 1
  DelayUl = 1
  NofProcs = 2
  MaxRetx = 3
  TtiMod = 6
  DuplicateTimeout = 2
  Sizes = {1}
  GapPeriod = 0
  GapLen = 0
  Lossy <- OneAtMost
  MaxRefused = 0
INVARIANTS TypeOK AckFindsItsProcess OnlyUnseenLost PushedOnce
PROPERTIES ProcessFreed ImplementsTbTransfer
