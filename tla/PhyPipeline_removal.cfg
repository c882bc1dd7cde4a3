SPECIFICATION FairSpec
CONSTANTS
  Ues = {1, 2}
  NofWorkers = 2
  Delay = 2
  QueueSize = 1
  TtiMod = 5
INVARIANT CrcReported
