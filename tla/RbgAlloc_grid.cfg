SPECIFICATION Spec
CONSTANTS
  Rnti <- TwoRntis
  NofSlots = 8
  NofRbgs = 4
  Pid = {0}
  NofEntries = 2
  ByteMod = 8
  CapMod = 8
  WeightDen = 2
  Shares = {1}
  UninitWeights = {0, 3}
  UninitRntis = {0, 7}
  MinRbgs = 2
  Demands = {1, 5}
  CtrlSizes = {0, 1}
  MaxUeDb = 2
INVARIANTS TypeOK NoRbgTwice NewTxWithinCap FairShareDelivered FairDefaults
PROPERTIES RetxKeepsSize
