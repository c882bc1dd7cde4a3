SPECIFICATION Spec
CONSTANTS
  Rnti <- TwoRntis
  NofSlots = 8
  NofRbgs = 4
  Pid = {0}
  NofEntries = 2
  ByteMod = 256
  CapMod = 65536
  WeightDen = 2
  Shares = {1}
  UninitWeights = {0}
  UninitRntis = {0}
  MinRbgs = 1
  Demands = {0}
  CtrlSizes = {0}
  MaxUeDb = 2
INVARIANT SharesHonoured
