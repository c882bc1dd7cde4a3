SPECIFICATION FairSpec
CONSTANTS
  TtiMod = 4
  MaxTti = 4
  MaxUes = 1
  NofCarriers = 1
  InboxDepth = 2
  WireDepth = 1
  MaxCrashes = 1
PROPERTIES
  FallsBackToDefaults
