SPECIFICATION FairSpec
CONSTANTS
  TtiMod = 100
  MaxTti = 7
  MaxUes = 2
  NofCarriers = 2
  InboxDepth = 3
  WireDepth = 2
  MaxCrashes = 1
INVARIANTS
  TypeOK
  PoliciesInOrder
  SinglePolicy
  OldOnlyIfStale
  VerdictAgrees
PROPERTIES
  RicCntAdvances
  ImplementsPolicyFeed
