SPECIFICATION FairSpec
CONSTANTS
  Ues = {1, 2}
  NofPrb = 3
  Reserved <- Blanked
  Wants = {1, 2}
  MaxRetx = 3
  MaxPhich = 2
  GapKinds = {"none"}
  GapCycles = 1
INVARIANTS TypeOK GrantsServed SkippedWasNack OnlyGivenUpCollide
