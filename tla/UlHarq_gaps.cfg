SPECIFICATION FairSpec
CONSTANTS
  Ues = {1}
  NofPrb = 3
  Reserved <- Blanked
  Wants = {1, 2}
  MaxRetx = 4
  MaxPhich = 2
  GapKinds = {"none", "fading", "phich", "pusch", "phich_pusch", "pusch_phich"}
  GapCycles = 5
INVARIANTS SkippedIsSilent TransmissionsBounded
PROPERTIES ImplementsTbTransfer ProcessFreed Resynchronized
