SPECIFICATION FairSpec
CONSTANTS
  Ues = {1}
  NofWorkers = 2
  Delay = 2
  QueueSize = 1
  TtiMod = 5
INVARIANTS TypeOK GrantsSaved GrantsFindTheirUe
PROPERTIES SentInOrder TtisGoOn RemovalCompletes
