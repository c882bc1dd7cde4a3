SPECIFICATION Spec
CONSTANTS
  Window = 2
  FirstSn = 3
  Ends = {2, 3}
  PollPdu = 1
  MaxRetx = 3
  Grants = {1, 2}
  NackRooms = {0, 1, 2}
  Prohibit = TRUE
  MaxInFlight = 2
  Overtaking = {FALSE, TRUE}
CHECK_DEADLOCK FALSE
INVARIANTS TypeOK NoProtocolFailure WindowsOverlap
PROPERTIES ImplementsReliableDelivery NacksKept
