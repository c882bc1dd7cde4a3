SPECIFICATION FairSpec
CONSTANTS
  Window = 2
  FirstSn = 0
  Ends = {1, 2}
  PollPdu = 0
  MaxRetx = 2
  Grants = {1}
  NackRooms = {2}
  Prohibit = FALSE
  MaxInFlight = 1
  Overtaking = {FALSE}
CHECK_DEADLOCK FALSE
PROPERTIES AllDelivered
