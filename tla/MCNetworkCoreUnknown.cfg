\* Programs write to machines nobody has asked for.
SPECIFICATION FairSpec
CONSTANTS
  a1 = a1
  a2 = a2
  Bcast = Bcast
  Addrs <- OneAddr
  MaxTries = 1
  MaxQueue = 1
  UnknownTargets = TRUE
  Late <- NoAddr
PROPERTY HandlerKeepsPolling
CHECK_DEADLOCK FALSE
