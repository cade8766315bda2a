\* One machine, which may not answer for a minute or have never been asked.
SPECIFICATION FairSpec
CONSTANTS
  a1 = a1
  a2 = a2
  Bcast = Bcast
  Addrs <- OneAddr
  MaxTries = 1
  MaxQueue = 2
  UnknownTargets = TRUE
  Late <- OneAddr
PROPERTIES
  OnlyItselfStopsIt
  FrontLeaves
  LoggerReturns
CHECK_DEADLOCK FALSE
