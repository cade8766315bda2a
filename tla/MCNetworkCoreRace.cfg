\* The logger and the handler update the ARP cache.
SPECIFICATION Spec
CONSTANTS
  a1 = a1
  a2 = a2
  Bcast = Bcast
  Addrs <- OneAddr
  MaxTries = 1
  MaxQueue = 1
  UnknownTargets = FALSE
  Late <- NoAddr
PROPERTY KnownStaysKnown
