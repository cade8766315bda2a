\* Two machines, one of which may not answer for a minute; programs write only
\* to machines that have been asked for.
SPECIFICATION Spec
CONSTANTS
  a1 = a1
  a2 = a2
  Bcast = Bcast
  Addrs <- TwoAddrs
  MaxTries = 1
  MaxQueue = 1
  UnknownTargets = FALSE
  Late <- OneAddr
INVARIANTS
  TypeOK
  QueuedAddressesAsked
PROPERTIES
  PopsItsFront
  FirstInFirstOut
CHECK_DEADLOCK FALSE
