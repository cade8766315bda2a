\* The ring is a fair round robin: three processes that sleep, wait and exit.
SPECIFICATION FairSpec
CONSTANTS
  k1 = k1
  k2 = k2
  ok = ok
  ko = ko
  MaxProc = 4
  Sockets <- NoSocket
  SocketSize = 1
  Codes <- OneCode
  Practices <- Careful
PROPERTIES
  ImplementsRunQueue
  EveryoneRuns
