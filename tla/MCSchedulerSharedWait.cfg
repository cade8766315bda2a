\* Of two processes that wait for the same child, one is never answered.
SPECIFICATION Spec
CONSTANTS
  k1 = k1
  k2 = k2
  ok = ok
  ko = ko
  MaxProc = 4
  Sockets <- NoSocket
  SocketSize = 1
  Codes <- OneCode
  Practices <- SharesWait
INVARIANT NoOrphanWaiter
