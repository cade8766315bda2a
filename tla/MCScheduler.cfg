\* Safety: three processes and the idle process, one socket, two exit codes.
SPECIFICATION Spec
CONSTANTS
  k1 = k1
  k2 = k2
  ok = ok
  ko = ko
  MaxProc = 4
  Sockets <- OneSocket
  SocketSize = 1
  Codes <- TwoCodes
  Practices <- Careful
SYMMETRY CodeSymmetry
INVARIANTS
  TypeOK
  RingIntact
  FreeListIntact
  RunningIsActive
  IdleIsLast
  NoOrphanWaiter
PROPERTY ZombieFate
