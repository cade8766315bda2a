\* A process that writes to a full socket brings the kernel down.
SPECIFICATION Spec
CONSTANTS
  k1 = k1
  k2 = k2
  ok = ok
  ko = ko
  MaxProc = 3
  Sockets <- OneSocket
  SocketSize = 1
  Codes <- OneCode
  Practices <- WritesFull
CHECK_DEADLOCK FALSE
INVARIANT NoCrash
