\* Killing a pid that was reaped makes execute_file() return a pid in use.
SPECIFICATION Spec
CONSTANTS
  k1 = k1
  k2 = k2
  ok = ok
  ko = ko
  MaxProc = 4
  Sockets <- NoSocket
  SocketSize = 1
  Codes <- OneCode
  Practices <- KillsFree
INVARIANT PidNotInUse
