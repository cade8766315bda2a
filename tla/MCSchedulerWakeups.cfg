\* Blocked processes are woken: two processes and a socket of two bytes.
SPECIFICATION FairSpec
CONSTANTS
  k1 = k1
  k2 = k2
  ok = ok
  ko = ko
  MaxProc = 3
  Sockets <- OneSocket
  SocketSize = 2
  Codes <- OneCode
  Practices <- Careful
PROPERTIES
  SchedulerReturns
  BlockedAreWoken
