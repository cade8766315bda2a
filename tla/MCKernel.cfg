\* The kernel's own services.
SPECIFICATION Spec
CONSTANTS
  NotFound = NotFound
  NULL = NULL
  Garbage = Garbage
  v1 = v1
  v2 = v2
  o1 = o1
  o2 = o2
  p1 = p1
  p2 = p2
  p3 = p3
  h1 = h1
  h2 = h2
  k1 = k1
  ok = ok
  \* A queue's memory grows to eight cells and shrinks again.
  Values = {v1, v2}
  Fresh = Fresh
  Empty = Empty
  QueueMax = 5
  ArrayMax = 4
  \* Two buckets, one of which overflows; one process.
  Keys = {0, 1, 2, 4, 6}
  TableProcs = {p1}
  NbBuckets = 2
  \* Packets of up to three bytes in a socket of six, or of four.
  Origins = {o1, o2}
  StreamSize = 6
  UdpSize = 4
  Ports = {2, 80}
  ReservedPorts = {2}
  MaxLen = 3
  \* The lower half of the counter overflows three times.
  CounterWord = 4
  MaxCounter = 13
  Delays = {0, 1, 2, 3}
  \* One slot more than handlers.
  MaxTimers = 3
  TimerHandlers = {h1, h2}
  MaxTime = 4
  TimerDelays = {1, 2}
  \* One device that can be powered, one that is not there.
  Devices = {0}
  Unknown = {3}
  MaxRequests = 5
  \* Twenty bytes of memory, aligned to four; the break wraps at 32.
  HeapWord = 32
  HeapStart = 4
  HeapEnd = 24
  Align = 4
  MaxBlocks = 3
  \* A slot for each of the kernel's threads, and the boot's own.
  BootSlots = {0, 1, 2, 3, 4, 5, 6}
  Payloads <- MCPayloads
  HostHere <- MCHere
  HostThere <- MCThere
  FromPorts = {80}
  ToPorts = {2, 22, 23}
  BoundPorts = {22}
  \* Every number of a byte, with a sign and without; dumps of two lines and a bit.
  FormatWord = 256
  Bases = {2, 10, 16}
  Pads = {0, 2, 9}
  FormatItems <- MCItems
  MaxItems = 3
  MaxDump = 66
  LockProcs = {p1, p2, p3}
  MaxLogs = 5
  \* Three processes besides ps, three of which start or end meanwhile.
  MaxPid = 4
  MaxChanges = 3
  \* Two devices with drivers, one that the firmware left on; two lines a register.
  Lines = {0, 1, 2}
  Width = 2
  Drivers <- MCDrivers
  FirmwareLines = {2}
  \* Pins left as inputs or as lines of a device; one turn of the lights.
  Bytes = {1, 200}
  AssertId = 153
  Turns = 1
  FirmwareWays = {0, 4}
  \* Three processes that write blindly, share children and kill twice.
  MaxProc = 4
  Sockets = {k1}
  SocketSize = 1
  Codes = {ok}
  Practices = {"write_full", "shared_wait", "kill_zombie"}
INVARIANTS
  HoldsTheList
  PacketsApart
  AnswersRight
  BlocksApart
  BootSurvivesTicks
  ReadAsWritten
  MutualExclusion
  ListRight
  DevicesApart
  TableSurvives
PROPERTIES
  ImplementsDeque
  ImplementsDictionary
  TimeKept
