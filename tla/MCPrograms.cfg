\* The programs: Z-machine, snake server, shell daemon, shell, files.
SPECIFICATION AllSpec
CONSTANTS
  Addrs = {"a"}
  Ports = {1, 2}
  SocketSize = 2
  MaxLen = 3
  MaxSends = 4
  WIDTH = 4
  HEIGHT = 2
  NewLength = 2
  NB_APPLES = 1
  Players = {c1, c2}
  Steady = {c1}
  Behind <- Jumps
  MaxEaten = 1
INVARIANTS
  PropertiesRight
  WordsSurvive
  SnakesGrowRight
  SessionsApart
  LinesUnderstood
  FilesRight
PROPERTIES
  ImplementsFrames
  ImplementsTree
  InstructionsRight
