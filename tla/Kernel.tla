-------------------------------- MODULE Kernel --------------------------------
(***************************************************************************)
(* The kernel's own services side by side: containers, sockets, clock,     *)
(* timers, the mailbox, the heap, the boot, the lock, interrupt lines and  *)
(* pins, the formats of packets and messages, the list of processes, and   *)
(* the process table.  They share no state: a behaviour is one of a single *)
(* part, which has the first of the variables s1 to s13.                   *)
(***************************************************************************)
EXTENDS Integers, Sequences

CONSTANTS
  Values, Fresh, Empty, NotFound, QueueMax, ArrayMax,          \* containers
  Keys, TableProcs, NbBuckets,                                 \* ... the hash table
  Origins, StreamSize, UdpSize, Ports, ReservedPorts, MaxLen,  \* sockets
  CounterWord, MaxCounter, Delays,                             \* clock
  MaxTimers, TimerHandlers, MaxTime, TimerDelays, NULL,        \* timers
  Devices, Unknown, MaxRequests,                               \* mailbox
  HeapWord, HeapStart, HeapEnd, Align, MaxBlocks,              \* heap
  BootSlots, Garbage,                                          \* boot
  Payloads, HostHere, HostThere, FromPorts, ToPorts, BoundPorts,  \* packets
  FormatWord, Bases, Pads, FormatItems, MaxItems, MaxDump,     \* messages
  LockProcs, MaxLogs,                                          \* the lock of the log queue
  MaxPid, MaxChanges,                                          \* the list of processes
  Lines, Width, Drivers, FirmwareLines,                        \* interrupt lines
  Bytes, AssertId, Turns, FirmwareWays,                        \* pins
  MaxProc, Sockets, SocketSize, Codes, Practices               \* the process table
VARIABLES part, s1, s2, s3, s4, s5, s6, s7, s8, s9, s10, s11, s12, s13

Q == INSTANCE QueueProofs WITH ring <- s1, out <- s2, Value <- Values, MaxElems <- QueueMax
A == INSTANCE ExpArray WITH
  arrays <- s1, asserted <- s2, lists <- s3, Value <- Values, MaxElems <- ArrayMax
H == INSTANCE HashTable WITH
  buckets <- s1, nbAssoc <- s2, call <- s3, returned <- s4, Key <- Keys, Value <- Values,
  Procs <- TableProcs

\* A process reads and writes sockets; a packet handler fills those of the ports.
G == INSTANCE GenericSocket WITH
  sock <- s1, result <- s2, Origin <- {"sender"}, MaxSize <- StreamSize, BlockingState <- TRUE
U == INSTANCE UdpSocketProofs WITH
  portLinks <- s1, handler <- s2, got <- s3, Origin <- Origins, MaxSize <- UdpSize,
  Reserved <- ReservedPorts

T == INSTANCE Clock WITH
  counter <- s1, reader <- s2, sleeper <- s3, Word <- CounterWord, MaxClock <- MaxCounter
KT == INSTANCE KernelTimers WITH
  clock <- s1, timers <- s2, first_trigger <- s3, starter <- s4, crashed <- s5, owned <- s6,
  Handlers <- TimerHandlers, MaxClock <- MaxTime, Delays <- TimerDelays
M == INSTANCE Mailbox WITH
  brk <- s1, buffer <- s2, call <- s3, job <- s4, fifo <- s5, answers <- s6, power <- s7,
  result <- s8, cached <- s9, booted <- s10, crashed <- s11, made <- s12
B == INSTANCE Malloc WITH
  brk <- s1, blocks <- s2, wrapped <- s3, crashed <- s4, Word <- HeapWord, Start <- HeapStart,
  End <- HeapEnd
L == INSTANCE KernelBoot WITH
  next <- s1, prev <- s2, state <- s3, cont <- s4, size <- s5, cap <- s6, copy <- s7,
  active <- s8, cpu <- s9, link <- s10, at <- s11, hits <- s12, broken <- s13,
  Slots <- BootSlots
C == INSTANCE Codec WITH
  packetId <- s1, sent <- s2, frame <- s3, hurt <- s4, outcome <- s5, buffer <- s6,
  Here <- HostHere, There <- HostThere, Bound <- BoundPorts
F == INSTANCE Format WITH call <- s1, dest <- s2, Items <- FormatItems, Word <- FormatWord
X == INSTANCE Mutex WITH
  locked <- s1, pc <- s2, seen <- s3, size <- s4, pushed <- s5, dropped <- s6,
  Procs <- LockProcs
P == INSTANCE ProcessList WITH
  state <- s1, changes <- s2, ended <- s3, at <- s4, pids <- s5, room <- s6, shown <- s7
I == INSTANCE Irq WITH
  handler <- s1, param <- s2, enabled <- s3, raised <- s4, step <- s5, i <- s6, called <- s7,
  vain <- s8, Firmware <- FirmwareLines
D == INSTANCE Leds WITH
  ways <- s1, boot <- s2, lit <- s3, job <- s4, clean <- s5, crashed <- s6, Id <- AssertId,
  Firmware <- FirmwareWays
R == INSTANCE SchedulerProofs WITH
  size <- s1, next <- s2, prev <- s3, state <- s4, info <- s5, r0 <- s6, free <- s7, active <- s8,
  phase <- s9, fill <- s10

\* Times are numbers, and no handler of a timer is the null pointer.
ASSUME TimeAssumption ==
  /\ CounterWord \in Nat \ {0} /\ Delays \subseteq Nat
  /\ MaxTime \in Nat /\ TimerDelays \subseteq Nat /\ MaxTimers \in Nat
  /\ NULL \notin TimerHandlers
\* Sizes are counted, and no socket is the null pointer.
ASSUME SocketAssumption ==
  StreamSize \in Nat /\ UdpSize \in Nat /\ MaxLen \in Nat /\ U!NoNullLink
\* Requests are counted.
ASSUME MailboxAssumption == MaxRequests \in Nat
\* The heap ends so far before the last address that rounding up does not wrap.
ASSUME HeapAssumption ==
  /\ HeapWord \in Nat /\ Align \in Nat \ {0} /\ HeapWord % Align = 0
  /\ HeapStart \in Nat /\ HeapEnd \in Nat
  /\ HeapStart <= HeapEnd /\ HeapEnd + (2 * Align) <= HeapWord
\* ps itself has a pid; a word that nobody has written is no pid.
ASSUME ListAssumption == MaxPid \in Nat \ {0} /\ Garbage \notin P!Pids
\* Interrupt lines have numbers, and a register has bits.
ASSUME LinesAssumption ==
  /\ Lines \subseteq Nat /\ NULL \notin Lines /\ Width \in Nat \ {0}
  /\ DOMAIN Drivers \subseteq Lines
\* The table holds the idle process, one that is started and its parent.
ASSUME TableAssumption ==
  MaxProc \in Nat /\ MaxProc >= 3 /\ SocketSize \in Nat \ {0} /\ Practices \subseteq R!AllPractices
-----------------------------------------------------------------------------
\* A part leaves the variables it does not have at 0.
Unused13 == s13 = 0
Unused11 == s11 = 0 /\ s12 = 0 /\ Unused13
Unused9 == s9 = 0 /\ s10 = 0 /\ Unused11
Unused8 == s8 = 0 /\ Unused9
Unused7 == s7 = 0 /\ Unused8
Unused5 == s5 = 0 /\ s6 = 0 /\ Unused7
Unused4 == s4 = 0 /\ Unused5
Unused3 == s3 = 0 /\ Unused4
Rest11 == <<part, s11, s12, s13>>
Rest9 == <<s9, s10, Rest11>>
Rest8 == <<s8, Rest9>>
Rest7 == <<s7, Rest8>>
Rest5 == <<s5, s6, Rest7>>
Rest4 == <<s4, Rest5>>
Rest3 == <<s3, Rest4>>
vars == <<part, s1, s2, s3, s4, s5, s6, s7, s8, s9, s10, s11, s12, s13>>

Init ==
  \/ part = "queue" /\ Q!Init /\ Unused3
  \/ part = "array" /\ A!Init /\ Unused4
  \/ part = "table" /\ H!Init /\ Unused5
  \/ part = "socket" /\ G!Init /\ Unused3
  \/ part = "udp" /\ U!Init /\ Unused4
  \/ part = "clock" /\ T!Init /\ Unused4
  \/ part = "timers" /\ KT!Init /\ Unused7
  \/ part = "heap" /\ B!Init /\ Unused5
  \/ part = "codec" /\ C!Init /\ Unused7
  \/ part = "format" /\ F!Init /\ Unused3
  \/ part = "scheduler" /\ R!Init /\ Unused11
  \/ part = "lock" /\ X!Init /\ Unused7
  \/ part = "list" /\ P!Init /\ Unused8
  \/ part = "lines" /\ I!Init /\ Unused9
  \/ part = "lights" /\ D!Init /\ Unused7
  \/ part = "mailbox" /\ M!Init /\ Unused13
  \/ part = "boot" /\ L!Init

\* The parts that stop: by a failed assertion, an exception or a wild jump, at
\* the last value of the counter, or at the bound of their calls.
Stopped ==
  /\ part \in {"socket", "clock", "scheduler", "mailbox", "heap", "boot", "codec", "list"}
  /\ UNCHANGED vars

Next ==
  \/ part = "queue" /\ Q!Next /\ UNCHANGED Rest3
  \/ part = "array" /\ A!Next /\ UNCHANGED Rest4
  \/ part = "table" /\ H!Next /\ UNCHANGED Rest5
  \/ part = "socket" /\ G!Next /\ UNCHANGED Rest3
  \/ part = "udp" /\ U!Next /\ UNCHANGED Rest4
  \/ part = "clock" /\ T!Next /\ UNCHANGED Rest4
  \/ part = "timers" /\ KT!Next /\ UNCHANGED Rest7
  \/ part = "heap" /\ B!Next /\ UNCHANGED Rest5
  \/ part = "codec" /\ C!Next /\ UNCHANGED Rest7
  \/ part = "format" /\ F!Next /\ UNCHANGED Rest3
  \/ part = "scheduler" /\ R!Next /\ UNCHANGED Rest11
  \/ part = "lock" /\ X!Next /\ UNCHANGED Rest7
  \/ part = "list" /\ P!Next /\ UNCHANGED Rest8
  \/ part = "lines" /\ I!Next /\ UNCHANGED Rest9
  \/ part = "lights" /\ D!Next /\ UNCHANGED Rest7
  \/ part = "mailbox" /\ M!Next /\ UNCHANGED <<part, s13>>
  \/ part = "boot" /\ L!Next /\ UNCHANGED part
  \/ Stopped

Spec == Init /\ [][Next]_vars
-----------------------------------------------------------------------------
(* A ring buffer behaves as a sequence that grows at both ends, moves its    *)
(* cells to larger and smaller memory without losing one, and does not       *)
(* shrink right after it has grown.                                          *)
ImplementsDeque ==
  /\ part = "queue" => Q!Abstract!Init
  /\ [](part = "queue" => Q!TypeOK)
  /\ [][part = "queue" => Q!NoThrashing /\ (Q!Abstract!Next \/ UNCHANGED Q!Abstract!vars)]_vars

(* For one process the hash table is a dictionary: its chains hold one       *)
(* binding a key, the latest; a loop over it meets every binding once, and   *)
(* rehashing would lose none.                                                *)
ImplementsDictionary ==
  /\ part = "table" => H!Abstract!Init
  /\ [](part = "table" => H!TypeOK /\ H!IterationIsComplete /\ H!RehashKeepsBindings)
  /\ [][part = "table" => H!Abstract!Next \/ UNCHANGED H!Abstract!vars]_vars

(* A growing array holds the list its callers expect through copies, moves,  *)
(* growth and shrinking, and the assertion of its realloc() never fires.     *)
HoldsTheList == part = "array" => A!TypeOK /\ A!HoldsTheList /\ A!NeverTooSmall

(* The delimiters of a stream socket mark the ends of the packets that were  *)
(* written with one, and no read goes past such an end; what a full socket   *)
(* cuts off a packet takes its delimiter along, and its rest is joined with  *)
(* the next.  A UDP read, between two packets of the handler, gives bytes of *)
(* one packet and names their sender.                                        *)
PacketsApart ==
  /\ part = "socket" => G!TypeOK /\ G!DelimsMarkPackets /\ G!PacketsApart
  /\ part = "udp" => U!TypeOK /\ U!QueuesAligned /\ U!SenderIsRight

(* elapsed_us() is wrong only when the counter carries between its two       *)
(* reads, sleep_us() does not return early in spite of it, and a kernel      *)
(* timer keeps its slot until it is cancelled or run.                        *)
TimeKept ==
  /\ [](part = "clock" => T!WrongOnlyAtCarry)
  /\ [](part = "timers" => KT!SlotsOwned)
  /\ [][part = "clock" => T!SleepsLongEnough]_vars

(* Requests to the VideoCore are whole and aligned and return their own      *)
(* answer; a device reported as powered up is; after the boot nobody spins   *)
(* on the mailbox.                                                           *)
AnswersRight ==
  part = "mailbox" =>
    /\ M!TypeOK
    /\ M!RequestWellFormed /\ M!AnswersRight /\ M!ReportedUpIsUp /\ M!NoRequestsAfterBoot

(* Until a request makes the break wrap around, the blocks of the heap are   *)
(* aligned and apart, and pass the end by less than the rounding.            *)
BlocksApart == part = "heap" => B!TypeOK /\ B!BlocksApart

(* While the boot starts the kernel's threads, a tick breaks it at three     *)
(* places only; at the others no thread is lost.                             *)
BootSurvivesTicks == part = "boot" => L!BootSurvivesTicks /\ L!NobodyLost

(* Bytes read as they were written: a frame that arrives whole is understood *)
(* and damage to its headers noticed, one that is cut ends the handler only  *)
(* inside the Ethernet header or ARP, a printed number reads back as itself, *)
(* and neither the pieces of a format nor the lines of a dump run together.  *)
(* The pins show the byte that was written to them, keep the functions they  *)
(* had unless they are set up, and the crash's stays lit.                    *)
ReadAsWritten ==
  /\ part = "codec" => C!ReadAsWritten /\ C!DamageIsSeen /\ C!OnlyCutFramesKill
  /\ part = "format" => F!NumbersReadBack /\ F!PiecesShown /\ F!LinesEnded
  /\ part = "lights" => D!WaysApart /\ D!ByteShown /\ D!CrashStaysLit

(* Whoever logs does so alone, and no entry overwrites another.              *)
MutualExclusion == part = "lock" => X!MutualExclusion /\ X!NothingOverwritten

(* ps shows what there is on a quiet machine, in the room it has; it stops   *)
(* the kernel only if a process has ended between its system calls.          *)
ListRight == part = "list" => P!CrashNeedsAnEnd /\ P!ListFits /\ P!QuietListRight

(* An interrupt handler is called with its own parameter, stays connected,   *)
(* and a line without handler interrupts once.                               *)
DevicesApart == part = "lines" => I!OwnParameter /\ I!ConnectedStaysOn /\ I!NoStorm

(* The ring of processes and the list of free slots survive programs that    *)
(* write to full sockets, share children and kill zombies.                   *)
TableSurvives == part = "scheduler" => R!RingIntact /\ R!FreeListIntact
=============================================================================
