# A verification project for pikern

pikern is a kernel for the Raspberry Pi 1B: pre-emptive round-robin processes,
system calls through `svc`, stream and UDP sockets, an Ethernet/ARP/IPv4/UDP stack
on top of the USPi driver, a read-only file system in memory, and a few programs
(a shell and its UDP daemon, a snake server, a Z-machine). This directory holds
TLA+ modules translated from that code, TLC configurations that model-check them, and
proofs checked by TLAPS. Paths below are relative to `src/kernel/src/` unless
they say otherwise.

    tlc -workers 2 -config MCScheduler.cfg MCScheduler      # one run
    tlapm SchedulerProofs.tla                               # the proofs

## The system

| component | state | operations | talks to | modules |
|---|---|---|---|---|
| Scheduler (`process.cpp`) | process table (ring, free list, states, saved registers), active process | system calls, timer tick, `next_process()`, `ready()` | everything | `Scheduler`, `RunQueue`, `ProcessList` |
| Boot (`kernel.cpp`) | - | `kernel_main`, `kernel_run`, `init` start the kernel's threads | scheduler | `KernelBoot`, `Ush` (the boot file) |
| Stream sockets (`genericSocket.cpp`) | byte queue, delimiters | read, write | scheduler (blocking), programs | `GenericSocket`, `SocketOps` |
| UDP sockets (`udpSocket.cpp`) | stream socket, queue of senders | bind, read (system calls), write (packet handler) | packet handler, programs | `UdpSocket`, `SocketOps` |
| Packet handler (`networkCore.cpp`) | sending queue, queue filled by system calls, `queue_mutex`, port table | poll, dispatch, send, bind | ARP, UDP sockets, logger, USPi | `NetworkCore` |
| ARP cache (`arp.cpp`) | address -> sent or known | lookup (may query), learn | packet handler, logger | `NetworkCore` |
| Codecs (`ipv4.cpp`, `udp.cpp`, `icmp.cpp`, `arp.cpp`, `Bytes.cpp`, `format.cpp`) | packet counter | write and parse frames, format text | packet handler, logger | `Codec`, `Format` |
| Logger (`logger.cpp`) | log queue, listeners, two mutexes | append (any process), send (own process) | packet handler | `NetworkCore`, `Mutex` |
| Mutexes (`atomic.cpp`) | a word | compare-and-swap by system call, spin | packet handler, logger | `Mutex` |
| Interrupt lines (`process.cpp` 60-79, `interrupts.cpp`) | bound handlers, controller registers | connect, dispatch | USPi, scheduler | `Irq` |
| Kernel timers (`process.cpp` 80-135) | 256 slots, `first_trigger` | start, cancel, check on each tick | USPi, scheduler | `KernelTimers` |
| Clock (`sleep.cpp`) | two 32-bit halves of a counter | `elapsed_us()`, `sleep_us()` | scheduler, timers, ARP | `Clock` |
| Mailbox (`mailbox.cpp`, `uspi_interface.cpp`) | request buffers, cached MAC address | requests to the VideoCore, power-up | boot, network | `Mailbox` |
| GPIO and lights (`gpio.cpp`, `assert.cpp`) | function registers, pins | set up, show a byte, crash | boot, system calls | `Leds` |
| Allocator (`malloc.cpp`) | a break | allocate; freeing does nothing | everything | `Malloc` |
| Containers (`queue.h`, `expArray.h`, `hashTable.h`) | arrays that grow and shrink | push, pop, insert, find, iterate | everything | `Queue`, `ExpArray`, `HashTable` |
| File system (`filesystem.cpp`) | tree of nodes, made at build time | path lookup, reading, loading a program | scheduler, shell | `FileSystem` |
| Shell daemon (`src/kernel/programs/ushd`) | sessions: channel -> pid, sockets | relay UDP to the shell's sockets | sockets, UDP, scheduler | `Ushd` |
| Shell and commands (`src/kernel/programs`) | line being read | split, find, run; `cd`, `ls`, `cat`, `pwd`, `echo`, `ps`, `led` | file system, scheduler | `Ush`, `FileSystem`, `ProcessList`, `Leds` |
| Snake server | clients, snakes, apples | a round: input, moves, frames | UDP | `Snake` |
| Z-machine | memory, two stacks | instructions of a story | sockets | `Z*` |

What makes them correct, and what is hard:

* **Scheduler.** The ring and the free list live in the same two link fields; a slot
  moves between them in any order of creations, kills and waits. `state_info` is an
  exit code or a wake-up time depending on the state. Waking a blocked process happens
  inside the search for the next one, which must terminate, starve nobody and idle
  only when nobody can run. Programs may kill and wait for any number at all.
* **Boot.** Threads are started with interrupts on, so ticks see half-made entries.
* **Packet handler, logger, ARP.** Three actors (the handler, the logger, system calls
  of any process), three spin locks that are not re-entrant, a cache without lock,
  a front packet that holds up the queue.
* **Sockets.** Bytes, delimiters and senders are separate queues; a UDP packet is three
  updates by a pre-emptible writer, read by a system call that nothing excludes (the model assumes it away).
* **Mailbox, timers, clock, interrupts, allocator.** Answers that belong to somebody
  else or never come, stale bounds, torn reads, half-made bindings, wrap-around.
* **Containers.** Memory that doubles and halves under the data, indices modulo its size.
* **Daemon and servers.** Lost and repeated datagrams, sockets smaller than their input,
  tables that must agree over a long session.
* **Z-machine.** Everything is packed: two flat stacks for all routines, three links per
  object, property headers read backwards, text in units of five bits.

The full list, line by line, is under `hazards` in `PROJECT.json`.

## The project

1. `Scheduler` and `NetworkCore`, where processes interleave, have runs of their own, in
   several instances (`MCScheduler`, `MCNetworkCore`). `SchedulerProofs` and
   `NetworkCoreProofs` prove their safety for every size.
2. The other services of the kernel are composed by `Kernel` and checked by one run, `kernel`
   (`MCKernel` gives the constants their values), and
   the programs by another, `programs` (`MCPrograms`). Each holds several *parts* that
   share no state: the initial state chooses a part, and a behaviour is one of that part
   alone. The parts take the first of the variables `s1`, `s2`, ...; the others stay 0.
   A property speaks of its part (`part = "heap" => ...`) and joins what the module
   states of it, including its `TypeOK`.
3. `KernelProofs` proves what `kernel` checks, part by part, with `Mutex`, `QueueProofs`,
   `SocketLemmas` and `UdpSocketProofs` for the parts that are long. The last section before the
   observations lists the theorems, and what stays with TLC.
4. Of the programs, `ProgramsProofs` proves the sessions of the daemon and the game of the snake server.
   `MCPrograms` extends `Ushd` and `Snake`, so that the run and the theorems state the same `SessionsApart` and
   `SnakesGrowRight`: these two have variables of their own, which the other parts leave at their initial values.

Of the plan, this is left: the composition of `UdpSocket` with a reader blocked in the scheduler.

## Scheduler

### State and actions

`Scheduler.tla` models `process.cpp`. The variables have the names of the code:

| model | code |
|---|---|
| `size`, `next`, `prev`, `state`, `info` | `processes.size()`, `next_process`, `previous_process`, `process_state`, `state_info` |
| `free`, `active` | `free_process`, `active_process` |
| `r0` | the saved register 0: what a blocked process waits for, and the result |
| `fill` | bytes in each stream socket |
| `phase` | what the processor executes: boot, a process, one of the two loops of `next_process()`, or the loop of `crash()` |

System calls and interrupts run with IRQs masked (the processor masks them on entry),
so each is one action: `SvcExecuteFile`, `SvcKill`, `SvcWait`, `SvcSleep`, `SvcRead`,
`SvcWrite`, `Tick`. `next_process()` is modelled one iteration at a time
(`NextProcess`): `ReadyActive` ... `ReadyWaiter` are the branches of `ready()` that
answer true, with their side effects (a reader takes its data, a waiter reaps its
target), and `NotReady` is the answer false. Between iterations only the clock moves.

`SvcKill` and `SvcWait` accept, as the code does, any pid that is in the table, alive or not; for
others `ExpArray::operator[]` throws, which is not modelled. What
programs actually do is the constant `Practices`, the set of liberties they take: write
without checking, share a child, kill a zombie, kill a reaped pid, name pid 0.
With `Practices = {}` programs follow the API; each run says which liberties it grants.

Abstracted: bytes are counted, not stored; wake-up times are "future" or "past";
`r0` is 0 for a byte count or a program's argument; names, directories and stacks are
left out, and so are the system calls that only read the table, `/dev/null`
(socket -1) and a process waiting for itself, which change nothing. `Init` is
`init_process_table()`; ticks during boot are left to `KernelBoot`. The initial
`info` of a slot, uninitialised in the code, is never read before it is written: that is
part of what `TypeOK` and the invariant `SlotsMeaningful` of the proofs say.

`RunQueue.tla` says what the ring promises: a queue of pids, newcomers at the tail,
turns from the head to the tail, and who is reaped leaves from where it stands. The mapping
reads the ring from `active` on along `next` (operators `Queue`, `RingFrom`); it is a bijection
on the processes exactly when the ring is a
single cycle, so the refinement also rules out a ring that has split in two,
which `RingIntact` alone does not. `ImplementsRunQueue` is the refinement of the steps, which is
proved; that the queue goes on turning (`RQ!Fairness`) is the first half of `EveryoneRuns`. Fairness of
the abstract queue needs the fact that
the idle process admits nobody while others are queued: newcomers put before it
would overtake them for ever.

### Runs

| run | bounds | shows |
|---|---|---|
| `scheduler_safety` | idle + 3 processes, 1 socket of 1 byte, 2 exit codes | `RingIntact`, `FreeListIntact`, `RunningIsActive`, `IdleIsLast`, `NoOrphanWaiter`, `ZombieFate` |
| `scheduler_progress` | idle + 3 processes, no socket | `ImplementsRunQueue`: the ring implements `RunQueue`, and as a queue holds nobody twice; `EveryoneRuns`: it goes on turning, and nobody starves |
| `scheduler_wakeups` | idle + 2 processes, 1 socket of 2 bytes | `SchedulerReturns`: `next_process()` ends and the round robin is fair; `BlockedAreWoken`: sleepers, waiters and readers are woken |
| `kernel`, part "scheduler" | idle + 3 processes, 1 socket | `TableSurvives`: blind writers, shared children and killed zombies do not damage the ring or the free list |
| `write_full` | idle + 2 | violated: a blocked writer brings the kernel down |
| `shared_wait` | idle + 3 | violated: the second waiter of a child is forgotten |
| `kill_free` | idle + 3 | violated: `execute_file()` returns a pid in use |

Three processes besides the idle one suffice for every relation the code has: a process, its
neighbour on either side, a waiter, its target, and slots that are reaped and reused in
a different order (the free list then has up to two entries and is permuted). The
table grows and shrinks within the run. One byte distinguishes an empty socket
from a full one; two bytes add a socket that is neither.

Deadlock is checked where the system cannot stop. `crash()` stops it, so the
runs in which it is reachable turn the check off.

### Fairness

`WF(NextProcess)`: the loops run with interrupts masked, nothing else executes.
`WF(Tick)`: the ARM timer is re-armed on every entry. `WF(ClockPasses(p))`: the
counter of the system timer runs by itself. `WF(BootStart)`, `WF(AsyncGo)`: boot is straight-line code.
No fairness is assumed of programs: they may loop, and never exit or write.

### What the violations show

* `write_full`: `ready()` tests `isFull()` where it means `!isFull()`
  (`process.cpp:669`), so the kernel writes to a blocking socket that is full, which
  `genericSocket.h` warns against. The same line also means that such a writer is
  not woken when there is room. `ush` writes through `putchar()` without
  checking `is_ready_write()`, so the practice is real.
* `shared_wait`: `ready()` looks only for a zombie; a child another process has reaped
  is not one any more.
* `kill_free`: two children are killed and reaped, which puts both slots on the free list. A kill
  of the second one, now a free slot, makes it a zombie; the wait for it unlinks it once more and
  pushes it on the free list a second time. `execute_file()` then returns it twice. With one free
  slot only, the same calls end in an exception: `delete_process()` indexes
  the table by the slot's link, which is then the size of the table (`process.cpp:622`, guard `v < size` of
  `DeleteProcess`).

### Proofs

`SchedulerProofs.tla`, for every table size, set of sockets and of codes. The invariant
`IInv` is

    TypeOK /\ RingIntact /\ FreeListIntact /\ SlotsMeaningful
    /\ RunningIsActive /\ BootOnlyCreates /\ state[0] = "ACTIVE"

`RingIntact` (the links are each other's inverse and stay in the ring) is what insertion
and deletion preserve locally; `FreeListIntact` adds that the links of free slots
are injective and never point at the head, which makes popping safe without
speaking of paths. `SlotsMeaningful` is needed because the waker's target must
be another slot of the table (`SVC_WAIT` treats a process waiting for itself apart), so
that `delete_process()` never unlinks the active process, and because `state_info` is
returned as an exit code. `state[0] = "ACTIVE"` keeps the idle process in the ring.

The proof has lemmas on the table operations (`CreateKeeps`, `DeleteKeeps`,
`SameMembers`), on the kinds of step (`CreateStep`, `ReapStep`, `StateStep`, `QuietStep`),
and then one case per action. The assumptions are about programs:

| theorem | shows | assumes that programs |
|---|---|---|
| `TypeCorrect`, `RingCorrect`, `FreeListCorrect`, `RunningCorrect` | `[]TypeOK`, `[]RingIntact`, `[]FreeListIntact`, `[]RunningIsActive` | kill only processes that exist, and leave pid 0 alone (`TameKills`) |
| `WaitersCorrect` | `[]NoOrphanWaiter` | moreover do not share children |
| `ZombieCorrect` | `ZombieFate` | moreover do not kill zombies |

`WaitersCorrect` strengthens the invariant with `OneWaiterEach`: without it the
reaping of a child could leave a second waiter behind, as run `shared_wait` finds.

The second half of `SchedulerProofs.tla` proves `IdleIsLast`: when the idle process is chosen, nobody else could
run. `next_process()` has then walked along the ring from the active process to the idle one
and back, and the claim is about all who were passed. Instead of paths, which would need an
induction, the invariant `OneCycle` says that no proper part of the ring is closed under `next`,
and `SecondLoop` that in the second loop there is a set `V` of processes which holds the idle
and the active process, is closed under `next` except at the active one, and has nobody who could
run. When the walk is back at its start, `V` is closed, so it is the whole ring. `OneCycle` is
preserved by insertion (`CreateOneCycle`) and deletion (`DeleteOneCycle`), and is a result of its
own (`OneCycleCorrect`, under `TameKills`; children may be shared and zombies killed): with `RingIntact` it says
that the ring never splits. The kill of a reaped pid would split it. `BootLeavesIdle`
is needed since the boot starts the scheduler with init active.

It also proves that the ring implements the run queue (`RunQueueImplemented`, `ImplementsRunQueue`,
under `TameKills`). The queue is read off along the links, by recursion on
the length, so its definition alone says little. `Walk` says without
recursion what such a list is: it starts at `active`, each entry is linked to the
following one and the last to the first, and it holds everybody once. There is only one walk, and it is what the
recursion computes (`WalkIsRing`, by the least place where the two could differ). Each step of the scheduler then
makes a walk of a walk as the queue
says: creation appends or puts in front (`WalkAppended`), a turn rotates (`WalkRotated`), and deletion bridges the
place of the one that is reaped (`WalkShortened`). That there is always a walk (`RingIsWalk`) is an invariant of its own, preserved
from `Init` on, when it is the idle process alone.

Model-checked only: every liveness property.

## NetworkCore

### State and actions

`NetworkCore.tla` models the two kernel processes of the network and what they share:

| model | code |
|---|---|
| `sendingQueue`, `irqSendingQueue` | the queues of `networkCore.cpp`; a packet is its kind, destination and `triedSend` |
| `queueMutex`, `destMutex` | `queue_mutex`, `logDestMutex` |
| `arpCache` | `arp.cpp`: not bound, `ARP_SENT` (recent or stale), `ARP_KNOWN` |
| `logDest`, `dest`, `logQueue` | listeners, index in the loop of `sendLog()`, entries to send |
| `pc`, `to`, `mac` | where handler and logger are, and their local variables |

Handler and logger are pre-empted anywhere. `SendPacket`, `Lookup`, `Insert`, `Query` and
`Enqueue` are the pieces of `sendPacket()` -> `cachedHwAddr()` -> `queryArp()` ->
`sendFrame()` between which the other may run. A section that only updates a
queue under its lock is one action, enabled while the lock is free; the handler's sending
loop and `sendLog()`, which call something else with the lock held, hold it
over several actions. `Query` needs `queue_mutex` also when it is called from the
handler's loop, as in the code: the handler then waits for itself.
`ReadArp`, `RespondToPing` and `ReadSubscription` are the frames that matter here;
`SendSysPacket` is the system call behind `udp_write()`, which runs with interrupts
masked and touches only the second queue.

Abstracted: the contents of packets, checksums, delivery to UDP sockets, the second
queue's allocation, the short section on the log queue. The hash table is a function; each
of its operations is taken as one step (`HashTable` opens them up).

Bounds: no new frame, entry or system call while `MaxQueue` packets are queued (packets
already on their way still join), at most one entry in the log queue, `MaxTries`
instead of 1000 tries. With one try a packet can be retried, given up, or
learn its address in between. The bound on queued packets is tested when a frame, an entry or a system
call comes in; packets on their way, queries and replies still join, so that with `MaxQueue` 1 the queues
of `network_safety` hold several packets to two machines, which could overtake each other, and queries arrive
in front of them.

### Runs

| run | bounds | shows |
|---|---|---|
| `network_safety` | 2 machines, one of them slow, `MaxQueue` 1 | `TypeOK` (a packet is given up after its tries), `QueuedAddressesAsked`, `PopsItsFront`, `FirstInFirstOut` |
| `network_progress` | 1 slow machine, which programs may write to at any time, `MaxQueue` 2 | unless the handler waits for itself: it goes back to polling (`OnlyItselfStopsIt`), the front packet leaves, the logger finishes its entries |
| `unknown_target` | 1 machine, 1 packet | violated: after a `udp_write()` to a new machine the handler waits for itself |
| `arp_race` | 1 machine, 1 packet | violated: a learnt address is overwritten by the query for it |

`cachedHwAddr()` queries again when the last query is a minute old (`Expire`). The minute counts from the query and
not from when a packet was queued, so it may end while a packet waits for that machine: the handler then
has to query with `queue_mutex` held, and spins on its own lock for ever (`WaitsForItself`). One packet is enough. `Late` is
the set of machines that may leave a query unanswered that long, and `UnknownTargets` says whether programs write to machines
nobody asked for, which has the same effect.

With `UnknownTargets = FALSE`, as for a server that answers its clients, `QueuedAddressesAsked` says that every queued
packet waits for an address that was asked for, and that the handler waits for itself over no machine outside `Late`:
a system call that does not ask and a late answer are the only ways into the deadlock. The liveness
properties allow for both and say that nothing else stops handler and logger: each holds "unless
`WaitsForItself`". That the deadlock itself happens is the finding of run `unknown_target`.

### Fairness

`SF(Handler)`, `SF(Logger)`: the scheduler runs every process again and again
(`EveryoneRuns`), and each lock is released in between for a whole sleep of its
holder, in which the other actor gets full time slices; a spinning process is
pre-empted like any other. `SF(PollNothing)`: frames do not arrive without a pause.
`SF(SendFront)`: the driver does not fail for ever; if it did, a ready frame would block the
queue for ever, since only a missing address counts as a try.

### Proofs

`NetworkCoreProofs.tla`, for any machines, queue bounds and number of tries. Both actors are
pre-empted anywhere, so the invariant `IInv` says who holds what at which place:

* `TypeOK` and `Placed`: each actor is at a place of its own code;
* `HandlerLocks`, `LoggerLocks`: the handler holds `queue_mutex` in its sending loop, and elsewhere only
  while it looks for the address of the front packet; the logger holds `logDestMutex` in its walk
  over the listeners;
* `AtFront`: while the handler deals with the front packet there is one, and the address it looks for is
  that packet's. It takes `HandlerLocks`: without the lock the logger's queries would go in front;
* `SysData`, `TriesLeft`: packets of the system calls' queue are untried data; a packet has tries
  left unless it is at the front and about to be popped.

| theorem | shows | assumes |
|---|---|---|
| `TypeCorrect` | `[]TypeOK`, which bounds the tries | nothing |
| `PopsCorrect` | `PopsItsFront`: what the loop pops is the packet it has looked at | nothing |
| `OrderCorrect` | `FirstInFirstOut`: only queries overtake | nothing |
| `AskedCorrect` | `[]QueuedAddressesAsked`, with machines that answer late or never | programs write to machines that have been asked for (`~UnknownTargets`) |

`AskedCorrect` needs the packets still on their way: `SendersAsked` for those between
`cachedHwAddr()` and the queue, and `SysAsked` for the second queue. Run `unknown_target` shows that the hypothesis cannot be dropped.
`FirstInFirstOut` compares the queue before and after a step (`InTurn`): all that may happen is that packets join
at the end, the front leaves or a query is put in front. The proof needs `IInv`: that the queue is not empty when
its front is popped.
The liveness properties stay with TLC.

## The kernel's services (run `kernel`)

`Kernel.tla` gives every module its instance, `MCKernel` the constants their values; the numbers in the table are
there. The run has 1.6 million states in all.

| part | module | models | property | bounds, and why they are enough |
|---|---|---|---|---|
| queue | `Queue` | `queue.h`, cell by cell: push at both ends, pop, the moves of the memory | `ImplementsDeque`: it implements `Deque`, a sequence; growing and shrinking do not follow each other | 5 elements: the memory goes 1, 2, 4, 8 and back, from any rotation |
| array | `ExpArray` | `expArray.h`: two arrays, one assigned to the other | `HoldsTheList`: the lists their callers believe in; the assertion of `realloc()` never fires | 4 elements, sizes 1 to 8 |
| table | `HashTable` | `hashTable.h` on its growing buckets, an insertion store by store | `ImplementsDictionary`: for one process it implements `Dictionary`; a loop meets every binding once; `rehash()` would lose none | 2 buckets, 5 keys, 4 of which collide: a bucket moves |
| socket | `GenericSocket` (`SocketOps`) | bytes and distances between delimiters | `PacketsApart`: delimiters are at the ends of packets queued whole, no read goes past one; a packet that was cut is joined with the next | 6 bytes, packets of up to 3: packets that do not fit are cut |
| udp | `UdpSocket` (`SocketOps`) | binding, the handler's writes byte by byte, the reads of programs | `PacketsApart`: bytes, delimiters and senders agree, a read between two packets of the handler gives bytes of one and names its sender | 2 senders, 4 bytes, a reserved port and a free one |
| clock | `Clock` | `elapsed_us()` in two reads, `sleep_us()`, a counter that goes on | `TimeKept`: only a carry between the reads makes it wrong; no sleep is short | halves of 2 bits: three carries, delays of every length below |
| timers | `KernelTimers` | starting a timer store by store, cancelling, the check of the tick | `TimeKept`: a slot belongs to one timer until that is run or cancelled | 3 slots, 2 handlers |
| mailbox | `Mailbox` | every request word by word, lost and foreign answers, power-up | `AnswersRight`: requests whole and aligned, answers one's own, a device reported up is up, no request after the boot | 5 requests, one device that exists and one that does not |
| heap | `Malloc` | the break on words that wrap | `BlocksApart` | words of 5 bits, 20 bytes of memory aligned to 4, every size, 3 blocks |
| boot | `KernelBoot` | `kernel_main()` and `kernel_run()`: `async_start()` statement by statement, a tick before each, the table that moves when it is full | `BootSurvivesTicks`: a tick breaks the boot at three kinds of places only (`Place`); otherwise no thread is lost | the real threads, all of them |
| lock | `Mutex` | the spin lock around the log queue, interrupts that log | `MutualExclusion`: one process inside, no entry overwritten | 3 processes, 5 entries (proved for all) |
| list | `ProcessList` | `ps` and its system calls while processes start and end | `ListRight`: on a quiet machine the list is right, it fits in its memory, and only a process that ends can make `ps` stop the kernel | 4 pids, 3 changes in all |
| lines | `Irq` | `ConnectInterrupt()` line by line, `on_irq()` | `DevicesApart`: own parameter, devices stay connected, no storm | 3 lines over two registers, one the firmware left on |
| lights | `Leds` | function registers, bytes on eight pins by several writers, failed assertions | `ReadAsWritten`: pins do not disturb each other, the crash light stays | all pins, 2 bytes, one turn of the Christmas lights |
| codec | `Codec` | frames of UDP, ARP and ICMP as they are written and parsed, checksums included, and damaged on the wire | `ReadAsWritten`: whole frames are understood; a changed byte of the IP header or a cut header is noticed; the only frames that end the handler are those cut inside the Ethernet header and ARP frames that are cut (`OnlyCutFramesKill`) | payloads of 0, 1, 3 and 4 bytes: odd lengths, carries of the checksum; every byte of the header, every cut |
| format | `Format` | numbers, directives, dumps | `ReadAsWritten`: numbers read back, neighbours do not run together, lines end | all words of 8 bits in three bases; 3 pieces of 11; dumps of 0 to 66 bytes |
| scheduler | `Scheduler` | see above | `TableSurvives` | see above |

The codecs are checked for what they do, since a property is about them: the bytes are
those of the code. Everywhere else bytes are tokens.

Parts that stop say so (`Stopped`): a failed assertion, an exception or the bound on calls
ends them. In `socket` the kernel asserts that a blocking socket is never full when written; in `heap`,
`boot` and `list` the wild jump or read is the end. `clock` ends at the last value of its counter.

`NetworkCore` waits for a lock in one step where `Mutex` spins: `MutexCorrect` is why it may.
Likewise `UdpSocket` and `GenericSocket` keep sequences where the code has a `Queue`, which
`ImplementsDeque` justifies, and `NetworkCore` a function where the code has a hash table, which
`ImplementsDictionary` justifies as long as two processes do not insert at the same time
(see the observations).

## The programs (run `programs`)

| part | module | models | property | bounds, and why they are enough |
|---|---|---|---|---|
| calls | `ZCalls` | calls, returns, branches and variables on the two flat arrays `stack` and `routine_stack` | `ImplementsFrames`: they implement `ZFrames`, activations with locals and stacks of their own | 2 routines (one beyond 64 KB), nesting up to 12 words, variables of each kind |
| objects | `ZObjects` | `Object`: links by parent, sibling, child; attributes in bits | `ImplementsTree`: they implement `ObjectTree`, and links agree both ways | 4 objects: a first, a middle and a last sibling, and depth 4 |
| properties | `ZProperties` | property tables, forwards and backwards | `PropertiesRight`: what is put is got, lengths agree, the walk meets all | lengths 1, 2, 3, 63, 64 (where the header changes), tables of up to 3 |
| text | `ZText` | encoding of words, printing of strings | `WordsSurvive` | characters of each alphabet, the escape and abbreviations, texts of up to 5 |
| tokens | `ZTokens` | reading a line, cutting it, looking words up | `WordsSurvive`: words and entries against a definition by intervals | lines of up to 5 characters, 3 words at most, two dictionaries |
| instructions | `ZInstructions` | decoding of operands in the long and the variable form, arithmetic, loads and stores | `InstructionsRight` | operands of either sign, one and two bytes, the borders |
| snake | `Snake` | clients, rounds, apples, resets | `SnakesGrowRight`: bodies apart, as long as their apples make them, in one piece if steered by the four directions, tables agree | a board of 8 cells that two snakes nearly fill; one player sends any byte |
| daemon | `Ushd` | sessions of clients over datagrams that are lost, sockets that fill up | `SessionsApart`: input and output stay with their client, one shell each, who is greeted is known | 2 clients on one machine, 4 datagrams, sockets of 2 bytes, lines of up to 3 |
| shell | `Ush` | `getline()`, `split_string()`, a command, `echo`; the boot file | `LinesUnderstood`: words and lines against a definition by maximal runs, nothing typed is lost; the boot starts each line that a newline ends, and leaves one out only after its warning | 6 characters typed, a buffer for 4; boot files of 0 to 6 bytes, or none, with a buffer of 5 |
| files | `FileSystem` | path lookup, `cd`, `ls`, `pwd`, `cat`, the search for commands, the loader | `FilesRight`: against a definition of paths by names; whole files and folders; programs as their files say | every path of up to 5 characters from every folder of a tree of depth 3, files shorter than, equal to and longer than a chunk |

The stories of the Z-machine are well behaved, since the interpreter checks nothing: they name
variables they have, do not pop what their caller pushed, move no object into itself. The headers
of the modules say what each of them takes for granted. Of the shell under the daemon only its reading
and printing matters (`Echo`); `Ush` has its own part. The daemon is taken to learn the right sender from
`udp_read()`, which the code does not ensure (see `UdpSocket` and the observations).

`Ushd` takes the daemon store by store: it reads a datagram, looks it up, starts a shell, enters it
in its table and greets, or forwards what fits and tries again. The network loses datagrams, and
clients (`src/tools/ushCli.py`) time out and greet again.

`ProgramsProofs.tla` proves `SessionsApart` (`SessionsCorrect`) for any number of clients and datagrams, lines of any
length and sockets of any size (`DaemonAssumption`: both are numbers). A byte is known by its
client, its datagram and its place, so the property can say where it comes from, and the invariant `IInv` follows it:

* `InboxRight`: a waiting line is the numbered bytes of one datagram of its client, numbers are given out in
  order, and those of one client wait in order (the network loses, it does not reorder on its one link).
* `InputRight`: what a shell has read and will read is `Good`: it comes from the shell's owner, in order, without
  gaps, and before anything of that client that still waits.
* `PendingRight`: the input would still be good with all the daemon holds. So it is with the part that
  fits, which is its beginning (`GoodPrefix`): dropping the end never leaves a gap, dropping
  the beginning would.
* `OutputRight`: what a client has heard and what waits for it was read by its shell before, in order.
* `Entered`, `DealsWith`, `Sessions`: the table leads everyone to their own shell, every shell is entered, but for the one
  just started, whose client is a stranger until it is; who is open or has heard anything is in the table.

The daemon's hash table is a function here, as in `NetworkCore`. Of the shell the theorem assumes
only that it prints what it reads, a byte at a time.

`Snake` takes the server round by round, and a reset snake by snake, since each new one must keep clear of the old
ones that are still on the board; `new_snake()` may fail even where there is room, as its hundred tries may.
`SnakesCorrect` (also in `ProgramsProofs`) proves `SnakesGrowRight` for any board, length of a new snake, number of
apples and players (`GameAssumption`: the four sizes are numbers, what lies behind `DIRS` are pairs of them). The property is nearly inductive; `GameInv` adds
to it that

* the snake of a player in `Steady` that has cells has one of the four directions: `SnakeInfo` starts without one, and
  only `new_snake()` and datagrams set it, so a step of `move()` goes to a neighbour (`Right`, `Straight`). The
  server does not test the direction byte (`snake_server.cpp:263`): other players may get any pair of
  `Behind` as their direction, and their snakes jump. That bodies stay apart and lengths right holds for them too;
* `eaten` is as long as the two tables, and `turn` is a number.

The step that needs an argument is `Move` (`StepIsRight`, `MovedIsRight`): the new head is on no snake, tested before
the tail leaves, so it hits nothing even where the tail would make room; the apple eaten is replaced while head and
tail are both on the board, so the new one is off every snake after the tail has followed too.

## Proofs about the kernel's services

`KernelProofs.tla` proves about `Kernel` what run `kernel` checks of it, one part after the other:
the invariant of a part is `part = "x" => M!IInv` with the module's own inductive invariant `IInv`, a
lemma says that no other part touches it (`SamePart`), and the properties of all parts are
theorems of the same `Spec`. Short invariants stand at the end of the module they are about;
long proofs have a module of their own.

| theorem | shows | the inductive invariant adds | assumes |
|---|---|---|---|
| `LockCorrect` (from `Mutex`) | `MutualExclusion`, for any number of processes and interrupts that log | the lock word is 1 while somebody is inside, and the size a process has read is still the size when it stores: its cell is its own | nothing |
| `QueueCorrect` (from `QueueProofs`) | `ImplementsDeque`: the refinement, step by step, and no thrashing | `RingOK`: the cells in use hold values, `end` is `nbElem` cells from `beg`; the size is a power of two, without which a memory halved might be too small | nothing |
| `TableCorrect` (from `SchedulerProofs`) | `TableSurvives` | see Scheduler | `TableAssumption`; `TameKills` |
| `LinesCorrect` | `DevicesApart` | an enabled line is connected or was left on by the firmware; what was served in vain is off | the lines the firmware left on have no driver |
| `HeapCorrect` | `BlocksApart` | every block ends before the break, which passes the end by less than the alignment | `HeapAssumption`: two alignments between the end of the heap and the last address |
| `TimeCorrect` | `TimeKept` | what was noted of the clock is the past, and `init` its lower half; `first_trigger` is never lowered, so no tick looks at a slot half set | `TimeAssumption` |
| `ArrayCorrect` | `HoldsTheList` | cells in use are the list, one by one, and there is always a cell | nothing |
| `MailboxCorrect` | `AnswersRight` | `CallInv`: only the call in progress has something posted, and once it is served the buffer holds the truth; `JobInv`: the power-up has requests left | `MailboxAssumption` |
| `ListCorrect` | `ListRight` | `TableFilled`: each process that ended since the count leaves one word unwritten; `Quiet`: as long as nothing happens the table is the list | `ListAssumption`: there is a pid, and garbage is none |
| `SocketsCorrect` (from `SocketLemmas`, `UdpSocketProofs`) | `PacketsApart` | see below | `SocketAssumption` |

Where the code would break outside an assumption, it is a hypothesis and not hidden:

* `TableCorrect` is about programs that leave pid 0 alone and kill only pids that exist; run
  `kill_free` shows the rest.
* `LinesCorrect`: the kernel does not turn off the lines the firmware left on before it connects its own.
  If one of them has a driver, an interrupt between the two stores of `ConnectInterrupt()` calls the handler
  without its parameter. The code trusts the firmware here, and so does the theorem.
* `HeapCorrect`: `malloc()` rounds the break up before it compares it with the end. With the memory of
  the Raspberry Pi the end is far from the last address. The size itself may still wrap the word, and `BlocksApart`
  promises nothing after such a request.
* `TimeCorrect`: `SlotsOwned` is true for the reason the observations name: `DueTimersRun` does not hold. The
  proof would fail with a `first_trigger` that is lowered, since `StartKernelTimer()`
  stores the handler before the time.
* `MailboxCorrect`: the stray answer in the mailbox is the word 1; buffers are aligned to 16
  (`AddressAligned`), so it is never taken for one's own.

**Sockets.** A socket keeps distances between delimiters, so where a delimiter stands is a sum. The proofs
do not compute it: they carry a function `e` with `e[k] = e[k - 1] + d[k]` (`Places`), and
`DelimAtPlace` says it is the sum the property uses. `Marked` says that the delimiters stand exactly behind the
bytes that end packets and none at distance 0. `MarkedRead` is what a read does to that (it removes
delimiters at distance 0, takes up to the first one, shortens the first distance), `WrittenIs` what a write
does, cut by a full socket or not.

For UDP sockets the handler writes store by store. `CountInv` relates the queues in between: the distances and
the count since the last delimiter add up to the bytes, but for the one counted before it is
queued. `RightInv` says for each link that it is `Settled`, or a packet is `UnderWay`, or `Ended` without its
delimiter, or settled but for its missing sender. Readers come only while the handler is
outside `write()`: the code does not ensure that (`udpSocket.cpp:9`, see the observations), and what a reader
between two stores leaves behind is not modelled. `SocketAssumption` says
that sizes are numbers and that no socket is the null pointer (`NoNullLink`).

**Queue.** `PowerOfTwo` is stated without exponents: every divisor but 1 is even.
`StepApart` is the argument against thrashing: after growing the ring is at least half full, after
shrinking it has room.

### What stays with TLC

* Every liveness property: `EveryoneRuns`, `SchedulerReturns`, `BlockedAreWoken`, `OnlyItselfStopsIt`,
  `FrontLeaves`, `LoggerReturns`.
* What speaks of data by induction: `ImplementsDictionary` (chains of buckets), `ReadAsWritten`
  (digits, checksums and bits).
* `BootSurvivesTicks`, which is about one boot, with the threads it really starts: TLC sees all of it.
* The programs but for the daemon and the snake server: `Ush`, `FileSystem` and the Z-machine's modules use recursive
  or bit operators, which TLAPS does not take, and what most of them compute is stated by induction over data.

The remaining action property, `ZombieFate`, and the invariants `IdleIsLast`, `QueuedAddressesAsked`,
`PopsItsFront` are proved; see the sections of their modules.

## Observations

Besides the five violations, the models show behaviour that no document or test of the
repository speaks about, so no run claims it is wrong. Some are definitions that are stated
in their module but listed in no run, because they do not hold:

* `KernelTimers`, `DueTimersRun`: no kernel timer ever runs. `first_trigger` is only
  lowered by `recalc_trigger()`, which runs when it has passed, and it starts at the end of time
  (`process.cpp:114`).
* `Clock`, `ReadingIsRight`: a carry between the two reads of `elapsed_us()` gives a time
  71 minutes off (`sleep.cpp:13`).
* `HashTable`, `LoadBounded`: `insert()` returns before the test that would rehash, so the seven
  buckets stay (`hashTable.h:106`). `InsertedIsKept`: two processes inserting into one bucket may
  lose an insertion that has returned (`expArray.h:48`).
* `Snake`, `ServerLives`: a player for whom there is no room gets a snake without body, and the
  next move ends the server for everybody (`snake_server.cpp:327`).

Others came up while translating:

* A UDP reader between the handler's stores may find bytes without a sender, and
  later a sender of another packet (`udpSocket.cpp:9`); `sinceLastDelim++` and `Queue::push()` are loads and stores
  that such a reader's system call may come between. `UdpSocket` assumes there is none.
* A frame shorter than the Ethernet header, or an ARP frame shorter than its body, throws outside the `try` and ends the
  packet handler (`networkCore.cpp:15`, `arp.cpp:72`).
* The boot file: an empty one ends the boot, since `file_read()` takes the address of its first byte
  (`process.cpp:420`); a file of `BUFFER_SIZE` bytes or more is cut, with a warning; and a last line without newline
  is not terminated, so its name goes on with what an earlier, longer line left (`kernel.cpp:123`).
* The snake server indexes `DIRS` with any byte of a datagram (`snake_server.cpp:263`).
* `ps` allocates for the processes it has counted and shows as many: if one ends in between, the last
  words of the buffer are garbage and used as pids (`ps.cpp:9`). `GET_PROCESSES` with room for 0 pids writes one.
* `file_read()` throws at and past the end of a file, `ls` does so in a folder with an empty file; exceptions
  are thrown as pointers and caught by reference, so nobody catches them. `GET_CHILD` accepts an index
  one past the last child (`process.cpp:518`).
* `ush` runs a command it did not find as file 0.
* The mailbox is read by spinning for up to a second, then an assertion fails. What saves the handlers is that the MAC address
  is cached (`NoRequestsAfterBoot`).
* Replies to pings carry no ICMP checksum, and a frame that is cut inside its data delivers what the
  buffer held before.
* The daemon forwards a shell's output in turns of bounded size: a client with much output delays the others.
* `fsroot.node_folder` is given a small number, the size of a folder, as its address (`filesystem.cpp:20`), and
  `init_interrupts()` is not called: the table of handlers relies on memory that is zero.
* `crash()` in a process leaves the others running, as the pins in `Leds` show.

## Not modelled

* Assembler start-up, vectors and stacks of the processor's modes (`init.s`, `cinit.cpp`): no state of the
  kernel changes there that a model could tell apart.
* The USPi driver: a git submodule that is not in the repository; what the kernel uses of it is an
  environment (frames, timers, power).
* `blink()`, `blinkValue()` and the test image `blink.cpp`: busy loops between two pins.
* The Z-machine's random numbers, screen escapes, loading of the story file and the instructions that are stubs.
* The generated file system image and its generator `fs_populator.py`, `hello`, and the host tools that
  only listen or draw (`udpListen.py`, the clients of the snake game).
* Colours of the snakes, wording of messages, destructors (freeing does nothing).
