------------------------------ MODULE Scheduler ------------------------------
(***************************************************************************)
(* The process table and the scheduler of pikern (process.cpp): the ring of *)
(* processes, the list of free slots, the system calls that create, kill,   *)
(* reap and block processes, the timer tick, and next_process(), which      *)
(* walks the ring for a process that is ready().                            *)
(*                                                                         *)
(* System calls and interrupts run with IRQs masked, so each is one action, *)
(* except that the walk of next_process() is modelled one iteration of its  *)
(* do-while loop at a time: the clock goes on while it runs.                *)
(***************************************************************************)
EXTENDS Naturals, FiniteSets

CONSTANTS
  MaxProc,      \* bound: slots the table may grow to (the code has no limit)
  Sockets,      \* the stream sockets processes share
  SocketSize,   \* bytes a socket holds (DFT_MAX_SIZE)
  Codes,        \* exit codes
  Practices     \* what programs do although the API does not foresee it

AllPractices ==
  {"write_full",    \* write() to a socket without checking is_ready_write()
   "shared_wait",   \* wait() for a pid another process already waits for
   "kill_zombie",   \* kill() a process that has exited already
   "kill_free",     \* kill() a pid that has been reaped already
   "idle_target"}   \* kill() or wait() for pid 0, as the command `kill foo` does

ASSUME SchedulerAssumption ==
  /\ MaxProc \in Nat /\ MaxProc >= 3
  /\ SocketSize \in Nat \ {0}
  /\ Practices \subseteq AllPractices

VARIABLES
  size,     \* processes.size()
  next,     \* next_process of each slot: the ring, or the list of free slots
  prev,     \* previous_process of each slot
  state,    \* process_state
  info,     \* state_info: an exit code, or a trigger time still to come or past
  r0,       \* saved r0: the socket or the pid waited for, then the result (0
            \* stands for any byte count, and for the argument of a new process)
  free,     \* free_process
  active,   \* active_process
  phase,    \* what the processor executes, see Phases
  fill      \* bytes waiting in each socket

ring == <<size, next, prev, state, free>>
vars == <<size, next, prev, state, info, r0, free, active, phase, fill>>

Pids == 0 .. MaxProc - 1

Blocked == {"WAIT_READ", "WAIT_WRITE", "SLEEPING", "WAITING"}
States == Blocked \cup {"ACTIVE", "INEXISTANT", "ZOMBIE"}

\* "boot" until async_go(), "user" while a process runs, "pass1" and "pass2" in
\* the two loops of next_process(), "crashed" once an assertion has failed.
Phases == {"boot", "user", "pass1", "pass2", "crashed"}

InTable == {p \in Pids : p < size}
InRing == {p \in InTable : state[p] # "INEXISTANT"}
FreeSlots == {p \in InTable : state[p] = "INEXISTANT"}

Scanning == phase \in {"pass1", "pass2"}
Running == phase = "user" /\ active # 0       \* process 0 makes no system call
-----------------------------------------------------------------------------
(* The ring and the free list *)

\* Mutant: the neighbour behind is not told of the newcomer.
AddProcess_OneWay(i) ==
  /\ prev' = [prev EXCEPT ![active] = i, ![i] = prev[active]]
  /\ next' = [next EXCEPT ![i] = active]
  /\ state' = [state EXCEPT ![i] = "ACTIVE"]
  /\ active' = IF active = 0 THEN i ELSE active

\* Mutant: the newcomer is linked behind the active process.
AddProcess_Behind(i) ==
  /\ prev' = [prev EXCEPT ![next[active]] = i, ![i] = active]
  /\ next' = [next EXCEPT ![active] = i, ![i] = next[active]]
  /\ state' = [state EXCEPT ![i] = "ACTIVE"]
  /\ active' = IF active = 0 THEN i ELSE active

\* add_process(i): link slot i in front of the active process.
AddProcess(i) ==
  LET u == active
      v == prev[u]
  IN  /\ prev' = [prev EXCEPT ![u] = i, ![i] = v]
      /\ next' = [next EXCEPT ![v] = i, ![i] = u]
      /\ state' = [state EXCEPT ![i] = "ACTIVE"]
      /\ active' = IF active = 0 THEN i ELSE active

\* Mutant: push_back() is forgotten.
CreateProcess_NoGrowth ==
  /\ free < MaxProc
  /\ size' = size
  /\ free' = IF free >= size THEN free + 1 ELSE next[free]
  /\ AddProcess(free)
  /\ r0' = [r0 EXCEPT ![free] = 0]

\* Mutant: the list of free slots is read after add_process() has linked the slot.
CreateProcess_LatePop ==
  /\ free < MaxProc
  /\ AddProcess(free)
  /\ IF free >= size THEN size' = size + 1 /\ free' = free + 1
                     ELSE size' = size     /\ free' = next'[free]
  /\ r0' = [r0 EXCEPT ![free] = 0]

\* create_process() and the context async_start() gives the newcomer.
CreateProcess ==
  /\ free < MaxProc
  /\ IF free >= size THEN size' = size + 1 /\ free' = free + 1
                     ELSE size' = size     /\ free' = next[free]
  /\ AddProcess(free)
  /\ r0' = [r0 EXCEPT ![free] = 0]

\* Mutant: the process behind keeps its link to the deleted one.
DeleteProcess_OneWay(i, a, w) ==
  /\ next' = [next EXCEPT ![i] = free]
  /\ prev' = [prev EXCEPT ![next[i]] = prev[i]]
  /\ state' = [state EXCEPT ![i] = "INEXISTANT", ![w] = "ACTIVE"]
  /\ free' = i
  /\ active' = a
  /\ UNCHANGED size

\* delete_process(i), called while active_process is a; it wakes process w,
\* whose state becomes ACTIVE (w is already ACTIVE when wait() finds a zombie).
\* The last slot of the free list has no neighbour: there ExpArray throws
\* OutOfBounds, which nobody catches, and nothing follows.
DeleteProcess(i, a, w) ==
  LET u == prev[i]
      v == next[i]
  IN  /\ v < size
      /\ next' = [next EXCEPT ![u] = v, ![i] = free]
      /\ prev' = [prev EXCEPT ![v] = u]
      /\ state' = [state EXCEPT ![i] = "INEXISTANT", ![w] = "ACTIVE"]
      /\ free' = i
      /\ active' = CASE a # i          -> a
                     [] a = i /\ u # 0 -> u
                     [] OTHER          -> prev'[u]
      /\ UNCHANGED size
-----------------------------------------------------------------------------
(* Boot: kernel_main() *)

Init ==
  /\ size = 1
  /\ next = [p \in Pids |-> 0]
  /\ prev = [p \in Pids |-> 0]
  /\ state = [p \in Pids |-> IF p = 0 THEN "ACTIVE" ELSE "INEXISTANT"]
  /\ info = [p \in Pids |-> "past"]
  /\ r0 = [p \in Pids |-> 0]
  /\ free = 1
  /\ active = 0
  /\ phase = "boot"
  /\ fill = [s \in Sockets |-> 0]

\* kernel_main() starts the init process and act_blink, in this order.
BootStart ==
  /\ phase = "boot" /\ size < 3
  /\ CreateProcess
  /\ UNCHANGED <<info, phase, fill>>

AsyncGo ==
  /\ phase = "boot" /\ size = 3
  /\ phase' = "user"
  /\ state' = [state EXCEPT ![0] = "ACTIVE"]
  /\ UNCHANGED <<size, next, prev, info, r0, free, active, fill>>
-----------------------------------------------------------------------------
(* System calls and interrupts *)

\* go_next_process(): the running process is saved and the walk begins.
GoNextProcess == phase' = "pass1"

SvcExecuteFile ==
  /\ Running
  /\ CreateProcess
  /\ UNCHANGED <<info, phase, fill>>

SvcKill(i, code) ==
  /\ Running
  /\ i \in InTable
  /\ i = 0 => "idle_target" \in Practices
  /\ state[i] = "ZOMBIE" => "kill_zombie" \in Practices
  /\ state[i] = "INEXISTANT" => "kill_free" \in Practices
  /\ state' = [state EXCEPT ![i] = "ZOMBIE"]
  /\ info' = [info EXCEPT ![i] = code]
  /\ IF i = active THEN GoNextProcess ELSE UNCHANGED phase
  /\ UNCHANGED <<size, next, prev, r0, free, active, fill>>

WaitedFor(i) == \E p \in InRing : state[p] = "WAITING" /\ r0[p] = i

\* Mutant: wait() does not look for reaped processes.
SvcWait_Unchecked(i) ==
  /\ Running
  /\ i \in InTable \ {0, active}
  /\ ~WaitedFor(i)
  /\ state[i] # "ZOMBIE"
  /\ state' = [state EXCEPT ![active] = "WAITING"]
  /\ r0' = [r0 EXCEPT ![active] = i]
  /\ GoNextProcess
  /\ UNCHANGED <<size, next, prev, free, active, info, fill>>

SvcWait(i) ==
  /\ Running
  /\ i \in InTable \ {active}
  /\ i = 0 => "idle_target" \in Practices
  /\ WaitedFor(i) => "shared_wait" \in Practices
  /\ \/ /\ state[i] = "ZOMBIE"
        /\ r0' = [r0 EXCEPT ![active] = info[i]]
        /\ DeleteProcess(i, active, active)
        /\ UNCHANGED phase
     \/ /\ state[i] \notin {"ZOMBIE", "INEXISTANT"}
        /\ state' = [state EXCEPT ![active] = "WAITING"]
        /\ r0' = [r0 EXCEPT ![active] = i]
        /\ GoNextProcess
        /\ UNCHANGED <<size, next, prev, free, active>>
  /\ UNCHANGED <<info, fill>>

SvcSleep ==
  /\ Running
  /\ state' = [state EXCEPT ![active] = "SLEEPING"]
  /\ info' = [info EXCEPT ![active] = "future"]
  /\ GoNextProcess
  /\ UNCHANGED <<size, next, prev, r0, free, active, fill>>

\* The process blocks in state s on socket k.
BlockOn(s, k) ==
  /\ state' = [state EXCEPT ![active] = s]
  /\ r0' = [r0 EXCEPT ![active] = k]
  /\ GoNextProcess
  /\ UNCHANGED <<size, next, prev, info, free, active, fill>>

SvcRead(k) ==
  /\ Running
  /\ \/ /\ fill[k] = 0
        /\ BlockOn("WAIT_READ", k)
     \/ \E n \in 1 .. fill[k] :
          /\ fill' = [fill EXCEPT ![k] = @ - n]
          /\ r0' = [r0 EXCEPT ![active] = 0]
          /\ UNCHANGED <<ring, info, active, phase>>

SvcWrite(k) ==
  /\ Running
  /\ \/ /\ fill[k] = SocketSize
        /\ "write_full" \in Practices
        /\ BlockOn("WAIT_WRITE", k)
     \/ \E n \in 1 .. SocketSize - fill[k] :
          /\ fill' = [fill EXCEPT ![k] = @ + n]
          /\ r0' = [r0 EXCEPT ![active] = 0]
          /\ UNCHANGED <<ring, info, active, phase>>

\* on_irq() when the ARM timer has expired.
Tick ==
  /\ phase = "user"
  /\ GoNextProcess
  /\ UNCHANGED <<ring, info, r0, active, fill>>

\* elapsed_us() grows past the time process p asked to be woken at.
ClockPasses(p) ==
  /\ state[p] = "SLEEPING" /\ info[p] = "future"
  /\ info' = [info EXCEPT ![p] = "past"]
  /\ UNCHANGED <<ring, r0, active, phase, fill>>
-----------------------------------------------------------------------------
(* next_process(): one iteration of a loop looks at the candidate c *)

\* Mutant: there is no second loop.
Select_OnePass(c) == phase' = "user"

\* Mutant: the second loop is repeated as long as it ends at the idle process.
Select_NeverIdle(c) == phase' = IF c = 0 THEN "pass2" ELSE "user"

\* ready(c) answered true: the loop ends.  The idle process is only chosen once
\* a second loop has found nobody else.
Select(c) == phase' = IF c = 0 /\ phase = "pass1" THEN "pass2" ELSE "user"

ReadyActive(c) ==
  /\ state[c] = "ACTIVE"
  /\ Select(c)
  /\ active' = c
  /\ UNCHANGED <<ring, info, r0, fill>>

ReadyReader(c) ==
  /\ state[c] = "WAIT_READ" /\ fill[r0[c]] > 0
  /\ \E n \in 1 .. fill[r0[c]] : fill' = [fill EXCEPT ![r0[c]] = @ - n]
  /\ state' = [state EXCEPT ![c] = "ACTIVE"]
  /\ Select(c)
  /\ active' = c
  /\ r0' = [r0 EXCEPT ![c] = 0]
  /\ UNCHANGED <<size, next, prev, info, free>>

\* The test on the socket is the wrong way round: ready() writes to the socket
\* exactly when it is full, and writeByte() then fails its assertion.
ReadyWriter(c) ==
  /\ state[c] = "WAIT_WRITE" /\ fill[r0[c]] = SocketSize
  /\ phase' = "crashed"
  /\ active' = c
  /\ UNCHANGED <<ring, info, r0, fill>>

\* Mutant: ready() does not make the sleeper ACTIVE.
ReadySleeper_Unchanged(c) ==
  /\ state[c] = "SLEEPING" /\ info[c] = "past"
  /\ Select(c)
  /\ active' = c
  /\ UNCHANGED <<ring, info, r0, fill>>

ReadySleeper(c) ==
  /\ state[c] = "SLEEPING" /\ info[c] = "past"
  /\ state' = [state EXCEPT ![c] = "ACTIVE"]
  /\ Select(c)
  /\ active' = c
  /\ UNCHANGED <<size, next, prev, info, r0, free, fill>>

\* Mutant: the exit code is read from the waiter's own slot.
ReadyWaiter_OwnInfo(c) ==
  /\ state[c] = "WAITING" /\ state[r0[c]] = "ZOMBIE"
  /\ r0' = [r0 EXCEPT ![c] = info[c]]
  /\ DeleteProcess(r0[c], c, c)
  /\ Select(c)
  /\ UNCHANGED <<info, fill>>

ReadyWaiter(c) ==
  /\ state[c] = "WAITING" /\ state[r0[c]] = "ZOMBIE"
  /\ r0' = [r0 EXCEPT ![c] = info[r0[c]]]
  /\ DeleteProcess(r0[c], c, c)
  /\ Select(c)
  /\ UNCHANGED <<info, fill>>

\* ready(c) answered false: the loop goes on.
NotReady(c) ==
  /\ CASE state[c] = "ACTIVE"     -> FALSE
       [] state[c] = "WAIT_READ"  -> fill[r0[c]] = 0
       [] state[c] = "WAIT_WRITE" -> fill[r0[c]] # SocketSize
       [] state[c] = "SLEEPING"   -> info[c] = "future"
       [] state[c] = "WAITING"    -> state[r0[c]] # "ZOMBIE"
       [] OTHER                   -> TRUE
  /\ active' = c
  /\ UNCHANGED <<ring, info, r0, phase, fill>>

\* Mutant: a while loop, which keeps the active process if it is ready.
NextProcess_WhileLoop ==
  /\ Scanning
  /\ LET c == IF state[active] = "ACTIVE" THEN active ELSE next[active]
     IN  \/ ReadyActive(c) \/ ReadyReader(c)  \/ ReadyWriter(c)
         \/ ReadySleeper(c) \/ ReadyWaiter(c) \/ NotReady(c)

\* Mutant: ready() has no case for a process blocked in read().
NextProcess_NoReadCase ==
  /\ Scanning
  /\ LET c == next[active]
     IN  \/ ReadyActive(c) \/ ReadyWriter(c) \/ ReadySleeper(c) \/ ReadyWaiter(c)
         \/ NotReady(c)
         \/ /\ state[c] = "WAIT_READ"
            /\ active' = c
            /\ UNCHANGED <<ring, info, r0, phase, fill>>

NextProcess ==
  /\ Scanning
  /\ LET c == next[active]
     IN  \/ ReadyActive(c) \/ ReadyReader(c)  \/ ReadyWriter(c)
         \/ ReadySleeper(c) \/ ReadyWaiter(c) \/ NotReady(c)
-----------------------------------------------------------------------------
Syscall ==
  \/ SvcExecuteFile
  \/ SvcSleep
  \/ \E i \in Pids : SvcWait(i) \/ \E code \in Codes : SvcKill(i, code)
  \/ \E k \in Sockets : SvcRead(k) \/ SvcWrite(k)

Next ==
  \/ BootStart
  \/ AsyncGo
  \/ Syscall
  \/ Tick
  \/ NextProcess
  \/ \E p \in Pids : ClockPasses(p)

Spec == Init /\ [][Next]_vars

\* The kernel leaves next_process()'s loops by itself, the hardware timer keeps
\* ticking and the clock keeps running; nothing obliges a program to do anything.
Fairness ==
  /\ WF_vars(BootStart) /\ WF_vars(AsyncGo)
  /\ WF_vars(NextProcess)
  /\ WF_vars(Tick)
  /\ \A p \in Pids : WF_vars(ClockPasses(p))

FairSpec == Spec /\ Fairness
-----------------------------------------------------------------------------
(* Properties *)

TypeOK ==
  /\ size \in 1 .. MaxProc
  /\ next \in [Pids -> 0 .. MaxProc]
  /\ prev \in [Pids -> Pids]
  /\ state \in [Pids -> States]
  /\ info \in [Pids -> {"future", "past"} \cup Codes]
  /\ r0 \in [Pids -> Codes \cup Sockets \cup Pids]
  /\ free \in 1 .. size
  /\ active \in Pids
  /\ phase \in Phases
  /\ fill \in [Sockets -> 0 .. SocketSize]

(* The processes form a doubly linked ring, in which the active process and   *)
(* the idle process stand: add_process() and delete_process() keep both       *)
(* directions in step whatever the order processes come and go in.            *)
RingIntact ==
  /\ {0, active} \subseteq InRing
  /\ \A p \in InRing :
       /\ next[p] \in InRing /\ prev[next[p]] = p
       /\ prev[p] \in InRing /\ next[prev[p]] = p

(* The reaped slots form a list that starts at free_process and ends at the   *)
(* first slot the table has not grown to: create_process() never hands out a  *)
(* slot that is still in use, and no slot is on the list twice.               *)
FreeListIntact ==
  /\ free \in FreeSlots \cup {size}
  /\ \A f \in FreeSlots :
       /\ next[f] \in FreeSlots \cup {size}
       /\ next[f] # free
       /\ \A g \in FreeSlots : next[f] = next[g] => f = g

(* Weaker, and what execute_file()'s callers count on: the pid it returns is  *)
(* not the pid of a process that is alive.                                    *)
PidNotInUse == free < size => state[free] \in {"INEXISTANT", "ZOMBIE"}

(* Only a process that is able to run gets the processor: next_process() has  *)
(* completed the system call the process was blocked in.                      *)
RunningIsActive == phase = "user" => state[active] = "ACTIVE"

CouldRun(p) ==
  \/ state[p] = "ACTIVE"
  \/ state[p] = "WAIT_READ" /\ fill[r0[p]] > 0
  \/ state[p] = "WAITING" /\ state[r0[p]] = "ZOMBIE"

(* The processor idles only when no process could use it: next_process()      *)
(* passes the idle process over once, since somebody may stand behind it.     *)
(* Sleepers are left out of CouldRun: the clock goes on during the walk, and  *)
(* one may become due after it has been passed.                               *)
IdleIsLast ==
  phase = "user" /\ active = 0 => \A p \in InRing \ {0} : ~CouldRun(p)

(* A process blocked in wait() waits for another process that is still in the *)
(* table, and so will be woken when that one exits.                           *)
NoOrphanWaiter ==
  \A p \in InRing : state[p] = "WAITING" => r0[p] \in InRing \ {p}

(* A process blocked on a socket that is ready never makes the kernel fail.   *)
NoCrash == phase # "crashed"

(* A zombie keeps its exit code until it is reaped, which happens only in a   *)
(* step that hands this code to the process that gets the processor.          *)
ZombieFate ==
  [][\A z \in InRing : state[z] = "ZOMBIE" =>
       \/ state'[z] = "ZOMBIE" /\ info'[z] = info[z]
       \/ state'[z] = "INEXISTANT" /\ r0'[active'] = info[z]]_vars

\* A ring read from one of its members on: a sequence of pids.
RingFrom(members, link, first) ==
  LET at[k \in 1 .. Cardinality(members)] ==
        IF k = 1 THEN first ELSE link[at[k - 1]]
  IN  at

Queue == RingFrom(InRing, next, active)

RQ == INSTANCE RunQueue WITH queue <- Queue

(* The ring implements the abstract run queue, round robin included: read     *)
(* from the active process it holds nobody twice, and the idle process always. *)
ImplementsRunQueue == RQ!Spec /\ []RQ!WellFormed

(* next_process() always comes to an end and gives the processor away, and    *)
(* round robin is fair: whoever is in the ring becomes the active process or   *)
(* is reaped, however many newcomers are created meanwhile.                    *)
SchedulerReturns ==
  /\ Scanning ~> phase = "user"
  /\ RQ!EveryoneGetsATurn

(* Nobody starves: the ring goes on turning, and a process that is able to    *)
(* run gets the processor, or is killed first.                                *)
EveryoneRuns ==
  /\ RQ!Fairness
  /\ \A p \in Pids : state[p] = "ACTIVE" /\ p # 0
                      ~> (phase = "user" /\ active = p) \/ state[p] # "ACTIVE"

(* Whoever sleeps is woken, whoever waits for a zombie gets its exit code,    *)
(* and whoever reads from a socket gets data unless another reader takes it.  *)
BlockedAreWoken ==
  \A p \in Pids :
    /\ state[p] = "SLEEPING" ~> state[p] # "SLEEPING"
    /\ (state[p] = "WAITING" /\ state[r0[p]] = "ZOMBIE")
         ~> state[p] # "WAITING"
    /\ (state[p] = "WAIT_READ" /\ fill[r0[p]] > 0)
         ~> (state[p] # "WAIT_READ" \/ fill[r0[p]] = 0)
=============================================================================
