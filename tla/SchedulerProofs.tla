--------------------------- MODULE SchedulerProofs ---------------------------
(***************************************************************************)
(* Proofs about Scheduler.tla, for every size of the process table, every   *)
(* set of sockets and of exit codes.  The second half is about the walk of  *)
(* next_process() around the ring: the ring is one cycle, so that a walk    *)
(* from the idle process back to itself has seen every process, and the     *)
(* processor idles only when nobody could use it.  Read from the active     *)
(* process on, it is the queue of RunQueue.                                 *)
(***************************************************************************)
EXTENDS Scheduler, SequencesExt, FiniteSetTheorems, SequenceTheorems, WellFoundedInduction,
        TLAPS

(* Programs that kill only processes that exist, and leave process 0 alone.   *)
(* They may still write to full sockets, share children and kill zombies.     *)
TameKills == Practices \cap {"kill_free", "idle_target"} = {}

(* The two uses of state_info and of the saved r0 are told apart by the       *)
(* state: a zombie holds an exit code, a process blocked on a socket that     *)
(* socket, a process in wait() the pid of another slot.                       *)
SlotsMeaningful ==
  \A p \in InRing :
    /\ state[p] = "ZOMBIE" => info[p] \in Codes
    /\ state[p] \in {"WAIT_READ", "WAIT_WRITE"} => r0[p] \in Sockets
    /\ state[p] = "WAITING" => r0[p] \in InTable \ {p}

BootOnlyCreates == phase = "boot" => state[active] = "ACTIVE"

IInv ==
  /\ TypeOK
  /\ RingIntact
  /\ FreeListIntact
  /\ SlotsMeaningful
  /\ RunningIsActive
  /\ BootOnlyCreates
  /\ state[0] = "ACTIVE"
-----------------------------------------------------------------------------
(* The ring and the free list under the operations on the process table *)

(* Membership in the ring and in the free list, spelt out.                    *)
LEMMA Members ==
  /\ \A p : p \in InRing <=> p \in Pids /\ p < size /\ state[p] # "INEXISTANT"
  /\ \A p : p \in FreeSlots <=> p \in Pids /\ p < size /\ state[p] = "INEXISTANT"
  /\ \A p : p \in InRing' <=> p \in Pids /\ p < size' /\ state'[p] # "INEXISTANT"
  /\ \A p : p \in FreeSlots' <=> p \in Pids /\ p < size' /\ state'[p] = "INEXISTANT"
BY DEF InRing, FreeSlots, InTable

(* A step that moves no slot between the ring and the free list, rewrites no  *)
(* link and leaves a ring member active keeps both intact.                    *)
LEMMA SameMembers ==
  ASSUME TypeOK, RingIntact, FreeListIntact,
         UNCHANGED <<size, next, prev, free>>,
         \A p \in InTable :
           state'[p] = "INEXISTANT" <=> state[p] = "INEXISTANT",
         active' \in InRing
  PROVE  InRing' = InRing /\ RingIntact' /\ FreeListIntact'
<1>1. InRing' = InRing /\ FreeSlots' = FreeSlots
  BY DEF InRing, FreeSlots, InTable
<1> QED
  BY <1>1 DEF RingIntact, FreeListIntact

(* create_process() links a slot that was not in the ring.                    *)
LEMMA CreateKeeps ==
  ASSUME TypeOK, RingIntact, FreeListIntact, CreateProcess
  PROVE  /\ free \in Pids \ InRing
         /\ InRing' = InRing \cup {free}
         /\ RingIntact' /\ FreeListIntact'
         /\ size' \in 1 .. MaxProc /\ size <= size'
         /\ next' \in [Pids -> 0 .. MaxProc]
         /\ prev' \in [Pids -> Pids]
         /\ state' = [state EXCEPT ![free] = "ACTIVE"]
         /\ free' \in 0 .. size'
         /\ active' \in {active, free}
<1> DEFINE v == prev[active]
<1>1. /\ active \in InRing /\ v \in InRing /\ next[v] = active /\ 0 \in InRing
      /\ \A p \in InRing : p \in Pids
  BY Members DEF RingIntact
<1>2. free \in Pids \ InRing
  <2>1. free \in Nat /\ free < MaxProc /\ (free \in FreeSlots \/ free = size)
    BY SchedulerAssumption DEF CreateProcess, TypeOK, FreeListIntact
  <2> QED
    BY <2>1, Members, SchedulerAssumption DEF Pids
<1>3. /\ prev' = [prev EXCEPT ![active] = free, ![free] = v]
      /\ next' = [next EXCEPT ![v] = free, ![free] = active]
      /\ state' = [state EXCEPT ![free] = "ACTIVE"]
      /\ active' \in {active, free}
  BY DEF CreateProcess, AddProcess
<1>4. /\ prev' \in [Pids -> Pids]
      /\ next' \in [Pids -> 0 .. MaxProc]
      /\ \A p \in Pids :
           /\ next'[p] = IF p = free THEN active ELSE IF p = v THEN free ELSE next[p]
           /\ prev'[p] = IF p = free THEN v ELSE IF p = active THEN free ELSE prev[p]
  <2>1. free \in Pids /\ active \in Pids /\ v \in Pids /\ free # v /\ free # active
    BY <1>1, <1>2
  <2>2. Pids \subseteq 0 .. MaxProc
    BY SchedulerAssumption DEF Pids
  <2> QED
    BY <1>3, <2>1, <2>2 DEF TypeOK
<1>5. /\ free' \in 0 .. size' /\ size' \in 1 .. MaxProc /\ size <= size'
      /\ InRing' = InRing \cup {free}
      /\ FreeListIntact'
  <2>1. CASE free = size
    <3>1. size' = size + 1 /\ free' = size' /\ size \in Nat /\ size < MaxProc
      BY <2>1, SchedulerAssumption DEF CreateProcess, TypeOK
    <3>2. /\ \A p : p \in InRing' <=> p \in InRing \cup {free}
          /\ \A p : p \in FreeSlots' <=> p \in FreeSlots
      BY <1>2, <1>3, <2>1, <3>1, Members DEF TypeOK, Pids
    <3>3. \A f \in FreeSlots : next'[f] = next[f] /\ f # free /\ f # size'
      <4>1. \A f \in FreeSlots : f \in Pids \ InRing /\ f \in Nat /\ f < size
        BY Members, SchedulerAssumption DEF Pids
      <4> QED
        BY <1>1, <1>4, <2>1, <3>1, <4>1
    <3>4. FreeListIntact'
      BY <2>1, <3>1, <3>2, <3>3 DEF FreeListIntact
    <3>5. InRing' = InRing \cup {free}
      BY <3>2
    <3>6. free' \in 0 .. size' /\ size' \in 1 .. MaxProc /\ size <= size'
      BY <3>1, SchedulerAssumption
    <3> QED
      BY <3>4, <3>5, <3>6
  <2>2. CASE free # size
    <3>1. free \in FreeSlots /\ size' = size /\ free' = next[free]
      BY <2>2, Members, SchedulerAssumption
      DEF CreateProcess, TypeOK, FreeListIntact, Pids
    <3>2. /\ \A p : p \in InRing' <=> p \in InRing \cup {free}
          /\ \A p : p \in FreeSlots' <=> p \in FreeSlots \ {free}
      BY <1>2, <1>3, <3>1, Members DEF TypeOK
    <3>3. \A f \in FreeSlots \ {free} : next'[f] = next[f]
      BY <1>1, <1>4, Members
    <3>4. FreeListIntact'
      BY <3>1, <3>2, <3>3 DEF FreeListIntact
    <3>5. free' \in 0 .. size'
      <4>1. free' \in FreeSlots \/ free' = size
        BY <3>1 DEF FreeListIntact
      <4>2. \A f \in FreeSlots : f \in Nat /\ f < size
        BY Members, SchedulerAssumption DEF Pids
      <4> QED
        BY <3>1, <4>1, <4>2 DEF TypeOK
    <3>6. InRing' = InRing \cup {free}
      BY <3>2
    <3> QED
      BY <3>1, <3>4, <3>5, <3>6, SchedulerAssumption DEF TypeOK
  <2> QED
    BY <2>1, <2>2
<1>6. RingIntact'
  <2>1. {0, active'} \subseteq InRing'
    BY <1>1, <1>3, <1>5
  <2>2. ASSUME NEW p \in InRing'
        PROVE  next'[p] \in InRing' /\ prev'[next'[p]] = p
    <3>1. CASE p = free
      BY <1>1, <1>2, <1>4, <1>5, <3>1
    <3>2. CASE p \in InRing /\ p = v
      BY <1>1, <1>2, <1>4, <1>5, <3>2
    <3>3. CASE p \in InRing /\ p # v
      BY <1>1, <1>2, <1>4, <1>5, <3>3 DEF RingIntact
    <3> QED
      BY <1>5, <3>1, <3>2, <3>3
  <2>3. ASSUME NEW p \in InRing'
        PROVE  prev'[p] \in InRing' /\ next'[prev'[p]] = p
    <3>1. CASE p = free
      BY <1>1, <1>2, <1>4, <1>5, <3>1
    <3>2. CASE p \in InRing /\ p = active
      BY <1>1, <1>2, <1>4, <1>5, <3>2
    <3>3. CASE p \in InRing /\ p # active
      BY <1>1, <1>2, <1>4, <1>5, <3>3 DEF RingIntact
    <3> QED
      BY <1>5, <3>1, <3>2, <3>3
  <2> QED
    BY <2>1, <2>2, <2>3 DEF RingIntact
<1> QED
  BY <1>2, <1>3, <1>4, <1>5, <1>6

(* delete_process() unlinks a process that is neither active nor process 0;   *)
(* so its last branch, for the active process, is never taken.                *)
LEMMA DeleteKeeps ==
  ASSUME TypeOK, RingIntact, FreeListIntact,
         NEW a \in InRing, NEW i \in InRing \ {0, a},
         DeleteProcess(i, a, a)
  PROVE  /\ InRing' = InRing \ {i}
         /\ RingIntact' /\ FreeListIntact'
         /\ size' = size
         /\ next' \in [Pids -> 0 .. MaxProc]
         /\ prev' \in [Pids -> Pids]
         /\ state' = [state EXCEPT ![i] = "INEXISTANT", ![a] = "ACTIVE"]
         /\ free' = i
         /\ active' = a
<1> DEFINE u == prev[i]
           v == next[i]
<1>1. /\ u \in InRing /\ v \in InRing /\ next[u] = i /\ prev[v] = i
      /\ \A p \in InRing : p \in Pids
      /\ \A p \in FreeSlots : p \in Pids /\ p \notin InRing
  BY Members DEF RingIntact
<1>2. /\ prev' = [prev EXCEPT ![v] = u]
      /\ next' = [next EXCEPT ![u] = v, ![i] = free]
      /\ state' = [state EXCEPT ![i] = "INEXISTANT", ![a] = "ACTIVE"]
      /\ free' = i /\ active' = a /\ size' = size
  BY DEF DeleteProcess
<1>3. /\ \A p : p \in InRing' <=> p \in InRing \ {i}
      /\ \A p : p \in FreeSlots' <=> p \in FreeSlots \cup {i}
  BY <1>2, Members DEF TypeOK
<1>4. RingIntact'
  <2>1. {0, a} \subseteq InRing'
    BY <1>3 DEF RingIntact
  <2>2. ASSUME NEW p \in InRing'
        PROVE  /\ next'[p] = (IF p = u THEN v ELSE next[p])
               /\ prev'[p] = (IF p = v THEN u ELSE prev[p])
    BY <1>1, <1>2, <1>3 DEF TypeOK
  <2> QED
    <3>1. ASSUME NEW p \in InRing'
          PROVE  next'[p] \in InRing' /\ prev'[next'[p]] = p
      BY <1>1, <1>3, <2>2 DEF RingIntact
    <3>2. ASSUME NEW p \in InRing'
          PROVE  prev'[p] \in InRing' /\ next'[prev'[p]] = p
      BY <1>1, <1>3, <2>2 DEF RingIntact
    <3> QED
      BY <1>2, <2>1, <3>1, <3>2 DEF RingIntact
<1>5. FreeListIntact'
  <2>1. \A f \in FreeSlots : next'[f] = next[f] /\ f # i
    BY <1>1, <1>2 DEF TypeOK
  <2>2. next'[i] = free
    BY <1>1, <1>2 DEF TypeOK
  <2>3. i # size
    BY Members DEF TypeOK, Pids
  <2> QED
    <3>1. free' \in FreeSlots' \cup {size'}
      BY <1>2, <1>3
    <3>2. ASSUME NEW f \in FreeSlots'
          PROVE  next'[f] \in FreeSlots' \cup {size'} /\ next'[f] # free'
      <4>1. free # i /\ i \notin FreeSlots
        BY <1>1, <2>3 DEF FreeListIntact
      <4>2. next'[f] \in FreeSlots \cup {size} /\ next'[f] # i
        <5>1. CASE f = i
          BY <2>2, <4>1, <5>1 DEF FreeListIntact
        <5>2. CASE f \in FreeSlots
          BY <2>1, <2>3, <4>1, <5>2 DEF FreeListIntact
        <5> QED
          BY <1>3, <3>2, <5>1, <5>2
      <4> QED
        BY <1>2, <1>3, <4>2
    <3>3. ASSUME NEW f \in FreeSlots', NEW g \in FreeSlots', next'[f] = next'[g]
          PROVE  f = g
      BY <1>3, <2>1, <2>2, <3>3 DEF FreeListIntact
    <3> QED
      BY <3>1, <3>2, <3>3 DEF FreeListIntact
<1>6. /\ next' \in [Pids -> 0 .. MaxProc]
      /\ prev' \in [Pids -> Pids]
  <2>1. u \in Pids /\ v \in Pids /\ i \in Pids
    BY <1>1
  <2>2. v \in 0 .. MaxProc /\ free \in 0 .. MaxProc
    BY <2>1, SchedulerAssumption DEF TypeOK, Pids
  <2> QED
    BY <1>2, <2>1, <2>2 DEF TypeOK
<1> QED
  BY <1>2, <1>3, <1>4, <1>5, <1>6
-----------------------------------------------------------------------------
(* The inductive invariant *)

\* At first only the idle process is there, in its ring, alone.
LEMMA InitInv == Init => IInv
<1> SUFFICES ASSUME Init PROVE IInv
  OBVIOUS
<1>1. InRing = {0} /\ FreeSlots = {}
  BY SchedulerAssumption DEF Init, InRing, FreeSlots, InTable, Pids
<1>2. TypeOK
  BY SchedulerAssumption DEF Init, TypeOK, Pids, States, Blocked, Phases
<1>3. RingIntact /\ FreeListIntact /\ state[0] = "ACTIVE"
  BY <1>1, SchedulerAssumption DEF Init, RingIntact, FreeListIntact, Pids
<1>4. SlotsMeaningful /\ RunningIsActive /\ BootOnlyCreates
  BY <1>1, <1>3 DEF Init, SlotsMeaningful, RunningIsActive, BootOnlyCreates
<1> QED
  BY <1>2, <1>3, <1>4 DEF IInv

(* Steps that create a process: BootStart and SvcExecuteFile.                 *)
LEMMA CreateStep ==
  ASSUME IInv, CreateProcess, UNCHANGED <<info, phase, fill>>
  PROVE  IInv'
<1>1. /\ free \in Pids \ InRing
      /\ InRing' = InRing \cup {free}
      /\ RingIntact' /\ FreeListIntact'
      /\ size' \in 1 .. MaxProc /\ size <= size'
      /\ next' \in [Pids -> 0 .. MaxProc]
      /\ prev' \in [Pids -> Pids]
      /\ state' = [state EXCEPT ![free] = "ACTIVE"]
      /\ free' \in 0 .. size'
      /\ active' \in {active, free}
  BY CreateKeeps DEF IInv
<1>2. r0' = [r0 EXCEPT ![free] = 0] /\ 0 \in Pids
  BY SchedulerAssumption DEF CreateProcess, Pids
<1>3. free' # 0
  BY <1>1, SchedulerAssumption DEF RingIntact, FreeListIntact, InRing, FreeSlots, InTable
<1>4. TypeOK'
  BY <1>1, <1>2, <1>3 DEF IInv, TypeOK, States
<1>5. SlotsMeaningful'
  <2> SUFFICES ASSUME NEW p \in InRing'
               PROVE  /\ state'[p] = "ZOMBIE" => info'[p] \in Codes
                      /\ state'[p] \in {"WAIT_READ", "WAIT_WRITE"} => r0'[p] \in Sockets
                      /\ state'[p] = "WAITING" => r0'[p] \in InTable' \ {p}
    BY DEF SlotsMeaningful
  <2>1. CASE p = free
    BY <1>1, <2>1 DEF IInv, TypeOK
  <2>2. CASE p \in InRing
    <3>1. p \in Pids /\ p # free
      BY <1>1, <2>2, Members
    <3>2. state'[p] = state[p] /\ r0'[p] = r0[p] /\ info'[p] = info[p]
      BY <1>1, <1>2, <3>1 DEF IInv, TypeOK
    <3>3. InTable \subseteq InTable'
      BY <1>1, SchedulerAssumption DEF InTable, Pids, IInv, TypeOK
    <3> QED
      BY <2>2, <3>2, <3>3 DEF IInv, SlotsMeaningful
  <2> QED
    BY <1>1, <2>1, <2>2
<1>6. RunningIsActive' /\ BootOnlyCreates' /\ state'[0] = "ACTIVE"
  BY <1>1, <1>2 DEF IInv, TypeOK, RunningIsActive, BootOnlyCreates
<1> QED
  BY <1>1, <1>4, <1>5, <1>6 DEF IInv

(* Steps in which process a reaps the zombie i: SvcWait and ReadyWaiter.      *)
LEMMA ReapStep ==
  ASSUME IInv,
         NEW a \in InRing, NEW i \in InRing \ {0, a},
         DeleteProcess(i, a, a),
         state[i] = "ZOMBIE",
         r0' = [r0 EXCEPT ![a] = info[i]],
         phase' \in {"user", "pass2"},
         UNCHANGED <<info, fill>>
  PROVE  IInv'
<1>1. /\ InRing' = InRing \ {i}
      /\ RingIntact' /\ FreeListIntact'
      /\ size' = size
      /\ next' \in [Pids -> 0 .. MaxProc]
      /\ prev' \in [Pids -> Pids]
      /\ state' = [state EXCEPT ![i] = "INEXISTANT", ![a] = "ACTIVE"]
      /\ free' = i
      /\ active' = a
  BY DeleteKeeps DEF IInv
<1>2. a \in Pids /\ 0 \in Pids /\ info[i] \in Codes /\ i \in Pids /\ i \in 1 .. size
  BY Members, SchedulerAssumption DEF IInv, TypeOK, SlotsMeaningful, Pids
<1>3. TypeOK'
  BY <1>1, <1>2, SchedulerAssumption DEF IInv, TypeOK, States, Phases, Pids
<1>4. SlotsMeaningful'
  <2> SUFFICES ASSUME NEW p \in InRing'
               PROVE  /\ state'[p] = "ZOMBIE" => info'[p] \in Codes
                      /\ state'[p] \in {"WAIT_READ", "WAIT_WRITE"} => r0'[p] \in Sockets
                      /\ state'[p] = "WAITING" => r0'[p] \in InTable' \ {p}
    BY DEF SlotsMeaningful
  <2>1. CASE p = a
    BY <1>1, <1>2, <2>1 DEF IInv, TypeOK
  <2>2. CASE p # a
    <3>1. p \in InRing /\ p \in Pids /\ InTable' = InTable
      BY <1>1, Members DEF InTable
    <3>2. state'[p] = state[p] /\ r0'[p] = r0[p] /\ info'[p] = info[p]
      BY <1>1, <1>2, <2>2, <3>1 DEF IInv, TypeOK
    <3> QED
      BY <3>1, <3>2 DEF IInv, SlotsMeaningful
  <2> QED
    BY <2>1, <2>2
<1>5. RunningIsActive' /\ BootOnlyCreates' /\ state'[0] = "ACTIVE"
  BY <1>1, <1>2 DEF IInv, TypeOK, RunningIsActive, BootOnlyCreates
<1> QED
  BY <1>1, <1>3, <1>4, <1>5 DEF IInv

(* Steps that change the state of one process p of the ring to s, and leave   *)
(* the links alone.  What the new state means for info and r0 is assumed.     *)
LEMMA StateStep ==
  ASSUME IInv,
         NEW p \in InRing, NEW s \in States \ {"INEXISTANT"},
         UNCHANGED <<size, next, prev, free>>,
         state' = [state EXCEPT ![p] = s],
         p = 0 => s = "ACTIVE",
         NEW i \in {"future", "past"} \cup Codes, info' = [info EXCEPT ![p] = i],
         NEW x \in Codes \cup Sockets \cup Pids, r0' = [r0 EXCEPT ![p] = x],
         s = "ZOMBIE" => i \in Codes,
         s \in {"WAIT_READ", "WAIT_WRITE"} => x \in Sockets,
         s = "WAITING" => x \in InTable \ {p},
         active' \in InRing,
         phase' \in Phases,
         phase' \in {"user", "boot"} => state'[active'] = "ACTIVE",
         fill' \in [Sockets -> 0 .. SocketSize]
  PROVE  IInv'
<1>1. p \in Pids /\ active' \in Pids /\ 0 \in Pids /\ \A q \in InRing : q \in Pids
  BY Members, SchedulerAssumption DEF Pids
<1>2. /\ \A q \in InTable : state'[q] = "INEXISTANT" <=> state[q] = "INEXISTANT"
      /\ \A q \in Pids : q # p => /\ state'[q] = state[q]
                                  /\ info'[q] = info[q] /\ r0'[q] = r0[q]
      /\ state'[p] = s /\ info'[p] = i /\ r0'[p] = x
  BY <1>1, Members DEF IInv, TypeOK, InTable
<1>3. InRing' = InRing /\ RingIntact' /\ FreeListIntact'
  BY <1>2, SameMembers DEF IInv
<1>4. TypeOK'
  BY <1>1 DEF IInv, TypeOK
<1>5. SlotsMeaningful'
  <2>1. InTable' = InTable
    BY DEF InTable
  <2> QED
    BY <1>1, <1>2, <1>3, <2>1 DEF IInv, SlotsMeaningful
<1>6. RunningIsActive' /\ BootOnlyCreates' /\ state'[0] = "ACTIVE"
  BY <1>1, <1>2 DEF IInv, RunningIsActive, BootOnlyCreates
<1> QED
  BY <1>3, <1>4, <1>5, <1>6 DEF IInv

(* Steps that leave the process table alone, but for the active process.      *)
LEMMA QuietStep ==
  ASSUME IInv,
         UNCHANGED <<ring, info>>,
         NEW x \in Codes \cup Sockets \cup Pids,
         r0' = r0 \/ (state[active] = "ACTIVE" /\ r0' = [r0 EXCEPT ![active] = x]),
         active' \in InRing,
         phase' \in Phases,
         phase' \in {"user", "boot"} => state'[active'] = "ACTIVE",
         fill' \in [Sockets -> 0 .. SocketSize]
  PROVE  IInv'
<1>1. active \in Pids /\ active' \in Pids
  BY Members DEF IInv, TypeOK
<1>2. InRing' = InRing /\ RingIntact' /\ FreeListIntact'
  BY SameMembers DEF IInv, ring
<1>3. TypeOK'
  BY <1>1 DEF IInv, TypeOK, ring
<1>4. SlotsMeaningful'
  <2>1. InTable' = InTable
    BY DEF InTable, ring
  <2>2. \A p \in InRing : p \in Pids
    BY Members
  <2>3. \A p \in InRing : r0'[p] = r0[p] \/ (p = active /\ state[p] = "ACTIVE")
    BY <2>2 DEF IInv, TypeOK
  <2> QED
    BY <1>2, <2>1, <2>3 DEF IInv, SlotsMeaningful, ring
<1>5. RunningIsActive' /\ BootOnlyCreates' /\ state'[0] = "ACTIVE"
  BY DEF IInv, RunningIsActive, BootOnlyCreates, ring
<1> QED
  BY <1>2, <1>3, <1>4, <1>5 DEF IInv

(* The iterations of next_process(): the candidate is in the ring, and        *)
(* whoever ready() lets pass is ACTIVE.                                       *)
LEMMA WalkStep == IInv /\ NextProcess => IInv'
<1> SUFFICES ASSUME IInv, NextProcess PROVE IInv'
  OBVIOUS
<1> DEFINE c == next[active]
<1>1. /\ Scanning /\ c \in InRing /\ c \in Pids /\ active \in InRing
      /\ r0[c] \in Codes \cup Sockets \cup Pids
      /\ info[c] \in {"future", "past"} \cup Codes
      /\ state[c] \in States
  BY Members DEF IInv, RingIntact, NextProcess, TypeOK
<1>2. /\ fill \in [Sockets -> 0 .. SocketSize]
      /\ phase \in Phases /\ phase \notin {"boot", "user"}
      /\ state \in [Pids -> States] /\ info \in [Pids -> {"future", "past"} \cup Codes]
      /\ r0 \in [Pids -> Codes \cup Sockets \cup Pids] /\ 0 \in Codes \cup Sockets \cup Pids
  <2>1. 0 \in Pids
    BY SchedulerAssumption DEF Pids
  <2>2. phase \notin {"boot", "user"}
    BY <1>1 DEF Scanning
  <2> QED
    BY <2>1, <2>2 DEF IInv, TypeOK
<1>3. ASSUME Select(c) PROVE phase' \in {"pass2", "user"} /\ phase' \in Phases
  BY <1>3 DEF Select, Phases
<1>4. CASE ReadyActive(c)
  BY <1>1, <1>2, <1>3, <1>4, QuietStep DEF ReadyActive, ring
<1>5. CASE ReadyReader(c)
  <2>1. fill' \in [Sockets -> 0 .. SocketSize]
    <3>1. r0[c] \in Sockets
      BY <1>1, <1>5 DEF ReadyReader, IInv, SlotsMeaningful
    <3>2. fill[r0[c]] \in 0 .. SocketSize
      BY <1>2, <3>1
    <3>3. PICK n \in 1 .. fill[r0[c]] : fill' = [fill EXCEPT ![r0[c]] = @ - n]
      BY <1>5 DEF ReadyReader
    <3>4. fill[r0[c]] - n \in 0 .. SocketSize
      BY <3>2, <3>3, SchedulerAssumption
    <3> QED
      BY <1>2, <3>1, <3>3, <3>4
  <2>2. /\ UNCHANGED <<size, next, prev, free>>
        /\ state' = [state EXCEPT ![c] = "ACTIVE"]
        /\ info' = [info EXCEPT ![c] = info[c]]
        /\ r0' = [r0 EXCEPT ![c] = 0]
        /\ active' = c /\ phase' \in Phases /\ state'[c] = "ACTIVE"
    BY <1>1, <1>2, <1>3, <1>5 DEF ReadyReader
  <2> QED
    BY <1>1, <1>2, <2>1, <2>2, StateStep DEF States
<1>6. CASE ReadyWriter(c)
  BY <1>1, <1>2, <1>6, QuietStep DEF ReadyWriter, ring, Phases
<1>7. CASE ReadySleeper(c)
  <2>1. /\ UNCHANGED <<size, next, prev, free>>
        /\ state' = [state EXCEPT ![c] = "ACTIVE"]
        /\ info' = [info EXCEPT ![c] = info[c]]
        /\ r0' = [r0 EXCEPT ![c] = r0[c]]
        /\ active' = c /\ phase' \in Phases /\ state'[c] = "ACTIVE"
        /\ fill' = fill
    BY <1>1, <1>2, <1>3, <1>7 DEF ReadySleeper
  <2> QED
    BY <1>1, <1>2, <2>1, StateStep DEF States
<1>8. CASE ReadyWaiter(c)
  <2>1. r0[c] \in InRing \ {0, c} /\ state[r0[c]] = "ZOMBIE"
    BY <1>1, <1>8 DEF ReadyWaiter, IInv, SlotsMeaningful, InRing
  <2> QED
    BY <1>1, <1>3, <1>8, <2>1, ReapStep DEF ReadyWaiter
<1>9. CASE NotReady(c)
  BY <1>1, <1>2, <1>9, QuietStep DEF NotReady, ring
<1> QED
  BY <1>4, <1>5, <1>6, <1>7, <1>8, <1>9 DEF NextProcess

(* The system calls that block or end a process.                              *)
LEMMA SyscallStep == TameKills /\ IInv /\ Syscall => IInv'
<1> SUFFICES ASSUME TameKills, IInv, Syscall PROVE IInv'
  OBVIOUS
<1>1. /\ active \in InRing \ {0} /\ active \in Pids /\ phase = "user"
      /\ state[active] = "ACTIVE"
      /\ r0[active] \in Codes \cup Sockets \cup Pids
      /\ info[active] \in {"future", "past"} \cup Codes
  <2>1. Running
    BY DEF Syscall, SvcExecuteFile, SvcSleep, SvcWait, SvcKill, SvcRead, SvcWrite
  <2> QED
    BY <2>1, Members DEF Running, IInv, RingIntact, RunningIsActive, TypeOK
<1>2. /\ fill \in [Sockets -> 0 .. SocketSize]
      /\ state \in [Pids -> States] /\ info \in [Pids -> {"future", "past"} \cup Codes]
      /\ r0 \in [Pids -> Codes \cup Sockets \cup Pids] /\ 0 \in Codes \cup Sockets \cup Pids
  BY SchedulerAssumption DEF IInv, TypeOK, Pids
<1>3. ASSUME NEW k \in Sockets, NEW s \in {"WAIT_READ", "WAIT_WRITE"}, BlockOn(s, k)
      PROVE  IInv'
  <2>1. /\ UNCHANGED <<size, next, prev, free>>
        /\ state' = [state EXCEPT ![active] = s]
        /\ info' = [info EXCEPT ![active] = info[active]]
        /\ r0' = [r0 EXCEPT ![active] = k]
        /\ active' = active /\ phase' = "pass1" /\ fill' = fill
    BY <1>1, <1>2, <1>3 DEF BlockOn, GoNextProcess
  <2>2. active' \in InRing /\ phase' \in Phases /\ s \in States \ {"INEXISTANT"}
    BY <1>1, <2>1 DEF Phases, States, Blocked
  <2>3. fill' \in [Sockets -> 0 .. SocketSize]
    BY <1>2, <2>1
  <2> QED
    BY <1>1, <2>1, <2>2, <2>3, StateStep
<1>4. CASE SvcExecuteFile
  BY <1>4, CreateStep DEF SvcExecuteFile
<1>5. CASE SvcSleep
  <2>1. /\ UNCHANGED <<size, next, prev, free>>
        /\ state' = [state EXCEPT ![active] = "SLEEPING"]
        /\ info' = [info EXCEPT ![active] = "future"]
        /\ r0' = [r0 EXCEPT ![active] = r0[active]]
        /\ active' = active /\ phase' = "pass1" /\ fill' = fill
    BY <1>1, <1>2, <1>5 DEF SvcSleep, GoNextProcess
  <2>2. /\ active' \in InRing /\ phase' \in Phases
      /\ "SLEEPING" \in States \ {"INEXISTANT"}
      /\ "future" \in {"future", "past"} \cup Codes
      /\ phase' \notin {"user", "boot"}
    BY <1>1, <2>1 DEF Phases, States, Blocked
  <2>3. fill' \in [Sockets -> 0 .. SocketSize]
    BY <1>2, <2>1
  <2> QED
    BY <1>1, <2>1, <2>2, <2>3, StateStep
<1>6. ASSUME NEW i \in Pids, NEW code \in Codes, SvcKill(i, code)
      PROVE  IInv'
  <2>1. i \in InRing \ {0}
    BY <1>6 DEF SvcKill, InRing, TameKills
  <2>2. /\ UNCHANGED <<size, next, prev, free>>
        /\ state' = [state EXCEPT ![i] = "ZOMBIE"]
        /\ info' = [info EXCEPT ![i] = code]
        /\ r0' = [r0 EXCEPT ![i] = r0[i]]
        /\ active' = active /\ fill' = fill
        /\ phase' = IF i = active THEN "pass1" ELSE "user"
    BY <1>1, <1>2, <1>6 DEF SvcKill, GoNextProcess
  <2>3. /\ active' \in InRing /\ phase' \in Phases /\ "ZOMBIE" \in States \ {"INEXISTANT"}
        /\ code \in {"future", "past"} \cup Codes
        /\ phase' \in {"user", "boot"} => state'[active'] = "ACTIVE"
    BY <1>1, <1>2, <2>2 DEF Phases, States
  <2>4. fill' \in [Sockets -> 0 .. SocketSize] /\ r0[i] \in Codes \cup Sockets \cup Pids
    BY <1>2, <2>2
  <2> QED
    BY <2>1, <2>2, <2>3, <2>4, StateStep
<1>7. ASSUME NEW i \in Pids, SvcWait(i)
      PROVE  IInv'
  <2>1. CASE state[i] = "ZOMBIE"
    <3>1. i \in InRing \ {0, active}
      BY <1>7, <2>1 DEF SvcWait, InRing, IInv
    <3>2. /\ DeleteProcess(i, active, active)
          /\ r0' = [r0 EXCEPT ![active] = info[i]]
          /\ phase' = "user" /\ UNCHANGED <<info, fill>>
      BY <1>1, <1>7, <2>1 DEF SvcWait
    <3> QED
      BY <1>1, <2>1, <3>1, <3>2, ReapStep
  <2>2. CASE state[i] # "ZOMBIE"
    <3>1. /\ UNCHANGED <<size, next, prev, free>>
          /\ state' = [state EXCEPT ![active] = "WAITING"]
          /\ info' = [info EXCEPT ![active] = info[active]]
          /\ r0' = [r0 EXCEPT ![active] = i]
          /\ active' = active /\ phase' = "pass1" /\ fill' = fill
          /\ i \in InTable \ {active}
      BY <1>1, <1>2, <1>7, <2>2 DEF SvcWait, GoNextProcess
    <3>2. active' \in InRing /\ phase' \in Phases /\ "WAITING" \in States
      BY <1>1, <3>1 DEF Phases, States, Blocked
    <3>3. fill' \in [Sockets -> 0 .. SocketSize]
      BY <1>2, <3>1
    <3> QED
      BY <1>1, <3>1, <3>2, <3>3, StateStep
  <2> QED
    BY <2>1, <2>2
<1>8. ASSUME NEW k \in Sockets, SvcRead(k)
      PROVE  IInv'
  <2>1. CASE BlockOn("WAIT_READ", k)
    BY <1>3, <2>1
  <2>2. ASSUME NEW n \in 1 .. fill[k],
               fill' = [fill EXCEPT ![k] = @ - n],
               r0' = [r0 EXCEPT ![active] = 0],
               UNCHANGED <<ring, info, active, phase>>
        PROVE  IInv'
    <3>1. fill[k] - n \in 0 .. SocketSize
      BY <1>2, SchedulerAssumption
    <3>2. fill' \in [Sockets -> 0 .. SocketSize]
      BY <1>2, <2>2, <3>1
    <3> QED
      BY <1>1, <1>2, <2>2, <3>2, QuietStep DEF Phases, ring
  <2> QED
    BY <1>8, <2>1, <2>2 DEF SvcRead
<1>9. ASSUME NEW k \in Sockets, SvcWrite(k)
      PROVE  IInv'
  <2>1. CASE BlockOn("WAIT_WRITE", k)
    BY <1>3, <2>1
  <2>2. ASSUME NEW n \in 1 .. SocketSize - fill[k],
               fill' = [fill EXCEPT ![k] = @ + n],
               r0' = [r0 EXCEPT ![active] = 0],
               UNCHANGED <<ring, info, active, phase>>
        PROVE  IInv'
    <3>1. fill[k] + n \in 0 .. SocketSize
      BY <1>2, SchedulerAssumption
    <3>2. fill' \in [Sockets -> 0 .. SocketSize]
      BY <1>2, <2>2, <3>1
    <3> QED
      BY <1>1, <1>2, <2>2, <3>2, QuietStep DEF Phases, ring
  <2> QED
    BY <1>9, <2>1, <2>2 DEF SvcWrite
<1> QED
  BY <1>4, <1>5, <1>6, <1>7, <1>8, <1>9 DEF Syscall

(* Every step of the system preserves the invariant.                          *)
LEMMA NextInv == TameKills /\ IInv /\ [Next]_vars => IInv'
<1> SUFFICES ASSUME TameKills, IInv, [Next]_vars PROVE IInv'
  OBVIOUS
<1>1. CASE BootStart
  BY <1>1, CreateStep DEF BootStart
<1>2. CASE AsyncGo
  <2>1. state' = state /\ active' \in InRing /\ UNCHANGED ring /\ phase' = "user"
    BY <1>2 DEF AsyncGo, IInv, TypeOK, RingIntact, ring
  <2> QED
    BY <1>2, <2>1, QuietStep, SchedulerAssumption
    DEF AsyncGo, IInv, TypeOK, BootOnlyCreates, Phases, ring, Pids
<1>3. CASE Syscall
  BY <1>3, SyscallStep
<1>4. CASE Tick
  <2>1. active' \in InRing /\ phase' = "pass1" /\ phase' \in Phases
    BY <1>4 DEF Tick, GoNextProcess, IInv, RingIntact, Phases
  <2> QED
    BY <1>4, <2>1, QuietStep, SchedulerAssumption DEF Tick, IInv, TypeOK, Pids
<1>5. CASE NextProcess
  BY <1>5, WalkStep
<1>6. ASSUME NEW p \in Pids, ClockPasses(p)
      PROVE  IInv'
  <2>1. /\ UNCHANGED <<ring, r0, active, phase, fill>>
        /\ info' = [info EXCEPT ![p] = "past"] /\ state[p] = "SLEEPING"
    BY <1>6 DEF ClockPasses
  <2>2. InRing' = InRing /\ InTable' = InTable /\ RingIntact' /\ FreeListIntact'
    BY <2>1, SameMembers DEF IInv, RingIntact, InTable, ring
  <2>3. TypeOK'
    BY <2>1 DEF IInv, TypeOK, ring
  <2>4. SlotsMeaningful'
    <3>1. \A q \in InRing : q \in Pids /\ (q = p \/ info'[q] = info[q])
      BY <2>1, Members DEF IInv, TypeOK
    <3> QED
      BY <2>1, <2>2, <3>1 DEF IInv, SlotsMeaningful, ring
  <2> QED
    BY <2>1, <2>2, <2>3, <2>4 DEF IInv, RunningIsActive, BootOnlyCreates, ring
<1>7. CASE UNCHANGED vars
  BY <1>7 DEF vars, IInv, TypeOK, RingIntact, FreeListIntact, SlotsMeaningful,
     RunningIsActive, BootOnlyCreates, InRing, FreeSlots, InTable
<1> QED
  BY <1>1, <1>2, <1>3, <1>4, <1>5, <1>6, <1>7 DEF Next

(* As long as programs kill only processes that exist, and never process 0,   *)
(* the inductive invariant holds in every reachable state.                    *)
THEOREM Invariance == TameKills => (Spec => []IInv)
<1> SUFFICES ASSUME TameKills PROVE Spec => []IInv
  OBVIOUS
<1>1. IInv /\ [Next]_vars => IInv'
  BY NextInv
<1> QED
  BY <1>1, InitInv, PTL DEF Spec

(* The table stays well typed; in particular the exit code that wait()        *)
(* returns is always one given to kill(), never a wake-up time.               *)
THEOREM TypeCorrect == TameKills => (Spec => []TypeOK)
BY Invariance, PTL DEF IInv

(* The processes always form a doubly linked ring around the active process   *)
(* and the idle process.                                                      *)
THEOREM RingCorrect == TameKills => (Spec => []RingIntact)
BY Invariance, PTL DEF IInv

(* The list of free slots holds every reaped slot at most once and no slot    *)
(* in use.                                                                    *)
THEOREM FreeListCorrect == TameKills => (Spec => []FreeListIntact)
BY Invariance, PTL DEF IInv

(* The process that leaves next_process() is always ACTIVE.                   *)
THEOREM RunningCorrect == TameKills => (Spec => []RunningIsActive)
BY Invariance, PTL DEF IInv
-----------------------------------------------------------------------------
(* Waiting *)

(* Programs that moreover wait only for children of their own.                *)
OwnChildren == TameKills /\ "shared_wait" \notin Practices

(* NoOrphanWaiter is inductive together with the fact that no two processes   *)
(* wait for the same one: reaping it then leaves no other waiter behind.      *)
OneWaiterEach ==
  \A p, q \in InRing :
    state[p] = "WAITING" /\ state[q] = "WAITING" /\ r0[p] = r0[q] => p = q

WaiterInv == IInv /\ NoOrphanWaiter /\ OneWaiterEach

(* Steps that make nobody wait and reap nobody.                               *)
LEMMA NoNewWaiter ==
  ASSUME WaiterInv, InRing \subseteq InRing',
         \A p \in InRing' : state'[p] = "WAITING" =>
           p \in InRing /\ state[p] = "WAITING" /\ r0'[p] = r0[p]
  PROVE  NoOrphanWaiter' /\ OneWaiterEach'
BY DEF WaiterInv, NoOrphanWaiter, OneWaiterEach

\* A new process waits for nobody, and nobody waits for it.
LEMMA CreateWaiters ==
  ASSUME WaiterInv, CreateProcess
  PROVE  NoOrphanWaiter' /\ OneWaiterEach'
<1>1. /\ free \in Pids \ InRing
      /\ InRing' = InRing \cup {free}
      /\ state' = [state EXCEPT ![free] = "ACTIVE"]
      /\ r0' = [r0 EXCEPT ![free] = 0]
  BY CreateKeeps DEF WaiterInv, IInv, CreateProcess
<1>2. \A p \in InRing : p \in Pids
  BY Members
<1> QED
  BY <1>1, <1>2, NoNewWaiter DEF WaiterInv, IInv, TypeOK

\* Freeing a zombie frees the one who waited for it.
LEMMA ReapWaiters ==
  ASSUME WaiterInv,
         NEW a \in InRing, NEW i \in InRing \ {0, a},
         DeleteProcess(i, a, a),
         NEW x, r0' = [r0 EXCEPT ![a] = x],
         \A p \in InRing : state[p] = "WAITING" /\ r0[p] = i => p = a
  PROVE  NoOrphanWaiter' /\ OneWaiterEach'
<1>1. /\ InRing' = InRing \ {i}
      /\ state' = [state EXCEPT ![i] = "INEXISTANT", ![a] = "ACTIVE"]
  BY DeleteKeeps DEF WaiterInv, IInv
<1>2. \A p \in InRing : p \in Pids
  BY Members
<1>3. \A p \in InRing' : state'[p] = "WAITING" =>
        p \in InRing \ {a} /\ state[p] = "WAITING" /\ r0'[p] = r0[p]
  BY <1>1, <1>2 DEF WaiterInv, IInv, TypeOK
<1>4. \A p \in InRing' : state'[p] = "WAITING" => r0'[p] \in InRing' \ {p}
  BY <1>1, <1>3 DEF WaiterInv, NoOrphanWaiter
<1>5. OneWaiterEach'
  BY <1>1, <1>3 DEF WaiterInv, OneWaiterEach
<1> QED
  BY <1>4, <1>5 DEF NoOrphanWaiter

(* wait() for a process that has not exited makes one more waiter.            *)
LEMMA WaitWaiters ==
  ASSUME OwnChildren, WaiterInv, NEW i \in Pids, SvcWait(i)
  PROVE  NoOrphanWaiter' /\ OneWaiterEach'
<1>1. /\ active \in InRing /\ i \in InTable \ {0, active} /\ ~WaitedFor(i)
      /\ \A p \in InRing : p \in Pids
  BY Members DEF SvcWait, WaiterInv, IInv, RingIntact, OwnChildren, TameKills
<1>2. CASE state[i] = "ZOMBIE"
  <2>1. /\ DeleteProcess(i, active, active)
        /\ r0' = [r0 EXCEPT ![active] = info[i]]
        /\ i \in InRing \ {0, active}
    BY <1>1, <1>2 DEF SvcWait, InRing
  <2> QED
    BY <1>1, <2>1, ReapWaiters DEF WaitedFor
<1>3. CASE state[i] # "ZOMBIE"
  <2>1. /\ state' = [state EXCEPT ![active] = "WAITING"]
        /\ r0' = [r0 EXCEPT ![active] = i]
        /\ i \in InRing \ {active} /\ size' = size
    BY <1>1, <1>3 DEF SvcWait, InRing
  <2>2. InRing' = InRing
    BY <1>1, <2>1 DEF InRing, InTable, WaiterInv, IInv, TypeOK
  <2>3. /\ \A p \in InRing \ {active} : state'[p] = state[p] /\ r0'[p] = r0[p]
        /\ r0'[active] = i
    BY <1>1, <2>1 DEF WaiterInv, IInv, TypeOK
  <2> QED
    BY <1>1, <2>1, <2>2, <2>3
    DEF WaiterInv, NoOrphanWaiter, OneWaiterEach, WaitedFor
<1> QED
  BY <1>2, <1>3

(* A step that sets the state of process p of the ring to something else      *)
(* than WAITING, or changes the saved r0 of a process that is not waiting.    *)
LEMMA WakeWaiters ==
  ASSUME WaiterInv, NEW p \in InRing,
         NEW s \in States \ {"WAITING", "INEXISTANT"},
         UNCHANGED size,
         state' = state \/ state' = [state EXCEPT ![p] = s],
         NEW x, r0' = r0 \/ (state'[p] # "WAITING" /\ r0' = [r0 EXCEPT ![p] = x])
  PROVE  NoOrphanWaiter' /\ OneWaiterEach'
<1>1. p \in Pids /\ \A q \in InRing : q \in Pids
  BY Members
<1>2. InRing' = InRing
  BY <1>1, Members DEF InRing, InTable, WaiterInv, IInv, TypeOK
<1>3. \A q \in InRing' : state'[q] = "WAITING" =>
        q \in InRing /\ state[q] = "WAITING" /\ r0'[q] = r0[q]
  BY <1>1, <1>2 DEF WaiterInv, IInv, TypeOK
<1> QED
  BY <1>2, <1>3, NoNewWaiter

\* When programs wait for their own children only, no step orphans a waiter.
LEMMA WaiterNext == OwnChildren /\ WaiterInv /\ [Next]_vars => WaiterInv'
<1> SUFFICES ASSUME OwnChildren, WaiterInv, [Next]_vars
             PROVE  NoOrphanWaiter' /\ OneWaiterEach'
  BY NextInv DEF OwnChildren, WaiterInv
<1> DEFINE c == next[active]
<1>1. /\ active \in InRing /\ c \in InRing
      /\ {"ACTIVE", "SLEEPING", "ZOMBIE", "WAIT_READ", "WAIT_WRITE"}
           \subseteq States \ {"WAITING", "INEXISTANT"}
      /\ \A p \in InRing : p \in Pids
  BY Members DEF WaiterInv, IInv, RingIntact, States, Blocked
<1>2. state \in [Pids -> States]
  BY DEF WaiterInv, IInv, TypeOK
<1>3. CASE BootStart \/ SvcExecuteFile
  BY <1>3, CreateWaiters DEF BootStart, SvcExecuteFile
<1>4. CASE AsyncGo
  <2>1. state' = state /\ r0' = r0 /\ size' = size
    BY <1>2, <1>4 DEF AsyncGo, WaiterInv, IInv
  <2> QED
    BY <1>1, <2>1, WakeWaiters
<1>5. CASE SvcSleep
  BY <1>1, <1>5, WakeWaiters DEF SvcSleep
<1>6. ASSUME NEW i \in Pids, SvcWait(i) PROVE NoOrphanWaiter' /\ OneWaiterEach'
  BY <1>6, WaitWaiters
<1>7. ASSUME NEW i \in Pids, NEW code \in Codes, SvcKill(i, code)
      PROVE  NoOrphanWaiter' /\ OneWaiterEach'
  <2>1. i \in InRing
    BY <1>7 DEF SvcKill, InRing, OwnChildren, TameKills
  <2> QED
    BY <1>1, <1>7, <2>1, WakeWaiters DEF SvcKill
<1>8. ASSUME NEW k \in Sockets, SvcRead(k) \/ SvcWrite(k)
      PROVE  NoOrphanWaiter' /\ OneWaiterEach'
  <2>1. state[active] = "ACTIVE"
    BY <1>8 DEF SvcRead, SvcWrite, Running, WaiterInv, IInv, RunningIsActive
  <2>2. CASE \E s \in {"WAIT_READ", "WAIT_WRITE"} : BlockOn(s, k)
    <3>1. PICK s \in {"WAIT_READ", "WAIT_WRITE"} : BlockOn(s, k)
      BY <2>2
    <3>2. /\ state' = [state EXCEPT ![active] = s] /\ state'[active] # "WAITING"
          /\ r0' = [r0 EXCEPT ![active] = k] /\ size' = size
      BY <1>1, <1>2, <3>1 DEF BlockOn
    <3> QED
      BY <1>1, <3>2, WakeWaiters
  <2>3. CASE UNCHANGED ring /\ r0' = [r0 EXCEPT ![active] = 0]
    BY <1>1, <2>1, <2>3, WakeWaiters DEF ring
  <2> QED
    BY <1>8, <2>2, <2>3 DEF SvcRead, SvcWrite
<1>9. CASE Tick \/ (\E p \in Pids : ClockPasses(p)) \/ UNCHANGED vars
  <2>1. state' = state /\ r0' = r0 /\ size' = size
    BY <1>9 DEF Tick, ClockPasses, vars, ring
  <2> QED
    BY <1>1, <2>1, WakeWaiters
<1>10. CASE ReadyActive(c) \/ ReadyReader(c) \/ ReadyWriter(c) \/ ReadySleeper(c)
              \/ NotReady(c)
  <2>1. /\ size' = size
        /\ state' = state \/ state' = [state EXCEPT ![c] = "ACTIVE"]
        /\ r0' = r0 \/ (state'[c] = "ACTIVE" /\ r0' = [r0 EXCEPT ![c] = 0])
    BY <1>1, <1>2, <1>10
    DEF ReadyActive, ReadyReader, ReadyWriter, ReadySleeper, NotReady, ring
  <2> QED
    BY <1>1, <2>1, WakeWaiters
<1>11. CASE ReadyWaiter(c)
  <2>1. r0[c] \in InRing \ {0, c}
    BY <1>1, <1>11 DEF ReadyWaiter, WaiterInv, NoOrphanWaiter, IInv
  <2>2. \A p \in InRing : state[p] = "WAITING" /\ r0[p] = r0[c] => p = c
    BY <1>1, <1>11 DEF ReadyWaiter, WaiterInv, OneWaiterEach
  <2>3. DeleteProcess(r0[c], c, c) /\ r0' = [r0 EXCEPT ![c] = info[r0[c]]]
    BY <1>11 DEF ReadyWaiter
  <2>4. c \in InRing
    BY <1>1
  <2> HIDE DEF c
  <2> QED
    BY <2>1, <2>2, <2>3, <2>4, ReapWaiters
<1> QED
  BY <1>3, <1>4, <1>5, <1>6, <1>7, <1>8, <1>9, <1>10, <1>11
  DEF Next, Syscall, NextProcess

(* Whoever is blocked in wait() waits for another process that is still in    *)
(* the table, if no two processes wait for the same one.                      *)
THEOREM WaitersCorrect == OwnChildren => (Spec => []NoOrphanWaiter)
<1> SUFFICES ASSUME OwnChildren PROVE Spec => []NoOrphanWaiter
  OBVIOUS
<1>1. Init => WaiterInv
  <2> SUFFICES ASSUME Init PROVE NoOrphanWaiter /\ OneWaiterEach
    BY InitInv DEF WaiterInv
  <2> QED
    BY DEF Init, NoOrphanWaiter, OneWaiterEach, InRing, InTable
<1>2. WaiterInv /\ [Next]_vars => WaiterInv'
  BY WaiterNext
<1>3. WaiterInv => NoOrphanWaiter
  BY DEF WaiterInv
<1> QED
  BY <1>1, <1>2, <1>3, PTL DEF Spec
-----------------------------------------------------------------------------
(* Exit codes *)

(* Programs that kill only processes that have not exited yet.                *)
KillsOnce == TameKills /\ "kill_zombie" \notin Practices

ZombieFateStep ==
  \A z \in InRing : state[z] = "ZOMBIE" =>
    \/ state'[z] = "ZOMBIE" /\ info'[z] = info[z]
    \/ state'[z] = "INEXISTANT" /\ r0'[active'] = info[z]

(* delete_process() frees the zombie whose code is handed over, and no other. *)
LEMMA ReapFate ==
  ASSUME IInv,
         NEW a \in InRing, NEW i \in InRing \ {0, a},
         state[a] # "ZOMBIE", DeleteProcess(i, a, a),
         r0' = [r0 EXCEPT ![a] = info[i]], UNCHANGED info
  PROVE  ZombieFateStep
<1>1. /\ state' = [state EXCEPT ![i] = "INEXISTANT", ![a] = "ACTIVE"]
      /\ active' = a
  BY DeleteKeeps DEF IInv
<1>2. \A p \in InRing : p \in Pids
  BY Members
<1> QED
  BY <1>1, <1>2 DEF ZombieFateStep, IInv, TypeOK

(* A step that changes the state and the info of one slot that is no zombie.  *)
LEMMA OthersFate ==
  ASSUME IInv, NEW p, ~(p \in InRing /\ state[p] = "ZOMBIE"),
         NEW s, state' = state \/ state' = [state EXCEPT ![p] = s],
         NEW i, info' = info \/ info' = [info EXCEPT ![p] = i]
  PROVE  ZombieFateStep
<1>1. \A z \in InRing : z \in Pids
  BY Members
<1> QED
  BY <1>1 DEF ZombieFateStep, IInv, TypeOK

\* When no zombie is killed, a step leaves a zombie's code or hands it over.
LEMMA FateNext == KillsOnce /\ IInv /\ [Next]_vars => ZombieFateStep
<1> SUFFICES ASSUME KillsOnce, IInv, [Next]_vars PROVE ZombieFateStep
  OBVIOUS
<1> DEFINE c == next[active]
<1>1. active \in InRing /\ c \in InRing
  BY DEF IInv, RingIntact
<1>2. Running => state[active] = "ACTIVE"
  BY DEF Running, IInv, RunningIsActive
<1>3. CASE BootStart \/ SvcExecuteFile
  <2>1. CreateProcess /\ info' = info
    BY <1>3 DEF BootStart, SvcExecuteFile
  <2>2. free \notin InRing /\ state' = [state EXCEPT ![free] = "ACTIVE"]
    BY <2>1, CreateKeeps DEF IInv
  <2> QED
    BY <2>1, <2>2, OthersFate
<1>4. CASE AsyncGo
  <2>1. state[0] # "ZOMBIE" /\ state' = [state EXCEPT ![0] = "ACTIVE"] /\ info' = info
    BY <1>4 DEF AsyncGo, IInv
  <2> QED
    BY <2>1, OthersFate
<1>5. CASE SvcSleep
  <2>1. /\ state[active] # "ZOMBIE"
        /\ state' = [state EXCEPT ![active] = "SLEEPING"]
        /\ info' = [info EXCEPT ![active] = "future"]
    BY <1>2, <1>5 DEF SvcSleep
  <2> QED
    BY <2>1, OthersFate
<1>6. ASSUME NEW i \in Pids, NEW code \in Codes, SvcKill(i, code)
      PROVE  ZombieFateStep
  <2>1. /\ state[i] # "ZOMBIE"
        /\ state' = [state EXCEPT ![i] = "ZOMBIE"]
        /\ info' = [info EXCEPT ![i] = code]
    BY <1>6 DEF SvcKill, KillsOnce
  <2> QED
    BY <2>1, OthersFate
<1>7. ASSUME NEW i \in Pids, SvcWait(i)
      PROVE  ZombieFateStep
  <2>1. state[active] = "ACTIVE" /\ info' = info
    BY <1>2, <1>7 DEF SvcWait
  <2>2. CASE state[i] = "ZOMBIE"
    <3>1. /\ i \in InRing \ {0, active}
          /\ DeleteProcess(i, active, active)
          /\ r0' = [r0 EXCEPT ![active] = info[i]]
      BY <1>7, <2>2 DEF SvcWait, InRing, KillsOnce, TameKills
    <3> QED
      BY <1>1, <2>1, <3>1, ReapFate
  <2>3. CASE state[i] # "ZOMBIE"
    <3>1. state' = [state EXCEPT ![active] = "WAITING"]
      BY <1>7, <2>3 DEF SvcWait
    <3> QED
      BY <2>1, <3>1, OthersFate
  <2> QED
    BY <2>2, <2>3
<1>8. ASSUME NEW k \in Sockets, SvcRead(k) \/ SvcWrite(k)
      PROVE  ZombieFateStep
  <2>1. state[active] = "ACTIVE" /\ info' = info
    BY <1>2, <1>8 DEF SvcRead, SvcWrite, BlockOn
  <2>2. \E s \in States : state' = state \/ state' = [state EXCEPT ![active] = s]
    BY <1>8 DEF SvcRead, SvcWrite, BlockOn, ring, States, Blocked
  <2> QED
    BY <2>1, <2>2, OthersFate
<1>9. CASE Tick \/ UNCHANGED vars
  <2>1. state' = state /\ info' = info
    BY <1>9 DEF Tick, vars, ring
  <2> QED
    BY <2>1 DEF ZombieFateStep
<1>10. ASSUME NEW p \in Pids, ClockPasses(p)
       PROVE  ZombieFateStep
  <2>1. state[p] # "ZOMBIE" /\ state' = state /\ info' = [info EXCEPT ![p] = "past"]
    BY <1>10 DEF ClockPasses, ring
  <2> QED
    BY <2>1, OthersFate
<1>11. CASE ReadyActive(c) \/ ReadyWriter(c) \/ NotReady(c)
  <2>1. state' = state /\ info' = info
    BY <1>11 DEF ReadyActive, ReadyWriter, NotReady, ring
  <2> QED
    BY <2>1 DEF ZombieFateStep
<1>12. CASE ReadyReader(c) \/ ReadySleeper(c)
  <2>1. state[c] # "ZOMBIE" /\ state' = [state EXCEPT ![c] = "ACTIVE"] /\ info' = info
    BY <1>12 DEF ReadyReader, ReadySleeper
  <2> QED
    BY <2>1, OthersFate
<1>13. CASE ReadyWaiter(c)
  <2>1. /\ state[c] = "WAITING" /\ info' = info
        /\ DeleteProcess(r0[c], c, c)
        /\ r0' = [r0 EXCEPT ![c] = info[r0[c]]]
    BY <1>13 DEF ReadyWaiter
  <2>2. r0[c] \in InRing \ {0, c}
    BY <1>1, <1>13 DEF ReadyWaiter, IInv, SlotsMeaningful, InRing
  <2> QED
    BY <1>1, <2>1, <2>2, ReapFate
<1> QED
  BY <1>3, <1>4, <1>5, <1>6, <1>7, <1>8, <1>9, <1>10, <1>11, <1>12, <1>13
  DEF Next, Syscall, NextProcess

(* A zombie keeps its exit code until the step that hands it to the process   *)
(* that waited for it, if nobody kills it again.                              *)
THEOREM ZombieCorrect == KillsOnce => (Spec => ZombieFate)
<1> SUFFICES ASSUME KillsOnce PROVE Spec => ZombieFate
  OBVIOUS
<1>1. Spec => []IInv
  BY Invariance DEF KillsOnce
<1>2. IInv /\ [Next]_vars => [ZombieFateStep]_vars
  BY FateNext
<1>3. Spec => [][ZombieFateStep]_vars
  BY <1>1, <1>2, PTL DEF Spec
<1> QED
  BY <1>3 DEF ZombieFate, ZombieFateStep
-----------------------------------------------------------------------------
(* The ring is a single cycle: no proper part of it is closed under next.  It *)
(* says without a path, hence without an induction, that a walk along next    *)
(* meets every process.                                                       *)
OneCycle ==
  \A S \in SUBSET InRing : S # {} /\ (\A p \in S : next[p] \in S) => S = InRing

(* V is what the second loop of next_process() has walked through: from the   *)
(* idle process to the active one, and none of them could run.                *)
PassedOver(V) ==
  /\ {0, active} \subseteq V
  /\ \A p \in V \ {active} : next[p] \in V
  /\ \A p \in V \ {0} : ~CouldRun(p)

SecondLoop == phase = "pass2" => \E V \in SUBSET InRing : PassedOver(V)

(* kernel_main() has made init the active process before async_go().          *)
BootLeavesIdle == phase = "boot" /\ size > 1 => active # 0

IdleInv == IInv /\ OneCycle /\ SecondLoop /\ BootLeavesIdle /\ IdleIsLast
-----------------------------------------------------------------------------
(* The ring stays one cycle *)

(* add_process() links the newcomer into the cycle.                           *)
LEMMA CreateOneCycle ==
  ASSUME IInv, OneCycle, CreateProcess
  PROVE  OneCycle'
<1> DEFINE v == prev[active]
<1>1. /\ free \in Pids \ InRing
      /\ InRing' = InRing \cup {free}
  BY CreateKeeps DEF IInv
<1>2. /\ active \in InRing /\ v \in InRing /\ next[v] = active
      /\ \A p \in InRing : p \in Pids /\ next[p] \in InRing
  BY Members DEF IInv, RingIntact
<1>3. next' = [next EXCEPT ![v] = free, ![free] = active]
  BY DEF CreateProcess, AddProcess
<1>4. /\ \A p \in InRing \ {v} : next'[p] = next[p]
      /\ next'[v] = free /\ next'[free] = active
  BY <1>1, <1>2, <1>3 DEF IInv, TypeOK
<1> SUFFICES ASSUME NEW S \in SUBSET InRing', S # {}, \A p \in S : next'[p] \in S
             PROVE  S = InRing'
  BY DEF OneCycle
<1> DEFINE T == S \ {free}
<1>5. T \in SUBSET InRing
  BY <1>1
<1>6. T # {}
  BY <1>1, <1>2, <1>4
<1>7. \A p \in T : next[p] \in T
  BY <1>1, <1>2, <1>4, <1>5
<1>8. T = InRing
  BY <1>5, <1>6, <1>7 DEF OneCycle
<1>9. free \in S
  BY <1>2, <1>4, <1>8
<1> QED
  BY <1>1, <1>8, <1>9

(* delete_process() closes the cycle behind the process it takes out.         *)
LEMMA DeleteOneCycle ==
  ASSUME IInv, OneCycle,
         NEW a \in InRing, NEW i \in InRing \ {0, a},
         DeleteProcess(i, a, a)
  PROVE  OneCycle'
<1> DEFINE u == prev[i]
           v == next[i]
<1>1. InRing' = InRing \ {i}
  BY DeleteKeeps DEF IInv
<1>2. /\ u \in InRing /\ v \in InRing /\ next[u] = i
      /\ \A p \in InRing : p \in Pids
      /\ \A p \in InRing : next[p] = i => p = u
  BY Members DEF IInv, RingIntact
<1>3. next' = [next EXCEPT ![u] = v, ![i] = free]
  BY DEF DeleteProcess
<1>4. \A p \in InRing \ {i} : next'[p] = IF p = u THEN v ELSE next[p]
  BY <1>2, <1>3 DEF IInv, TypeOK
<1> SUFFICES ASSUME NEW S \in SUBSET InRing', S # {}, \A p \in S : next'[p] \in S
             PROVE  S = InRing'
  BY DEF OneCycle
<1>5. S \in SUBSET InRing /\ i \notin S
  BY <1>1
<1>6. CASE u \in S
  <2> DEFINE T == S \cup {i}
  <2>1. T \in SUBSET InRing /\ T # {}
    BY <1>5
  <2>2. \A p \in T : next[p] \in T
    BY <1>2, <1>4, <1>5, <1>6
  <2>3. T = InRing
    BY <2>1, <2>2 DEF OneCycle
  <2> QED
    BY <1>1, <1>5, <2>3
<1>7. CASE u \notin S
  <2>1. \A p \in S : next[p] \in S
    BY <1>2, <1>4, <1>5, <1>7
  <2>2. S = InRing
    BY <1>5, <2>1 DEF OneCycle
  <2> QED
    BY <1>2, <1>7, <2>2
<1> QED
  BY <1>6, <1>7

(* No other step moves a link or a member of the ring.                        *)
LEMMA OneCycleNext == TameKills /\ IInv /\ OneCycle /\ [Next]_vars => OneCycle'
<1> SUFFICES ASSUME TameKills, IInv, OneCycle, [Next]_vars PROVE OneCycle'
  OBVIOUS
<1> DEFINE c == next[active]
<1>1. active \in InRing /\ c \in InRing
  BY DEF IInv, RingIntact
<1>2. ASSUME InRing' = InRing, next' = next PROVE OneCycle'
  BY <1>2 DEF OneCycle
<1>3. ASSUME NEW p \in InRing, NEW s \in States \ {"INEXISTANT"},
             UNCHANGED <<size, next>>,
             state' = state \/ state' = [state EXCEPT ![p] = s]
      PROVE  OneCycle'
  <2>1. \A q : q \in InRing' <=> q \in InRing
    BY <1>3, Members DEF IInv, TypeOK
  <2> QED
    BY <1>2, <1>3, <2>1
<1>4. {"ACTIVE", "SLEEPING", "ZOMBIE", "WAIT_READ", "WAIT_WRITE", "WAITING"}
        \subseteq States \ {"INEXISTANT"}
  BY DEF States, Blocked
<1>5. CASE BootStart \/ SvcExecuteFile
  BY <1>5, CreateOneCycle DEF BootStart, SvcExecuteFile
<1>6. CASE AsyncGo \/ Tick \/ (\E p \in Pids : ClockPasses(p)) \/ UNCHANGED vars
  <2>1. state' = state /\ UNCHANGED <<size, next>>
    BY <1>6 DEF AsyncGo, Tick, ClockPasses, vars, ring, IInv, TypeOK
  <2> QED
    BY <1>1, <1>3, <1>4, <2>1
<1>7. CASE SvcSleep
  BY <1>1, <1>3, <1>4, <1>7 DEF SvcSleep
<1>8. ASSUME NEW i \in Pids, SvcWait(i) PROVE OneCycle'
  <2>1. CASE state[i] = "ZOMBIE"
    <3>1. i \in InRing \ {0, active} /\ DeleteProcess(i, active, active)
      BY <1>8, <2>1 DEF SvcWait, InRing, IInv
    <3> QED
      BY <1>1, <3>1, DeleteOneCycle
  <2>2. CASE state[i] # "ZOMBIE"
    BY <1>1, <1>3, <1>4, <1>8, <2>2 DEF SvcWait
  <2> QED
    BY <2>1, <2>2
<1>9. ASSUME NEW i \in Pids, NEW code \in Codes, SvcKill(i, code) PROVE OneCycle'
  <2>1. i \in InRing
    BY <1>9 DEF SvcKill, InRing, TameKills
  <2> QED
    BY <1>3, <1>4, <1>9, <2>1 DEF SvcKill
<1>10. ASSUME NEW k \in Sockets, SvcRead(k) \/ SvcWrite(k) PROVE OneCycle'
  <2>1. \E s \in {"WAIT_READ", "WAIT_WRITE"} :
          /\ UNCHANGED <<size, next>>
          /\ state' = state \/ state' = [state EXCEPT ![active] = s]
    BY <1>10 DEF SvcRead, SvcWrite, BlockOn, ring
  <2> QED
    BY <1>1, <1>3, <1>4, <2>1
<1>11. CASE ReadyActive(c) \/ ReadyReader(c) \/ ReadyWriter(c) \/ ReadySleeper(c)
              \/ NotReady(c)
  <2>1. /\ UNCHANGED <<size, next>>
        /\ state' = state \/ state' = [state EXCEPT ![c] = "ACTIVE"]
    BY <1>11 DEF ReadyActive, ReadyReader, ReadyWriter, ReadySleeper, NotReady, ring
  <2> QED
    BY <1>1, <1>3, <1>4, <2>1
<1>12. CASE ReadyWaiter(c)
  <2>1. r0[c] \in InRing \ {0, c} /\ DeleteProcess(r0[c], c, c)
    BY <1>1, <1>12 DEF ReadyWaiter, IInv, SlotsMeaningful, InRing
  <2> HIDE DEF c
  <2> QED
    BY <1>1, <2>1, DeleteOneCycle
<1> QED
  BY <1>5, <1>6, <1>7, <1>8, <1>9, <1>10, <1>11, <1>12
  DEF Next, Syscall, NextProcess
-----------------------------------------------------------------------------
(* The second loop *)

(* An iteration of the second loop that ends it at the idle process has gone  *)
(* all around the ring.                                                       *)
LEMMA BackAtIdle ==
  ASSUME IInv, OneCycle, SecondLoop, phase = "pass2", next[active] = 0
  PROVE  \A p \in InRing \ {0} : ~CouldRun(p)
<1>1. PICK V \in SUBSET InRing : PassedOver(V)
  BY DEF SecondLoop
<1>2. V # {} /\ \A p \in V : next[p] \in V
  BY <1>1 DEF PassedOver
<1>3. V = InRing
  BY <1>2 DEF OneCycle
<1> QED
  BY <1>1, <1>3 DEF PassedOver

(* An iteration that goes on adds one more process that could not run.        *)
LEMMA WalkOn ==
  ASSUME IInv, OneCycle, SecondLoop, phase = "pass2", NotReady(next[active])
  PROVE  SecondLoop'
<1> DEFINE c == next[active]
<1>1. c \in InRing /\ \A p \in InRing : p \in Pids
  BY Members DEF IInv, RingIntact
<1>2. PICK V \in SUBSET InRing : PassedOver(V)
  BY DEF SecondLoop
<1>3. /\ active' = c /\ UNCHANGED <<size, next, state, r0, fill>>
  BY DEF NotReady, ring
<1>4. ~CouldRun(c)
  <2>1. state[c] # "ACTIVE" /\ (state[c] = "WAITING" => state[r0[c]] # "ZOMBIE")
    BY DEF NotReady
  <2>2. state[c] = "WAIT_READ" => fill[r0[c]] = 0
    BY DEF NotReady
  <2> QED
    BY <2>1, <2>2 DEF CouldRun
<1>5. InRing' = InRing /\ \A p : CouldRun(p)' <=> CouldRun(p)
  BY <1>3 DEF InRing, InTable, CouldRun
<1>6. PICK W : W = V \cup {c}
  OBVIOUS
<1>7. PassedOver(W)'
  <2>1. {0, active'} \subseteq W
    BY <1>2, <1>3, <1>6 DEF PassedOver
  <2>2. \A p \in W \ {active'} : next'[p] \in W
    BY <1>2, <1>3, <1>6 DEF PassedOver
  <2>3. \A p \in W \ {0} : ~CouldRun(p)'
    BY <1>2, <1>4, <1>5, <1>6 DEF PassedOver
  <2> QED
    BY <2>1, <2>2, <2>3 DEF PassedOver
<1>8. W \in SUBSET InRing'
  BY <1>1, <1>5, <1>6
<1> QED
  BY <1>7, <1>8 DEF SecondLoop

\* Every step keeps the ring one cycle and the idle process a last resort.
LEMMA IdleNext == TameKills /\ IdleInv /\ [Next]_vars => IdleInv'
<1> SUFFICES ASSUME TameKills, IdleInv, [Next]_vars
             PROVE  SecondLoop' /\ BootLeavesIdle' /\ IdleIsLast'
  BY NextInv, OneCycleNext DEF IdleInv
<1> DEFINE c == next[active]
<1>1. active \in InRing /\ c \in InRing /\ IInv /\ OneCycle /\ SecondLoop
  BY DEF IInv, RingIntact, IdleInv
<1>2. \* a step that ends outside the second loop, with somebody active
      ASSUME phase' # "pass2",
             phase' = "boot" => active' # 0,
             phase' = "user" => active' # 0
      PROVE  SecondLoop' /\ BootLeavesIdle' /\ IdleIsLast'
  BY <1>2 DEF SecondLoop, BootLeavesIdle, IdleIsLast
<1>3. \* a step that changes nobody's ability to run
      ASSUME UNCHANGED <<size, next, state, r0, active, phase, fill>>
      PROVE  SecondLoop' /\ BootLeavesIdle' /\ IdleIsLast'
  <2>1. InRing' = InRing /\ \A p : CouldRun(p)' <=> CouldRun(p)
    BY <1>3 DEF InRing, InTable, CouldRun
  <2>2. ASSUME NEW V \in SUBSET InRing, PassedOver(V) PROVE PassedOver(V)'
    BY <1>3, <2>1, <2>2 DEF PassedOver
  <2>3. SecondLoop'
    BY <1>1, <1>3, <2>1, <2>2 DEF SecondLoop
  <2> QED
    BY <1>3, <2>1, <2>3 DEF BootLeavesIdle, IdleIsLast, IdleInv
<1>4. CASE BootStart
  <2>1. phase' = "boot" /\ active' = IF active = 0 THEN free ELSE active
    BY <1>4 DEF BootStart, CreateProcess, AddProcess
  <2>2. free # 0
    BY DEF IdleInv, IInv, TypeOK
  <2> QED
    BY <1>2, <2>1, <2>2
<1>5. CASE AsyncGo
  <2>1. phase' = "user" /\ active' = active /\ active # 0
    BY <1>5 DEF AsyncGo, IdleInv, BootLeavesIdle
  <2> QED
    BY <1>2, <2>1
<1>6. CASE Syscall
  <2>1. active # 0 /\ phase = "user"
    BY <1>6 DEF Syscall, SvcExecuteFile, SvcSleep, SvcWait, SvcKill, SvcRead,
       SvcWrite, Running
  <2>2. phase' \in {"user", "pass1"}
    BY <1>6, <2>1 DEF Syscall, SvcExecuteFile, SvcSleep, SvcWait, SvcKill, SvcRead,
       SvcWrite, BlockOn, GoNextProcess
  <2>3. active' = active
    BY <1>6, <2>1 DEF Syscall, SvcExecuteFile, SvcSleep, SvcWait, SvcKill, SvcRead,
       SvcWrite, BlockOn, CreateProcess, AddProcess, DeleteProcess, IInv, IdleInv
  <2> QED
    BY <1>2, <2>1, <2>2, <2>3
<1>7. CASE Tick
  BY <1>2, <1>7 DEF Tick, GoNextProcess
<1>8. ASSUME NEW p \in Pids, ClockPasses(p)
      PROVE  SecondLoop' /\ BootLeavesIdle' /\ IdleIsLast'
  BY <1>3, <1>8 DEF ClockPasses, ring
<1>9. CASE UNCHANGED vars
  BY <1>3, <1>9 DEF vars
<1>10. CASE NextProcess
  <2>1. phase \in {"pass1", "pass2"}
    BY <1>10 DEF NextProcess, Scanning
  <2>2. CASE NotReady(c)
    <3>1. phase' = phase /\ phase' \notin {"boot", "user"}
      BY <2>1, <2>2 DEF NotReady
    <3> QED
      BY <1>1, <1>2, <2>1, <2>2, <3>1, WalkOn DEF BootLeavesIdle, IdleIsLast
  <2>3. CASE ReadyWriter(c)
    BY <1>2, <2>3 DEF ReadyWriter
  <2>4. CASE c # 0 /\ ~NotReady(c) /\ ~ReadyWriter(c)
    <3>1. Select(c) /\ active' = c
      BY <1>10, <2>4 DEF NextProcess, ReadyActive, ReadyReader, ReadySleeper,
         ReadyWaiter, DeleteProcess, IdleInv, IInv, SlotsMeaningful, InRing
    <3> QED
      BY <1>2, <2>4, <3>1 DEF Select
  <2>5. CASE c = 0 /\ ~NotReady(c) /\ ~ReadyWriter(c)
    <3>1. ReadyActive(0)
      BY <1>10, <2>5 DEF NextProcess, ReadyReader, ReadySleeper, ReadyWaiter, IdleInv, IInv
    <3>2. /\ active' = 0 /\ UNCHANGED <<size, next, state, r0, fill>>
          /\ phase' = IF phase = "pass1" THEN "pass2" ELSE "user"
      BY <3>1 DEF ReadyActive, Select, ring
    <3>3. InRing' = InRing /\ \A p : CouldRun(p)' <=> CouldRun(p)
      BY <3>2 DEF InRing, InTable, CouldRun
    <3>4. CASE phase = "pass1"
      <4>1. PassedOver({0})'
        BY <3>2 DEF PassedOver
      <4>2. {0} \in SUBSET InRing'
        BY <1>1, <2>5, <3>3
      <4> QED
        BY <3>2, <3>4, <4>1, <4>2 DEF SecondLoop, BootLeavesIdle, IdleIsLast
    <3>5. CASE phase = "pass2"
      <4>1. \A p \in InRing \ {0} : ~CouldRun(p)
        BY <1>1, <2>5, <3>5, BackAtIdle
      <4> QED
        BY <3>2, <3>3, <3>5, <4>1 DEF SecondLoop, BootLeavesIdle, IdleIsLast
    <3> QED
      BY <2>1, <3>4, <3>5
  <2> QED
    BY <2>2, <2>3, <2>4, <2>5
<1> QED
  BY <1>4, <1>5, <1>6, <1>7, <1>8, <1>9, <1>10 DEF Next
-----------------------------------------------------------------------------
\* At first the idle process is alone in the ring, which it closes.
LEMMA IdleInit == Init => IdleInv
<1> SUFFICES ASSUME Init PROVE IdleInv
  OBVIOUS
<1>1. InRing = {0}
  BY SchedulerAssumption DEF Init, InRing, InTable, Pids
<1>2. OneCycle
  BY <1>1 DEF OneCycle
<1>3. SecondLoop /\ BootLeavesIdle /\ IdleIsLast
  BY DEF Init, SecondLoop, BootLeavesIdle, IdleIsLast
<1> QED
  BY <1>2, <1>3, InitInv DEF IdleInv

(* If programs kill only pids that exist and never pid 0, the processes form  *)
(* one cycle: whoever follows next_process from any of them comes across all  *)
(* the others.  Shared children, killed zombies and blind writers are allowed *)
(* (a writer may end the kernel); the kill of a reaped pid is not, which      *)
(* splits the ring.                                                           *)
THEOREM OneCycleCorrect == TameKills => (Spec => []OneCycle)
<1> SUFFICES ASSUME TameKills PROVE Spec => []OneCycle
  OBVIOUS
<1>1. IdleInv /\ [Next]_vars => IdleInv'
  BY IdleNext
<1>2. IdleInv => OneCycle
  BY DEF IdleInv
<1> QED
  BY <1>1, <1>2, IdleInit, PTL DEF Spec

(* The processor idles only when no process could use it.                     *)
THEOREM IdleCorrect == TameKills => (Spec => []IdleIsLast)
<1> SUFFICES ASSUME TameKills PROVE Spec => []IdleIsLast
  OBVIOUS
<1>1. IdleInv /\ [Next]_vars => IdleInv'
  BY IdleNext
<1>2. IdleInv => IdleIsLast
  BY DEF IdleInv
<1> QED
  BY <1>1, <1>2, IdleInit, PTL DEF Spec
-----------------------------------------------------------------------------
(* The ring as a run queue *)

(* q is a walk along link from first through all of members and back.         *)
Walk(q, members, link, first) ==
  /\ q \in Seq(members) /\ q # <<>>
  /\ \A p \in members : \E k \in 1 .. Len(q) : q[k] = p
  /\ \A j, k \in 1 .. Len(q) : q[j] = q[k] => j = k
  /\ q[1] = first
  /\ \A k \in 1 .. Len(q) : link[q[k]] = IF k = Len(q) THEN first ELSE q[k + 1]

\* A set of numbers that is not empty has a least one.
LEMMA LeastNumber ==
  ASSUME NEW W, W \subseteq Nat, W # {}
  PROVE  \E j \in W : \A i \in W : ~(i < j)
<1>1. PICK j \in W : \A i \in W : ~(<<i, j>> \in OpToRel(<, Nat))
  BY NatLessThanWellFounded, WFMin
<1>2. \A i \in W : i < j => <<i, j>> \in OpToRel(<, Nat)
  BY <1>1 DEF OpToRel
<1> QED
  BY <1>1, <1>2

\* A walk is as long as there are members.
LEMMA WalkLength ==
  ASSUME NEW q, NEW S, NEW nx, NEW a, Walk(q, S, nx, a)
  PROVE  Cardinality(S) = Len(q) /\ Len(q) \in Nat \ {0}
<1>1. q \in [1 .. Len(q) -> S] /\ Len(q) \in Nat \ {0}
  BY DEF Walk
<1>2. q \in Bijection(1 .. Len(q), S)
  BY <1>1 DEF Walk, Bijection, Injection, Surjection, IsInjective
<1>3. ExistsBijection(1 .. Len(q), S)
  BY <1>2 DEF ExistsBijection
<1>4. IsFiniteSet(1 .. Len(q)) /\ Cardinality(1 .. Len(q)) = Len(q)
  BY <1>1, FS_Interval
<1> QED
  BY <1>1, <1>3, <1>4, FS_Bijection

\* There is only one walk: the one RingFrom computes.
LEMMA WalkIsRing ==
  ASSUME NEW q, NEW S, NEW nx, NEW a, Walk(q, S, nx, a)
  PROVE  RingFrom(S, nx, a) = q
<1> DEFINE n == Len(q)
           Reads(f) == f = [k \in 1 .. n |-> IF k = 1 THEN a ELSE nx[f[k - 1]]]
<1>1. n \in Nat \ {0} /\ Cardinality(S) = n
  BY WalkLength
<1>2. q = [k \in 1 .. n |-> q[k]]
  BY DEF Walk
<1>3. \A k \in 1 .. n : q[k] = IF k = 1 THEN a ELSE nx[q[k - 1]]
  <2> SUFFICES ASSUME NEW k \in 1 .. n PROVE q[k] = IF k = 1 THEN a ELSE nx[q[k - 1]]
    OBVIOUS
  <2>1. CASE k = 1
    BY <2>1 DEF Walk
  <2>2. CASE k # 1
    <3>1. k - 1 \in 1 .. n /\ k - 1 # n /\ (k - 1) + 1 = k
      BY <1>1, <2>2
    <3> QED
      BY <2>2, <3>1 DEF Walk
  <2> QED
    BY <2>1, <2>2
<1>4. Reads(q)
  BY <1>2, <1>3
<1>5. ASSUME NEW f, Reads(f) PROVE f = q
  <2>1. \A k \in 1 .. n : f[k] = IF k = 1 THEN a ELSE nx[f[k - 1]]
    BY <1>5
  <2>2. f = [k \in 1 .. n |-> f[k]]
    BY <1>5
  <2>3. SUFFICES ASSUME \E k \in 1 .. n : f[k] # q[k] PROVE FALSE
    BY <1>2, <2>2
  <2>4. PICK W : W = {k \in 1 .. n : f[k] # q[k]}
    OBVIOUS
  <2>5. W \subseteq Nat /\ W # {}
    BY <1>1, <2>3, <2>4
  <2>6. PICK j \in W : \A i \in W : ~(i < j)
    BY <2>5, LeastNumber
  <2>7. j \in 1 .. n /\ f[j] # q[j]
    BY <2>4
  <2>8. j # 1
    BY <1>3, <2>1, <2>7
  <2>9. j - 1 \in 1 .. n /\ j - 1 < j
    BY <1>1, <2>7, <2>8
  <2>10. f[j - 1] = q[j - 1]
    BY <2>4, <2>6, <2>9
  <2> QED
    BY <1>3, <2>1, <2>7, <2>8, <2>10
<1>6. RingFrom(S, nx, a) = CHOOSE f : Reads(f)
  BY <1>1 DEF RingFrom
<1>7. Reads(CHOOSE f : Reads(f))
  BY <1>4
<1> HIDE DEF Reads
<1> QED
  BY <1>5, <1>6, <1>7

\* A newcomer f linked in front of the first joins the walk at its end.
LEMMA WalkAppended ==
  ASSUME NEW q, NEW S, NEW nx, NEW a, Walk(q, S, nx, a),
         NEW f, f \notin S, NEW v \in S, nx[v] = a,
         NEW mx, mx[f] = a, mx[v] = f, \A p \in S \ {v} : mx[p] = nx[p]
  PROVE  Walk(Append(q, f), S \cup {f}, mx, a) /\ Walk(<<f>> \o q, S \cup {f}, mx, f)
<1> DEFINE n == Len(q)
<1>1. /\ n \in Nat \ {0} /\ \A k \in 1 .. n : q[k] \in S
      /\ \A p \in S : \E k \in 1 .. n : q[k] = p
      /\ \A j, k \in 1 .. n : q[j] = q[k] => j = k
      /\ q[1] = a
      /\ \A k \in 1 .. n : nx[q[k]] = IF k = n THEN a ELSE q[k + 1]
  BY DEF Walk
<1>2. v = q[n]
  <2>1. PICK k \in 1 .. n : q[k] = v
    BY <1>1
  <2>2. CASE k # n
    <3>1. q[k + 1] = q[1] /\ k + 1 \in 1 .. n /\ 1 \in 1 .. n /\ k + 1 # 1
      BY <1>1, <2>1, <2>2
    <3> QED
      BY <1>1, <3>1
  <2> QED
    BY <2>1, <2>2
<1>3. \A k \in 1 .. n : mx[q[k]] = IF k = n THEN f ELSE q[k + 1]
  <2> SUFFICES ASSUME NEW k \in 1 .. n PROVE mx[q[k]] = IF k = n THEN f ELSE q[k + 1]
    OBVIOUS
  <2>1. k # n => q[k] # v
    BY <1>1, <1>2
  <2> QED
    BY <1>1, <1>2, <2>1
<1>4. Walk(Append(q, f), S \cup {f}, mx, a)
  <2> DEFINE r == Append(q, f)
  <2>1. /\ r \in Seq(S \cup {f}) /\ Len(r) = n + 1 /\ r[n + 1] = f
        /\ \A k \in 1 .. n : r[k] = q[k]
    BY DEF Walk
  <2> HIDE DEF r
  <2>2. r # <<>> /\ r[1] = a /\ \A k \in 1 .. Len(r) : k \in 1 .. n \/ k = n + 1
    BY <1>1, <2>1
  <2>3. \A p \in S \cup {f} : \E k \in 1 .. Len(r) : r[k] = p
    <3>1. \A k \in 1 .. n : k \in 1 .. Len(r)
      BY <1>1, <2>1
    <3>2. n + 1 \in 1 .. Len(r)
      BY <1>1, <2>1
    <3> QED
      BY <1>1, <2>1, <3>1, <3>2
  <2>4. \A j, k \in 1 .. Len(r) : r[j] = r[k] => j = k
    BY <1>1, <2>1, <2>2
  <2>5. \A k \in 1 .. Len(r) : mx[r[k]] = IF k = Len(r) THEN a ELSE r[k + 1]
    <3> SUFFICES ASSUME NEW k \in 1 .. Len(r)
                 PROVE  mx[r[k]] = IF k = Len(r) THEN a ELSE r[k + 1]
      OBVIOUS
    <3>1. CASE k = n + 1
      BY <2>1, <3>1
    <3>2. CASE k = n
      BY <1>1, <1>3, <2>1, <3>2
    <3>3. CASE k \in 1 .. n /\ k # n
      <4>1. k + 1 \in 1 .. n /\ k # Len(r)
        BY <1>1, <2>1, <3>3
      <4> QED
        BY <1>3, <2>1, <3>3, <4>1
    <3> QED
      BY <2>2, <3>1, <3>2, <3>3
  <2> QED
    BY <2>1, <2>2, <2>3, <2>4, <2>5 DEF Walk, r
<1>5. Walk(<<f>> \o q, S \cup {f}, mx, f)
  <2> DEFINE r == <<f>> \o q
  <2>1. /\ r \in Seq(S \cup {f}) /\ Len(r) = n + 1 /\ r[1] = f
        /\ \A k \in 2 .. n + 1 : r[k] = q[k - 1]
    BY DEF Walk
  <2> HIDE DEF r
  <2>2. r # <<>> /\ \A k \in 1 .. Len(r) : k = 1 \/ (k \in 2 .. n + 1 /\ k - 1 \in 1 .. n)
    BY <1>1, <2>1
  <2>3. \A p \in S \cup {f} : \E k \in 1 .. Len(r) : r[k] = p
    <3>1. \A k \in 1 .. n : k + 1 \in 2 .. n + 1 /\ k + 1 \in 1 .. Len(r) /\ (k + 1) - 1 = k
      BY <1>1, <2>1
    <3>2. 1 \in 1 .. Len(r)
      BY <1>1, <2>1
    <3>3. ASSUME NEW p \in S PROVE \E k \in 1 .. Len(r) : r[k] = p
      <4>1. PICK k \in 1 .. n : q[k] = p
        BY <1>1
      <4>2. k + 1 \in 1 .. Len(r) /\ r[k + 1] = p
        BY <2>1, <3>1, <4>1
      <4> QED
        BY <4>2
    <3> QED
      BY <2>1, <3>2, <3>3
  <2>4. \A j, k \in 1 .. Len(r) : r[j] = r[k] => j = k
    <3> SUFFICES ASSUME NEW j \in 1 .. Len(r), NEW k \in 1 .. Len(r), r[j] = r[k]
                 PROVE  j = k
      OBVIOUS
    <3>1. CASE j = 1 \/ k = 1
      <4>1. \A i \in 1 .. Len(r) : i # 1 => r[i] = q[i - 1] /\ q[i - 1] \in S
        BY <1>1, <2>1, <2>2
      <4>2. \A i \in 1 .. Len(r) : i # 1 => r[i] # f
        BY <4>1
      <4> QED
        BY <2>1, <3>1, <4>2
    <3>2. CASE j # 1 /\ k # 1
      <4>1. q[j - 1] = q[k - 1] /\ j - 1 \in 1 .. n /\ k - 1 \in 1 .. n
        BY <2>1, <2>2, <3>2
      <4>2. j - 1 = k - 1
        BY <1>1, <4>1
      <4> QED
        BY <4>2
    <3> QED
      BY <3>1, <3>2
  <2>5. \A k \in 1 .. Len(r) : mx[r[k]] = IF k = Len(r) THEN f ELSE r[k + 1]
    <3> SUFFICES ASSUME NEW k \in 1 .. Len(r)
                 PROVE  mx[r[k]] = IF k = Len(r) THEN f ELSE r[k + 1]
      OBVIOUS
    <3>1. CASE k = 1
      BY <1>1, <2>1, <3>1
    <3>2. CASE k # 1
      <4>1. r[k] = q[k - 1] /\ k - 1 \in 1 .. n
        BY <2>1, <2>2, <3>2
      <4>2. k # n + 1 => k + 1 \in 2 .. n + 1 /\ (k + 1) - 1 = (k - 1) + 1
        BY <1>1, <2>1, <3>2
      <4>3. k # n + 1 => r[k + 1] = q[(k - 1) + 1]
        BY <2>1, <4>2
      <4>4. k = n + 1 <=> k - 1 = n
        BY <1>1
      <4> QED
        BY <1>3, <2>1, <4>1, <4>3, <4>4
    <3> QED
      BY <3>1, <3>2
  <2> QED
    BY <2>1, <2>2, <2>3, <2>4, <2>5 DEF Walk, r
<1> QED
  BY <1>4, <1>5

\* The next one becomes the first: the walk is rotated.
LEMMA WalkRotated ==
  ASSUME NEW q, NEW S, NEW nx, NEW a, Walk(q, S, nx, a)
  PROVE  Walk(Append(Tail(q), Head(q)), S, nx, nx[a])
<1> DEFINE n == Len(q)
<1>0. PICK r : r = Append(Tail(q), Head(q))
  OBVIOUS
<1>1. /\ n \in Nat \ {0} /\ \A k \in 1 .. n : q[k] \in S
      /\ \A p \in S : \E k \in 1 .. n : q[k] = p
      /\ \A j, k \in 1 .. n : q[j] = q[k] => j = k
      /\ q[1] = a
      /\ \A k \in 1 .. n : nx[q[k]] = IF k = n THEN a ELSE q[k + 1]
  BY DEF Walk
<1>2. /\ r \in Seq(S) /\ Len(r) = n
      /\ \A k \in 1 .. n : r[k] = IF k = n THEN q[1] ELSE q[k + 1]
  <2>1. q \in Seq(S) /\ q # <<>>
    BY DEF Walk
  <2>2. /\ Tail(q) \in Seq(S) /\ Len(Tail(q)) = n - 1
        /\ \A k \in 1 .. n - 1 : Tail(q)[k] = q[k + 1]
    BY <2>1
  <2>3. Head(q) = q[1] /\ q[1] \in S
    BY <1>1, <2>1
  <2>4. PICK x : x = Tail(q)
    OBVIOUS
  <2>5. /\ x \in Seq(S) /\ Len(x) = n - 1 /\ \A k \in 1 .. n - 1 : x[k] = q[k + 1]
        /\ r = Append(x, q[1])
    BY <1>0, <2>2, <2>3, <2>4
  <2>6. /\ r \in Seq(S) /\ Len(r) = n /\ r[n] = q[1]
        /\ \A k \in 1 .. n - 1 : r[k] = x[k]
    BY <1>1, <2>3, <2>5
  <2> QED
    BY <1>1, <2>5, <2>6
<1>3. r # <<>> /\ 1 \in 1 .. n /\ n \in 1 .. n
  BY <1>1, <1>2
<1>4. \A p \in S : \E k \in 1 .. Len(r) : r[k] = p
  <2> SUFFICES ASSUME NEW p \in S PROVE \E k \in 1 .. Len(r) : r[k] = p
    OBVIOUS
  <2>1. PICK k \in 1 .. n : q[k] = p
    BY <1>1
  <2>2. CASE k = 1
    BY <1>2, <1>3, <2>1, <2>2
  <2>3. CASE k # 1
    <3>1. k - 1 \in 1 .. n /\ k - 1 # n /\ (k - 1) + 1 = k
      BY <1>1, <2>3
    <3>2. r[k - 1] = p
      BY <1>2, <2>1, <3>1
    <3> QED
      BY <1>2, <3>1, <3>2
  <2> QED
    BY <2>2, <2>3
<1>5. \A j, k \in 1 .. Len(r) : r[j] = r[k] => j = k
  <2> SUFFICES ASSUME NEW j \in 1 .. n, NEW k \in 1 .. n, r[j] = r[k] PROVE j = k
    BY <1>2
  <2>1. PICK x, y \in 1 .. n : /\ x = IF j = n THEN 1 ELSE j + 1
                              /\ y = IF k = n THEN 1 ELSE k + 1
    BY <1>1
  <2>2. q[x] = q[y]
    BY <1>2, <2>1
  <2>3. x = y
    BY <1>1, <2>2
  <2> QED
    BY <1>1, <2>1, <2>3
<1>6. \A k \in 1 .. Len(r) : nx[r[k]] = IF k = Len(r) THEN nx[a] ELSE r[k + 1]
  <2> SUFFICES ASSUME NEW k \in 1 .. n
               PROVE  nx[r[k]] = IF k = n THEN nx[a] ELSE r[k + 1]
    BY <1>2
  <2>1. CASE k = n
    BY <1>1, <1>2, <2>1
  <2>2. CASE k # n
    <3>1. k + 1 \in 1 .. n /\ r[k] = q[k + 1]
      <4>1. k + 1 \in 1 .. n
        BY <1>1, <2>2
      <4> QED
        BY <1>2, <2>2, <4>1
    <3>2. nx[q[k + 1]] = IF k + 1 = n THEN a ELSE q[(k + 1) + 1]
      BY <1>1, <3>1
    <3>3. r[k + 1] = IF k + 1 = n THEN q[1] ELSE q[(k + 1) + 1]
      BY <1>2, <3>1
    <3> QED
      BY <1>1, <2>2, <3>1, <3>2, <3>3
  <2> QED
    BY <2>1, <2>2
<1>7. r[1] = nx[a]
  BY <1>1, <1>2, <1>3
<1> QED
  BY <1>2, <1>3, <1>4, <1>5, <1>6, <1>7, <1>0 DEF Walk

\* r is q without the member i, which was not its first.
Shorter(q, members, link, first, i) ==
  \E k \in 2 .. Len(q) : q[k] = i /\ Walk(RemoveAt(q, k), members, link, first)

\* A member that is not the first is taken out of the walk.
LEMMA WalkShortened ==
  ASSUME NEW q, NEW S, NEW nx, NEW a, Walk(q, S, nx, a),
         NEW i \in S \ {a}, NEW u \in S, nx[u] = i,
         NEW mx, mx[u] = nx[i], \A p \in S \ {u, i} : mx[p] = nx[p]
  PROVE  Shorter(q, S \ {i}, mx, a, i)
<1>1. PICK n \in Nat : n = Len(q) /\ n # 0
  BY DEF Walk
<1>2. /\ q \in Seq(S) /\ \A k \in 1 .. n : q[k] \in S
      /\ \A p \in S : \E k \in 1 .. n : q[k] = p
      /\ \A j, k \in 1 .. n : q[j] = q[k] => j = k
      /\ q[1] = a
      /\ \A k \in 1 .. n : nx[q[k]] = IF k = n THEN a ELSE q[k + 1]
  BY <1>1 DEF Walk
<1>3. PICK m \in 1 .. n : q[m] = i
  BY <1>2
<1>4. m \in 2 .. n /\ m - 1 \in 1 .. n /\ (m - 1) + 1 = m
  <2>1. m # 1
    BY <1>2, <1>3
  <2> QED
    BY <1>1, <2>1
<1>5. u = q[m - 1]
  <2>1. PICK k \in 1 .. n : q[k] = u
    BY <1>2
  <2>2. k # n /\ q[k + 1] = i
    BY <1>2, <2>1
  <2>3. k + 1 \in 1 .. n
    BY <1>1, <2>2
  <2>4. k + 1 = m
    BY <1>2, <1>3, <2>2, <2>3
  <2> QED
    BY <2>1, <2>4
<1>6. PICK r : r = RemoveAt(q, m)
  OBVIOUS
<1>7. PICK l \in Nat : l = n - 1 /\ l # 0
  BY <1>1, <1>4
\* The place in q that a place of r comes from.
<1>8. PICK old : old = [k \in 1 .. l |-> IF k < m THEN k ELSE k + 1]
  OBVIOUS
<1>9. r \in Seq(S) /\ Len(r) = l /\ \A k \in 1 .. l : r[k] = q[old[k]]
  <2>1. PICK x, y : x = SubSeq(q, 1, m - 1) /\ y = SubSeq(q, m + 1, n)
    OBVIOUS
  <2>2. x \in Seq(S) /\ Len(x) = m - 1 /\ \A k \in 1 .. m - 1 : x[k] = q[k]
    BY <1>1, <1>2, <1>4, <2>1
  <2>3. y \in Seq(S) /\ Len(y) = n - m /\ \A k \in 1 .. n - m : y[k] = q[k + m]
    BY <1>1, <1>2, <1>4, <2>1
  <2>4. r = x \o y
    BY <1>1, <1>6, <2>1 DEF RemoveAt
  <2>5. /\ x \o y \in Seq(S) /\ Len(x \o y) = Len(x) + Len(y)
        /\ \A k \in 1 .. Len(x) + Len(y) : (x \o y)[k] =
             IF k <= Len(x) THEN x[k] ELSE y[k - Len(x)]
    <3>1. x \in Seq(S)
      BY <2>2
    <3>2. y \in Seq(S)
      BY <2>3
    <3> QED
      BY <3>1, <3>2, ConcatProperties
  <2>6. Len(x) + Len(y) = l
    BY <1>1, <1>4, <1>7, <2>2, <2>3
  <2>7. ASSUME NEW k \in 1 .. l PROVE r[k] = q[old[k]]
    <3>1. r[k] = IF k <= m - 1 THEN x[k] ELSE y[k - (m - 1)]
      BY <2>2, <2>4, <2>5, <2>6
    <3>2. CASE k < m
      <4>1. k \in 1 .. m - 1 /\ k <= m - 1
        BY <1>4, <3>2
      <4> QED
        BY <1>8, <2>2, <3>1, <3>2, <4>1
    <3>3. CASE ~(k < m)
      <4>1. ~(k <= m - 1) /\ k - (m - 1) \in 1 .. n - m /\ (k - (m - 1)) + m = k + 1
        BY <1>1, <1>4, <1>7, <3>3
      <4>2. r[k] = q[k + 1]
        BY <2>3, <3>1, <4>1
      <4> QED
        BY <1>8, <3>3, <4>2
    <3> QED
      BY <3>2, <3>3
  <2> QED
    BY <2>4, <2>5, <2>6, <2>7
<1>10. \A k \in 1 .. l : old[k] \in 1 .. n /\ old[k] # m
  BY <1>1, <1>4, <1>7, <1>8
<1>11. \A j, k \in 1 .. l : old[j] = old[k] => j = k
  BY <1>4, <1>7, <1>8
<1>12. ASSUME NEW j \in 1 .. n, j # m PROVE \E k \in 1 .. l : old[k] = j
  <2>1. CASE j < m
    <3>1. j \in 1 .. l /\ old[j] = j
      BY <1>1, <1>4, <1>7, <1>8, <2>1
    <3> QED
      BY <3>1
  <2>2. CASE j > m
    <3>1. j - 1 \in 1 .. l /\ old[j - 1] = j
      BY <1>1, <1>4, <1>7, <1>8, <2>2
    <3> QED
      BY <3>1
  <2> QED
    BY <1>1, <1>4, <1>12, <2>1, <2>2
<1>13. /\ \A k \in 1 .. l : r[k] \in S \ {i}
       /\ \A j, k \in 1 .. l : r[j] = r[k] => j = k
  <2>1. ASSUME NEW k \in 1 .. l PROVE r[k] \in S \ {i}
    <3>1. PICK x \in 1 .. n : x = old[k] /\ x # m /\ r[k] = q[x]
      BY <1>9, <1>10
    <3>2. q[x] \in S /\ q[x] # q[m]
      BY <1>2, <3>1
    <3> QED
      BY <1>3, <3>1, <3>2
  <2>2. ASSUME NEW j \in 1 .. l, NEW k \in 1 .. l, r[j] = r[k] PROVE j = k
    <3>1. PICK x, y \in 1 .. n : x = old[j] /\ y = old[k] /\ r[j] = q[x] /\ r[k] = q[y]
      BY <1>9, <1>10
    <3>2. \A g, h \in 1 .. n : q[g] = q[h] => g = h
      BY <1>2
    <3>3. q[x] = q[y]
      BY <2>2, <3>1
    <3>4. old[j] = old[k]
      BY <3>1, <3>2, <3>3
    <3> QED
      BY <1>11, <3>4
  <2> QED
    BY <2>1, <2>2
<1>14. r \in Seq(S \ {i}) /\ r # <<>>
  <2>1. r = [k \in 1 .. l |-> r[k]]
    BY <1>9
  <2>2. [k \in 1 .. l |-> r[k]] \in Seq(S \ {i})
    BY <1>7, <1>13
  <2> QED
    BY <1>7, <1>9, <2>1, <2>2
<1>15. ASSUME NEW p \in S \ {i} PROVE \E k \in 1 .. l : r[k] = p
  <2>1. PICK j \in 1 .. n : q[j] = p
    BY <1>2
  <2>2. PICK k \in 1 .. l : old[k] = j
    BY <1>3, <1>12, <2>1
  <2> QED
    BY <1>9, <2>1, <2>2
<1>16. r[1] = a
  <2>1. 1 \in 1 .. l /\ old[1] = 1
    BY <1>4, <1>7, <1>8
  <2> QED
    BY <1>2, <1>9, <2>1
<1>17. ASSUME NEW k \in 1 .. l PROVE mx[r[k]] = IF k = l THEN a ELSE r[k + 1]
  <2>1. PICK j \in 1 .. n : j = old[k] /\ j # m /\ r[k] = q[j]
    BY <1>9, <1>10
  <2>2. k # l => k + 1 \in 1 .. l /\ old[k + 1] = IF j = m - 1 THEN m + 1 ELSE j + 1
    BY <1>1, <1>4, <1>7, <1>8, <2>1
  <2>3. k = l <=> j = n \/ (j = m - 1 /\ m = n)
    BY <1>1, <1>4, <1>7, <1>8, <2>1
  <2>4. CASE j = m - 1
    <3>1. mx[r[k]] = IF m = n THEN a ELSE q[m + 1]
      BY <1>2, <1>3, <1>5, <2>1, <2>4
    <3>2. k # l => r[k + 1] = q[m + 1]
      BY <1>9, <2>2, <2>4
    <3>3. k = l <=> m = n
      BY <1>1, <1>4, <2>3, <2>4
    <3> QED
      BY <3>1, <3>2, <3>3
  <2>5. CASE j # m - 1
    <3>1. q[j] \in S \ {u, i}
      BY <1>2, <1>3, <1>4, <1>5, <2>1, <2>5
    <3>2. mx[r[k]] = IF j = n THEN a ELSE q[j + 1]
      BY <1>2, <2>1, <3>1
    <3>3. k # l => r[k + 1] = q[j + 1]
      BY <1>9, <2>2, <2>5
    <3> QED
      BY <2>3, <2>5, <3>2, <3>3
  <2> QED
    BY <2>4, <2>5
<1>18. Walk(r, S \ {i}, mx, a)
  BY <1>9, <1>13, <1>14, <1>15, <1>16, <1>17 DEF Walk
<1> QED
  BY <1>1, <1>3, <1>4, <1>6, <1>18 DEF Shorter
-----------------------------------------------------------------------------
(* The run queue *)

\* create_process() admits a process to the run queue.
LEMMA CreateWalk ==
  ASSUME IInv, CreateProcess, NEW q, Walk(q, InRing, next, active)
  PROVE  Walk(IF active = 0 THEN <<free>> \o q ELSE Append(q, free), InRing', next', active')
<1> DEFINE v == prev[active]
<1>1. /\ free \in Pids \ InRing
      /\ InRing' = InRing \cup {free}
  BY CreateKeeps DEF IInv
<1>2. /\ active \in InRing /\ v \in InRing /\ next[v] = active
      /\ \A p \in InRing : p \in Pids
  BY Members DEF IInv, RingIntact
<1>3. /\ next' = [next EXCEPT ![v] = free, ![free] = active]
      /\ active' = IF active = 0 THEN free ELSE active
  BY DEF CreateProcess, AddProcess
<1>4. /\ \A p \in InRing \ {v} : next'[p] = next[p]
      /\ next'[v] = free /\ next'[free] = active
  BY <1>1, <1>2, <1>3 DEF IInv, TypeOK
<1>5. PICK w, mx : w = v /\ mx = next'
  OBVIOUS
<1>6. free \notin InRing
  BY <1>1
<1>7. w \in InRing /\ next[w] = active
  BY <1>2, <1>5
<1>8. mx[free] = active /\ mx[w] = free
  BY <1>4, <1>5
<1>9. \A p \in InRing \ {w} : mx[p] = next[p]
  BY <1>4, <1>5
<1>10. /\ Walk(Append(q, free), InRing \cup {free}, mx, active)
       /\ Walk(<<free>> \o q, InRing \cup {free}, mx, free)
  <2> HIDE DEF v
  <2> QED
    BY <1>6, <1>7, <1>8, <1>9, WalkAppended
<1> QED
  BY <1>1, <1>3, <1>5, <1>10

\* delete_process() takes a process out of the run queue wherever it stands.
LEMMA DeleteWalk ==
  ASSUME IInv, NEW a \in InRing, NEW i \in InRing \ {0, a}, DeleteProcess(i, a, a),
         NEW q, Walk(q, InRing, next, a)
  PROVE  \E k \in 2 .. Len(q) : q[k] = i /\ Walk(RemoveAt(q, k), InRing', next', active')
<1> DEFINE u == prev[i]
<1>1. InRing' = InRing \ {i} /\ active' = a
  BY DeleteKeeps DEF IInv
<1>2. /\ u \in InRing /\ next[u] = i /\ next[i] \in InRing
      /\ \A p \in InRing : p \in Pids
  BY Members DEF IInv, RingIntact
<1>3. next' = [next EXCEPT ![u] = next[i], ![i] = free]
  BY DEF DeleteProcess
<1>4. u # i
  <2>1. PICK n \in Nat : n = Len(q)
    BY DEF Walk
  <2>2. /\ \A j, k \in 1 .. n : q[j] = q[k] => j = k
        /\ \A k \in 1 .. n : next[q[k]] = IF k = n THEN a ELSE q[k + 1]
    BY <2>1 DEF Walk
  <2>3. PICK k \in 1 .. n : q[k] = i
    BY <2>1 DEF Walk
  <2>4. k # n => k + 1 \in 1 .. n /\ k + 1 # k
    BY <2>1
  <2>5. next[i] # i
    BY <2>2, <2>3, <2>4
  <2> QED
    BY <1>2, <2>5
<1>5. PICK w, mx : w = u /\ mx = next'
  OBVIOUS
<1>6. mx[w] = next[i] /\ \A p \in InRing \ {w, i} : mx[p] = next[p]
  BY <1>2, <1>3, <1>4, <1>5 DEF IInv, TypeOK
<1>7. i \in InRing \ {a} /\ w \in InRing
  BY <1>2, <1>5
<1>8. next[w] = i
  BY <1>2, <1>5
<1>9. Shorter(q, InRing \ {i}, mx, a, i)
  <2> HIDE DEF u
  <2>1. w \in InRing
    BY <1>7
  <2>2. i \in InRing \ {a}
    BY <1>7
  <2>3. mx[w] = next[i]
    BY <1>6
  <2>4. \A p \in InRing \ {w, i} : mx[p] = next[p]
    BY <1>6
  <2> QED
    BY <2>1, <2>2, <2>3, <2>4, <1>8, WalkShortened
<1> QED
  BY <1>1, <1>5, <1>9 DEF Shorter

\* What a step may make of the run queue q.
QueueStep(q, r) ==
  \/ r = q
  \/ /\ free \in Pids \ InRing
     /\ IF active = 0 THEN q = <<0>> /\ r = <<free>> \o q ELSE r = Append(q, free)
  \/ r = Append(Tail(q), Head(q))
  \/ \E k \in 2 .. Len(q) : q[k] # 0 /\ r = RemoveAt(q, k)
  \/ \E k \in 2 .. Len(q) :
       Append(Tail(q), Head(q))[k] # 0 /\ r = RemoveAt(Append(Tail(q), Head(q)), k)

Walks(r) == Walk(r, InRing', next', active')

\* Every step of the scheduler makes one step of the run queue, or none.
LEMMA QueueSteps ==
  ASSUME TameKills, IdleInv, [Next]_vars, NEW q, Walk(q, InRing, next, active)
  PROVE  \E r : Walks(r) /\ QueueStep(q, r)
<1> DEFINE c == next[active]
<1>1. IInv /\ active \in InRing /\ c \in InRing
  BY DEF IdleInv, IInv, RingIntact
<1>2. ASSUME InRing' = InRing, next' = next, active' = active
      PROVE  \E r : Walks(r) /\ QueueStep(q, r)
  BY <1>2 DEF Walks, QueueStep
<1>3. ASSUME NEW p \in InRing, NEW s \in States \ {"INEXISTANT"}, UNCHANGED size,
             state' = state \/ state' = [state EXCEPT ![p] = s]
      PROVE  InRing' = InRing
  BY <1>1, <1>3, Members DEF IInv, TypeOK
<1>4. {"ACTIVE", "SLEEPING", "ZOMBIE", "WAIT_READ", "WAIT_WRITE", "WAITING"}
        \subseteq States \ {"INEXISTANT"}
  BY DEF States, Blocked
<1>5. CASE BootStart \/ SvcExecuteFile
  <2>1. CreateProcess /\ free \in Pids \ InRing
    BY <1>1, <1>5, CreateKeeps DEF BootStart, SvcExecuteFile, IInv
  <2>2. PICK r : r = IF active = 0 THEN <<free>> \o q ELSE Append(q, free)
    OBVIOUS
  <2>3. Walks(r)
    BY <1>1, <2>1, <2>2, CreateWalk DEF Walks
  <2>4. active = 0 => q = <<0>>
    <3>1. SUFFICES ASSUME active = 0 PROVE q = <<0>>
      OBVIOUS
    <3>2. phase = "boot" /\ ~(size > 1)
      BY <1>5, <3>1 DEF BootStart, SvcExecuteFile, Running, IdleInv, BootLeavesIdle
    <3>3. InRing = {0}
      BY <1>1, <3>1, <3>2, Members DEF IInv, TypeOK, Pids
    <3>4. PICK n \in Nat : n = Len(q) /\ n # 0 /\ q \in Seq({0})
      BY <3>3 DEF Walk
    <3>5. q[1] = q[n]
      BY <3>4
    <3>6. n = 1
      BY <3>4, <3>5 DEF Walk
    <3>7. q[1] = 0 /\ q = [k \in 1 .. n |-> q[k]]
      BY <3>4
    <3>8. q = [k \in 1 .. 1 |-> 0]
      BY <3>6, <3>7
    <3> QED
      BY <3>8
  <2> QED
    BY <2>1, <2>2, <2>3, <2>4 DEF QueueStep
<1>6. CASE AsyncGo \/ Tick \/ (\E p \in Pids : ClockPasses(p)) \/ UNCHANGED vars
  <2>1. state' = state /\ UNCHANGED <<size, next, active>>
    BY <1>1, <1>6 DEF AsyncGo, Tick, ClockPasses, vars, ring, IInv, TypeOK
  <2> QED
    BY <1>1, <1>2, <1>3, <1>4, <2>1
<1>7. CASE SvcSleep
  BY <1>1, <1>2, <1>3, <1>4, <1>7 DEF SvcSleep
<1>8. ASSUME NEW i \in Pids, SvcWait(i) PROVE \E r : Walks(r) /\ QueueStep(q, r)
  <2>1. CASE state[i] = "ZOMBIE"
    <3>1. i \in InRing \ {0, active} /\ DeleteProcess(i, active, active)
      BY <1>1, <1>8, <2>1 DEF SvcWait, InRing, IInv
    <3>2. PICK k \in 2 .. Len(q) : q[k] = i /\ Walks(RemoveAt(q, k))
      BY <1>1, <3>1, DeleteWalk DEF Walks
    <3> QED
      BY <3>1, <3>2 DEF QueueStep
  <2>2. CASE state[i] # "ZOMBIE"
    BY <1>1, <1>2, <1>3, <1>4, <1>8, <2>2 DEF SvcWait
  <2> QED
    BY <2>1, <2>2
<1>9. ASSUME NEW i \in Pids, NEW code \in Codes, SvcKill(i, code)
      PROVE  \E r : Walks(r) /\ QueueStep(q, r)
  <2>1. i \in InRing
    BY <1>9 DEF SvcKill, InRing, TameKills
  <2> QED
    BY <1>2, <1>3, <1>4, <1>9, <2>1 DEF SvcKill
<1>10. ASSUME NEW k \in Sockets, SvcRead(k) \/ SvcWrite(k)
       PROVE  \E r : Walks(r) /\ QueueStep(q, r)
  <2>1. \E s \in {"WAIT_READ", "WAIT_WRITE"} :
          /\ UNCHANGED <<size, next, active>>
          /\ state' = state \/ state' = [state EXCEPT ![active] = s]
    BY <1>10 DEF SvcRead, SvcWrite, BlockOn, ring
  <2> QED
    BY <1>1, <1>2, <1>3, <1>4, <2>1
<1>11. PICK t : t = Append(Tail(q), Head(q))
  OBVIOUS
<1>12. Walk(t, InRing, next, c)
  BY <1>11, WalkRotated
<1>13. Len(t) = Len(q)
  <2>1. q \in Seq(InRing) /\ q # <<>>
    BY DEF Walk
  <2> QED
    BY <1>11, <2>1
<1>14. CASE ReadyActive(c) \/ ReadyReader(c) \/ ReadyWriter(c) \/ ReadySleeper(c)
              \/ NotReady(c)
  <2>1. /\ UNCHANGED <<size, next>> /\ active' = c
        /\ state' = state \/ state' = [state EXCEPT ![c] = "ACTIVE"]
    BY <1>14 DEF ReadyActive, ReadyReader, ReadyWriter, ReadySleeper, NotReady, ring
  <2>2. InRing' = InRing
    BY <1>1, <1>3, <1>4, <2>1
  <2>3. Walks(t)
    BY <1>12, <2>1, <2>2 DEF Walks
  <2> QED
    BY <1>11, <2>3 DEF QueueStep
<1>15. CASE ReadyWaiter(c)
  <2>1. r0[c] \in InRing \ {0, c} /\ DeleteProcess(r0[c], c, c)
    BY <1>1, <1>15 DEF ReadyWaiter, IInv, SlotsMeaningful, InRing
  <2>2. PICK d, i : d = c /\ i = r0[c]
    OBVIOUS
  <2>3. d \in InRing /\ i \in InRing \ {0, d} /\ DeleteProcess(i, d, d) /\ Walk(t, InRing, next, d)
    BY <1>1, <1>12, <2>1, <2>2
  <2>4. PICK k \in 2 .. Len(t) : t[k] = i /\ Walks(RemoveAt(t, k))
    BY <1>1, <2>3, DeleteWalk, Zenon DEF Walks
  <2> QED
    BY <1>11, <1>13, <2>3, <2>4 DEF QueueStep
<1> QED
  BY <1>5, <1>6, <1>7, <1>8, <1>9, <1>10, <1>14, <1>15
  DEF Next, Syscall, NextProcess

\* The ring read from the active process on is the walk that was followed.
LEMMA QueueMoves ==
  ASSUME NEW q, Walk(q, InRing, next, active), active \in InRing,
         NEW r, Walks(r), QueueStep(q, r)
  PROVE  [RQ!Next]_Queue
<1>1. Queue = q
  BY WalkIsRing DEF Queue
<1>2. Queue' = r
  BY WalkIsRing DEF Queue, Walks
<1>3. q # <<>> /\ Head(q) = active /\ {q[k] : k \in 1 .. Len(q)} = InRing
  <2>1. q \in Seq(InRing) /\ q # <<>> /\ q[1] = active
    BY DEF Walk
  <2>2. \A k \in 1 .. Len(q) : q[k] \in InRing
    BY <2>1
  <2>3. \A p \in InRing : \E k \in 1 .. Len(q) : q[k] = p
    BY DEF Walk
  <2>4. {q[k] : k \in 1 .. Len(q)} = InRing
    BY <2>2, <2>3
  <2>5. Head(q) = active
    BY <2>1
  <2> QED
    BY <2>1, <2>4, <2>5
<1>4. CASE r = q
  BY <1>1, <1>2, <1>4
<1>5. CASE /\ free \in Pids \ InRing
           /\ IF active = 0 THEN q = <<0>> /\ r = <<free>> \o q ELSE r = Append(q, free)
  <2>1. RQ!Admit(free) /\ free \in RQ!Pids
    BY <1>1, <1>2, <1>3, <1>5 DEF RQ!Admit, RQ!Pids, RQ!Queued, Pids
  <2> QED
    BY <2>1 DEF RQ!Next
<1>6. CASE r = Append(Tail(q), Head(q))
  BY <1>1, <1>2, <1>6 DEF RQ!Next, RQ!AnyTurn, RQ!Turn, RQ!Rotated
<1>7. CASE \E k \in 2 .. Len(q) : q[k] # 0 /\ r = RemoveAt(q, k)
  BY <1>1, <1>2, <1>7 DEF RQ!Next, RQ!Reap, RQ!RemoveAt, RemoveAt
<1>8. CASE \E k \in 2 .. Len(q) : /\ Append(Tail(q), Head(q))[k] # 0
                                  /\ r = RemoveAt(Append(Tail(q), Head(q)), k)
  <2>1. PICK t : t = Append(Tail(q), Head(q))
    OBVIOUS
  <2>2. PICK k \in 2 .. Len(q) : t[k] # 0 /\ r = RemoveAt(t, k)
    BY <1>8, <2>1
  <2>3. RQ!Rotated = t
    BY <1>1, <2>1 DEF RQ!Rotated
  <2>4. RQ!TurnAndReap(k)
    BY <1>1, <1>2, <2>2, <2>3 DEF RQ!TurnAndReap, RQ!RemoveAt, RemoveAt
  <2> QED
    BY <1>1, <2>4 DEF RQ!Next, RQ!AnyTurn
<1> QED
  BY <1>4, <1>5, <1>6, <1>7, <1>8 DEF QueueStep

(* The processes of the ring form one walk, from the active process back to   *)
(* it.                                                                        *)
RingIsWalk == \E q : Walk(q, InRing, next, active)

WalkInv == IdleInv /\ RingIsWalk

(* The ring of next_process pointers implements the run queue: it is always a *)
(* queue of pids without repetition in which the idle process stands, and a   *)
(* step admits a process at its end, gives the next one its turn, takes one   *)
(* out, or leaves it as it is.                                                *)
THEOREM RunQueueImplemented == TameKills => (Spec => ImplementsRunQueue)
<1> SUFFICES ASSUME TameKills PROVE Spec => ImplementsRunQueue
  OBVIOUS
<1>1. ASSUME Init PROVE WalkInv /\ RQ!Init
  <2>1. IdleInv
    BY <1>1, IdleInit
  <2>2. InRing = {0} /\ active = 0 /\ next[0] = 0
    BY <1>1, SchedulerAssumption DEF Init, InRing, InTable, Pids
  <2>3. PICK q : q = <<0>>
    OBVIOUS
  <2>4. q \in Seq({0}) /\ Len(q) = 1 /\ q[1] = 0
    BY <2>3
  <2>5. Walk(q, InRing, next, active)
    BY <2>2, <2>4 DEF Walk
  <2>6. Queue = q
    BY <2>5, WalkIsRing DEF Queue
  <2> QED
    BY <2>1, <2>3, <2>5, <2>6 DEF WalkInv, RingIsWalk, RQ!Init
<1>2. ASSUME WalkInv, [Next]_vars PROVE WalkInv' /\ [RQ!Next]_Queue
  <2>1. IdleInv /\ active \in InRing
    BY <1>2 DEF WalkInv, IdleInv, IInv, RingIntact
  <2>2. PICK q : Walk(q, InRing, next, active)
    BY <1>2 DEF WalkInv, RingIsWalk
  <2>3. PICK r : Walks(r) /\ QueueStep(q, r)
    BY <1>2, <2>1, <2>2, QueueSteps
  <2>4. IdleInv'
    BY <1>2, <2>1, IdleNext
  <2>5. [RQ!Next]_Queue
    BY <2>1, <2>2, <2>3, QueueMoves
  <2> QED
    BY <2>3, <2>4, <2>5 DEF WalkInv, RingIsWalk, Walks
<1>3. ASSUME WalkInv PROVE RQ!WellFormed
  <2>1. PICK q : Walk(q, InRing, next, active)
    BY <1>3 DEF WalkInv, RingIsWalk
  <2>2. Queue = q
    BY <2>1, WalkIsRing DEF Queue
  <2>3. 0 \in InRing /\ InRing \subseteq RQ!Pids
    BY <1>3, Members DEF WalkInv, IdleInv, IInv, RingIntact, Pids, RQ!Pids
  <2>4. q \in Seq(InRing)
    BY <2>1 DEF Walk
  <2>5. q \in Seq(RQ!Pids)
    BY <2>3, <2>4
  <2>6. \E k \in 1 .. Len(q) : q[k] = 0
    BY <2>1, <2>3 DEF Walk
  <2>7. \A j, k \in 1 .. Len(q) : q[j] = q[k] => j = k
    BY <2>1 DEF Walk
  <2> QED
    BY <2>2, <2>5, <2>6, <2>7 DEF RQ!WellFormed, RQ!Queued
<1> QED
  BY <1>1, <1>2, <1>3, PTL DEF Spec, ImplementsRunQueue, RQ!Spec
=============================================================================
