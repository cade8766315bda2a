-------------------------------- MODULE Mutex --------------------------------
(***************************************************************************)
(* The spin lock of src/kernel/src/atomic.cpp, around what it is for: the  *)
(* log queue, to which every process appends (enqueueLog() of logger.cpp). *)
(* A process may be pre-empted anywhere; the compare-and-swap is a system  *)
(* call or runs with interrupts masked, so that it is one step.            *)
(***************************************************************************)
EXTENDS Naturals, TLAPS

CONSTANTS Procs,
          MaxLogs      \* bound on the entries appended
VARIABLES locked,      \* the word of the lock
          pc, seen,    \* where each process is, and the size it has read
          size,        \* of the queue
          pushed,      \* the truth: how many entries have been appended
          dropped      \* an interrupt handler has logged in vain
vars == <<locked, pc, seen, size, pushed, dropped>>

Goto(p, place) == pc' = [pc EXCEPT ![p] = place]

Init ==
  /\ locked = 0 /\ pc = [p \in Procs |-> "idle"] /\ seen = [p \in Procs |-> 0]
  /\ size = 0 /\ pushed = 0 /\ dropped = FALSE

EnqueueLog(p) ==
  /\ pc[p] = "idle" /\ pushed < MaxLogs /\ Goto(p, "lock")
  /\ UNCHANGED <<locked, seen, size, pushed, dropped>>

\* One turn of the loop of mutex_lock().
Lock_Blind(p) ==
  /\ pc[p] = "lock" /\ locked' = 1 /\ Goto(p, "push")
  /\ UNCHANGED <<seen, size, pushed, dropped>>
Lock(p) ==
  /\ pc[p] = "lock"
  /\ IF locked = 0 THEN locked' = 1 /\ Goto(p, "push") ELSE UNCHANGED <<locked, pc>>
  /\ UNCHANGED <<seen, size, pushed, dropped>>

\* Queue::push() reads the size and writes it later.
Push(p) ==
  /\ pc[p] = "push" /\ seen' = [seen EXCEPT ![p] = size] /\ Goto(p, "store")
  /\ UNCHANGED <<locked, size, pushed, dropped>>
Store(p) ==
  /\ pc[p] = "store" /\ size' = seen[p] + 1 /\ pushed' = pushed + 1 /\ Goto(p, "unlock")
  /\ UNCHANGED <<locked, seen, dropped>>

\* mutex_unlock() asserts that it was locked.
Unlock(p) ==
  /\ pc[p] = "unlock"
  /\ IF locked = 1 THEN locked' = 0 /\ Goto(p, "idle") ELSE Goto(p, "crashed") /\ UNCHANGED locked
  /\ UNCHANGED <<seen, size, pushed, dropped>>

\* An interrupt handler must not wait for a process: it does not log at all.
Interrupt == dropped' = TRUE /\ UNCHANGED <<locked, pc, seen, size, pushed>>

Next ==
  \/ \E p \in Procs : EnqueueLog(p) \/ Lock(p) \/ Push(p) \/ Store(p) \/ Unlock(p)
  \/ Interrupt

Spec == Init /\ [][Next]_vars
-----------------------------------------------------------------------------
Inside(p) == pc[p] \in {"push", "store", "unlock"}

(* At most one process is between mutex_lock() and mutex_unlock(), and the *)
(* assertion of mutex_unlock() holds.                                      *)
MutualExclusion ==
  /\ \A p, q \in Procs : Inside(p) /\ Inside(q) => p = q
  /\ \A p \in Procs : pc[p] # "crashed"

(* No entry overwrites another: what is in the queue is what was appended. *)
NothingOverwritten == size = pushed
-----------------------------------------------------------------------------
TypeOK ==
  /\ locked \in {0, 1} /\ size \in Nat /\ pushed \in Nat /\ dropped \in BOOLEAN
  /\ pc \in [Procs -> {"idle", "lock", "push", "store", "unlock", "crashed"}]
  /\ seen \in [Procs -> Nat]

\* The inductive invariant: the lock is taken exactly while somebody is inside,
\* and what a process has read is still the size when it writes.
IInv ==
  /\ TypeOK
  /\ MutualExclusion
  /\ \A p \in Procs : Inside(p) => locked = 1
  /\ \A p \in Procs : pc[p] = "store" => seen[p] = size
  /\ NothingOverwritten

\* At first nobody is past the lock.
LEMMA InitInv == Init => IInv
<1> SUFFICES ASSUME Init PROVE IInv
  OBVIOUS
<1>1. TypeOK
  BY DEF Init, TypeOK
<1>2. \A p \in Procs : pc[p] = "idle"
  BY DEF Init
<1>3. NothingOverwritten
  BY DEF Init, NothingOverwritten
<1> QED
  BY <1>1, <1>2, <1>3 DEF IInv, MutualExclusion, Inside

\* Every step keeps the invariant.
LEMMA NextInv == IInv /\ [Next]_vars => IInv'
<1> SUFFICES ASSUME IInv, [Next]_vars PROVE IInv'
  OBVIOUS
<1> USE DEF IInv, TypeOK, MutualExclusion, NothingOverwritten, Inside, Goto
<1>1. ASSUME NEW p \in Procs, EnqueueLog(p) PROVE IInv'
  BY <1>1 DEF EnqueueLog
<1>2. ASSUME NEW p \in Procs, Lock(p) PROVE IInv'
  BY <1>2 DEF Lock
<1>3. ASSUME NEW p \in Procs, Push(p) PROVE IInv'
  BY <1>3 DEF Push
<1>4. ASSUME NEW p \in Procs, Store(p) PROVE IInv'
  BY <1>4 DEF Store
<1>5. ASSUME NEW p \in Procs, Unlock(p) PROVE IInv'
  BY <1>5 DEF Unlock
<1>6. CASE Interrupt
  BY <1>6 DEF Interrupt
<1>7. CASE UNCHANGED vars
  BY <1>7 DEF vars
<1> QED
  BY <1>1, <1>2, <1>3, <1>4, <1>5, <1>6, <1>7 DEF Next

(* The lock lets one process in at a time, however many there are and       *)
(* wherever they are pre-empted, and so no log entry is lost.               *)
THEOREM MutexCorrect == Spec => [](MutualExclusion /\ NothingOverwritten)
<1>1. IInv => MutualExclusion /\ NothingOverwritten
  BY DEF IInv
<1> QED
  BY <1>1, InitInv, NextInv, PTL DEF Spec
=============================================================================
