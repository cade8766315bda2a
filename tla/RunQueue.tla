------------------------------ MODULE RunQueue ------------------------------
(***************************************************************************)
(* What the process ring of process.cpp promises, without its pointers: a   *)
(* first-in first-out queue of pids that starts at the process holding the  *)
(* processor.  A newcomer enters at the tail, a turn sends the head to the  *)
(* tail, and a reaped process leaves from wherever it stands.  Pid 0, the   *)
(* idle process, never leaves.  Scheduler.tla is shown to implement this.   *)
(***************************************************************************)
EXTENDS Naturals, SequencesExt

CONSTANT MaxProc        \* bound: the pids are 0 .. MaxProc - 1

VARIABLE queue          \* head: the process the scheduler is looking at

Pids == 0 .. MaxProc - 1

Queued == {queue[k] : k \in 1 .. Len(queue)}

Rotated == Append(Tail(queue), Head(queue))

Init == queue = <<0>>

\* A newcomer joins at the tail, or takes the place of the idle process if that
\* is alone.  (The idle process admits nobody once there are others: a stream of
\* newcomers put before it would keep the others waiting.)
Admit(p) ==
  /\ p \in Pids \ Queued
  /\ Head(queue) = 0 => queue = <<0>>
  /\ queue' = IF Head(queue) = 0 THEN <<p>> \o queue ELSE Append(queue, p)

Turn == queue' = Rotated

\* The head reaps another process, which stands at place k.
Reap(k) ==
  /\ queue[k] # 0
  /\ queue' = RemoveAt(queue, k)

\* The next process takes its turn and reaps another one at once.
TurnAndReap(k) ==
  /\ Rotated[k] # 0
  /\ queue' = RemoveAt(Rotated, k)

AnyTurn == Turn \/ \E k \in 2 .. Len(queue) : TurnAndReap(k)

Next == AnyTurn \/ (\E p \in Pids : Admit(p)) \/ (\E k \in 2 .. Len(queue) : Reap(k))

Spec == Init /\ [][Next]_queue

Fairness == WF_queue(AnyTurn)
-----------------------------------------------------------------------------
(* No process is queued twice, and the idle process is always there. *)
WellFormed ==
  /\ queue \in Seq(Pids)
  /\ 0 \in Queued
  /\ \A j, k \in 1 .. Len(queue) : queue[j] = queue[k] => j = k

(* Round robin is fair: a queued process reaches the head or is reaped,      *)
(* however many newcomers are admitted meanwhile.                            *)
EveryoneGetsATurn ==
  \A p \in Pids : p \in Queued ~> (p \notin Queued \/ Head(queue) = p)
=============================================================================
