----------------------------- MODULE ProcessList -----------------------------
(***************************************************************************)
(* programs/ps/ps.cpp and the system calls it makes one after the other:   *)
(* it counts the processes, asks for as many pids, then for the name and   *)
(* the state of each, while processes start and end.                       *)
(***************************************************************************)
EXTENDS Integers, Sequences, FiniteSets

CONSTANTS MaxPid,      \* pids 1 to MaxPid; 1 is ps, 0 is idle and never listed
          Garbage,     \* a word of the heap that nobody has written
          MaxChanges   \* bound on the processes that start or end meanwhile
VARIABLES state,       \* of each process
          changes,     \* the truth: how many started or ended since the count
          ended,       \* ... and how many ended between the count and the list
          at,          \* where ps is
          pids,        \* its table
          room,        \* the truth: how many the table was allocated for
          shown        \* what it has printed: [pid, state]
vars == <<state, changes, ended, at, pids, room, shown>>

Pids == 1..MaxPid
Listed == {p \in Pids : state[p] \notin {"none", "zombie"}}
Init ==
  /\ state \in [Pids -> {"none", "alive", "zombie"}] /\ state[1] = "alive"
  /\ changes = 0 /\ ended = 0 /\ at = "count" /\ pids = <<>> /\ room = 0 /\ shown = <<>>

NbProcesses_Zombies ==
  /\ at = "count" /\ at' = "list"
  /\ pids' = [i \in 1..Cardinality({p \in Pids : state[p] # "none"}) |-> Garbage]
  /\ room' = Len(pids') /\ UNCHANGED <<state, changes, ended, shown>>
NbProcesses ==
  /\ at = "count" /\ at' = "list"
  /\ pids' = [i \in 1..Cardinality(Listed) |-> Garbage]
  /\ room' = Len(pids') /\ UNCHANGED <<state, changes, ended, shown>>

\* The loop over all pids.
InOrder(set) ==
  LET upTo[p \in 0..MaxPid] ==
        IF p = 0 THEN <<>> ELSE IF p \in set THEN Append(upTo[p - 1], p) ELSE upTo[p - 1]
  IN  upTo[MaxPid]
Found == InOrder(Listed)
\* It stops when the table is full: the processes behind are not listed.
GetProcesses ==
  /\ at = "list" /\ at' = "show"
  /\ pids' = [i \in DOMAIN pids |-> IF i <= Len(Found) THEN Found[i] ELSE pids[i]]
  /\ UNCHANGED <<state, changes, ended, room, shown>>

\* A name and a state are asked for without a look at whether the process is
\* still there. A word that is no pid is out of the table, or is by chance in it.
Show ==
  /\ at = "show" /\ Len(shown) < Len(pids)
  /\ LET p == pids[Len(shown) + 1] IN
     IF p = Garbage
     THEN \/ at' = "crashed" /\ UNCHANGED shown
          \/ \E q \in 0..MaxPid :
               shown' = Append(shown, [pid |-> q, state |-> "any"]) /\ UNCHANGED at
     ELSE shown' = Append(shown, [pid |-> p, state |-> state[p]]) /\ UNCHANGED at
  /\ UNCHANGED <<state, changes, ended, pids, room>>
Done ==
  /\ at = "show" /\ Len(shown) = Len(pids) /\ at' = "count" /\ pids' = <<>> /\ shown' = <<>>
  /\ changes' = 0 /\ ended' = 0 /\ room' = 0 /\ UNCHANGED state

\* The others; ps itself goes on.
Change(p, s) ==
  /\ p # 1 /\ changes < MaxChanges /\ state' = [state EXCEPT ![p] = s]
  /\ changes' = IF at = "count" THEN 0 ELSE changes + 1
  /\ ended' = IF at = "list" /\ s = "zombie" THEN ended + 1 ELSE ended
  /\ UNCHANGED <<at, pids, room, shown>>
Start(p) == state[p] = "none" /\ Change(p, "alive")
End(p) == state[p] = "alive" /\ Change(p, "zombie")
Reap(p) == state[p] = "zombie" /\ Change(p, "none")

Next ==
  \/ NbProcesses \/ GetProcesses \/ Show \/ Done
  \/ \E p \in Pids : Start(p) \/ End(p) \/ Reap(p)

Spec == Init /\ [][Next]_vars
-----------------------------------------------------------------------------
(* ps asks for the name of a word nobody has written, which stops the      *)
(* kernel, only if a process ended between its two calls.                  *)
CrashNeedsAnEnd == at = "crashed" => ended > 0

(* The kernel never writes more pids than ps has room for, however many    *)
(* processes start between the calls.                                      *)
ListFits == at \in {"list", "show"} => Len(pids) = room

(* When nothing happens meanwhile, ps prints every process once, in the    *)
(* order of the pids, and no zombie.                                       *)
QuietListRight ==
  at = "show" /\ changes = 0 /\ Len(shown) = Len(pids) =>
    /\ [i \in DOMAIN shown |-> shown[i].pid] = Found
    /\ \A i \in DOMAIN shown : shown[i].state = "alive"
-----------------------------------------------------------------------------
TypeOK ==
  /\ state \in [Pids -> {"none", "alive", "zombie"}]
  /\ changes \in Nat /\ ended \in Nat /\ room \in Nat
  /\ at \in {"count", "list", "show", "crashed"}
  /\ pids \in Seq(Pids \cup {Garbage})
  /\ shown \in Seq([pid : 0..MaxPid, state : {"none", "alive", "zombie", "any"}])

\* Each process that ended since the count leaves one word of the table unwritten.
TableFilled ==
  /\ at = "list" => room <= Cardinality(Listed) + ended
  /\ at = "show" /\ ended = 0 => \A k \in 1..Len(pids) : pids[k] # Garbage

\* As long as nothing happens, the table is the list and ps shows what is there.
Quiet ==
  /\ ended > 0 => changes > 0
  /\ at = "count" => changes = 0
  /\ at \in {"count", "list"} => shown = <<>>
  /\ at = "show" => Len(shown) <= Len(pids)
  /\ changes = 0 =>
       /\ at = "list" => room = Cardinality(Listed)
       /\ at = "show" =>
            /\ pids = Found
            /\ \A k \in 1..Len(shown) : shown[k] = [pid |-> pids[k], state |-> state[pids[k]]]

\* The inductive invariant.
IInv == TypeOK /\ TableFilled /\ Quiet /\ CrashNeedsAnEnd /\ ListFits
=============================================================================
