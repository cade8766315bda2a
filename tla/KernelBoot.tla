----------------------------- MODULE KernelBoot ------------------------------
(***************************************************************************)
(* kernel_main() and kernel_run() (src/kernel/src/kernel.cpp) start the    *)
(* kernel's threads with async_start() (process.cpp) while the timer       *)
(* already interrupts them: every statement on the process table is a step *)
(* of its own here, and a tick may come before each.  The table is an      *)
(* ExpArray that grows when it is full.  kernel_main() is no process.      *)
(***************************************************************************)
EXTENDS Integers, Sequences

CONSTANTS Slots,       \* 0..n, the slots of the table the boot can fill
          Garbage      \* what uninitialised fields and contexts hold
VARIABLES next, prev, state, cont,  \* the fields of processes[]
          size, cap,   \* elements of the array and its capacity
          copy,        \* contexts as realloc() has copied them, <<>> outside it
          active,      \* active_process
          cpu,         \* the context that runs: [who, n, step]
          link,        \* each starter's i, u and v in create_process()
          at,          \* the truth: where each thread stopped last
          hits,        \* the places where a tick has come too early
          broken       \* a wrong context or a garbage link has been followed
vars == <<next, prev, state, cont, size, cap, copy, active, cpu, link, at, hits, broken>>

Threads == {"main", "run", "act_blink", "pck_handler", "syslogger", "led_blink", "idle"}
\* The threads that a thread starts, in order.
Starts(t) == CASE t = "main" -> <<"run", "act_blink">>
               [] t = "run" -> <<"pck_handler", "syslogger", "led_blink">>
               [] OTHER -> <<>>
At(t, n, step) == [who |-> t, n |-> n, step |-> step]
Entry(t) == At(t, 1, "create")

Init ==
  /\ next = [i \in Slots |-> IF i = 0 THEN 0 ELSE Garbage] /\ prev = next
  /\ state \in [Slots -> {"active", "none"}] /\ state[0] = "active"
  /\ cont = [i \in Slots |-> Garbage] /\ size = 1 /\ cap = 2 /\ copy = <<>> /\ active = 0
  /\ cpu = Entry("main") /\ link = [t \in {"main", "run"} |-> <<0, 0, 0>>]
  /\ at = [t \in Threads |-> Entry(t)] /\ hits = {} /\ broken = FALSE
-----------------------------------------------------------------------------
(* next_process(): the next ready process of the ring; the idle one only   *)
(* if a whole turn finds no other.                                         *)
NextProcess(st) ==
  LET found[i \in Slots \cup {Garbage}, passed \in BOOLEAN] ==
        IF i = Garbage THEN Garbage
        ELSE IF i = 0 THEN IF passed THEN 0 ELSE found[next[0], TRUE]
        ELSE IF st[i] = "active" THEN i ELSE found[next[i], passed]
  IN found[next[active], FALSE]

\* Load the context of process i from the contexts c.
Load(i, c) ==
  IF i = Garbage \/ c[i] = Garbage THEN broken' = TRUE /\ UNCHANGED <<active, cpu>>
  ELSE /\ active' = i /\ cpu' = c[i]
       /\ broken' = (c[i] # at'[c[i].who])

\* Where a tick can lose a context or follow garbage: in kernel_main() once
\* active_process is no longer 0; between the first link to a new process and
\* the end of its context; while the array is copied.
Place == IF cpu.who = "main" /\ active # 0 THEN "main"
         ELSE IF cpu.step \in {"link back", "link on", "publish", "context", "fill"} THEN "async_start"
         ELSE IF copy # <<>> THEN "realloc" ELSE "safe"

\* on_irq(): go_next_process() at any statement.
Tick_LoadsOld ==
  /\ ~broken
  /\ LET i == NextProcess(state) IN
     /\ at' = [at EXCEPT ![cpu.who] = cpu]
     /\ cont' = [cont EXCEPT ![active] = cpu]
     /\ Load(i, cont)
  /\ hits' = hits \cup ({Place} \ {"safe"})
  /\ UNCHANGED <<next, prev, state, size, cap, copy, link>>
Tick ==
  /\ ~broken
  /\ cont' = [cont EXCEPT ![active] = cpu]
  /\ at' = [at EXCEPT ![cpu.who] = cpu]
  /\ Load(NextProcess(state), cont')
  /\ hits' = hits \cup ({Place} \ {"safe"})
  /\ UNCHANGED <<next, prev, state, size, cap, copy, link>>
-----------------------------------------------------------------------------
(* The statements of async_start().                                        *)
Here(step) == ~broken /\ cpu.step = step /\ cpu.n <= Len(Starts(cpu.who))
Go(step) == cpu' = [cpu EXCEPT !.step = step] /\ at' = [at EXCEPT ![cpu.who] = cpu']
I == link[cpu.who][1]
U == link[cpu.who][2]
V == link[cpu.who][3]

\* create_process(): no slot is free yet, the array grows by one.
Create ==
  /\ Here("create")
  /\ IF size = cap THEN copy' = cont /\ Go("switch") /\ UNCHANGED size
     ELSE size' = size + 1 /\ Go("link") /\ UNCHANGED copy
  /\ UNCHANGED <<next, prev, state, cont, cap, active, link, hits, broken>>
\* realloc() returns: data is the copy, and push_back() appends.
Switch ==
  /\ Here("switch") /\ cont' = copy /\ copy' = <<>> /\ cap' = (2 * cap) + 1
  /\ size' = size + 1 /\ Go("link")
  /\ UNCHANGED <<next, prev, state, active, link, hits, broken>>
\* add_process(), between u and v.
Link ==
  /\ Here("link") /\ Go("link back")
  /\ link' = [link EXCEPT ![cpu.who] = <<size - 1, active, prev[active]>>]
  /\ prev' = [prev EXCEPT ![active] = size - 1]
  /\ next' = [next EXCEPT ![prev[active]] = size - 1]
  /\ UNCHANGED <<state, cont, size, cap, copy, active, hits, broken>>
LinkBack ==
  /\ Here("link back") /\ Go("link on") /\ prev' = [prev EXCEPT ![I] = V]
  /\ UNCHANGED <<next, state, cont, size, cap, copy, active, link, hits, broken>>
LinkOn ==
  /\ Here("link on") /\ Go("publish") /\ next' = [next EXCEPT ![I] = U]
  /\ UNCHANGED <<prev, state, cont, size, cap, copy, active, link, hits, broken>>
Publish ==
  /\ Here("publish") /\ Go("context") /\ state' = [state EXCEPT ![I] = "active"]
  /\ active' = IF active = 0 THEN I ELSE active
  /\ UNCHANGED <<next, prev, cont, size, cap, copy, link, hits, broken>>
\* The context is empty, then filled field by field.
Context ==
  /\ Here("context") /\ Go("fill") /\ cont' = [cont EXCEPT ![I] = Garbage]
  /\ UNCHANGED <<next, prev, state, size, cap, copy, active, link, hits, broken>>
Fill ==
  /\ Here("fill") /\ cont' = [cont EXCEPT ![I] = Entry(Starts(cpu.who)[cpu.n])]
  /\ cpu' = At(cpu.who, cpu.n + 1, "create") /\ at' = [at EXCEPT ![cpu.who] = cpu']
  /\ UNCHANGED <<next, prev, state, size, cap, copy, active, link, hits, broken>>

\* async_go() makes slot 0 the idle process and loads the active one.
AsyncGo ==
  /\ ~broken /\ cpu = At("main", 3, "create")
  /\ cont' = [cont EXCEPT ![0] = Entry("idle")]
  /\ IF cont'[active] = Garbage THEN broken' = TRUE /\ UNCHANGED cpu
     ELSE cpu' = cont'[active] /\ broken' = (cpu'.who = "main" \/ cpu' # at[cpu'.who])
  /\ UNCHANGED <<next, prev, state, size, cap, copy, active, link, at, hits>>
\* kernel_run() ends with exit(), a zombie for ever.
Exit ==
  /\ ~broken /\ cpu = At("run", 4, "create")
  /\ state' = [state EXCEPT ![active] = "zombie"] /\ UNCHANGED at
  /\ Load(NextProcess(state'), cont)
  /\ UNCHANGED <<next, prev, cont, size, cap, copy, link, hits>>
\* The other threads have loops of their own.
Loop ==
  /\ ~broken /\ Starts(cpu.who) = <<>>
  /\ cpu' = At(cpu.who, 1, "loop") /\ at' = [at EXCEPT ![cpu.who] = cpu']
  /\ UNCHANGED <<next, prev, state, cont, size, cap, copy, active, link, hits, broken>>

Next == \/ Tick \/ Create \/ Switch \/ Link \/ LinkBack \/ LinkOn \/ Publish \/ Context \/ Fill
        \/ AsyncGo \/ Exit \/ Loop

Spec == Init /\ [][Next]_vars
-----------------------------------------------------------------------------
(* Only a tick at one of the three places makes the kernel run a thread    *)
(* from a wrong context or follow a garbage link; elsewhere the boot may   *)
(* be interrupted.                                                         *)
BootSurvivesTicks == hits = {} => ~broken

(* Without such a tick no thread is lost: each one that has been started   *)
(* has a process on the ring, whose context, or the processor's, is where  *)
(* it is.                                                                  *)
Began(t) == \E s \in {"main", "run"} : \E k \in 1..(at[s].n - 1) : Starts(s)[k] = t
Ring == LET f[i \in Slots, k \in Slots] == IF k = 0 THEN {i} ELSE {i} \cup f[next[i], k - 1]
        IN f[active, size]
NobodyLost ==
  hits = {} /\ cpu.who # "main" /\ Place = "safe" =>
    \A t \in Threads : Began(t) =>
      \E i \in Ring \ {0} : IF i = active THEN cpu.who = t
                            ELSE cont[i] = at[t] \/ (t = "run" /\ state[i] = "zombie")
=============================================================================
