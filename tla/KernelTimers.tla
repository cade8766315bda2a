----------------------------- MODULE KernelTimers -----------------------------
(***************************************************************************)
(* The timers of process.cpp that the USB driver asks for.  A program sets  *)
(* one store by store; the tick, with interrupts masked, runs the handlers  *)
(* that are due.                                                            *)
(***************************************************************************)
EXTENDS Naturals

CONSTANTS MaxTimers,    \* 256 in the code
          Handlers, NULL,
          MaxClock,     \* bound: no time after this
          Delays

VARIABLES clock,
          timers,       \* per slot: [handler, trigger_time]
          first_trigger,
          starter,      \* the caller of StartKernelTimer()
          crashed,      \* get_timer_context() found no slot
          owned         \* history: per slot the timer its starter believes in

vars == <<clock, timers, first_trigger, starter, crashed, owned>>

Slots == 0 .. MaxTimers - 1
Never == MaxClock + 1   \* (u64)(-1)
Idle == [pc |-> "idle"]

Init ==
  /\ clock = 0
  /\ timers = [s \in Slots |-> [handler |-> NULL, trigger_time |-> 0]]
  /\ first_trigger = Never
  /\ starter = Idle
  /\ crashed = FALSE
  /\ owned = [s \in Slots |-> NULL]

Pass == clock < MaxClock /\ clock' = clock + 1
        /\ UNCHANGED <<timers, first_trigger, starter, crashed, owned>>

\* get_timer_context(): the first free slot.
FreeSlot == CHOOSE s \in Slots : timers[s].handler = NULL
                                 /\ \A r \in Slots : r < s => timers[r].handler # NULL

StartKernelTimer(h, delay) ==
  /\ starter = Idle /\ ~crashed
  /\ IF \A s \in Slots : timers[s].handler # NULL
       THEN crashed' = TRUE /\ UNCHANGED starter
       ELSE /\ starter' = [pc |-> "handler", slot |-> FreeSlot, handler |-> h, at |-> clock + delay]
            /\ UNCHANGED crashed
  /\ UNCHANGED <<clock, timers, first_trigger, owned>>

SetHandler ==
  /\ starter.pc = "handler"
  /\ timers' = [timers EXCEPT ![starter.slot].handler = starter.handler]
  /\ starter' = [starter EXCEPT !.pc = "time"]
  /\ UNCHANGED <<clock, first_trigger, crashed, owned>>

\* The last store; first_trigger is left as it is.
SetTime ==
  /\ starter.pc = "time"
  /\ timers' = [timers EXCEPT ![starter.slot].trigger_time = starter.at]
  /\ owned' = [owned EXCEPT ![starter.slot] = [handler |-> starter.handler, trigger_time |-> starter.at]]
  /\ starter' = Idle
  /\ UNCHANGED <<clock, first_trigger, crashed>>

\* A program cancels the timer it believes in.
CancelKernelTimer(s) ==
  /\ owned[s] # NULL
  /\ timers' = [timers EXCEPT ![s].handler = NULL]
  /\ owned' = [owned EXCEPT ![s] = NULL]
  /\ UNCHANGED <<clock, first_trigger, starter, crashed>>

Due == {s \in Slots : timers[s].handler # NULL /\ timers[s].trigger_time <= clock}

\* The earliest trigger among the timers left, or Never.
Earliest(slots) ==
  LET times == {timers[s].trigger_time : s \in slots} \cup {Never}
  IN CHOOSE t \in times : \A u \in times : t <= u

\* check_and_run_timers(), in the tick: it looks at the timers only from
\* first_trigger on; those that are due run and free their slots.
Tick ==
  IF clock < first_trigger THEN UNCHANGED vars ELSE
  /\ timers' = [s \in Slots |-> IF s \in Due THEN [timers[s] EXCEPT !.handler = NULL] ELSE timers[s]]
  /\ owned' = [s \in Slots |-> IF s \in Due THEN NULL ELSE owned[s]]
  /\ first_trigger' = Earliest({s \in Slots \ Due : timers[s].handler # NULL})
  /\ UNCHANGED <<clock, starter, crashed>>

Next ==
  \/ Pass \/ Tick \/ SetHandler \/ SetTime
  \/ \E h \in Handlers, d \in Delays : StartKernelTimer(h, d)
  \/ \E s \in Slots : CancelKernelTimer(s)

Spec == Init /\ [][Next]_vars
-----------------------------------------------------------------------------
(* Whoever has set a timer and not cancelled it still has his slot, with his *)
(* own handler and time, however timers come and go in the other slots.      *)
SlotsOwned == \A s \in Slots : owned[s] # NULL => timers[s] = owned[s]

(* A timer whose time has come is run, which is what the kernel's management *)
(* of time is there for (report.tex:122).                                    *)
DueTimersRun == \A s \in Slots :
  (owned[s] # NULL /\ timers[s].trigger_time <= clock) ~> (owned[s] = NULL \/ crashed)
-----------------------------------------------------------------------------
Timer == [handler : Handlers \cup {NULL}, trigger_time : Nat]
TypeOK ==
  /\ clock \in 0 .. MaxClock
  /\ timers \in [Slots -> Timer]
  /\ owned \in [Slots -> Timer \cup {NULL}]
  /\ starter.pc \in {"handler", "time"} =>
       starter.slot \in Slots /\ starter.handler \in Handlers /\ starter.at \in Nat

\* The inductive invariant: nobody owns the slot that is being set, and as
\* nothing ever sets first_trigger, no tick looks at the timers.
IInv ==
  /\ TypeOK
  /\ SlotsOwned
  /\ \A s \in Slots : owned[s] # NULL => owned[s].handler # NULL
  /\ starter.pc \in {"handler", "time"} => owned[starter.slot] = NULL
  /\ starter.pc = "time" => timers[starter.slot].handler = starter.handler
  /\ first_trigger = Never
=============================================================================
