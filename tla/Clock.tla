-------------------------------- MODULE Clock --------------------------------
(***************************************************************************)
(* sleep.cpp: the free-running counter of microseconds, read in two halves  *)
(* by elapsed_us() and polled by sleep_us(), while it goes on counting.     *)
(***************************************************************************)
EXTENDS Naturals

CONSTANTS Word,         \* 2^32 in the hardware: what one half can hold
          MaxClock,     \* bound: the counter stops here
          Delays        \* what sleep_us() is asked for

VARIABLES counter,      \* CHI * Word + CLO
          reader,       \* elapsed_us(): where it is and the time it was called
          sleeper       \* sleep_us(): where it is and the time it was called

vars == <<counter, reader, sleeper>>

Idle == [pc |-> "idle"]

Init == counter = 0 /\ reader = Idle /\ sleeper = Idle

Low == counter % Word
High == counter \div Word

Tick == counter < MaxClock /\ counter' = counter + 1 /\ UNCHANGED <<reader, sleeper>>

ReadHigh ==
  /\ reader.pc \in {"idle", "done"}
  /\ reader' = [pc |-> "low", called |-> counter, hi |-> High]
  /\ UNCHANGED <<counter, sleeper>>

ReadLow ==
  /\ reader.pc = "low"
  /\ reader' = [pc |-> "done", called |-> reader.called, val |-> reader.hi * Word + Low,
                carry |-> High # reader.hi, now |-> counter]
  /\ UNCHANGED <<counter, sleeper>>

StartSleep(us) ==
  /\ sleeper.pc \in {"idle", "woken"}
  /\ sleeper' = [pc |-> "polling", us |-> us, init |-> Low, called |-> counter]
  /\ UNCHANGED <<counter, reader>>

\* Mutant: the sleeper compares times instead of their distance.
Wake_Compares ==
  /\ sleeper.pc = "polling"
  /\ Low >= (sleeper.init + sleeper.us) % Word
  /\ sleeper' = [sleeper EXCEPT !.pc = "woken"]
  /\ UNCHANGED <<counter, reader>>

\* The poll that ends the loop.
Wake ==
  /\ sleeper.pc = "polling"
  /\ (Low + Word - sleeper.init) % Word >= sleeper.us
  /\ sleeper' = [sleeper EXCEPT !.pc = "woken"]
  /\ UNCHANGED <<counter, reader>>

Next == Tick \/ ReadHigh \/ ReadLow \/ Wake \/ \E us \in Delays : StartSleep(us)

Spec == Init /\ [][Next]_vars
-----------------------------------------------------------------------------
(* elapsed_us() gives a time between its call and its return, as its comment *)
(* promises (sleep.h:10).                                                    *)
ReadingIsRight ==
  reader.pc = "done" => reader.val \in reader.called .. reader.now

(* Only a carry from the lower to the upper half between the two reads can   *)
(* make it wrong, however many ticks lie between them.                       *)
WrongOnlyAtCarry ==
  reader.pc = "done" /\ ~reader.carry => reader.val \in reader.called .. reader.now

(* sleep_us() never returns early, although its counter wraps around.        *)
SleepsLongEnough ==
  sleeper'.pc = "woken" /\ sleeper.pc = "polling" => counter - sleeper.called >= sleeper.us
-----------------------------------------------------------------------------
\* The inductive invariant: both callers have started before now, and the
\* sleeper's mark is the lower half of that time.
IInv ==
  /\ counter \in Nat
  /\ reader.pc = "low" => reader.called \in 0 .. counter
  /\ sleeper.pc = "polling" =>
       sleeper.called \in 0 .. counter /\ sleeper.init = sleeper.called % Word /\ sleeper.us \in Nat
  /\ WrongOnlyAtCarry
=============================================================================
