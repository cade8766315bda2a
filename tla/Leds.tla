--------------------------------- MODULE Leds ---------------------------------
(***************************************************************************)
(* The pins of the board: gpio.h and gpio.cpp set them up and show a byte  *)
(* on eight of them; the program led does so one system call at a time, a  *)
(* failed assertion shows its number and lights the crash pin, and the     *)
(* blinkers of kernel.cpp go on meanwhile.                                 *)
(***************************************************************************)
EXTENDS Integers, SequencesExt

CONSTANTS Bytes,       \* what led is asked to show
          Id,          \* the number of the assertion that fails
          Turns,       \* of the Christmas lights
          Firmware     \* the function every pin may have before the kernel starts
VARIABLES ways,        \* the function registers: three bits for each of ten pins
          boot,        \* how many pins gpio::init() has set up
          lit,         \* the pins that are on
          job,         \* what the program and the kernel show: [num, val, pin, rounds]
          clean,       \* the truth: nobody else wrote since this byte was begun
          crashed
vars == <<ways, boot, lit, job, clean, crashed>>

LED_PIN == 25
ACT_PIN == 16
CRASH_PIN == 7
BYTE_PINS == <<2, 3, 4, 9, 10, 11, 14, 15>>
Outputs == <<ACT_PIN, CRASH_PIN, LED_PIN>> \o BYTE_PINS
Writers == {"program", "kernel"}

Way(w, pin) == (w[pin \div 10] \div 8^(pin % 10)) % 8
Shift(pin) == pin % 10
SetWay(pin) ==
  ways' = [ways EXCEPT ![pin \div 10] = @ + ((1 - ((@ \div 8^Shift(pin)) % 8)) * 8^Shift(pin))]

Nothing == [num |-> 0, val |-> 0, pin |-> 8, rounds |-> 0]
Init ==
  /\ \E f \in Firmware : ways = [r \in 0..2 |-> FoldLeft(LAMBDA s, d : (8 * s) + f, 0, [d \in 1..10 |-> d])]
  /\ boot = 0 /\ lit = {} /\ job = [w \in Writers |-> Nothing]
  /\ clean = [w \in Writers |-> TRUE] /\ crashed = FALSE

GpioInit ==
  /\ boot < Len(Outputs) /\ boot' = boot + 1 /\ SetWay(Outputs[boot + 1])
  /\ lit' = IF boot + 1 = Len(Outputs) THEN {ACT_PIN} ELSE {}
  /\ UNCHANGED <<job, clean, crashed>>
Ready == boot = Len(Outputs)

Begin(w, n, rounds) ==
  /\ job' = [job EXCEPT ![w] = [num |-> n, val |-> n, pin |-> 0, rounds |-> rounds]]
  /\ clean' = [clean EXCEPT ![w] = TRUE]
\* `led int`, `led xmas`; a failed assertion.
LedInt(n) == Ready /\ job["program"].rounds = 0 /\ Begin("program", n, 1) /\ UNCHANGED <<ways, boot, lit, crashed>>
LedXMas == Ready /\ job["program"].rounds = 0 /\ Begin("program", 7, (8 * Turns) + 1) /\ UNCHANGED <<ways, boot, lit, crashed>>
AssertFail == Ready /\ job["kernel"] = Nothing /\ ~crashed /\ Begin("kernel", Id, 1) /\ UNCHANGED <<ways, boot, lit, crashed>>

\* One pin of dispByte(): set() and unset() write to two registers of their own,
\* so that nobody's pins are read and written back.
SetBit(w) ==
  LET j == job[w] IN
  /\ j.pin < 8
  /\ lit' = IF j.val % 2 = 1 THEN lit \cup {BYTE_PINS[j.pin + 1]} ELSE lit \ {BYTE_PINS[j.pin + 1]}
  /\ job' = [job EXCEPT ![w].pin = @ + 1, ![w].val = @ \div 2]
  /\ clean' = [v \in Writers |-> clean[v] /\ v = w]
  /\ UNCHANGED <<ways, boot, crashed>>

\* dispXMas() turns its three lights; the last byte is dark.
Turned(n) == IF 2 * n > 255 THEN ((2 * n) % 256) + 1 ELSE 2 * n
NextByte ==
  LET j == job["program"] IN
  /\ j.pin = 8 /\ j.rounds > 0
  /\ IF j.rounds = 1 THEN job' = [job EXCEPT !["program"] = Nothing] /\ UNCHANGED clean
     ELSE Begin("program", IF j.rounds = 2 THEN 0 ELSE Turned(j.num), j.rounds - 1)
  /\ UNCHANGED <<ways, boot, lit, crashed>>

\* The process that failed stays in crash(); the others go on.
Crash ==
  /\ job["kernel"].pin = 8 /\ job["kernel"].rounds > 0 /\ crashed' = TRUE
  /\ job' = [job EXCEPT !["kernel"] = Nothing] /\ lit' = (lit \cup {ACT_PIN, CRASH_PIN}) \ {LED_PIN}
  /\ UNCHANGED <<ways, boot, clean>>

\* led_blink() and act_blink().
Blink(pin) ==
  /\ Ready /\ lit' = IF pin \in lit THEN lit \ {pin} ELSE lit \cup {pin}
  /\ UNCHANGED <<ways, boot, job, clean, crashed>>

Next ==
  \/ GpioInit \/ LedXMas \/ AssertFail \/ NextByte \/ Crash
  \/ \E n \in Bytes : LedInt(n)
  \/ \E w \in Writers : SetBit(w)
  \/ \E pin \in {LED_PIN, ACT_PIN} : Blink(pin)

Spec == Init /\ [][Next]_vars
-----------------------------------------------------------------------------
Shown == FoldLeft(LAMBDA s, k : (2 * s) + (IF BYTE_PINS[9 - k] \in lit THEN 1 ELSE 0), 0, [k \in 1..8 |-> k])
Complete(w) == job[w].rounds > 0 /\ job[w].pin = 8 /\ clean[w]

(* Setting up a pin leaves the functions of all others alone, whatever the *)
(* firmware has left there (the serial line has pins between the lights).  *)
WaysApart ==
  LET done == {Outputs[k] : k \in 1..boot} IN
  \E f \in Firmware : \A pin \in 0..29 : Way(ways, pin) = IF pin \in done THEN 1 ELSE f

(* A byte that nobody wrote into is on the pins when the last is set, and  *)
(* the Christmas lights are always three neighbours, around the end too.   *)
ByteShown ==
  \A w \in Writers : Complete(w) =>
    /\ Shown = job[w].num
    /\ job[w].rounds > 1 => \E k \in 0..7 : Shown = (7 * 2^k) % 255

(* After a failed assertion the crash pin is lit for good, although the    *)
(* other processes keep running.                                           *)
CrashStaysLit == crashed => CRASH_PIN \in lit
=============================================================================
