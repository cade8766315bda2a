--------------------------------- MODULE Irq ---------------------------------
(***************************************************************************)
(* The interrupt lines of src/kernel/src/process.cpp: ConnectInterrupt()   *)
(* binds a handler while interrupts may come, on_irq() calls the handlers  *)
(* of the lines that are up. A line stays up until its device is served.   *)
(***************************************************************************)
EXTENDS Naturals

CONSTANTS Lines, Width,
          Drivers,     \* [the lines that get a handler -> its parameter]
          Firmware,    \* the lines that are enabled before the kernel starts
          NULL
VARIABLES handler, param,      \* bound_interrupts
          enabled, raised,     \* the interrupt controller, and the devices
          step,                \* of ConnectInterrupt(), line by line
          i,                   \* of the loop of on_irq(); the number of lines: outside
          called,              \* the truth: what the last handler was called with
          vain                 \* ... and how often a line came without a handler
vars == <<handler, param, enabled, raised, step, i, called, vain>>

\* The lines are served in the order of their numbers, from 0.
Outside == 1 + (CHOOSE n \in Lines : \A m \in Lines : m <= n)
Init ==
  /\ handler = [n \in Lines |-> NULL] /\ param = [n \in Lines |-> NULL]
  /\ enabled = Firmware /\ raised = {} /\ step = [n \in DOMAIN Drivers |-> "handler"]
  /\ i = Outside /\ called = <<>> /\ vain = [n \in Lines |-> 0]

Raise(n) == n \notin raised /\ raised' = raised \cup {n} /\ UNCHANGED <<handler, param, enabled, step, i, called, vain>>

\* Three stores, with interrupts on: the line is enabled by the last.
SetHandler_Enables(n) ==
  /\ i = Outside /\ step[n] = "handler" /\ step' = [step EXCEPT ![n] = "param"]
  /\ handler' = [handler EXCEPT ![n] = n] /\ enabled' = enabled \cup {n}
  /\ UNCHANGED <<param, raised, i, called, vain>>
SetHandler(n) ==
  /\ i = Outside /\ step[n] = "handler" /\ step' = [step EXCEPT ![n] = "param"]
  /\ handler' = [handler EXCEPT ![n] = n] /\ UNCHANGED <<param, enabled, raised, i, called, vain>>
SetParam(n) ==
  /\ i = Outside /\ step[n] = "param" /\ step' = [step EXCEPT ![n] = "enable"]
  /\ param' = [param EXCEPT ![n] = Drivers[n]]
  /\ UNCHANGED <<handler, enabled, raised, i, called, vain>>
Enable(n) ==
  /\ i = Outside /\ step[n] = "enable" /\ step' = [step EXCEPT ![n] = "done"]
  /\ enabled' = enabled \cup {n} /\ UNCHANGED <<handler, param, raised, i, called, vain>>

\* A register has a bit for each of Width lines.
Bit(n) == <<n \div Width, n % Width>>

\* on_irq(), with interrupts off.
OnIrq == i = Outside /\ raised \cap enabled # {} /\ i' = 0
         /\ UNCHANGED <<handler, param, enabled, raised, step, called, vain>>
Call ==
  /\ called' = <<i, param[i]>> /\ raised' = raised \ {i} /\ UNCHANGED <<enabled, vain>>
Disable ==
  /\ enabled' = {n \in enabled : Bit(n) # Bit(i)} /\ vain' = [vain EXCEPT ![i] = @ + 1] /\ UNCHANGED <<called, raised>>
Serve ==
  /\ i < Outside /\ i' = i + 1 /\ UNCHANGED <<handler, param, step>>
  /\ IF i \in raised \cap enabled THEN IF handler[i] # NULL THEN Call ELSE Disable
     ELSE UNCHANGED <<called, raised, enabled, vain>>

Next ==
  \/ \E n \in Lines : Raise(n)
  \/ \E n \in DOMAIN Drivers : SetHandler(n) \/ SetParam(n) \/ Enable(n)
  \/ OnIrq \/ Serve

Spec == Init /\ [][Next]_vars
-----------------------------------------------------------------------------
(* A handler is never called before its parameter is in place, wherever in *)
(* ConnectInterrupt() the interrupts come.                                 *)
OwnParameter == called # <<>> => called[2] = Drivers[called[1]]

(* A device that has been connected is never cut off: whenever its line is *)
(* up, on_irq() runs or is about to.                                       *)
ConnectedStaysOn == \A n \in DOMAIN Drivers : step[n] = "done" => n \in enabled

(* A line that nobody serves interrupts the machine once.                  *)
NoStorm == \A n \in Lines : vain[n] <= 1
-----------------------------------------------------------------------------
TypeOK ==
  /\ handler \in [Lines -> Lines \cup {NULL}]
  /\ param \in [Lines -> {Drivers[n] : n \in DOMAIN Drivers} \cup {NULL}]
  /\ enabled \subseteq Lines /\ raised \subseteq Lines
  /\ step \in [DOMAIN Drivers -> {"handler", "param", "enable", "done"}]
  /\ vain \in [Lines -> Nat]

\* The inductive invariant: a line that is enabled is one whose driver is
\* connected, or one that the firmware has left and nobody will ever serve.
IInv ==
  /\ TypeOK
  /\ \A n \in Lines : handler[n] # NULL => n \in DOMAIN Drivers
  /\ \A n \in DOMAIN Drivers :
       /\ step[n] # "handler" => handler[n] = n
       /\ step[n] \in {"enable", "done"} => param[n] = Drivers[n]
       /\ step[n] = "done" <=> n \in enabled
  /\ \A n \in Lines : vain[n] > 0 => n \notin enabled /\ n \notin DOMAIN Drivers
  /\ OwnParameter /\ NoStorm
=============================================================================
