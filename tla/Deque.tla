-------------------------------- MODULE Deque --------------------------------
(***************************************************************************)
(* What the kernel expects of a Queue<T> (queue.h): a sequence that grows   *)
(* at both ends and loses its front, however its memory is laid out.        *)
(***************************************************************************)
EXTENDS Naturals, Sequences

CONSTANTS Value,        \* what is queued
          Empty         \* the exception raised by pop() and front()

VARIABLES items, out    \* out: what the last call returned or raised

vars == <<items, out>>

Init == items = <<>> /\ out = Empty

Push(v) == items' = Append(items, v) /\ UNCHANGED out

PushFront(v) == items' = <<v>> \o items /\ UNCHANGED out

Pop == /\ out' = IF items = <<>> THEN Empty ELSE Head(items)
       /\ items' = IF items = <<>> THEN items ELSE Tail(items)

Next == Pop \/ \E v \in Value : Push(v) \/ PushFront(v)

Spec == Init /\ [][Next]_vars
=============================================================================
