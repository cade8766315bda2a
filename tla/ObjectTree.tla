----------------------------- MODULE ObjectTree -----------------------------
(***************************************************************************)
(* What the object instructions of the Z-machine do to the world of a      *)
(* story: its objects form a forest whose siblings are ordered, the last   *)
(* one moved in first, and each has a set of attributes.                   *)
(***************************************************************************)
EXTENDS Sequences

CONSTANTS Objects, Attributes

VARIABLES children,   \* the objects in each object, in order
          attrs       \* the attributes of each object

vars == <<children, attrs>>

Without(o) == [p \in Objects |-> SelectSeq(children[p], LAMBDA q : q # o)]

Remove(o) == children' = Without(o) /\ UNCHANGED attrs
Insert(o, p) == /\ children' = [Without(o) EXCEPT ![p] = <<o>> \o @]
                /\ UNCHANGED attrs
SetAttr(o, a) == attrs' = [attrs EXCEPT ![o] = @ \cup {a}] /\ UNCHANGED children
ClearAttr(o, a) == attrs' = [attrs EXCEPT ![o] = @ \ {a}] /\ UNCHANGED children

Init == /\ children = [o \in Objects |-> <<>>]
        /\ attrs = [o \in Objects |-> {}]
Next == \E o \in Objects : \/ Remove(o)
                           \/ \E p \in Objects : Insert(o, p)
                           \/ \E a \in Attributes : SetAttr(o, a) \/ ClearAttr(o, a)
Spec == Init /\ [][Next]_vars
=============================================================================
