----------------------------- MODULE Dictionary -----------------------------
(***************************************************************************)
(* The promise of a hash table: a map in which a process asks for a binding *)
(* and gets exactly that one, at once or when its call returns.             *)
(***************************************************************************)
CONSTANTS Key, Value, NotFound, Procs

VARIABLES dict,
          asked         \* per process: the binding its call is to make

vars == <<dict, asked>>

Init ==
  /\ dict = [k \in Key |-> NotFound]
  /\ asked = [p \in Procs |-> NotFound]

Ask(p, k, v) ==
  /\ asked[p] = NotFound
  /\ asked' = [asked EXCEPT ![p] = <<k, v>>]
  /\ UNCHANGED dict

Bind(p) ==
  /\ asked[p] # NotFound
  /\ dict' = [dict EXCEPT ![asked[p][1]] = asked[p][2]]
  /\ asked' = [asked EXCEPT ![p] = NotFound]

Rebind(p, k, v) ==
  /\ asked[p] = NotFound
  /\ dict' = [dict EXCEPT ![k] = v]
  /\ UNCHANGED asked

Next == \E p \in Procs :
  Bind(p) \/ \E k \in Key, v \in Value : Ask(p, k, v) \/ Rebind(p, k, v)

Spec == Init /\ [][Next]_vars
=============================================================================
