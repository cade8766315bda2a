------------------------------ MODULE ZObjects ------------------------------
(***************************************************************************)
(* The object table of the Z-machine: the class Object and the             *)
(* instructions insert_obj, remove_obj, set_attr and clear_attr.  The tree *)
(* is three numbers in each entry, parent, next sibling and first child,   *)
(* with 0 for none; the attributes are the bits of six bytes.              *)
(* The story never moves an object into itself or one it contains, nor     *)
(* names an attribute beyond 47.                                           *)
(***************************************************************************)
EXTENDS Integers, Sequences

CONSTANTS N,           \* objects are numbered from 1 to N
          Attributes,  \* the attributes the story uses
          Adorned      \* the objects whose attributes it changes

VARIABLE table         \* the entries of the object table

Objects == 1..N

(* The objects from c on along the sibling numbers; a chain that does not   *)
(* end is cut after N + 1 of them.                                          *)
RECURSIVE Chain(_, _, _)
Chain(c, t, n) == IF c = 0 \/ n = 0 THEN <<>> ELSE <<c>> \o Chain(t[c].sibling, t, n - 1)
ChainFrom(c, t) == Chain(c, t, N + 1)
Children(o) == ChainFrom(table[o].child, table)
RangeOf(s) == {s[i] : i \in DOMAIN s}

(* detach(): unlinked from its parent or from the sibling before it.  It    *)
(* keeps its sibling number.                                                *)
Detached(t, o) ==
  LET p == t[o].parent
      before == CHOOSE c \in RangeOf(ChainFrom(t[p].child, t)) : t[c].sibling = o
  IN IF p = 0 THEN t
     ELSE IF t[p].child = o THEN [t EXCEPT ![p].child = t[o].sibling, ![o].parent = 0]
     ELSE [t EXCEPT ![before].sibling = t[o].sibling, ![o].parent = 0]

Moved_Attached(t, o, dest) ==                          \* mutant: no detach()
  IF dest = 0 THEN [t EXCEPT ![o].parent = 0]
  ELSE [t EXCEPT ![o].parent = dest, ![o].sibling = t[dest].child, ![dest].child = o]
Moved(t, o, dest) ==
  LET d == Detached(t, o) IN
  IF dest = 0 THEN d
  ELSE [d EXCEPT ![o].parent = dest, ![o].sibling = d[dest].child, ![dest].child = o]

(* set_attribute(): bit 7 - (a & 7) of byte a >> 3. *)
Bit(byte, k) == (byte \div 2^k) % 2
HasAttribute(o, a) == Bit(table[o].bytes[1 + (a \div 8)], 7 - (a % 8)) = 1
WithAttribute(o, a, value) ==
  [table EXCEPT ![o].bytes[1 + (a \div 8)] =
     @ + 2^(7 - (a % 8)) * ((IF value THEN 1 ELSE 0) - Bit(@, 7 - (a % 8)))]

RECURSIVE Inside(_, _)
Inside(o, p) == o = p \/ (p # 0 /\ table[p].parent # 0 /\ Inside(o, table[p].parent))

Init == table = [o \in Objects |-> [parent |-> 0, sibling |-> 0, child |-> 0,
                                    bytes |-> [i \in 1..6 |-> 0]]]
InsertObj(o, dest) == ~ Inside(o, dest) /\ table' = Moved(table, o, dest)
RemoveObj(o) == table' = Detached(table, o)
SetAttr(o, a) == table' = WithAttribute(o, a, TRUE)
ClearAttr(o, a) == table' = WithAttribute(o, a, FALSE)
Next == \E o \in Objects : \/ \E dest \in 0..N : InsertObj(o, dest)
                           \/ RemoveObj(o)
                           \/ \E a \in Attributes : o \in Adorned /\ (SetAttr(o, a) \/ ClearAttr(o, a))
Spec == Init /\ [][Next]_table

-----------------------------------------------------------------------------
TypeOK == \A o \in Objects : /\ {table[o].parent, table[o].sibling, table[o].child} \subseteq 0..N
                             /\ \A i \in 1..6 : table[o].bytes[i] \in 0..255

(* The two directions of the tree agree: an object is once among the        *)
(* children of its parent, and nowhere when it has none.  detach() relies   *)
(* on it: its loop over the siblings has no other end than finding the      *)
(* object.                                                                  *)
ParentsAgree ==
  \A o, p \in Objects :
    LET c == Children(p) IN
    /\ table[o].parent = p <=> o \in RangeOf(c)
    /\ \A i, j \in DOMAIN c : c[i] = c[j] => i = j

(* The linked entries behave as the forest with its ordered siblings, and   *)
(* the packed bits as a set of attributes for each object.                  *)
Tree == INSTANCE ObjectTree
  WITH children <- [o \in Objects |-> Children(o)],
       attrs <- [o \in Objects |-> {a \in Attributes : HasAttribute(o, a)}]

=============================================================================
