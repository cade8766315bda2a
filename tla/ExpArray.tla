------------------------------ MODULE ExpArray ------------------------------
(***************************************************************************)
(* ExpArray<T> of expArray.h: a growing array.  Two of them, so that one    *)
(* can be assigned to the other.                                            *)
(***************************************************************************)
EXTENDS Naturals, Sequences

CONSTANTS Value,
          Fresh,        \* what malloc() leaves in memory
          MaxElems      \* bound: no push beyond this many elements

VARIABLES arrays,       \* [cells: the memory; nPos: how many cells are in use]
          asserted,     \* realloc() was asked for less memory than is in use
          lists         \* history: the sequences the callers believe in

vars == <<arrays, asserted, lists>>

Names == {"a", "b"}

Init ==
  /\ arrays = [n \in Names |-> [cells |-> <<Fresh, Fresh>>, nPos |-> 0]]
  /\ asserted = FALSE
  /\ lists = [n \in Names |-> <<>>]

Size(size) == IF size = 0 THEN 1 ELSE size

\* realloc(): at least one cell.
Realloc(array, size) ==
  [array EXCEPT !.cells = [c \in 1 .. Size(size) |->
                             IF c <= array.nPos THEN array.cells[c] ELSE Fresh]]

PushBack(n, v) ==
  LET array == arrays[n]
      grows == array.nPos >= Len(array.cells)
      w == IF grows THEN Realloc(array, 2 * Len(array.cells) + 1) ELSE array
  IN /\ Len(lists[n]) < MaxElems
     /\ arrays' = [arrays EXCEPT ![n] = [cells |-> [w.cells EXCEPT ![w.nPos + 1] = v],
                                         nPos |-> w.nPos + 1]]
     /\ lists' = [lists EXCEPT ![n] = Append(@, v)]
     /\ UNCHANGED asserted

PopBack(n) ==
  LET s == [arrays[n] EXCEPT !.nPos = @ - 1]
  IN /\ arrays[n].nPos > 0        \* throws OutOfBounds otherwise
     /\ IF s.nPos < Len(s.cells) \div 3
          THEN /\ arrays' = [arrays EXCEPT ![n] = Realloc(s, Len(s.cells) \div 2)]
               /\ asserted' = (asserted \/ Size(Len(s.cells) \div 2) < s.nPos)
          ELSE arrays' = [arrays EXCEPT ![n] = s] /\ UNCHANGED asserted
     /\ lists' = [lists EXCEPT ![n] = SubSeq(@, 1, Len(@) - 1)]

Clear(n) ==
  /\ arrays' = [arrays EXCEPT ![n] = Realloc([@ EXCEPT !.nPos = 0], 2)]
  /\ lists' = [lists EXCEPT ![n] = <<>>]
  /\ UNCHANGED asserted

PowerOfTwo(n) == \A d \in 1 .. n : n % d = 0 => d = 1 \/ d % 2 = 0

\* reserve(): the next power of two.
Reserve(n, size) ==
  LET nSize == CHOOSE s \in 1 .. 2 * size : s >= size /\ s < 2 * size /\ PowerOfTwo(s)
  IN /\ size \in 1 .. MaxElems /\ Len(arrays[n].cells) < size
     /\ arrays' = [arrays EXCEPT ![n] = Realloc(@, nSize)]
     /\ UNCHANGED <<asserted, lists>>

\* Mutant: the old length is in use while the memory is replaced.
Assign_LateReset(n, m) ==
  LET target == Realloc(arrays[n], arrays[m].nPos)
  IN /\ n # m
     /\ asserted' = (asserted \/ Size(arrays[m].nPos) < arrays[n].nPos)
     /\ arrays' = [arrays EXCEPT ![n] = [target EXCEPT !.nPos = arrays[m].nPos]]
     /\ lists' = [lists EXCEPT ![n] = lists[m]]

\* operator=: nPos is zeroed while the memory is replaced.
Assign(n, m) ==
  LET target == Realloc([arrays[n] EXCEPT !.nPos = 0], arrays[m].nPos)
  IN /\ n # m
     /\ arrays' = [arrays EXCEPT ![n] =
                     [cells |-> SubSeq(arrays[m].cells, 1, arrays[m].nPos)
                                  \o SubSeq(target.cells, arrays[m].nPos + 1, Len(target.cells)),
                      nPos |-> arrays[m].nPos]]
     /\ lists' = [lists EXCEPT ![n] = lists[m]]
     /\ UNCHANGED asserted

Next == \E n \in Names :
  \/ \E v \in Value : PushBack(n, v)
  \/ PopBack(n) \/ Clear(n)
  \/ \E size \in 1 .. MaxElems : Reserve(n, size)
  \/ \E m \in Names : Assign(n, m)

Spec == Init /\ [][Next]_vars
-----------------------------------------------------------------------------
(* There is always memory, and the elements lie within it.                   *)
TypeOK == \A n \in Names :
  /\ arrays[n].cells \in Seq(Value \cup {Fresh}) /\ arrays[n].cells # <<>>
  /\ arrays[n].nPos \in 0 .. Len(arrays[n].cells)

(* After any sequence of calls each array holds the list its callers expect: *)
(* no element is lost when the memory moves.                                 *)
HoldsTheList == \A n \in Names : SubSeq(arrays[n].cells, 1, arrays[n].nPos) = lists[n]

(* The assertion of realloc() (expArray.h:84) never fires, whatever grew,    *)
(* shrank or reserved the memory before.                                     *)
NeverTooSmall == ~asserted
-----------------------------------------------------------------------------
\* The inductive invariant: the cells in use are the list, one by one.
Array == [cells : Seq(Value \cup {Fresh}), nPos : Nat]
Holds(array, list) ==
  /\ array.nPos = Len(list) /\ array.nPos <= Len(array.cells) /\ Len(array.cells) > 0
  /\ \A k \in 1 .. Len(list) : array.cells[k] = list[k]
IInv ==
  /\ arrays \in [Names -> Array] /\ lists \in [Names -> Seq(Value)]
  /\ \A n \in Names : Holds(arrays[n], lists[n])
  /\ NeverTooSmall
=============================================================================
