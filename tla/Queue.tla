-------------------------------- MODULE Queue --------------------------------
(***************************************************************************)
(* Queue<T> of queue.h: a ring buffer whose memory is doubled when it is    *)
(* full and halved when it is nearly empty.  It is shown to implement Deque.*)
(***************************************************************************)
EXTENDS Integers, Sequences

CONSTANTS Value, Empty,
          Fresh,        \* what malloc() leaves in memory
          MaxElems      \* bound: no push beyond this many elements

VARIABLES ring,         \* [data: the cells, from 0; phySize; beg; end; nbElem]
          out           \* what the last pop() returned or raised

vars == <<ring, out>>

Init ==
  /\ ring = [data |-> [c \in {0} |-> Fresh], phySize |-> 1, beg |-> 0, end |-> 0, nbElem |-> 0]
  /\ out = Empty

\* The elements, front first.
Elements(r) == [k \in 1 .. r.nbElem |-> r.data[(r.beg + k - 1) % r.phySize]]

\* Mutant: the cells are copied as they lie.
Realloc_Unrotated(r, size) ==
  [r EXCEPT !.data = [c \in 0 .. size - 1 |-> IF c < r.nbElem THEN r.data[c] ELSE Fresh],
            !.phySize = size, !.beg = 0, !.end = r.nbElem]

\* realloc(): new memory, the elements moved to its start.
Realloc(r, size) ==
  [r EXCEPT !.data = [c \in 0 .. size - 1 |-> IF c < r.nbElem THEN Elements(r)[c + 1] ELSE Fresh],
            !.phySize = size, !.beg = 0, !.end = r.nbElem]

WithRoom(r) == IF r.nbElem >= r.phySize THEN Realloc(r, 2 * r.phySize) ELSE r

Pushed(r, v) ==
  LET w == WithRoom(r)
  IN [w EXCEPT !.data[w.end] = v, !.nbElem = @ + 1, !.end = (@ + 1) % w.phySize]

PushedFront(r, v) ==
  LET w == WithRoom(r)
      b == (w.beg - 1 + w.phySize) % w.phySize
  IN [w EXCEPT !.data[b] = v, !.nbElem = @ + 1, !.beg = b]

Popped(r) ==
  LET s == [r EXCEPT !.beg = (@ + 1) % r.phySize, !.nbElem = @ - 1]
  IN IF r.phySize \div 3 > s.nbElem THEN Realloc(s, r.phySize \div 2) ELSE s

Push(v) == ring.nbElem < MaxElems /\ ring' = Pushed(ring, v) /\ UNCHANGED out

PushFront(v) == ring.nbElem < MaxElems /\ ring' = PushedFront(ring, v) /\ UNCHANGED out

Pop ==
  IF ring.nbElem = 0
    THEN out' = Empty /\ UNCHANGED ring
    ELSE out' = ring.data[ring.beg] /\ ring' = Popped(ring)

Next == Pop \/ \E v \in Value : Push(v) \/ PushFront(v)

Spec == Init /\ [][Next]_vars
-----------------------------------------------------------------------------
\* No odd number but 1 divides n.
PowerOfTwo(n) == \A d \in 1 .. n : n % d = 0 => d = 1 \/ d % 2 = 0

(* The ring lies within its memory, whose size is a power of two, and its    *)
(* two ends are as far apart as it has elements.                             *)
TypeOK ==
  /\ ring.data \in [0 .. ring.phySize - 1 -> Value \cup {Fresh}]
  /\ ring.phySize \in Nat \ {0} /\ PowerOfTwo(ring.phySize)
  /\ ring.nbElem \in 0 .. ring.phySize
  /\ {ring.beg, ring.end} \subseteq 0 .. ring.phySize - 1
  /\ ring.end = (ring.beg + ring.nbElem) % ring.phySize
  /\ out \in Value \cup {Empty}

(* Whatever the interleaving of pushes at both ends, pops and moves of the   *)
(* memory, callers see a plain sequence: nothing is lost, doubled or read    *)
(* before it was written.                                                    *)
Abstract == INSTANCE Deque WITH items <- Elements(ring)

(* The two thresholds do not fight: after the memory grew the next pop() does *)
(* not shrink it, after it shrank the next push does not grow it.  Otherwise  *)
(* a queue at the limit would copy itself, and, free() doing nothing, use up  *)
(* memory at every call.                                                      *)
NoThrashing ==
  /\ ring'.phySize > ring.phySize => Popped(ring').phySize = ring'.phySize
  /\ ring'.phySize < ring.phySize => WithRoom(ring').phySize = ring'.phySize
=============================================================================
