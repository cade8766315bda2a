----------------------------- MODULE QueueProofs -----------------------------
(***************************************************************************)
(* Proof that Queue implements Deque, for every set of values, and that its *)
(* two thresholds never fight.  The memory is reasoned about through the    *)
(* sequence of its elements: every operation is shown to keep the shape of  *)
(* the ring, and to do to that sequence what Deque does to it.              *)
(***************************************************************************)
EXTENDS Queue, SequenceTheorems, TLAPS

Cells == Value \cup {Fresh}
Memory == UNION {[0 .. n - 1 -> Cells] : n \in Nat}

(* The cell k places after b in a ring of n, and the one before b.           *)
At(n, b, k) == (b + k) % n
Before(n, b) == (b - 1 + n) % n

(* The shape of the ring: it lies within its memory, and every cell between  *)
(* its ends has been written.                                                *)
RingOK(r) ==
  /\ r \in [data : Memory, phySize : Nat \ {0}, beg : Nat, end : Nat, nbElem : Nat]
  /\ r.data \in [0 .. r.phySize - 1 -> Cells]
  /\ r.nbElem <= r.phySize
  /\ r.beg < r.phySize
  /\ r.end = At(r.phySize, r.beg, r.nbElem)
  /\ \A k \in Nat : k < r.nbElem => r.data[At(r.phySize, r.beg, k)] \in Value

IInv == RingOK(ring) /\ PowerOfTwo(ring.phySize) /\ out \in Value \cup {Empty}
-----------------------------------------------------------------------------
(* The ring's arithmetic: an index is at most once too large.                *)
LEMMA RingArithmetic ==
  ASSUME NEW n \in Nat \ {0}, NEW b \in Nat, b < n, NEW k \in Nat, k < n
  PROVE  /\ At(n, b, k) \in 0 .. n - 1
         /\ (At(n, b, k) + 1) % n = At(n, b, k + 1)
         /\ At(n, (b + 1) % n, k) = At(n, b, k + 1)
         /\ (b + 1) % n \in 0 .. n - 1
         /\ Before(n, b) \in 0 .. n - 1
         /\ At(n, Before(n, b), k + 1) = At(n, b, k)
         /\ \A j \in Nat : j < k => At(n, b, j) # At(n, b, k)
         /\ k < n - 1 => Before(n, b) # At(n, b, k)
<1>1. (b + k) % n = IF b + k < n THEN b + k ELSE b + k - n
  OBVIOUS
<1>2. (b + k + 1) % n = IF b + k + 1 < n THEN b + k + 1 ELSE b + k + 1 - n
  OBVIOUS
<1>3. (b + 1) % n = IF b + 1 < n THEN b + 1 ELSE b + 1 - n
  OBVIOUS
<1>4. (b - 1 + n) % n = IF b - 1 + n < n THEN b - 1 + n ELSE b - 1
  OBVIOUS
<1>6. PICK x \in 0 .. n - 1 : x = (b + k) % n
  BY <1>1
<1>7. PICK y \in 0 .. n - 1 : y = (b + 1) % n
  BY <1>3
<1>8. PICK z \in 0 .. n - 1 : z = (b - 1 + n) % n
  BY <1>4
<1>9. (x + 1) % n = (b + k + 1) % n
  <2>1. (x + 1) % n = IF x + 1 < n THEN x + 1 ELSE x + 1 - n
    OBVIOUS
  <2> QED
    BY <1>1, <1>2, <1>6, <2>1
<1>10. (y + k) % n = (b + k + 1) % n
  <2>1. (y + k) % n = IF y + k < n THEN y + k ELSE y + k - n
    OBVIOUS
  <2> QED
    BY <1>2, <1>3, <1>7, <2>1
<1>11. (z + k + 1) % n = (b + k) % n
  <2>1. (z + k + 1) % n = IF z + k + 1 < n THEN z + k + 1 ELSE z + k + 1 - n
    OBVIOUS
  <2> QED
    BY <1>1, <1>4, <1>8, <2>1
<1>12. b + (k + 1) = b + k + 1 /\ z + (k + 1) = z + k + 1
  OBVIOUS
<1>13. \A j \in Nat : j < k => (b + j) % n # (b + k) % n
  <2> SUFFICES ASSUME NEW j \in Nat, j < k
               PROVE  (b + j) % n # (b + k) % n
    OBVIOUS
  <2>1. (b + j) % n = IF b + j < n THEN b + j ELSE b + j - n
    OBVIOUS
  <2> QED
    BY <1>1, <2>1
<1>14. k < n - 1 => z # (b + k) % n
  BY <1>1, <1>4, <1>8
<1> QED
  BY <1>6, <1>7, <1>8, <1>9, <1>10, <1>11, <1>12, <1>13, <1>14 DEF At, Before

\* The first element is at beg.
LEMMA AtStart ==
  ASSUME NEW n \in Nat \ {0}, NEW b \in Nat, b < n
  PROVE  At(n, b, 0) = b
<1>1. b + 0 = b /\ b % n = b
  OBVIOUS
<1> QED
  BY <1>1 DEF At

\* Cells numbered from zero are a memory.
LEMMA MemoryOf ==
  ASSUME NEW n \in Nat, NEW f \in [0 .. n - 1 -> Cells]
  PROVE  f \in Memory
  BY DEF Memory

(* The elements of a ring are a sequence of values, front first.             *)
LEMMA ElementsOK ==
  ASSUME NEW r, RingOK(r)
  PROVE  /\ Elements(r) \in Seq(Value)
         /\ Len(Elements(r)) = r.nbElem
         /\ \A k \in 1 .. r.nbElem : Elements(r)[k] = r.data[At(r.phySize, r.beg, k - 1)]
<1>1. r.nbElem \in Nat /\ r.beg \in Nat /\ r.phySize \in Nat \ {0}
  BY DEF RingOK
<1>2. \A k \in 1 .. r.nbElem : /\ k - 1 \in Nat /\ k - 1 < r.nbElem
                             /\ r.beg + k - 1 = r.beg + (k - 1)
  BY <1>1
<1>3. \A k \in 1 .. r.nbElem : r.data[At(r.phySize, r.beg, k - 1)] \in Value
  BY <1>2 DEF RingOK
<1>4. Elements(r) = [k \in 1 .. r.nbElem |-> r.data[At(r.phySize, r.beg, k - 1)]]
  BY <1>2 DEF Elements, At
<1>5. Elements(r) \in [1 .. r.nbElem -> Value]
  BY <1>3, <1>4
<1>6. Elements(r) \in Seq(Value)
  BY <1>1, <1>5, SeqDef
<1>7. Len(Elements(r)) = r.nbElem
  BY <1>1, <1>5, <1>6, LenProperties
<1> QED
  BY <1>4, <1>6, <1>7

(* A ring is put together from its parts and taken apart again.              *)
Ring(d, n, b, k) == [data |-> d, phySize |-> n, beg |-> b, end |-> At(n, b, k), nbElem |-> k]

\* What has a ring's parts, its first k cells holding values, is one.
LEMMA MakeRing ==
  ASSUME NEW n \in Nat \ {0}, NEW b \in Nat, b < n, NEW k \in Nat, k <= n,
         NEW d \in [0 .. n - 1 -> Cells], \A j \in Nat : j < k => d[At(n, b, j)] \in Value
  PROVE  RingOK(Ring(d, n, b, k))
<1>1. At(n, b, k) \in Nat /\ d \in Memory
  BY MemoryOf DEF At
<1>2. PICK e \in Nat : e = At(n, b, k)
  BY <1>1
<1>3. PICK r : r = [data |-> d, phySize |-> n, beg |-> b, end |-> e, nbElem |-> k]
  OBVIOUS
<1>4. /\ r \in [data : Memory, phySize : Nat \ {0}, beg : Nat, end : Nat, nbElem : Nat]
      /\ r.data = d /\ r.phySize = n /\ r.beg = b /\ r.end = e /\ r.nbElem = k
  BY <1>1, <1>3
<1>5. RingOK(r)
  BY <1>2, <1>4 DEF RingOK
<1> QED
  BY <1>2, <1>3, <1>5 DEF Ring

\* A ring is made of its parts.
LEMMA PartsOfRing ==
  ASSUME NEW r, RingOK(r)
  PROVE  /\ r = Ring(r.data, r.phySize, r.beg, r.nbElem)
         /\ r.phySize \in Nat \ {0} /\ r.beg \in Nat /\ r.nbElem \in Nat
         /\ r.beg < r.phySize /\ r.nbElem <= r.phySize
         /\ r.data \in [0 .. r.phySize - 1 -> Cells]
         /\ \A j \in Nat : j < r.nbElem => r.data[At(r.phySize, r.beg, j)] \in Value
  BY DEF RingOK, Ring

\* A sequence of the same values in the same order is a ring's elements.
LEMMA SameElements ==
  ASSUME NEW r, RingOK(r), NEW s \in Seq(Value), Len(s) = r.nbElem,
         \A k \in 1 .. r.nbElem : s[k] = r.data[At(r.phySize, r.beg, k - 1)]
  PROVE  Elements(r) = s
  BY ElementsOK, SeqEqual

(* Moved to new memory the elements stay the same.                           *)
LEMMA ReallocOK ==
  ASSUME NEW r, RingOK(r), NEW size \in Nat \ {0}, r.nbElem < size
  PROVE  /\ RingOK(Realloc(r, size))
         /\ Realloc(r, size).phySize = size
         /\ Realloc(r, size).nbElem = r.nbElem
         /\ Elements(Realloc(r, size)) = Elements(r)
<1>1. PICK k \in Nat : k = r.nbElem
  BY DEF RingOK
<1>2. PICK d : d = [c \in 0 .. size - 1 |-> IF c < k THEN Elements(r)[c + 1] ELSE Fresh]
  OBVIOUS
<1>3. Realloc(r, size) = [r EXCEPT !.data = d, !.phySize = size, !.beg = 0, !.end = k]
  BY <1>1, <1>2, Zenon DEF Realloc
<1>4. \A j \in 0 .. k : At(size, 0, j) = j
  <2> SUFFICES ASSUME NEW j \in 0 .. k
               PROVE  At(size, 0, j) = j
    OBVIOUS
  <2>1. j \in Nat /\ j < size /\ 0 + j = j
    BY <1>1
  <2>2. j % size = j
    BY <2>1
  <2> QED
    BY <2>1, <2>2 DEF At
<1>5. At(size, 0, k) = k
  BY <1>4
<1>6. Realloc(r, size) = Ring(d, size, 0, k)
  BY <1>1, <1>3, <1>5 DEF RingOK, Ring
<1>7. /\ Elements(r) \in Seq(Value) /\ Len(Elements(r)) = k
      /\ \A j \in 1 .. k : Elements(r)[j] \in Value
  BY <1>1, ElementsOK, ElementOfSeq
<1>8. \A j \in Nat : j < k => d[j] = Elements(r)[j + 1] /\ d[j] \in Value /\ At(size, 0, j) = j
  <2> SUFFICES ASSUME NEW j \in Nat, j < k
               PROVE  d[j] = Elements(r)[j + 1] /\ d[j] \in Value /\ At(size, 0, j) = j
    OBVIOUS
  <2>1. j \in 0 .. size - 1 /\ j + 1 \in 1 .. k /\ j \in 0 .. k
    BY <1>1
  <2> QED
    BY <1>2, <1>4, <1>7, <2>1
<1>9. d \in [0 .. size - 1 -> Cells]
  <2> SUFFICES ASSUME NEW c \in 0 .. size - 1
               PROVE  (IF c < k THEN Elements(r)[c + 1] ELSE Fresh) \in Cells
    BY <1>2
  <2>1. c < k => c + 1 \in 1 .. k
    OBVIOUS
  <2> QED
    BY <1>7, <2>1 DEF Cells
<1>10. PICK w : w = Ring(d, size, 0, k)
  OBVIOUS
<1>11. RingOK(w)
  <2>1. \A j \in Nat : j < k => d[At(size, 0, j)] \in Value
    BY <1>8
  <2>2. 0 \in Nat /\ 0 < size /\ k <= size
    BY <1>1
  <2> QED
    BY <1>1, <1>9, <1>10, <2>1, <2>2, MakeRing
<1>12. w.data = d /\ w.phySize = size /\ w.beg = 0 /\ w.nbElem = k
  BY <1>10 DEF Ring
<1>13. \A j \in 1 .. k : Elements(r)[j] = d[At(size, 0, j - 1)]
  <2> SUFFICES ASSUME NEW j \in 1 .. k
               PROVE  Elements(r)[j] = d[At(size, 0, j - 1)]
    OBVIOUS
  <2>1. PICK i \in Nat : i = j - 1 /\ i < k /\ i + 1 = j
    OBVIOUS
  <2> QED
    BY <1>8, <2>1
<1>14. Elements(w) = Elements(r)
  BY <1>7, <1>11, <1>12, <1>13, SameElements
<1> QED
  BY <1>1, <1>6, <1>10, <1>11, <1>12, <1>14

\* Making room (push_room) keeps the elements.
LEMMA WithRoomOK ==
  ASSUME NEW r, RingOK(r)
  PROVE  /\ RingOK(WithRoom(r))
         /\ WithRoom(r).nbElem = r.nbElem
         /\ WithRoom(r).phySize \in {r.phySize, 2 * r.phySize}
         /\ r.nbElem < WithRoom(r).phySize
         /\ Elements(WithRoom(r)) = Elements(r)
<1>1. r.nbElem \in Nat /\ r.phySize \in Nat \ {0} /\ r.nbElem <= r.phySize
  BY DEF RingOK
<1>2. CASE r.nbElem >= r.phySize
  <2>1. 2 * r.phySize \in Nat \ {0} /\ r.nbElem < 2 * r.phySize
    BY <1>1
  <2> QED
    BY <1>2, <2>1, ReallocOK DEF WithRoom
<1>3. CASE ~(r.nbElem >= r.phySize)
  BY <1>1, <1>3 DEF WithRoom
<1> QED
  BY <1>2, <1>3

\* push() adds its value at the end.
LEMMA PushedOK ==
  ASSUME NEW r, RingOK(r), NEW v \in Value
  PROVE  /\ RingOK(Pushed(r, v))
         /\ Pushed(r, v).phySize = WithRoom(r).phySize
         /\ Pushed(r, v).nbElem = r.nbElem + 1
         /\ Elements(Pushed(r, v)) = Append(Elements(r), v)
<1>1. PICK w : w = WithRoom(r)
  OBVIOUS
<1>2. RingOK(w) /\ w.nbElem = r.nbElem /\ w.nbElem < w.phySize /\ Elements(w) = Elements(r)
  BY <1>1, WithRoomOK
<1>3. PICK n, b, k, d : n = w.phySize /\ b = w.beg /\ k = w.nbElem /\ d = w.data
  OBVIOUS
<1>4. /\ n \in Nat \ {0} /\ b \in Nat /\ k \in Nat /\ b < n /\ k < n
      /\ d \in [0 .. n - 1 -> Cells] /\ w = Ring(d, n, b, k)
      /\ \A j \in Nat : j < k => d[At(n, b, j)] \in Value
  BY <1>2, <1>3, PartsOfRing
<1>5. PICK e : e = At(n, b, k)
  OBVIOUS
<1>6. /\ e \in 0 .. n - 1 /\ (e + 1) % n = At(n, b, k + 1)
      /\ \A j \in Nat : j < k => At(n, b, j) # e
  BY <1>4, <1>5, RingArithmetic
<1>7. \A j \in Nat : j < k => At(n, b, j) \in 0 .. n - 1
  BY <1>4 DEF At
<1>8. PICK d2 : d2 = [d EXCEPT ![e] = v]
  OBVIOUS
<1>9. d2 \in [0 .. n - 1 -> Cells]
  BY <1>4, <1>6, <1>8 DEF Cells
<1>10. /\ \A j \in Nat : j < k => d2[At(n, b, j)] = d[At(n, b, j)]
       /\ d2[At(n, b, k)] = v
  BY <1>4, <1>5, <1>6, <1>7, <1>8
<1>11. PICK p : p = Pushed(r, v)
  OBVIOUS
<1>12. w.end = e
  BY <1>4, <1>5 DEF Ring
<1>13. p = [w EXCEPT !.data = d2, !.nbElem = k + 1, !.end = (e + 1) % n]
  BY <1>1, <1>3, <1>8, <1>11, <1>12 DEF Pushed
<1>14. p = Ring(d2, n, b, k + 1)
  BY <1>4, <1>6, <1>13 DEF Ring
<1>15. p.data = d2 /\ p.phySize = n /\ p.beg = b /\ p.nbElem = k + 1
  BY <1>14 DEF Ring
<1>16. RingOK(p)
  <2>1. \A j \in Nat : j < k + 1 => d2[At(n, b, j)] \in Value
    <3>1. \A j \in Nat : j < k + 1 => j < k \/ j = k
      BY <1>4
    <3> QED
      BY <1>4, <1>10, <3>1
  <2>2. k + 1 \in Nat /\ k + 1 <= n
    BY <1>4
  <2> QED
    BY <1>4, <1>9, <1>14, <2>1, <2>2, MakeRing
<1>17. Elements(p) = Append(Elements(w), v)
  <2>1. PICK s : s = Append(Elements(w), v)
    OBVIOUS
  <2>2. /\ Elements(w) \in Seq(Value) /\ Len(Elements(w)) = k
        /\ \A j \in 1 .. k : Elements(w)[j] = d[At(n, b, j - 1)]
    BY <1>2, <1>3, ElementsOK
  <2>3. /\ s \in Seq(Value) /\ Len(s) = k + 1 /\ s[k + 1] = v
        /\ \A j \in 1 .. k : s[j] = Elements(w)[j]
    BY <2>1, <2>2, AppendProperties
  <2>4. \A j \in 1 .. k + 1 : s[j] = d2[At(n, b, j - 1)]
    <3> SUFFICES ASSUME NEW j \in 1 .. k + 1
                 PROVE  s[j] = d2[At(n, b, j - 1)]
      OBVIOUS
    <3>1. PICK i \in Nat : i = j - 1
      OBVIOUS
    <3>2. (i < k /\ j \in 1 .. k) \/ (i = k /\ j = k + 1)
      BY <1>4, <3>1
    <3> QED
      BY <1>10, <2>2, <2>3, <3>1, <3>2
  <2> QED
    BY <1>15, <1>16, <2>1, <2>3, <2>4, SameElements
<1> QED
  BY <1>1, <1>2, <1>3, <1>11, <1>15, <1>16, <1>17

\* push_front() adds its value at the front.
LEMMA PushedFrontOK ==
  ASSUME NEW r, RingOK(r), NEW v \in Value
  PROVE  /\ RingOK(PushedFront(r, v))
         /\ PushedFront(r, v).phySize = WithRoom(r).phySize
         /\ PushedFront(r, v).nbElem = r.nbElem + 1
         /\ Elements(PushedFront(r, v)) = <<v>> \o Elements(r)
<1>1. PICK w : w = WithRoom(r)
  OBVIOUS
<1>2. RingOK(w) /\ w.nbElem = r.nbElem /\ w.nbElem < w.phySize /\ Elements(w) = Elements(r)
  BY <1>1, WithRoomOK
<1>3. PICK n, b, k, d : n = w.phySize /\ b = w.beg /\ k = w.nbElem /\ d = w.data
  OBVIOUS
<1>4. /\ n \in Nat \ {0} /\ b \in Nat /\ k \in Nat /\ b < n /\ k < n
      /\ d \in [0 .. n - 1 -> Cells] /\ w = Ring(d, n, b, k)
      /\ \A j \in Nat : j < k => d[At(n, b, j)] \in Value
  BY <1>2, <1>3, PartsOfRing
<1>5. PICK a : a = Before(n, b)
  OBVIOUS
<1>6. \A j \in Nat : j <= k => At(n, a, j + 1) = At(n, b, j)
  <2> SUFFICES ASSUME NEW j \in Nat, j <= k
               PROVE  At(n, a, j + 1) = At(n, b, j)
    OBVIOUS
  <2>1. j < n
    BY <1>4
  <2> QED
    BY <1>4, <1>5, <2>1, RingArithmetic
<1>7. \A j \in Nat : j < k => a # At(n, b, j) /\ At(n, b, j) \in 0 .. n - 1
  <2> SUFFICES ASSUME NEW j \in Nat, j < k
               PROVE  a # At(n, b, j) /\ At(n, b, j) \in 0 .. n - 1
    OBVIOUS
  <2>1. j < n /\ j < n - 1
    BY <1>4
  <2>2. At(n, b, j) \in 0 .. n - 1
    BY <1>4, <2>1, RingArithmetic
  <2>3. j < n - 1 => Before(n, b) # At(n, b, j)
    BY <1>4, <2>1, RingArithmetic
  <2> QED
    BY <1>5, <2>1, <2>2, <2>3
<1>8. a \in 0 .. n - 1 /\ a \in Nat /\ a < n /\ At(n, a, 0) = a
  <2>1. a \in 0 .. n - 1
    BY <1>4, <1>5, RingArithmetic
  <2>2. a \in Nat /\ a < n
    BY <1>4, <2>1
  <2> QED
    BY <1>4, <2>1, <2>2, AtStart
<1>9. PICK d2 : d2 = [d EXCEPT ![a] = v]
  OBVIOUS
<1>10. d2 \in [0 .. n - 1 -> Cells]
  BY <1>4, <1>8, <1>9 DEF Cells
<1>11. /\ \A j \in Nat : j < k => d2[At(n, a, j + 1)] = d[At(n, b, j)]
       /\ d2[At(n, a, 0)] = v
  <2>1. \A j \in Nat : j < k => d2[At(n, b, j)] = d[At(n, b, j)]
    BY <1>4, <1>7, <1>9
  <2>2. \A j \in Nat : j < k => j <= k
    BY <1>4
  <2> QED
    BY <1>4, <1>6, <1>8, <1>9, <2>1, <2>2
<1>12. PICK p : p = PushedFront(r, v)
  OBVIOUS
<1>13. p = [w EXCEPT !.data = d2, !.nbElem = k + 1, !.beg = a]
  BY <1>1, <1>3, <1>5, <1>9, <1>12 DEF PushedFront, Before
<1>14. At(n, a, k + 1) = At(n, b, k)
  BY <1>4, <1>6
<1>15. p = Ring(d2, n, a, k + 1)
  BY <1>4, <1>13, <1>14 DEF Ring
<1>16. p.data = d2 /\ p.phySize = n /\ p.beg = a /\ p.nbElem = k + 1
  BY <1>15 DEF Ring
<1>17. RingOK(p)
  <2>1. \A j \in Nat : j < k + 1 => d2[At(n, a, j)] \in Value
    <3> SUFFICES ASSUME NEW j \in Nat, j < k + 1
                 PROVE  d2[At(n, a, j)] \in Value
      OBVIOUS
    <3>1. CASE j = 0
      BY <1>11, <3>1
    <3>2. CASE j # 0
      <4>1. PICK i \in Nat : j = i + 1 /\ i < k
        <5>1. j - 1 \in Nat /\ j = (j - 1) + 1 /\ j - 1 < k
          BY <1>4, <3>2
        <5> QED
          BY <5>1
      <4> QED
        BY <1>4, <1>11, <4>1
    <3> QED
      BY <3>1, <3>2
  <2>2. k + 1 \in Nat /\ k + 1 <= n
    BY <1>4
  <2> QED
    BY <1>4, <1>8, <1>10, <1>15, <2>1, <2>2, MakeRing
<1>18. Elements(p) = <<v>> \o Elements(w)
  <2>1. PICK s : s = <<v>> \o Elements(w)
    OBVIOUS
  <2>2. /\ Elements(w) \in Seq(Value) /\ Len(Elements(w)) = k
        /\ \A j \in 1 .. k : Elements(w)[j] = d[At(n, b, j - 1)]
    BY <1>2, <1>3, ElementsOK
  <2>3. /\ s \in Seq(Value) /\ Len(s) = k + 1
        /\ \A j \in 1 .. k + 1 : s[j] = IF j <= 1 THEN v ELSE Elements(w)[j - 1]
    <3>1. <<v>> \in Seq(Value) /\ Len(<<v>>) = 1 /\ <<v>>[1] = v
      OBVIOUS
    <3>2. 1 + k = k + 1 /\ \A j \in 1 .. k + 1 : j <= 1 => j = 1
      BY <1>4
    <3> QED
      BY <2>1, <2>2, <3>1, <3>2, ConcatProperties
  <2>4. \A j \in 1 .. k + 1 : s[j] = d2[At(n, a, j - 1)]
    <3> SUFFICES ASSUME NEW j \in 1 .. k + 1
                 PROVE  s[j] = d2[At(n, a, j - 1)]
      OBVIOUS
    <3>1. CASE j = 1
      BY <1>11, <2>3, <3>1
    <3>2. CASE j # 1
      <4>1. PICK i \in Nat : i < k /\ j - 1 = i + 1 /\ (j - 1) - 1 = i
        <5>1. j - 2 \in Nat /\ j - 2 < k /\ j - 1 = (j - 2) + 1 /\ (j - 1) - 1 = j - 2
          BY <1>4, <3>2
        <5> QED
          BY <5>1
      <4>2. j - 1 \in 1 .. k /\ ~(j <= 1)
        BY <1>4, <3>2
      <4>3. s[j] = Elements(w)[j - 1] /\ Elements(w)[j - 1] = d[At(n, b, i)]
        BY <2>2, <2>3, <4>1, <4>2
      <4> QED
        BY <1>11, <4>1, <4>3
    <3> QED
      BY <3>1, <3>2
  <2> QED
    BY <1>16, <1>17, <2>1, <2>3, <2>4, SameElements
<1> QED
  BY <1>1, <1>2, <1>3, <1>12, <1>16, <1>17, <1>18

(* Under its front element there is always a ring again.                     *)
LEMMA PoppedOK ==
  ASSUME NEW r, RingOK(r), r.nbElem > 0
  PROVE  /\ RingOK(Popped(r))
         /\ \/ Popped(r).phySize = r.phySize
            \/ r.phySize \div 3 > r.nbElem - 1 /\ Popped(r).phySize = r.phySize \div 2
         /\ Popped(r).nbElem = r.nbElem - 1
         /\ Elements(r) # <<>> /\ r.data[r.beg] = Head(Elements(r))
         /\ Elements(Popped(r)) = Tail(Elements(r))
<1>1. PICK n, b, k, d : n = r.phySize /\ b = r.beg /\ k = r.nbElem - 1 /\ d = r.data
  OBVIOUS
<1>2. /\ n \in Nat \ {0} /\ b \in Nat /\ k \in Nat /\ r.nbElem = k + 1 /\ b < n /\ k < n
      /\ d \in [0 .. n - 1 -> Cells] /\ r = Ring(d, n, b, k + 1)
      /\ \A j \in Nat : j < k + 1 => d[At(n, b, j)] \in Value
  <2>1. /\ r.nbElem - 1 \in Nat /\ (r.nbElem - 1) + 1 = r.nbElem
        /\ r.nbElem - 1 < r.phySize
    BY PartsOfRing
  <2> QED
    BY <1>1, <2>1, PartsOfRing
<1>3. PICK a : a = (b + 1) % n
  OBVIOUS
<1>4. /\ a \in Nat /\ a < n
      /\ \A j \in Nat : j <= k => At(n, a, j) = At(n, b, j + 1)
  <2>1. a \in 0 .. n - 1
    BY <1>2, <1>3
  <2>2. \A j \in Nat : j <= k => j < n
    BY <1>2
  <2>3. \A j \in Nat : j <= k => At(n, a, j) = At(n, b, j + 1)
    BY <1>2, <1>3, <2>2, RingArithmetic
  <2> QED
    BY <1>2, <2>1, <2>3
<1>5. PICK s : s = [r EXCEPT !.beg = a, !.nbElem = k]
  OBVIOUS
<1>6. s = Ring(d, n, a, k)
  <2>1. At(n, a, k) = At(n, b, k + 1)
    BY <1>2, <1>4
  <2> QED
    BY <1>2, <1>5, <2>1 DEF Ring
<1>7. s.data = d /\ s.phySize = n /\ s.beg = a /\ s.nbElem = k
  BY <1>6 DEF Ring
<1>8. RingOK(s)
  <2>1. \A j \in Nat : j < k => d[At(n, a, j)] \in Value
    <3>1. \A j \in Nat : j < k => j <= k /\ j + 1 \in Nat /\ j + 1 < k + 1
      BY <1>2
    <3> QED
      BY <1>2, <1>4, <3>1
  <2>2. k <= n
    BY <1>2
  <2> QED
    BY <1>2, <1>4, <1>6, <2>1, <2>2, MakeRing
<1>9. Popped(r) = IF n \div 3 > k THEN Realloc(s, n \div 2) ELSE s
  BY <1>1, <1>3, <1>5, <1>7 DEF Popped
<1>10. /\ RingOK(Popped(r)) /\ Popped(r).nbElem = k /\ Elements(Popped(r)) = Elements(s)
       /\ \/ Popped(r).phySize = n
          \/ n \div 3 > k /\ Popped(r).phySize = n \div 2
  <2>1. n \div 3 > k => n \div 2 \in Nat \ {0} /\ k < n \div 2
    BY <1>2
  <2> QED
    BY <1>7, <1>8, <1>9, <2>1, ReallocOK
<1>11. /\ Elements(r) \in Seq(Value) /\ Len(Elements(r)) = k + 1
       /\ \A j \in 1 .. k + 1 : Elements(r)[j] = d[At(n, b, j - 1)]
  BY <1>1, <1>2, ElementsOK
<1>12. Elements(r) # <<>>
  BY <1>2, <1>11, EmptySeq
<1>13. r.data[r.beg] = Head(Elements(r))
  <2>1. 1 \in 1 .. k + 1 /\ 1 - 1 = 0
    BY <1>2
  <2>2. Elements(r)[1] = d[b]
    BY <1>2, <1>11, <2>1, AtStart
  <2>3. Head(Elements(r)) = Elements(r)[1]
    BY <1>11, <1>12
  <2> QED
    BY <1>1, <2>2, <2>3
<1>14. Elements(s) = Tail(Elements(r))
  <2>1. PICK u : u = Tail(Elements(r))
    OBVIOUS
  <2>2. /\ u \in Seq(Value) /\ Len(u) = k
        /\ \A j \in 1 .. k : u[j] = Elements(r)[j + 1]
    <3>1. (k + 1) - 1 = k
      BY <1>2
    <3> QED
      BY <1>11, <1>12, <2>1, <3>1, HeadTailProperties
  <2>3. \A j \in 1 .. k : u[j] = d[At(n, a, j - 1)]
    <3> SUFFICES ASSUME NEW j \in 1 .. k
                 PROVE  u[j] = d[At(n, a, j - 1)]
      OBVIOUS
    <3>1. PICK i \in Nat : i = j - 1
      OBVIOUS
    <3>2. i <= k /\ i + 1 = j /\ j + 1 \in 1 .. k + 1 /\ (j + 1) - 1 = j
      BY <1>2, <3>1
    <3>3. u[j] = d[At(n, b, j)]
      BY <1>11, <2>2, <3>2
    <3> QED
      BY <1>4, <3>1, <3>2, <3>3
  <2> QED
    BY <1>7, <1>8, <2>1, <2>2, <2>3, SameElements
<1> QED
  BY <1>1, <1>2, <1>10, <1>12, <1>13, <1>14
-----------------------------------------------------------------------------
(* The sizes stay powers of two: doubling adds no odd divisor, and whatever  *)
(* is halved is even.                                                        *)
LEMMA Divides ==
  ASSUME NEW d \in Nat \ {0}, NEW c \in Nat \ {0}
  PROVE  (d * c) % d = 0 /\ d \in 1 .. d * c
<1>1. PICK m \in Nat : m = d * c
  OBVIOUS
<1>2. PICK k \in Nat, s \in 0 .. d - 1 : m = d * k + s /\ s = m % d
  <2>1. m \div d \in Nat /\ m % d \in 0 .. d - 1 /\ m = d * (m \div d) + (m % d)
    OBVIOUS
  <2> QED
    BY <2>1
<1>3. PICK e \in Int : e = c - k
  OBVIOUS
<1>4. d * e = s
  BY <1>1, <1>2, <1>3
<1>5. e > 0 => d * e >= d
  OBVIOUS
<1>6. e < 0 => d * e < 0
  OBVIOUS
<1>7. e = 0
  BY <1>4, <1>5, <1>6
<1>8. d <= d * c
  OBVIOUS
<1>9. s = 0
  BY <1>4, <1>7
<1>10. m % d = 0 /\ d \in 1 .. m
  BY <1>1, <1>2, <1>8, <1>9
<1> QED
  BY <1>1, <1>10

\* Twice a power of two is one.
LEMMA DoubledIsPower ==
  ASSUME NEW n \in Nat \ {0}, PowerOfTwo(n)
  PROVE  PowerOfTwo(2 * n)
<1> SUFFICES ASSUME NEW d \in 1 .. 2 * n, (2 * n) % d = 0, d % 2 # 0
             PROVE  d = 1
  BY DEF PowerOfTwo
<1>1. PICK q \in Nat : 2 * n = d * q
  <2>1. 2 * n = d * ((2 * n) \div d) /\ (2 * n) \div d \in Nat
    OBVIOUS
  <2> QED
    BY <2>1
<1>2. PICK a \in Nat : d = 2 * a + 1
  <2>1. d = 2 * (d \div 2) + 1 /\ d \div 2 \in Nat
    OBVIOUS
  <2> QED
    BY <2>1
<1>3. q = 2 * (n - a * q)
  <2>1. PICK x \in Nat : x = a * q
    OBVIOUS
  <2>2. d * q = 2 * x + q
    BY <1>2, <2>1
  <2> QED
    BY <1>1, <2>1, <2>2
<1>4. PICK c \in Int : c = n - a * q
  OBVIOUS
<1>5. c \in Nat /\ n = d * c
  <2>1. PICK y \in Int : y = d * c
    OBVIOUS
  <2>2. d * q = 2 * y
    BY <1>3, <1>4, <2>1
  <2> QED
    BY <1>1, <1>3, <1>4, <2>1, <2>2
<1>6. n % d = 0 /\ d \in 1 .. n
  <2>1. c # 0 /\ d \in Nat \ {0}
    BY <1>5
  <2> QED
    BY <1>5, <2>1, Divides
<1> QED
  BY <1>6 DEF PowerOfTwo

\* So is half of one that is not 1.
LEMMA HalvedIsPower ==
  ASSUME NEW n \in Nat \ {0}, PowerOfTwo(n), n # 1
  PROVE  PowerOfTwo(n \div 2)
<1>1. n % 2 = 0
  <2>1. n \in 1 .. n /\ n % n = 0
    OBVIOUS
  <2> QED
    BY <2>1 DEF PowerOfTwo
<1>2. PICK m \in Nat : n = 2 * m /\ n \div 2 = m
  BY <1>1
<1> SUFFICES ASSUME NEW d \in 1 .. m, m % d = 0
             PROVE  d = 1 \/ d % 2 = 0
  BY <1>2 DEF PowerOfTwo
<1>3. PICK q \in Nat : m = d * q
  <2>1. m = d * (m \div d) /\ m \div d \in Nat
    OBVIOUS
  <2> QED
    BY <2>1
<1>4. n = d * (2 * q)
  BY <1>2, <1>3
<1>5. n % d = 0 /\ d \in 1 .. n
  <2>1. 2 * q \in Nat \ {0} /\ d \in Nat \ {0}
    BY <1>4
  <2>2. PICK c \in Nat \ {0} : c = 2 * q
    BY <2>1
  <2> QED
    BY <1>4, <2>1, <2>2, Divides
<1> QED
  BY <1>5 DEF PowerOfTwo
-----------------------------------------------------------------------------
\* A new queue is an empty ring of one cell.
LEMMA InitInvariant ==
  ASSUME Init
  PROVE  IInv
<1>1. PICK d : d = [c \in {0} |-> Fresh]
  OBVIOUS
<1>2. d \in [0 .. 1 - 1 -> Cells]
  BY <1>1 DEF Cells
<1>3. At(1, 0, 0) = 0
  BY AtStart
<1>4. ring = Ring(d, 1, 0, 0)
  BY <1>1, <1>3 DEF Init, Ring
<1>5. RingOK(ring)
  <2>1. /\ 1 \in Nat \ {0} /\ 0 \in Nat /\ 0 < 1 /\ 0 <= 1
        /\ \A j \in Nat : j < 0 => d[At(1, 0, j)] \in Value
    OBVIOUS
  <2> QED
    BY <1>2, <1>4, <2>1, MakeRing
<1>6. PowerOfTwo(ring.phySize)
  BY <1>4 DEF PowerOfTwo, Ring
<1> QED
  BY <1>5, <1>6 DEF Init, IInv

(* What a step does to the ring and to the sequence of its elements.         *)
LEMMA StepInvariant ==
  ASSUME IInv, Next
  PROVE  IInv' /\ Abstract!Next
<1>1. RingOK(ring) /\ PowerOfTwo(ring.phySize) /\ ring.phySize \in Nat \ {0}
  BY DEF IInv, RingOK
<1>2. ASSUME NEW v \in Value, Push(v)
      PROVE  IInv' /\ Abstract!Next
  <2>1. ring' = Pushed(ring, v) /\ out' = out
    BY <1>2 DEF Push
  <2>2. RingOK(ring') /\ Elements(ring') = Append(Elements(ring), v)
    BY <1>1, <2>1, PushedOK
  <2>3. PowerOfTwo(ring'.phySize)
    BY <1>1, <2>1, PushedOK, WithRoomOK, DoubledIsPower
  <2>4. Abstract!Push(v)
    BY <2>1, <2>2 DEF Abstract!Push
  <2> QED
    BY <2>1, <2>2, <2>3, <2>4 DEF IInv, Abstract!Next
<1>3. ASSUME NEW v \in Value, PushFront(v)
      PROVE  IInv' /\ Abstract!Next
  <2>1. ring' = PushedFront(ring, v) /\ out' = out
    BY <1>3 DEF PushFront
  <2>2. RingOK(ring') /\ Elements(ring') = <<v>> \o Elements(ring)
    BY <1>1, <2>1, PushedFrontOK
  <2>3. PowerOfTwo(ring'.phySize)
    BY <1>1, <2>1, PushedFrontOK, WithRoomOK, DoubledIsPower
  <2>4. Abstract!PushFront(v)
    BY <2>1, <2>2 DEF Abstract!PushFront
  <2> QED
    BY <2>1, <2>2, <2>3, <2>4 DEF IInv, Abstract!Next
<1>4. CASE Pop /\ ring.nbElem = 0
  <2>1. ring' = ring /\ out' = Empty
    BY <1>4 DEF Pop
  <2>2. Elements(ring) = <<>>
    BY <1>1, <1>4, ElementsOK, EmptySeq
  <2>3. Abstract!Pop
    BY <2>1, <2>2 DEF Abstract!Pop
  <2> QED
    BY <2>1, <2>3 DEF IInv, Abstract!Next
<1>5. CASE Pop /\ ring.nbElem # 0
  <2>1. ring' = Popped(ring) /\ out' = ring.data[ring.beg]
    BY <1>5 DEF Pop
  <2>2. ring.nbElem > 0
    BY <1>5 DEF IInv, RingOK
  <2>3. /\ RingOK(ring') /\ Elements(ring) # <<>> /\ out' = Head(Elements(ring))
        /\ Elements(ring') = Tail(Elements(ring))
    BY <1>1, <2>1, <2>2, PoppedOK
  <2>4. PowerOfTwo(ring'.phySize)
    <3>1. CASE ring'.phySize = ring.phySize
      BY <1>1, <3>1
    <3>2. CASE /\ ring.phySize \div 3 > ring.nbElem - 1
               /\ ring'.phySize = ring.phySize \div 2
      <4>1. ring.phySize # 1
        BY <1>1, <2>2, <3>2 DEF RingOK
      <4> QED
        BY <1>1, <3>2, <4>1, HalvedIsPower
    <3> QED
      BY <1>1, <2>1, <2>2, <3>1, <3>2, PoppedOK
  <2>5. out' \in Value
    BY <1>1, <2>3, ElementsOK, HeadTailProperties
  <2>6. Abstract!Pop
    BY <2>1, <2>3 DEF Abstract!Pop
  <2> QED
    BY <2>3, <2>4, <2>5, <2>6 DEF IInv, Abstract!Next
<1> QED
  BY <1>2, <1>3, <1>4, <1>5 DEF Next

\* A ring is of its type, within its memory.
LEMMA InvTyped == IInv => TypeOK
<1> SUFFICES ASSUME IInv
             PROVE  TypeOK
  OBVIOUS
<1>1. RingOK(ring) /\ PowerOfTwo(ring.phySize) /\ out \in Value \cup {Empty}
  BY DEF IInv
<1>2. ring.end \in 0 .. ring.phySize - 1
  BY <1>1 DEF RingOK, At
<1> QED
  BY <1>1, <1>2 DEF TypeOK, RingOK, Cells, At

\* A new queue is an empty deque.
LEMMA InitAbstract == Init => Abstract!Init
<1> SUFFICES ASSUME Init
             PROVE  Abstract!Init
  OBVIOUS
<1>1. RingOK(ring) /\ ring.nbElem = 0
  BY InitInvariant DEF IInv, Init
<1>2. Elements(ring) = <<>>
  BY <1>1, ElementsOK, EmptySeq
<1> QED
  BY <1>2 DEF Abstract!Init, Init

\* A step that grows the memory leaves it too full to shrink at the next, and
\* the other way round.
LEMMA StepApart ==
  ASSUME IInv, Next
  PROVE  NoThrashing
<1>1. RingOK(ring) /\ RingOK(ring')
  BY StepInvariant DEF IInv
<1>2. PICK n, k : n = ring.phySize /\ k = ring.nbElem
  OBVIOUS
<1>3. PICK n2, k2 : n2 = ring'.phySize /\ k2 = ring'.nbElem
  OBVIOUS
<1>4. n \in Nat \ {0} /\ k \in Nat /\ k <= n /\ n2 \in Nat \ {0} /\ k2 \in Nat
  BY <1>1, <1>2, <1>3, PartsOfRing
<1>5. CASE \E v \in Value : Push(v) \/ PushFront(v)
  <2>1. k2 = k + 1 /\ n2 = WithRoom(ring).phySize
    BY <1>1, <1>2, <1>3, <1>5, PushedOK, PushedFrontOK DEF Push, PushFront
  <2>2. n2 = IF k >= n THEN 2 * n ELSE n
    BY <1>1, <1>2, <1>4, <2>1, ReallocOK DEF WithRoom
  <2>3. n2 >= n
    BY <1>4, <2>2
  <2>4. n2 > n => ~(n2 \div 3 > k2 - 1)
    BY <1>4, <2>1, <2>2
  <2>5. k2 > 0
    BY <1>4, <2>1
  <2>6. n2 > n => Popped(ring').phySize = n2
    BY <1>1, <1>3, <2>4, <2>5, PoppedOK
  <2> QED
    BY <1>2, <1>3, <1>4, <2>3, <2>6 DEF NoThrashing
<1>6. CASE Pop
  <2>1. n2 = n \/ (n \div 3 > k - 1 /\ n2 = n \div 2 /\ k2 = k - 1)
    <3>1. k # 0 => k > 0
      BY <1>4
    <3> QED
      BY <1>1, <1>2, <1>3, <1>6, <3>1, PoppedOK DEF Pop
  <2>2. ~(n2 > n)
    BY <1>4, <2>1
  <2>3. n2 < n => ~(k2 >= n2)
    BY <1>4, <2>1
  <2>4. n2 < n => WithRoom(ring').phySize = n2
    BY <1>3, <2>3 DEF WithRoom
  <2> QED
    BY <1>2, <1>3, <2>2, <2>4 DEF NoThrashing
<1> QED
  BY <1>5, <1>6 DEF Next

\* The ring is one after any pushes and pops.
THEOREM Invariance == Spec => []IInv
<1>1. Init => IInv
  BY InitInvariant
<1>2. IInv /\ [Next]_vars => IInv'
  <2>1. IInv /\ Next => IInv'
    BY StepInvariant
  <2>2. IInv /\ UNCHANGED vars => IInv'
    BY DEF IInv, vars
  <2> QED
    BY <2>1, <2>2
<1> QED
  BY <1>1, <1>2, PTL DEF Spec

(* The ring lies within its memory, whose size is a power of two, and its    *)
(* two ends are as far apart as it has elements (queue.h), whatever is       *)
(* pushed and popped.                                                        *)
THEOREM TypeCorrect == Spec => []TypeOK
BY InvTyped, Invariance, PTL

(* Queue implements Deque: every push and pop of the ring buffer does to the *)
(* sequence of its elements what the callers expect, also when it moves them *)
(* to larger or smaller memory (queue.h).                                    *)
THEOREM Refinement == Spec => Abstract!Spec
<1>1. Init => Abstract!Init
  BY InitAbstract
<1>2. IInv /\ [Next]_vars => [Abstract!Next]_(Abstract!vars)
  <2>1. IInv /\ Next => Abstract!Next
    BY StepInvariant
  <2>2. UNCHANGED vars => UNCHANGED Abstract!vars
    BY DEF vars, Abstract!vars
  <2> QED
    BY <2>1, <2>2
<1> QED
  BY <1>1, <1>2, Invariance, PTL DEF Spec, Abstract!Spec

(* After the memory grew the next pop() does not shrink it, after it shrank  *)
(* the next push does not grow it (queue.h).                                 *)
THEOREM ThresholdsApart == Spec => [][NoThrashing]_vars
<1>1. IInv /\ Next => NoThrashing
  BY StepApart
<1> QED
  BY <1>1, Invariance, PTL DEF Spec
=============================================================================
