---------------------------- MODULE SocketLemmas ----------------------------
(***************************************************************************)
(* What the operators of SocketOps do to a socket whose distances stand     *)
(* where packets end: the lemmas that the proofs about stream sockets and   *)
(* about UDP sockets share.                                                 *)
(***************************************************************************)
EXTENDS SocketOps, SequenceTheorems, WellFoundedInduction, TLAPS

\* The sums of distances are handled as a function e that says where the
\* delimiters of a queue d of distances stand, e[0] being the front.
Places(d, e) ==
  /\ e \in [0 .. Len(d) -> Nat] /\ e[0] = 0
  /\ \A k \in 1 .. Len(d) : e[k] = e[k - 1] + d[k]
  /\ \A j, k \in 0 .. Len(d) : j <= k => e[j] <= e[k]

Last(d, e) == e[Len(d)]

\* A set of numbers that is not empty has a least one.
LEMMA LeastNumber ==
  ASSUME NEW W, W \subseteq Nat, W # {}
  PROVE  \E j \in W : \A i \in W : ~(i < j)
<1>1. PICK j \in W : \A i \in W : ~(<<i, j>> \in OpToRel(<, Nat))
  BY NatLessThanWellFounded, WFMin
<1>2. \A i \in W : i < j => <<i, j>> \in OpToRel(<, Nat)
  BY <1>1 DEF OpToRel
<1> QED
  BY <1>1, <1>2

(* The place e gives a delimiter is the sum of distances that DelimAt       *)
(* computes.                                                                *)
LEMMA DelimAtPlace ==
  ASSUME NEW s, NEW e, s.delims \in Seq(Nat), Places(s.delims, e), NEW k \in 0 .. Len(s.delims)
  PROVE  DelimAt(s, k) = e[k]
<1>1. PICK d : d = s.delims
  OBVIOUS
<1>2. e[0] = 0 /\ \A j \in 1 .. k : e[j] = e[j - 1] + d[j]
  BY <1>1 DEF Places
<1> DEFINE Sums(f) == f = [j \in 0 .. k |-> IF j = 0 THEN 0 ELSE f[j - 1] + d[j]]
<1>3. \E f : Sums(f)
  <2>1. PICK f : f = [j \in 0 .. k |-> e[j]]
    OBVIOUS
  <2>2. \A j \in 0 .. k : f[j] = IF j = 0 THEN 0 ELSE f[j - 1] + d[j]
    BY <1>2, <2>1
  <2> QED
    BY <2>1, <2>2
<1>4. ASSUME NEW f, Sums(f) PROVE f[k] = e[k]
  <2>1. \A j \in 0 .. k : f[j] = IF j = 0 THEN 0 ELSE f[j - 1] + d[j]
    BY <1>4
  <2>2. SUFFICES ASSUME f[k] # e[k] PROVE FALSE
    OBVIOUS
  <2>3. PICK W : W = {j \in 0 .. k : f[j] # e[j]}
    OBVIOUS
  <2>4. W \subseteq Nat /\ W # {}
    BY <2>2, <2>3
  <2>5. PICK j \in W : \A i \in W : ~(i < j)
    BY <2>4, LeastNumber
  <2>6. j \in 0 .. k /\ f[j] # e[j]
    BY <2>3
  <2>7. j # 0
    BY <1>2, <2>1, <2>6
  <2>8. j - 1 \in 0 .. k /\ f[j - 1] = e[j - 1]
    <3>1. j - 1 \in 0 .. k /\ j - 1 < j
      BY <2>6, <2>7
    <3>2. j - 1 \notin W
      BY <2>5, <2>6, <3>1
    <3> QED
      BY <2>3, <3>1, <3>2
  <2> QED
    BY <1>2, <2>1, <2>6, <2>7, <2>8
<1>5. DelimAt(s, k) = (CHOOSE f : Sums(f))[k]
  BY <1>1 DEF DelimAt
<1>6. Sums(CHOOSE f : Sums(f))
  BY <1>3
<1> HIDE DEF Sums
<1> QED
  BY <1>4, <1>5, <1>6

\* A delimiter is added at the end, c bytes after the last one.
PlacesAppended(d, e, c) == [k \in 0 .. Len(d) + 1 |-> IF k <= Len(d) THEN e[k] ELSE e[Len(d)] + c]

\* A delimiter appended stands its distance behind the last one.
LEMMA PlaceAppended ==
  ASSUME NEW d \in Seq(Nat), NEW e, Places(d, e), NEW c \in Nat
  PROVE  /\ Places(Append(d, c), PlacesAppended(d, e, c)) /\ Append(d, c) \in Seq(Nat)
         /\ Len(Append(d, c)) = Len(d) + 1
<1>1. PICK n \in Nat : n = Len(d)
  OBVIOUS
<1>2. PICK f : f = PlacesAppended(d, e, c) /\ f = [k \in 0 .. n + 1 |-> IF k <= n THEN e[k] ELSE e[n] + c]
  BY <1>1 DEF PlacesAppended
<1>3. PICK b : b = Append(d, c)
  OBVIOUS
<1>4. b \in Seq(Nat) /\ Len(b) = n + 1 /\ b[n + 1] = c /\ \A k \in 1 .. n : b[k] = d[k]
  BY <1>1, <1>3
<1>5. \A k \in 0 .. n : f[k] = e[k] /\ e[k] \in Nat
  <2>1. \A k \in 0 .. n : e[k] \in Nat
    BY <1>1 DEF Places
  <2> QED
    BY <1>2, <2>1
<1>6. f[n + 1] = e[n] + c
  BY <1>2
<1>7. f \in [0 .. n + 1 -> Nat] /\ f[0] = 0
  <2>1. \A k \in 0 .. n + 1 : (IF k <= n THEN e[k] ELSE e[n] + c) \in Nat
    BY <1>5
  <2>2. e[0] = 0
    BY DEF Places
  <2> QED
    BY <1>2, <1>5, <2>1, <2>2
<1>8. \A k \in 1 .. n + 1 : f[k] = f[k - 1] + b[k]
  <2> SUFFICES ASSUME NEW k \in 1 .. n + 1 PROVE f[k] = f[k - 1] + b[k]
    OBVIOUS
  <2>1. CASE k = n + 1
    BY <1>4, <1>5, <1>6, <2>1
  <2>2. CASE k # n + 1
    <3>1. k \in 1 .. n /\ k - 1 \in 0 .. n /\ k \in 0 .. n
      BY <2>2
    <3> QED
      BY <1>1, <1>4, <1>5, <3>1 DEF Places
  <2> QED
    BY <2>1, <2>2
<1>9. \A j, k \in 0 .. n + 1 : j <= k => f[j] <= f[k]
  <2>1. \A j \in 0 .. n : e[j] <= e[n]
    BY <1>1 DEF Places
  <2>2. \A j, k \in 0 .. n : j <= k => f[j] <= f[k]
    BY <1>1, <1>5 DEF Places
  <2>3. \A j \in 0 .. n + 1 : j = n + 1 \/ j \in 0 .. n
    OBVIOUS
  <2>4. \A j \in 0 .. n : f[j] <= f[n + 1]
    BY <1>5, <1>6, <2>1
  <2>5. f[n + 1] <= f[n + 1] /\ \A k \in 0 .. n : ~(n + 1 <= k)
    BY <1>7
  <2> QED
    BY <2>2, <2>3, <2>4, <2>5
<1> QED
  BY <1>1, <1>2, <1>3, <1>4, <1>7, <1>8, <1>9 DEF Places

\* A delimiter in front is dropped.
LEMMA PlacePopped ==
  ASSUME NEW d \in Seq(Nat), NEW e, Places(d, e), d # <<>>, Head(d) = 0
  PROVE  LET f == [k \in 0 .. Len(d) - 1 |-> e[k + 1]]
         IN  Places(Tail(d), f) /\ Tail(d) \in Seq(Nat) /\ Len(Tail(d)) = Len(d) - 1
             /\ \A k \in 1 .. Len(d) - 1 : Tail(d)[k] = d[k + 1]
<1>1. PICK l \in Nat : l = Len(d) - 1
  OBVIOUS
<1>2. PICK f : f = [k \in 0 .. l |-> e[k + 1]]
  OBVIOUS
<1>3. PICK c : c = Tail(d)
  OBVIOUS
<1>4. c \in Seq(Nat) /\ Len(c) = l /\ (\A k \in 1 .. l : c[k] = d[k + 1]) /\ d[1] = 0
  BY <1>1, <1>3
<1>5. /\ e[0] = 0 /\ \A k \in 0 .. l + 1 : e[k] \in Nat
      /\ \A k \in 1 .. l + 1 : e[k] = e[k - 1] + d[k]
      /\ \A j, k \in 0 .. l + 1 : j <= k => e[j] <= e[k]
  BY <1>1 DEF Places
<1>6. e[1] = 0
  <2>1. 1 \in 1 .. l + 1 /\ 1 - 1 = 0
    OBVIOUS
  <2> QED
    BY <1>4, <1>5, <2>1
<1>7. f[0] = 0 /\ f \in [0 .. l -> Nat] /\ \A k \in 0 .. l : f[k] = e[k + 1]
  BY <1>2, <1>5, <1>6
<1>8. \A k \in 1 .. l : f[k] = f[k - 1] + c[k]
  <2> SUFFICES ASSUME NEW k \in 1 .. l PROVE f[k] = f[k - 1] + c[k]
    OBVIOUS
  <2>1. k + 1 \in 1 .. l + 1 /\ k - 1 \in 0 .. l /\ k \in 0 .. l /\ (k + 1) - 1 = k /\ (k - 1) + 1 = k
    OBVIOUS
  <2>2. e[k + 1] = e[k] + d[k + 1]
    BY <1>5, <2>1
  <2> QED
    BY <1>4, <1>7, <2>1, <2>2
<1>9. \A j, k \in 0 .. l : j <= k => f[j] <= f[k]
  <2> SUFFICES ASSUME NEW j \in 0 .. l, NEW k \in 0 .. l, j <= k PROVE f[j] <= f[k]
    OBVIOUS
  <2>1. j + 1 \in 0 .. l + 1 /\ k + 1 \in 0 .. l + 1 /\ j + 1 <= k + 1
    OBVIOUS
  <2> QED
    BY <1>5, <1>7, <2>1
<1> QED
  BY <1>1, <1>2, <1>3, <1>4, <1>7, <1>8, <1>9 DEF Places

\* PopDelim() and the counting down of a read, on the distances alone.
Socket(data, d, since) == [data |-> data, delims |-> d, sinceLastDelim |-> since]
Popped(d) == IF d # <<>> /\ Head(d) = 0 THEN Tail(d) ELSE d
Cut(d, n) == IF d = <<>> THEN <<>> ELSE [d EXCEPT ![1] = @ - n]
PoppedPlaces(d, e) == IF d # <<>> /\ Head(d) = 0 THEN [k \in 0 .. Len(d) - 1 |-> e[k + 1]] ELSE e
CutPlaces(d, e, n) == IF d = <<>> THEN e ELSE [k \in 0 .. Len(d) |-> IF k = 0 THEN 0 ELSE e[k] - n]

\* popDelim() drops the delimiters at distance zero and nothing else.
LEMMA PopDelimIs ==
  ASSUME NEW data, NEW d, NEW since
  PROVE  PopDelim(Socket(data, d, since)) = Socket(data, Popped(d), since)
<1>1. CASE d # <<>> /\ Head(d) = 0
  BY <1>1 DEF PopDelim, AtDelim, Socket, Popped
<1>2. CASE ~(d # <<>> /\ Head(d) = 0)
  BY <1>2 DEF PopDelim, AtDelim, Socket, Popped
<1> QED
  BY <1>1, <1>2

\* read() in full: pop, count what is available, take it, pop again.
LEMMA ReadIs ==
  ASSUME NEW data, NEW d, NEW since, NEW max
  PROVE  LET b == Popped(d)
             n == Available(Socket(data, b, since), max)
             left == Socket(SubSeq(data, n + 1, Len(data)), Cut(b, n),
                            since - (IF b = <<>> THEN n ELSE 0))
         IN  ReadFrom(Socket(data, d, since), max) =
               [s |-> PopDelim(left), bytes |-> SubSeq(data, 1, n), atDelim |-> AtDelim(left)]
<1>1. PICK t : t = PopDelim(Socket(data, d, since))
  OBVIOUS
<1>2. t = Socket(data, Popped(d), since)
  BY <1>1, PopDelimIs
<1>3. t.data = data /\ t.delims = Popped(d) /\ t.sinceLastDelim = since
  BY <1>2 DEF Socket
<1>4. PICK b : b = Popped(d)
  OBVIOUS
<1>5. PICK n : n = Available(Socket(data, b, since), max)
  OBVIOUS
<1>6. PICK left : left = Socket(SubSeq(data, n + 1, Len(data)), Cut(b, n), since - (IF b = <<>> THEN n ELSE 0))
  OBVIOUS
<1>7. Cut(b, n) = IF b = <<>> THEN <<>> ELSE [b EXCEPT ![1] = @ - n]
  BY DEF Cut
<1>8. n = Available(t, max)
  BY <1>2, <1>4, <1>5
<1>9. left = [data |-> SubSeq(t.data, n + 1, Len(t.data)),
              delims |-> IF t.delims = <<>> THEN <<>> ELSE [t.delims EXCEPT ![1] = @ - n],
              sinceLastDelim |-> t.sinceLastDelim - (IF t.delims = <<>> THEN n ELSE 0)]
  BY <1>3, <1>4, <1>6, <1>7 DEF Socket
<1>10. ReadFrom(Socket(data, d, since), max) =
         [s |-> PopDelim(left), bytes |-> SubSeq(t.data, 1, n), atDelim |-> AtDelim(left)]
  BY <1>1, <1>8, <1>9 DEF ReadFrom
<1> QED
  BY <1>3, <1>4, <1>5, <1>6, <1>10

(* Delimiters at the front stand at no byte: popping them moves no other    *)
(* place.                                                                   *)
LEMMA PoppedIs ==
  ASSUME NEW d \in Seq(Nat), NEW e, Places(d, e)
  PROVE  /\ Popped(d) \in Seq(Nat) /\ Places(Popped(d), PoppedPlaces(d, e))
         /\ Last(Popped(d), PoppedPlaces(d, e)) = Last(d, e)
<1>1. CASE d # <<>> /\ Head(d) = 0
  <2>1. PICK f : f = [k \in 0 .. Len(d) - 1 |-> e[k + 1]]
    OBVIOUS
  <2>2. Popped(d) = Tail(d) /\ PoppedPlaces(d, e) = f
    BY <1>1, <2>1 DEF Popped, PoppedPlaces
  <2>3. Places(Tail(d), f) /\ Tail(d) \in Seq(Nat) /\ Len(Tail(d)) = Len(d) - 1
    BY <1>1, <2>1, PlacePopped
  <2>4. Len(d) - 1 \in 0 .. Len(d) - 1 /\ (Len(d) - 1) + 1 = Len(d)
    BY <1>1
  <2>5. f[Len(d) - 1] = e[Len(d)]
    BY <2>1, <2>4
  <2> QED
    BY <2>2, <2>3, <2>5 DEF Last
<1>2. CASE ~(d # <<>> /\ Head(d) = 0)
  BY <1>2 DEF Popped, PoppedPlaces
<1> QED
  BY <1>1, <1>2

\* n bytes before the first delimiter are taken away.
LEMMA PlaceCut ==
  ASSUME NEW d \in Seq(Nat), NEW e, Places(d, e), d # <<>>, NEW n \in Nat, n <= d[1]
  PROVE  /\ Places(Cut(d, n), CutPlaces(d, e, n)) /\ Cut(d, n) \in Seq(Nat)
         /\ Len(Cut(d, n)) = Len(d) /\ Cut(d, n)[1] = d[1] - n
         /\ \A k \in 2 .. Len(d) : Cut(d, n)[k] = d[k]
         /\ \A k \in 1 .. Len(d) : CutPlaces(d, e, n)[k] = e[k] - n
<1>1. PICK l \in Nat \ {0} : l = Len(d)
  OBVIOUS
<1>2. PICK f : f = CutPlaces(d, e, n) /\ f = [k \in 0 .. l |-> IF k = 0 THEN 0 ELSE e[k] - n]
  BY <1>1 DEF CutPlaces
<1>3. PICK c : c = Cut(d, n) /\ c = [d EXCEPT ![1] = @ - n]
  BY DEF Cut
<1>4. d[1] \in Nat /\ d[1] - n \in Nat
  BY <1>1
<1>5. c \in Seq(Nat) /\ Len(c) = l /\ c[1] = d[1] - n /\ \A k \in 2 .. l : c[k] = d[k]
  BY <1>1, <1>3, <1>4
<1>6. /\ e[0] = 0 /\ \A k \in 0 .. l : e[k] \in Nat
      /\ \A k \in 1 .. l : e[k] = e[k - 1] + d[k]
      /\ \A j, k \in 0 .. l : j <= k => e[j] <= e[k]
  BY <1>1 DEF Places
<1>7. e[1] = d[1]
  <2>1. 1 \in 1 .. l /\ 1 - 1 = 0
    OBVIOUS
  <2> QED
    BY <1>4, <1>6, <2>1
<1>8. f[0] = 0 /\ \A k \in 1 .. l : f[k] = e[k] - n /\ f[k] \in Nat
  <2>1. \A k \in 1 .. l : e[1] <= e[k] /\ e[k] \in Nat
    BY <1>6
  <2> QED
    BY <1>2, <1>4, <1>7, <2>1
<1>9. f \in [0 .. l -> Nat]
  BY <1>2, <1>8
<1>10. \A k \in 1 .. l : f[k] = f[k - 1] + c[k]
  <2> SUFFICES ASSUME NEW k \in 1 .. l PROVE f[k] = f[k - 1] + c[k]
    OBVIOUS
  <2>1. CASE k = 1
    BY <1>4, <1>5, <1>7, <1>8, <2>1
  <2>2. CASE k # 1
    <3>1. k - 1 \in 1 .. l /\ k \in 2 .. l /\ d[k] \in Nat /\ k - 1 \in 0 .. l
      BY <1>1, <2>2
    <3>2. f[k] = e[k] - n /\ f[k - 1] = e[k - 1] - n /\ c[k] = d[k] /\ e[k] = e[k - 1] + d[k]
      BY <1>5, <1>6, <1>8, <3>1
    <3> QED
      BY <1>6, <3>1, <3>2
  <2> QED
    BY <2>1, <2>2
<1>11. \A j, k \in 0 .. l : j <= k => f[j] <= f[k]
  <2> SUFFICES ASSUME NEW j \in 0 .. l, NEW k \in 0 .. l, j <= k PROVE f[j] <= f[k]
    OBVIOUS
  <2>1. CASE j = 0
    BY <1>8, <1>9, <2>1
  <2>2. CASE j # 0
    <3>1. PICK x, y \in Nat : x = e[j] /\ y = e[k] /\ x <= y
      BY <1>6, <2>2
    <3>2. j \in 1 .. l /\ k \in 1 .. l
      BY <2>2
    <3>3. f[j] = x - n /\ f[k] = y - n
      BY <1>8, <3>1, <3>2
    <3> QED
      BY <3>1, <3>3
  <2> QED
    BY <2>1, <2>2
<1> QED
  BY <1>1, <1>2, <1>3, <1>5, <1>8, <1>9, <1>10, <1>11 DEF Places

\* Taking n bytes brings every delimiter n nearer, and there may be none.
LEMMA CutIs ==
  ASSUME NEW d \in Seq(Nat), NEW e, Places(d, e), NEW n \in Nat, d # <<>> => n <= d[1]
  PROVE  /\ Cut(d, n) \in Seq(Nat) /\ Len(Cut(d, n)) = Len(d) /\ Places(Cut(d, n), CutPlaces(d, e, n))
         /\ d = <<>> => Cut(d, n) = <<>> /\ CutPlaces(d, e, n) = e /\ Last(d, e) = 0
         /\ d # <<>> =>
              /\ Cut(d, n) # <<>> /\ Cut(d, n)[1] = d[1] - n
              /\ \A k \in 2 .. Len(d) : Cut(d, n)[k] = d[k]
              /\ Last(Cut(d, n), CutPlaces(d, e, n)) = Last(d, e) - n
<1>1. CASE d = <<>>
  BY <1>1 DEF Cut, CutPlaces, Last, Places
<1>2. CASE d # <<>>
  <2>1. n <= d[1]
    BY <1>2
  <2>2. /\ Places(Cut(d, n), CutPlaces(d, e, n)) /\ Cut(d, n) \in Seq(Nat)
        /\ Len(Cut(d, n)) = Len(d) /\ Cut(d, n)[1] = d[1] - n
        /\ \A k \in 2 .. Len(d) : Cut(d, n)[k] = d[k]
        /\ \A k \in 1 .. Len(d) : CutPlaces(d, e, n)[k] = e[k] - n
    BY <1>2, <2>1, PlaceCut
  <2>3. Len(d) \in 1 .. Len(d) /\ Cut(d, n) # <<>>
    BY <1>2, <2>2
  <2> QED
    BY <1>2, <2>2, <2>3 DEF Last
<1> QED
  BY <1>1, <1>2

\* No two delimiters stand at the same place, and they are where packets end.
Marked(data, d, since, e) ==
  /\ Places(d, e) /\ \A k \in 1 .. Len(d) : d[k] > 0
  /\ \A i \in 1 .. Len(data) : data[i].last <=> \E k \in 1 .. Len(d) : e[k] = i
  /\ Last(d, e) + since = Len(data)

\* What is available is in the queue and does not pass the first delimiter.
LEMMA AvailableIs ==
  ASSUME NEW S, NEW data \in Seq(S), NEW d \in Seq(Nat), NEW since, NEW max \in Nat
  PROVE  LET n == Available(Socket(data, d, since), max)
         IN  n \in 0 .. Len(data) /\ (d # <<>> => n <= d[1])
<1>1. d # <<>> => Head(d) = d[1] /\ d[1] \in Nat
  OBVIOUS
<1> QED
  BY <1>1 DEF Available, Socket, Min2

\* The first delimiter stands behind a byte, and before all others.
LEMMA MarkedFirst ==
  ASSUME NEW data \in Seq(Byte), NEW d \in Seq(Nat), NEW since \in Nat, NEW e,
         Marked(data, d, since, e)
  PROVE  /\ e[0] = 0 /\ \A k \in 0 .. Len(d) : e[k] \in Nat
         /\ d # <<>> => d[1] \in Nat \ {0} /\ e[1] = d[1] /\ \A k \in 1 .. Len(d) : e[1] <= e[k]
         /\ \A k \in 2 .. Len(d) : e[1] < e[k]
<1>1. e[0] = 0 /\ \A k \in 0 .. Len(d) : e[k] \in Nat
  BY DEF Marked, Places
<1>2. d # <<>> => 1 \in 1 .. Len(d) /\ 1 \in 0 .. Len(d) /\ 1 - 1 = 0 /\ d[1] \in Nat
  OBVIOUS
<1>3. d # <<>> => e[1] = e[0] + d[1]
  BY <1>2 DEF Marked, Places
<1>4. d # <<>> => e[1] = d[1] /\ d[1] > 0
  BY <1>1, <1>2, <1>3 DEF Marked
<1>5. d # <<>> => \A k \in 1 .. Len(d) : e[1] <= e[k]
  BY <1>2 DEF Marked, Places
<1>6. ASSUME NEW k \in 2 .. Len(d) PROVE e[1] < e[k]
  <2>1. k - 1 \in 1 .. Len(d) /\ k \in 1 .. Len(d) /\ d # <<>> /\ k - 1 \in 0 .. Len(d)
    OBVIOUS
  <2>4. e[k - 1] \in Nat /\ e[1] \in Nat /\ d[k] \in Nat
    BY <1>1, <1>2, <2>1
  <2>2. PICK x, y, w \in Nat : x = e[k - 1] /\ y = e[1] /\ w = d[k]
    BY <2>4
  <2>3. e[k] = x + w /\ y <= x /\ w > 0
    BY <1>5, <2>1, <2>2 DEF Marked, Places
  <2> QED
    BY <2>2, <2>3
<1> QED
  BY <1>1, <1>2, <1>4, <1>5, <1>6

\* The bytes before the first delimiter end no packet, the one in front of it does.
LEMMA MarkedFront ==
  ASSUME NEW data \in Seq(Byte), NEW d \in Seq(Nat), NEW since \in Nat, NEW e,
         Marked(data, d, since, e), NEW n \in 0 .. Len(data), d # <<>> => n <= d[1],
         NEW i \in 1 .. n
  PROVE  data[i].last <=> d # <<>> /\ d[1] = n /\ i = n
<1>1. data[i].last <=> \E k \in 1 .. Len(d) : e[k] = i
  BY DEF Marked
<1>2. /\ d # <<>> => d[1] \in Nat \ {0} /\ e[1] = d[1] /\ \A k \in 1 .. Len(d) : e[1] <= e[k]
      /\ \A k \in 0 .. Len(d) : e[k] \in Nat
  BY MarkedFirst
<1>3. CASE d = <<>>
  BY <1>1, <1>3
<1>4. CASE d # <<>>
  <2>1. 1 \in 1 .. Len(d)
    BY <1>4
  <2>2. ASSUME NEW k \in 1 .. Len(d), e[k] = i PROVE i = n /\ d[1] = n
    BY <1>2, <1>4, <2>2
  <2> QED
    BY <1>1, <1>2, <1>4, <2>1, <2>2
<1> QED
  BY <1>3, <1>4

\* What is left after n bytes: of the data, and of the delimiters if they reach
\* the first one and if they do not.
Rest(rest, data, n) ==
  rest \in Seq(Byte) /\ Len(rest) = Len(data) - n /\ \A i \in 1 .. Len(rest) : rest[i] = data[i + n]
Reached(c, g, d, e, n) ==
  /\ c \in Seq(Nat) /\ Len(c) = Len(d) - 1 /\ \A k \in 1 .. Len(c) : c[k] = d[k + 1]
  /\ \A k \in 0 .. Len(c) : g[k] = e[k + 1] - n
Before(c, g, d, e, n) ==
  /\ c \in Seq(Nat) /\ Len(c) = Len(d) /\ (d # <<>> => c[1] = d[1] - n)
  /\ \A k \in 2 .. Len(d) : c[k] = d[k]
  /\ \A k \in 1 .. Len(d) : g[k] = e[k] - n

\* The bytes left are those behind the ones taken.
LEMMA RestIs ==
  ASSUME NEW data \in Seq(Byte), NEW n \in 0 .. Len(data), NEW rest, Rest(rest, data, n),
         NEW i \in 1 .. Len(rest)
  PROVE  i + n \in 1 .. Len(data) /\ rest[i] = data[i + n]
<1>1. Len(rest) = Len(data) - n /\ rest[i] = data[i + n]
  BY DEF Rest
<1>2. Len(data) \in Nat
  OBVIOUS
<1> QED
  BY <1>1, <1>2

\* The bytes at the front of a queue.
LEMMA PrefixIs ==
  ASSUME NEW S, NEW data \in Seq(S), NEW n \in 0 .. Len(data)
  PROVE  /\ SubSeq(data, 1, n) \in Seq(S) /\ Len(SubSeq(data, 1, n)) = n
         /\ \A i \in 1 .. n : SubSeq(data, 1, n)[i] = data[i]
OBVIOUS

\* Once the first delimiter is reached, the others mark what is left.
LEMMA MarkedReached ==
  ASSUME NEW data \in Seq(Byte), NEW d \in Seq(Nat), NEW since \in Nat, NEW e,
         Marked(data, d, since, e), d # <<>>, NEW n \in 0 .. Len(data), n = d[1],
         NEW rest, Rest(rest, data, n), NEW c, NEW g, Reached(c, g, d, e, n)
  PROVE  /\ \A k \in 1 .. Len(c) : c[k] > 0
         /\ \A i \in 1 .. Len(rest) : rest[i].last <=> \E k \in 1 .. Len(c) : g[k] = i
<1>1. e[0] = 0 /\ e[1] = n /\ \A k \in 0 .. Len(d) : e[k] \in Nat
  BY MarkedFirst
<1>2. PICK l \in Nat : l = Len(c) /\ l + 1 = Len(d)
  BY DEF Reached
<1>3. ASSUME NEW k \in 1 .. l PROVE c[k] > 0
  <2>1. k + 1 \in 1 .. Len(d) /\ c[k] = d[k + 1]
    BY <1>2 DEF Reached
  <2> QED
    BY <2>1 DEF Marked
<1>4. ASSUME NEW k \in 1 .. Len(d), k # 1 PROVE k - 1 \in 1 .. l /\ g[k - 1] = e[k] - n
  <2>1. k - 1 \in 1 .. l /\ k - 1 \in 0 .. l /\ (k - 1) + 1 = k
    BY <1>2, <1>4
  <2>2. \A j \in 0 .. l : g[j] = e[j + 1] - n
    BY <1>2 DEF Reached
  <2> QED
    BY <2>1, <2>2
<1>5. ASSUME NEW i \in 1 .. Len(rest)
      PROVE  rest[i].last <=> \E k \in 1 .. l : g[k] = i
  <2>1. i + n \in 1 .. Len(data) /\ rest[i] = data[i + n]
    BY RestIs
  <2>2. rest[i].last <=> \E k \in 1 .. Len(d) : e[k] = i + n
    BY <2>1 DEF Marked
  <2>3. i \in Nat \ {0} /\ n \in Nat
    BY DEF Rest
  <2>4. ASSUME NEW k \in 1 .. Len(d), e[k] = i + n PROVE \E j \in 1 .. l : g[j] = i
    <3>1. k # 1
      BY <1>1, <2>3, <2>4
    <3>2. k - 1 \in 1 .. l /\ g[k - 1] = e[k] - n
      BY <1>4, <3>1
    <3>3. g[k - 1] = i
      BY <2>3, <2>4, <3>2
    <3> QED
      BY <3>2, <3>3
  <2>5. ASSUME NEW k \in 1 .. l, g[k] = i PROVE \E j \in 1 .. Len(d) : e[j] = i + n
    <3>1. PICK j \in 1 .. Len(d) : j = k + 1 /\ j # 1 /\ j - 1 = k
      BY <1>2
    <3>2. PICK x \in Nat : x = e[j]
      BY <1>1
    <3>3. i = x - n
      BY <1>4, <2>5, <3>1, <3>2
    <3>4. x = i + n
      BY <2>3, <3>2, <3>3
    <3> QED
      BY <3>2, <3>4
  <2> QED
    BY <2>2, <2>4, <2>5
<1> QED
  BY <1>2, <1>3, <1>5

\* Before it is reached, all of them mark what is left.
LEMMA MarkedBefore ==
  ASSUME NEW data \in Seq(Byte), NEW d \in Seq(Nat), NEW since \in Nat, NEW e,
         Marked(data, d, since, e), NEW n \in 0 .. Len(data), d # <<>> => n < d[1],
         NEW rest, Rest(rest, data, n), NEW c, NEW g, Before(c, g, d, e, n)
  PROVE  /\ \A k \in 1 .. Len(c) : c[k] > 0
         /\ \A i \in 1 .. Len(rest) : rest[i].last <=> \E k \in 1 .. Len(c) : g[k] = i
<1>1. \A k \in 0 .. Len(d) : e[k] \in Nat
  BY MarkedFirst
<1>2. Len(c) = Len(d) /\ Len(d) \in Nat /\ n \in Nat
  BY DEF Before
<1>3. ASSUME NEW k \in 1 .. Len(d) PROVE c[k] > 0
  <2>1. d # <<>> /\ d[1] \in Nat
    BY <1>2
  <2>2. CASE k = 1
    BY <1>2, <2>1, <2>2 DEF Before
  <2>3. CASE k # 1
    <3>1. k \in 2 .. Len(d)
      BY <1>2, <2>3
    <3>2. c[k] = d[k]
      BY <3>1 DEF Before
    <3> QED
      BY <3>2 DEF Marked
  <2> QED
    BY <2>2, <2>3
<1>4. ASSUME NEW i \in 1 .. Len(rest)
      PROVE  rest[i].last <=> \E k \in 1 .. Len(d) : g[k] = i
  <2>1. i + n \in 1 .. Len(data) /\ rest[i] = data[i + n]
    BY RestIs
  <2>2. rest[i].last <=> \E k \in 1 .. Len(d) : e[k] = i + n
    BY <2>1 DEF Marked
  <2>3. i \in Nat
    BY DEF Rest
  <2>4. ASSUME NEW k \in 1 .. Len(d) PROVE e[k] = i + n <=> g[k] = i
    <3>1. PICK x \in Nat : x = e[k]
      BY <1>1, <1>2
    <3>2. g[k] = x - n
      BY <3>1 DEF Before
    <3>3. x = i + n <=> x - n = i
      BY <1>2, <2>3
    <3> QED
      BY <3>1, <3>2, <3>3, Zenon
  <2> QED
    BY <2>2, <2>4
<1> QED
  BY <1>2, <1>3, <1>4

\* What a read takes from a socket, and what stays.
Takes(r, data, d, since, e) ==
  \E n \in 0 .. Len(data), left \in Nat : \E rest, c, g :
    /\ r.s = Socket(rest, c, left) /\ r.bytes = SubSeq(data, 1, n)
    /\ Rest(rest, data, n) /\ Marked(rest, c, left, g) /\ c \in Seq(Nat)
    /\ d # <<>> => n <= d[1]
    /\ r.atDelim <=> d # <<>> /\ d[1] = n
    /\ r.atDelim => n # 0 /\ Reached(c, g, d, e, n)
    /\ ~r.atDelim => Before(c, g, d, e, n)
    /\ left = since - (IF d = <<>> THEN n ELSE 0)

\* What a read does to a socket whose delimiters stand where packets end.
LEMMA MarkedRead ==
  ASSUME NEW data \in Seq(Byte), NEW d \in Seq(Nat), NEW since \in Nat, NEW e,
         Marked(data, d, since, e), NEW max \in Nat, NEW r,
         r = ReadFrom(Socket(data, d, since), max)
  PROVE  Takes(r, data, d, since, e)
<1>1. Places(d, e) /\ Last(d, e) + since = Len(data)
  BY DEF Marked
<1>2. d # <<>> => Head(d) = d[1] /\ d[1] \in Nat \ {0} /\ 1 \in 1 .. Len(d)
  <2>1. d # <<>> => d[1] \in Nat \ {0}
    BY MarkedFirst
  <2> QED
    BY <2>1
<1>3. Popped(d) = d
  BY <1>2 DEF Popped
<1>4. PICK n : n = Available(Socket(data, d, since), max)
  OBVIOUS
<1>5. n \in 0 .. Len(data) /\ (d # <<>> => n <= d[1])
  BY <1>4, AvailableIs
<1>6. PICK t : t = Cut(d, n)
  OBVIOUS
<1>7. PICK f : f = CutPlaces(d, e, n)
  OBVIOUS
<1>8. /\ t \in Seq(Nat) /\ Len(t) = Len(d) /\ Places(t, f)
      /\ d = <<>> => t = <<>> /\ f = e /\ Last(d, e) = 0
      /\ d # <<>> => t # <<>> /\ t[1] = d[1] - n /\ Last(t, f) = Last(d, e) - n
                     /\ \A k \in 2 .. Len(d) : t[k] = d[k]
  BY <1>1, <1>5, <1>6, <1>7, CutIs
<1>9. \A k \in 1 .. Len(d) : f[k] = e[k] - n
  <2>1. CASE d = <<>>
    BY <2>1
  <2>2. CASE d # <<>>
    BY <1>7, <2>2 DEF CutPlaces
  <2> QED
    BY <2>1, <2>2
<1>10. PICK rest : rest = SubSeq(data, n + 1, Len(data))
  OBVIOUS
<1>11. Rest(rest, data, n)
  <2>1. rest \in Seq(Byte) /\ Len(rest) = Len(data) - n
    BY <1>5, <1>10
  <2>2. \A i \in 1 .. Len(rest) : rest[i] = data[i + n]
    BY <1>5, <1>10, <2>1
  <2> QED
    BY <2>1, <2>2 DEF Rest
<1>12. PICK left : left = since - (IF d = <<>> THEN n ELSE 0)
  OBVIOUS
<1>13. Last(d, e) \in Nat
  BY <1>1 DEF Places, Last
<1>14. left \in Nat /\ Last(t, f) + left = Len(rest)
  <2>1. Len(rest) = Len(data) - n
    BY <1>11 DEF Rest
  <2>2. CASE d = <<>>
    <3>1. Last(t, f) = 0 /\ since = Len(data) /\ left = since - n
      BY <1>1, <1>8, <1>12, <2>2
    <3> QED
      BY <1>5, <2>1, <3>1
  <2>3. CASE d # <<>>
    <3>1. Last(t, f) = Last(d, e) - n /\ left = since
      BY <1>8, <1>12, <2>3
    <3> QED
      BY <1>1, <1>5, <1>13, <2>1, <3>1
  <2> QED
    BY <2>2, <2>3
<1>15. PICK z : z = Socket(rest, t, left)
  OBVIOUS
<1>16. r = [s |-> PopDelim(z), bytes |-> SubSeq(data, 1, n), atDelim |-> AtDelim(z)]
  BY <1>3, <1>4, <1>6, <1>10, <1>12, <1>15, ReadIs
<1>17. PICK c, g : c = Popped(t) /\ g = PoppedPlaces(t, f)
  OBVIOUS
<1>18. r.s = Socket(rest, c, left) /\ r.bytes = SubSeq(data, 1, n)
  <2>1. PopDelim(z) = Socket(rest, c, left)
    BY <1>15, <1>17, PopDelimIs
  <2>2. r.s = PopDelim(z)
    BY <1>16
  <2>4. PICK b : b = SubSeq(data, 1, n)
    OBVIOUS
  <2>5. r = [s |-> PopDelim(z), bytes |-> b, atDelim |-> AtDelim(z)]
    BY <1>16, <2>4
  <2>3. r.bytes = b
    BY <2>5
  <2> QED
    BY <2>1, <2>2, <2>3, <2>4
<1>19. c \in Seq(Nat) /\ Places(c, g) /\ Last(c, g) = Last(t, f)
  BY <1>8, <1>17, PoppedIs
<1>20. t # <<>> => Head(t) = t[1]
  BY <1>8
<1>21. r.atDelim <=> d # <<>> /\ d[1] = n
  <2>4. z.delims = t
    BY <1>15 DEF Socket
  <2>5. r.atDelim = AtDelim(z)
    BY <1>16
  <2>1. r.atDelim <=> t # <<>> /\ Head(t) = 0
    BY <2>4, <2>5 DEF AtDelim
  <2>2. t # <<>> <=> d # <<>>
    BY <1>8
  <2>3. d # <<>> => (Head(t) = 0 <=> d[1] = n)
    BY <1>2, <1>5, <1>8, <1>20
  <2> QED
    BY <2>1, <2>2, <2>3
<1>22. CASE r.atDelim
  <2>1. d # <<>> /\ d[1] = n /\ t # <<>> /\ Head(t) = 0 /\ n # 0
    BY <1>2, <1>5, <1>8, <1>20, <1>21, <1>22
  <2>2. c = Tail(t) /\ g = [k \in 0 .. Len(t) - 1 |-> f[k + 1]]
    BY <1>17, <2>1 DEF Popped, PoppedPlaces
  <2>10. Len(d) \in Nat \ {0} /\ Len(t) = Len(d)
    BY <1>8, <2>1
  <2>3. PICK l \in Nat : l + 1 = Len(d) /\ l = Len(t) - 1
    BY <2>10
  <2>4. Len(c) = l /\ \A k \in 1 .. l : c[k] = t[k + 1]
    BY <1>8, <2>1, <2>2, <2>3
  <2>5. \A k \in 1 .. l : c[k] = d[k + 1]
    <3>1. \A k \in 1 .. l : k + 1 \in 2 .. Len(d)
      BY <2>3
    <3> QED
      BY <1>8, <2>1, <2>4, <3>1
  <2>6. \A k \in 0 .. l : g[k] = e[k + 1] - n
    <3>1. \A k \in 0 .. l : k + 1 \in 1 .. Len(d)
      BY <2>3
    <3>2. g = [k \in 0 .. l |-> f[k + 1]]
      BY <2>2, <2>3
    <3> QED
      BY <1>9, <3>1, <3>2
  <2>7. Reached(c, g, d, e, n)
    <3>1. l = Len(d) - 1
      BY <2>3
    <3> QED
      BY <1>19, <2>4, <2>5, <2>6, <3>1 DEF Reached
  <2>8. /\ \A k \in 1 .. Len(c) : c[k] > 0
        /\ \A i \in 1 .. Len(rest) : rest[i].last <=> \E k \in 1 .. Len(c) : g[k] = i
    BY <1>5, <1>11, <2>1, <2>7, MarkedReached
  <2>9. Marked(rest, c, left, g)
    BY <1>14, <1>19, <2>8 DEF Marked
  <2> QED
    BY <1>5, <1>11, <1>12, <1>14, <1>18, <1>19, <1>21, <1>22, <2>1, <2>7, <2>9 DEF Takes
<1>23. CASE ~r.atDelim
  <2>1. d # <<>> => n < d[1]
    BY <1>2, <1>5, <1>21, <1>23
  <2>2. t # <<>> => Head(t) # 0
    BY <1>2, <1>5, <1>8, <1>20, <2>1
  <2>3. c = t /\ g = f
    BY <1>17, <2>2 DEF Popped, PoppedPlaces
  <2>4. \A k \in 2 .. Len(d) : t[k] = d[k]
    <3>1. \A k \in 2 .. Len(d) : d # <<>>
      OBVIOUS
    <3> QED
      BY <1>8, <3>1
  <2>5. Before(c, g, d, e, n)
    BY <1>8, <1>9, <2>3, <2>4 DEF Before
  <2>6. /\ \A k \in 1 .. Len(c) : c[k] > 0
        /\ \A i \in 1 .. Len(rest) : rest[i].last <=> \E k \in 1 .. Len(c) : g[k] = i
    BY <1>5, <1>11, <2>1, <2>5, MarkedBefore
  <2>7. Marked(rest, c, left, g)
    BY <1>14, <1>19, <2>6 DEF Marked
  <2> QED
    BY <1>5, <1>11, <1>12, <1>14, <1>18, <1>19, <1>21, <1>23, <2>5, <2>7 DEF Takes
<1> QED
  BY <1>22, <1>23

\* Bytes are added: some of a packet, or one to its end and its delimiter.
Joined(all, data, more) ==
  /\ Len(all) = Len(data) + Len(more)
  /\ \A i \in 1 .. Len(data) : all[i] = data[i]
  /\ \A i \in 1 .. Len(more) : all[Len(data) + i] = more[i]

\* The bytes of a concatenation.
LEMMA ConcatIs ==
  ASSUME NEW S, NEW data \in Seq(S), NEW more \in Seq(S)
  PROVE  data \o more \in Seq(S) /\ Joined(data \o more, data, more)
<1>1. PICK all : all = data \o more
  OBVIOUS
<1>2. all \in Seq(S) /\ Len(all) = Len(data) + Len(more)
  BY <1>1
<1>3. \A i \in 1 .. Len(data) : all[i] = data[i]
  BY <1>1
<1>4. \A i \in 1 .. Len(more) : all[Len(data) + i] = more[i]
  BY <1>1
<1> QED
  BY <1>1, <1>2, <1>3, <1>4 DEF Joined

\* Each of them is of the first sequence or of the second.
LEMMA JoinedAt ==
  ASSUME NEW S, NEW data \in Seq(S), NEW more \in Seq(S), NEW all, Joined(all, data, more),
         NEW i \in 1 .. Len(all)
  PROVE  \/ i \in 1 .. Len(data) /\ all[i] = data[i]
         \/ i > Len(data) /\ i - Len(data) \in 1 .. Len(more) /\ all[i] = more[i - Len(data)]
<1>1. PICK l, m \in Nat : l = Len(data) /\ m = Len(more) /\ Len(all) = l + m
  BY DEF Joined
<1>2. CASE i <= l
  BY <1>1, <1>2 DEF Joined
<1>3. CASE i > l
  <2>1. PICK j \in 1 .. m : i = l + j
    <3>1. i - l \in 1 .. m /\ i = l + (i - l)
      BY <1>1, <1>3
    <3> QED
      BY <3>1
  <2>2. all[i] = more[j]
    BY <1>1, <2>1 DEF Joined
  <2>3. i - l = j
    BY <1>1, <2>1
  <2> QED
    BY <1>1, <1>3, <2>1, <2>2, <2>3
<1> QED
  BY <1>1, <1>2, <1>3

\* No delimiter stands behind the last one.
LEMMA MarkedLast ==
  ASSUME NEW data \in Seq(Byte), NEW d \in Seq(Nat), NEW since \in Nat, NEW e,
         Marked(data, d, since, e)
  PROVE  Last(d, e) \in Nat /\ \A k \in 1 .. Len(d) : e[k] \in Nat /\ e[k] <= Last(d, e)
BY DEF Marked, Places, Last

NoEnd(more) == \A i \in 1 .. Len(more) : ~more[i].last
OneEnd(more) == \A i \in 1 .. Len(more) : more[i].last <=> i = Len(more)

\* Bytes that end no packet leave the delimiters where they are.
LEMMA MarkedBytes ==
  ASSUME NEW data \in Seq(Byte), NEW d \in Seq(Nat), NEW since \in Nat, NEW e,
         Marked(data, d, since, e), NEW more \in Seq(Byte), NoEnd(more)
  PROVE  data \o more \in Seq(Byte) /\ Marked(data \o more, d, since + Len(more), e)
<1>1. PICK all : all = data \o more
  OBVIOUS
<1>2. all \in Seq(Byte) /\ Joined(all, data, more)
  BY <1>1, ConcatIs
<1>3. Last(d, e) \in Nat /\ \A k \in 1 .. Len(d) : e[k] \in Nat /\ e[k] <= Last(d, e)
  BY MarkedLast
<1>4. PICK l, m \in Nat : l = Len(data) /\ m = Len(more) /\ Len(all) = l + m /\ Last(d, e) + since = l
  BY <1>2 DEF Joined, Marked
<1>5. Last(d, e) + (since + m) = Len(all)
  <2>1. PICK x \in Nat : x = Last(d, e)
    BY <1>3
  <2>3. x + since = l
    BY <1>4, <2>1, Zenon
  <2>2. x + (since + m) = l + m
    BY <2>3
  <2> QED
    BY <1>4, <2>1, <2>2
<1>6. ASSUME NEW i \in 1 .. Len(all) PROVE all[i].last <=> \E k \in 1 .. Len(d) : e[k] = i
  <2>1. CASE i \in 1 .. Len(data) /\ all[i] = data[i]
    BY <2>1 DEF Marked
  <2>2. CASE i > l /\ i - l \in 1 .. m /\ all[i] = more[i - l]
    <3>1. ~all[i].last
      BY <1>4, <2>2 DEF NoEnd
    <3>2. \A k \in 1 .. Len(d) : e[k] # i
      BY <1>3, <1>4, <2>2
    <3> QED
      BY <3>1, <3>2
  <2>3. \/ i \in 1 .. Len(data) /\ all[i] = data[i]
        \/ i > Len(data) /\ i - Len(data) \in 1 .. Len(more) /\ all[i] = more[i - Len(data)]
    BY <1>2, JoinedAt
  <2> QED
    BY <1>4, <2>1, <2>2, <2>3
<1>7. Marked(all, d, since + m, e)
  BY <1>5, <1>6 DEF Marked
<1> QED
  BY <1>1, <1>2, <1>4, <1>7

\* The places of d stay, and one more comes at end.
OneMorePlace(f, d, e, end) == (\A k \in 0 .. Len(d) : f[k] = e[k]) /\ f[Len(d) + 1] = end

\* Bytes that end one packet get one delimiter more, at their end.
LEMMA MarkedPacket ==
  ASSUME NEW data \in Seq(Byte), NEW d \in Seq(Nat), NEW since \in Nat, NEW e,
         Marked(data, d, since, e), NEW more \in Seq(Byte), more # <<>>, OneEnd(more),
         NEW count, count = since + Len(more)
  PROVE  /\ data \o more \in Seq(Byte)
         /\ Append(d, count) \in Seq(Nat) /\ Len(Append(d, count)) = Len(d) + 1
         /\ Marked(data \o more, Append(d, count), 0, PlacesAppended(d, e, count))
         /\ OneMorePlace(PlacesAppended(d, e, count), d, e, Len(data) + Len(more))
<1>1. PICK all : all = data \o more
  OBVIOUS
<1>2. all \in Seq(Byte) /\ Joined(all, data, more)
  BY <1>1, ConcatIs
<1>3. Last(d, e) \in Nat /\ \A k \in 1 .. Len(d) : e[k] \in Nat /\ e[k] <= Last(d, e)
  BY MarkedLast
<1>4. PICK l, m, n \in Nat : /\ l = Len(data) /\ m = Len(more) /\ Len(all) = l + m /\ m # 0
                             /\ Last(d, e) + since = l /\ n = Len(d)
  BY <1>2 DEF Joined, Marked
<1>5. PICK c : c = Append(d, count) /\ c = Append(d, since + m)
  BY <1>4
<1>6. PICK f : f = PlacesAppended(d, e, count) /\ f = PlacesAppended(d, e, since + m)
  BY <1>4
<1>7. Places(c, f) /\ c \in Seq(Nat) /\ Len(c) = n + 1
  <2>1. Places(d, e)
    BY DEF Marked
  <2> QED
    BY <1>4, <1>5, <1>6, <2>1, PlaceAppended
<1>8. (\A k \in 0 .. n : f[k] = e[k]) /\ f[n + 1] = Last(d, e) + (since + m)
  BY <1>4, <1>6 DEF PlacesAppended, Last
<1>9. f[n + 1] = l + m
  <2>1. PICK x \in Nat : x = Last(d, e)
    BY <1>3
  <2>3. x + since = l
    BY <1>4, <2>1, Zenon
  <2>2. x + (since + m) = l + m
    BY <2>3
  <2> QED
    BY <1>8, <2>1, <2>2
<1>10. Last(c, f) + 0 = Len(all)
  BY <1>4, <1>7, <1>9 DEF Last
<1>11. ASSUME NEW k \in 1 .. n + 1 PROVE c[k] > 0
  <2>1. CASE k \in 1 .. n
    BY <1>4, <1>5, <2>1 DEF Marked
  <2>2. CASE k = n + 1
    BY <1>4, <1>5, <2>2
  <2> QED
    BY <2>1, <2>2
<1>12. ASSUME NEW i PROVE (\E k \in 1 .. n + 1 : f[k] = i) <=> (i = l + m \/ \E k \in 1 .. n : e[k] = i)
  <2>1. \A k \in 1 .. n + 1 : k \in 1 .. n \/ k = n + 1
    OBVIOUS
  <2>2. \A k \in 1 .. n : k \in 0 .. n /\ k \in 1 .. n + 1
    OBVIOUS
  <2>3. n + 1 \in 1 .. n + 1
    OBVIOUS
  <2> QED
    BY <1>8, <1>9, <2>1, <2>2, <2>3
<1>13. ASSUME NEW i \in 1 .. Len(all) PROVE all[i].last <=> \E k \in 1 .. n + 1 : f[k] = i
  <2>1. CASE i \in 1 .. Len(data) /\ all[i] = data[i]
    <3>1. i # l + m
      BY <1>4, <2>1
    <3>2. all[i].last <=> \E k \in 1 .. n : e[k] = i
      BY <1>4, <2>1 DEF Marked
    <3> QED
      BY <1>12, <3>1, <3>2
  <2>2. CASE i > l /\ i - l \in 1 .. m /\ all[i] = more[i - l]
    <3>1. all[i].last <=> i - l = m
      BY <1>4, <2>2 DEF OneEnd
    <3>2. i - l = m <=> i = l + m
      BY <1>4
    <3>3. \A k \in 1 .. n : e[k] # i
      BY <1>3, <1>4, <2>2
    <3> QED
      BY <1>12, <3>1, <3>2, <3>3
  <2>3. \/ i \in 1 .. Len(data) /\ all[i] = data[i]
        \/ i > Len(data) /\ i - Len(data) \in 1 .. Len(more) /\ all[i] = more[i - Len(data)]
    BY <1>2, JoinedAt
  <2> QED
    BY <1>4, <2>1, <2>2, <2>3
<1>14. Marked(all, c, 0, f)
  BY <1>7, <1>10, <1>11, <1>13 DEF Marked
<1>15. OneMorePlace(f, d, e, Len(data) + Len(more))
  BY <1>4, <1>8, <1>9 DEF OneMorePlace
<1>16. Len(c) = Len(d) + 1
  BY <1>4, <1>7
<1> QED
  BY <1>1, <1>2, <1>5, <1>6, <1>7, <1>14, <1>15, <1>16

\* What is written are the first bytes of a packet, with its end if all of them
\* fit and it has one.
LEMMA PacketIs ==
  ASSUME NEW from \in Origin, NEW len \in Nat, NEW ends \in BOOLEAN
  PROVE  /\ Packet(from, len, ends) \in Seq(Byte) /\ Len(Packet(from, len, ends)) = len
         /\ \A i \in 1 .. len : /\ Packet(from, len, ends)[i].last <=> ends /\ i = len
                                /\ Packet(from, len, ends)[i].from = from
<1>1. PICK p : p = Packet(from, len, ends)
  OBVIOUS
<1>2. p = [i \in 1 .. len |-> [from |-> from, last |-> ends /\ i = len]]
  BY <1>1 DEF Packet
<1>3. ASSUME NEW i \in 1 .. len PROVE p[i] \in Byte /\ (p[i].last <=> ends /\ i = len) /\ p[i].from = from
  BY <1>2 DEF Byte
<1>4. p \in [1 .. len -> Byte]
  BY <1>2, <1>3
<1>5. p \in Seq(Byte) /\ Len(p) = len
  BY <1>4
<1> QED
  BY <1>1, <1>3, <1>5

\* A socket whose delimiters stand where its packets end.
RightSocket(s) == \E data \in Seq(Byte), d \in Seq(Nat), since \in Nat : \E e :
  s = Socket(data, d, since) /\ Len(data) <= MaxSize /\ Marked(data, d, since, e)

\* A write in full: whole with its delimiter, or what fits without one.
LEMMA WrittenData ==
  ASSUME MaxSize \in Nat, NEW data \in Seq(Byte), NEW d \in Seq(Nat), NEW since \in Nat, NEW e,
         Len(data) <= MaxSize, Marked(data, d, since, e),
         NEW from \in Origin, NEW len \in Nat \ {0}, NEW ends \in BOOLEAN
  PROVE  \E all \in Seq(Byte), c \in Seq(Nat), left \in Nat : \E f :
           /\ Written(Socket(data, d, since), Packet(from, len, ends), ends) = Socket(all, c, left)
           /\ Len(all) <= MaxSize /\ Marked(all, c, left, f)
<1>1. PICK bytes \in Seq(Byte) :
        /\ bytes = Packet(from, len, ends) /\ Len(bytes) = len
        /\ \A i \in 1 .. len : bytes[i].last <=> ends /\ i = len
  BY PacketIs
<1>2. PICK l \in Nat : l = Len(data) /\ l <= MaxSize
  OBVIOUS
<1>3. PICK m : m = Min2(len, MaxSize - l)
  OBVIOUS
<1>4. m \in 0 .. len /\ l + m <= MaxSize
  BY <1>2, <1>3 DEF Min2
<1>12. PICK stored : stored = SubSeq(bytes, 1, m)
  OBVIOUS
<1>5. /\ stored \in Seq(Byte) /\ Len(stored) = m /\ \A i \in 1 .. m : stored[i] = bytes[i]
      /\ stored = bytes <=> m = len
  <2>1. m \in 0 .. Len(bytes)
    BY <1>1, <1>4
  <2>2. stored \in Seq(Byte) /\ Len(stored) = m
    BY <1>12, <2>1
  <2>3. \A i \in 1 .. m : stored[i] = bytes[i]
    BY <1>12, <2>1
  <2>4. m = Len(bytes) => stored = bytes
    BY <2>2, <2>3, SeqEqual
  <2> QED
    BY <1>1, <2>2, <2>3, <2>4
<1>6. PICK s : s = Socket(data, d, since)
  OBVIOUS
<1>7. s.data = data /\ s.delims = d /\ s.sinceLastDelim = since
      /\ s = [data |-> data, delims |-> d, sinceLastDelim |-> since]
  BY <1>6 DEF Socket
<1>8. Written(s, bytes, ends) =
        IF ends /\ stored = bytes
        THEN [data |-> data \o stored, delims |-> Append(d, since + m), sinceLastDelim |-> 0]
        ELSE [s EXCEPT !.data = data \o stored, !.sinceLastDelim = since + m]
  BY <1>1, <1>2, <1>3, <1>5, <1>7, <1>12 DEF Written
<1>9. Len(data \o stored) = l + m
  <2>1. Joined(data \o stored, data, stored)
    BY <1>5, ConcatIs
  <2> QED
    BY <1>2, <1>5, <2>1 DEF Joined
<1>10. CASE ends /\ m = len
  <2>1. Written(s, bytes, ends) = Socket(data \o stored, Append(d, since + m), 0)
    BY <1>5, <1>8, <1>10 DEF Socket
  <2>2. OneEnd(stored) /\ stored # <<>>
    BY <1>1, <1>5, <1>10 DEF OneEnd
  <2>3. /\ data \o stored \in Seq(Byte) /\ Append(d, since + m) \in Seq(Nat)
        /\ Marked(data \o stored, Append(d, since + m), 0, PlacesAppended(d, e, since + m))
    <3>1. since + m = since + Len(stored)
      BY <1>5
    <3> QED
      BY <1>5, <2>2, <3>1, MarkedPacket, Zenon
  <2> QED
    BY <1>1, <1>4, <1>6, <1>9, <2>1, <2>3
<1>11. CASE ~(ends /\ m = len)
  <2>1. Written(s, bytes, ends) = Socket(data \o stored, d, since + m)
    BY <1>5, <1>7, <1>8, <1>11 DEF Socket
  <2>2. NoEnd(stored)
    BY <1>1, <1>4, <1>5, <1>11 DEF NoEnd
  <2>3. data \o stored \in Seq(Byte) /\ Marked(data \o stored, d, since + m, e)
    BY <1>5, <2>2, MarkedBytes
  <2>4. since + m \in Nat
    BY <1>4
  <2> QED
    BY <1>1, <1>4, <1>6, <1>9, <2>1, <2>3, <2>4
<1> QED
  BY <1>10, <1>11

\* A write leaves a socket right, whether or not all of the packet went in.
LEMMA WrittenIs ==
  ASSUME MaxSize \in Nat, NEW s, RightSocket(s),
         NEW from \in Origin, NEW len \in Nat \ {0}, NEW ends \in BOOLEAN
  PROVE  RightSocket(Written(s, Packet(from, len, ends), ends))
<1>1. PICK data \in Seq(Byte), d \in Seq(Nat), since \in Nat : \E e :
        s = Socket(data, d, since) /\ Len(data) <= MaxSize /\ Marked(data, d, since, e)
  BY DEF RightSocket
<1>2. PICK e : s = Socket(data, d, since) /\ Len(data) <= MaxSize /\ Marked(data, d, since, e)
  BY <1>1
<1>3. \E all \in Seq(Byte), c \in Seq(Nat), left \in Nat : \E f :
        /\ Written(Socket(data, d, since), Packet(from, len, ends), ends) = Socket(all, c, left)
        /\ Len(all) <= MaxSize /\ Marked(all, c, left, f)
  BY <1>2, WrittenData
<1> QED
  BY <1>2, <1>3 DEF RightSocket

\* The counters of a socket agree with the delimiters it shows.
LEMMA MarkedDelims ==
  ASSUME NEW s, NEW data \in Seq(Byte), NEW d \in Seq(Nat), NEW since \in Nat, NEW e,
         s = Socket(data, d, since), Marked(data, d, since, e)
  PROVE  /\ \A k \in 0 .. Len(d) : DelimAt(s, k) = e[k]
         /\ Delimiters(s) = PacketEnds(s)
         /\ \A k \in 1 .. Len(d) : d[k] > 0
         /\ DelimAt(s, Len(d)) + since = Len(data)
<1>1. s.delims = d /\ s.data = data
  BY DEF Socket
<1>2. Places(d, e)
  BY DEF Marked
<1>3. \A k \in 0 .. Len(d) : DelimAt(s, k) = e[k]
  BY <1>1, <1>2, DelimAtPlace
<1>4. Delimiters(s) = {e[k] : k \in 1 .. Len(d)}
  <2>1. Delimiters(s) = {DelimAt(s, k) : k \in 1 .. Len(d)}
    BY <1>1 DEF Delimiters
  <2>2. \A k \in 1 .. Len(d) : DelimAt(s, k) = e[k]
    BY <1>3
  <2> QED
    BY <2>1, <2>2
<1>5. PacketEnds(s) = {i \in 1 .. Len(data) : \E k \in 1 .. Len(d) : e[k] = i}
  BY <1>1 DEF PacketEnds, Marked
<1>6. \A k \in 1 .. Len(d) : e[k] \in 1 .. Len(data)
  <2> SUFFICES ASSUME NEW k \in 1 .. Len(d) PROVE e[k] \in 1 .. Len(data)
    OBVIOUS
  <2>1. PICK x, y \in Nat : x = e[k] /\ y = Last(d, e) /\ x <= y
    BY MarkedLast
  <2>2. y + since = Len(data)
    BY <2>1 DEF Marked
  <2>3. d # <<>> /\ k \in 0 .. Len(d)
    OBVIOUS
  <2>4. x # 0
    BY <2>1, <2>3, MarkedFirst
  <2> QED
    BY <2>1, <2>2, <2>4
<1>7. Delimiters(s) = PacketEnds(s)
  BY <1>4, <1>5, <1>6
<1>8. \A k \in 1 .. Len(d) : d[k] > 0
  BY DEF Marked
<1>9. DelimAt(s, Len(d)) + since = Len(data)
  <2>1. DelimAt(s, Len(d)) = Last(d, e)
    BY <1>3 DEF Last
  <2> QED
    BY <2>1 DEF Marked
<1> QED
  BY <1>3, <1>7, <1>8, <1>9

\* What stays true while a packet is being written, however reads come between:
\* the distances add up to the bytes that are queued or counted.
Counts(data, d, since, e, counted) == Places(d, e) /\ Last(d, e) + since = Len(data) + counted

\* What a read leaves of a socket with these bytes.
LeavesCounts(s, data, counted) ==
  \E n \in 0 .. Len(data), left \in Nat, c \in Seq(Nat), rest \in Seq(Byte) : \E g :
    /\ s = Socket(rest, c, left) /\ Len(rest) = Len(data) - n
    /\ Counts(rest, c, left, g, counted)

\* A read keeps the counts of a socket, a byte counted or not.
LEMMA CountsRead ==
  ASSUME NEW data \in Seq(Byte), NEW d \in Seq(Nat), NEW since \in Nat, NEW e, NEW counted \in Nat,
         Counts(data, d, since, e, counted), NEW max \in Nat, NEW r,
         r = ReadFrom(Socket(data, d, since), max)
  PROVE  LeavesCounts(r.s, data, counted)
<1>1. Places(d, e) /\ Last(d, e) + since = Len(data) + counted
  BY DEF Counts
<1>2. PICK b, h : b = Popped(d) /\ h = PoppedPlaces(d, e)
  OBVIOUS
<1>3. b \in Seq(Nat) /\ Places(b, h) /\ Last(b, h) = Last(d, e)
  BY <1>1, <1>2, PoppedIs
<1>4. PICK n : n = Available(Socket(data, b, since), max)
  OBVIOUS
<1>5. n \in 0 .. Len(data) /\ (b # <<>> => n <= b[1])
  BY <1>3, <1>4, AvailableIs
<1>6. PICK t, f : t = Cut(b, n) /\ f = CutPlaces(b, h, n)
  OBVIOUS
<1>7. /\ t \in Seq(Nat) /\ Places(t, f)
      /\ b = <<>> => t = <<>> /\ f = h /\ Last(b, h) = 0
      /\ b # <<>> => Last(t, f) = Last(b, h) - n
  BY <1>3, <1>5, <1>6, CutIs
<1>8. PICK rest : rest = SubSeq(data, n + 1, Len(data))
  OBVIOUS
<1>9. rest \in Seq(Byte) /\ Len(rest) = Len(data) - n
  BY <1>5, <1>8
<1>10. PICK left : left = since - (IF b = <<>> THEN n ELSE 0)
  OBVIOUS
<1>11. Last(t, f) = Last(b, h) - (IF b = <<>> THEN 0 ELSE n)
  <2>1. CASE b = <<>>
    <3>1. Last(t, f) = Last(b, h) /\ Last(b, h) = 0
      BY <1>7, <2>1
    <3> QED
      BY <2>1, <3>1
  <2>2. CASE b # <<>>
    BY <1>7, <2>2
  <2> QED
    BY <2>1, <2>2
<1>12. PICK x \in Nat : x = Last(d, e)
  BY <1>1 DEF Places, Last
<1>13. left \in Nat /\ Last(t, f) + left = Len(rest) + counted
  <2>1. CASE b = <<>>
    <3>1. x = 0 /\ left = since - n /\ Last(t, f) = x
      BY <1>3, <1>7, <1>10, <1>11, <1>12, <2>1
    <3> QED
      BY <1>1, <1>5, <1>9, <1>12, <3>1
  <2>2. CASE b # <<>>
    <3>1. left = since /\ Last(t, f) = x - n
      BY <1>3, <1>10, <1>11, <1>12, <2>2
    <3> QED
      BY <1>1, <1>5, <1>9, <1>12, <3>1
  <2> QED
    BY <2>1, <2>2
<1>14. PICK z : z = Socket(rest, t, left)
  OBVIOUS
<1>15. r = [s |-> PopDelim(z), bytes |-> SubSeq(data, 1, n), atDelim |-> AtDelim(z)]
  BY <1>2, <1>4, <1>6, <1>8, <1>10, <1>14, ReadIs
<1>16. PICK c, g : c = Popped(t) /\ g = PoppedPlaces(t, f)
  OBVIOUS
<1>17. r.s = Socket(rest, c, left)
  <2>1. PopDelim(z) = Socket(rest, c, left)
    BY <1>14, <1>16, PopDelimIs
  <2>2. r.s = PopDelim(z)
    BY <1>15
  <2> QED
    BY <2>1, <2>2
<1>18. c \in Seq(Nat) /\ Places(c, g) /\ Last(c, g) = Last(t, f)
  BY <1>7, <1>16, PoppedIs
<1> QED
  BY <1>5, <1>9, <1>13, <1>17, <1>18 DEF Counts, LeavesCounts

\* A byte is counted, queued, or the last one of its packet.
LEMMA CountsCounted ==
  ASSUME NEW data \in Seq(Byte), NEW d \in Seq(Nat), NEW since \in Nat, NEW e,
         Counts(data, d, since, e, 0)
  PROVE  Counts(data, d, since + 1, e, 1)
<1>1. PICK x \in Nat : x = Last(d, e)
  BY DEF Counts, Places, Last
<1> QED
  BY <1>1 DEF Counts

\* The byte that was counted is queued, and the counts agree again.
LEMMA CountsQueued ==
  ASSUME NEW data \in Seq(Byte), NEW d \in Seq(Nat), NEW since \in Nat, NEW e,
         Counts(data, d, since, e, 1), NEW b \in Byte
  PROVE  Counts(Append(data, b), d, since, e, 0) /\ Append(data, b) \in Seq(Byte)
         /\ Len(Append(data, b)) = Len(data) + 1
<1>1. Append(data, b) \in Seq(Byte) /\ Len(Append(data, b)) = Len(data) + 1
  OBVIOUS
<1>2. PICK l, m \in Nat : l = Len(data) /\ m = Len(Append(data, b)) /\ m = l + 1
  BY <1>1
<1>3. Last(d, e) + since = l + 1
  BY <1>2 DEF Counts
<1>4. Last(d, e) + since = m + 0
  BY <1>2, <1>3
<1> QED
  BY <1>1, <1>2, <1>4 DEF Counts

\* A delimiter ends what was counted since the last one.
LEMMA CountsDelimited ==
  ASSUME NEW data \in Seq(Byte), NEW d \in Seq(Nat), NEW since \in Nat, NEW e,
         Counts(data, d, since, e, 0)
  PROVE  /\ Counts(data, Append(d, since), 0, PlacesAppended(d, e, since), 0)
         /\ Append(d, since) \in Seq(Nat)
<1>1. PICK n \in Nat : n = Len(d)
  OBVIOUS
<1>2. PICK c, f : c = Append(d, since) /\ f = PlacesAppended(d, e, since)
  OBVIOUS
<1>3. Places(c, f) /\ c \in Seq(Nat) /\ Len(c) = n + 1
  BY <1>1, <1>2, PlaceAppended DEF Counts
<1>4. f[n + 1] = e[n] + since
  BY <1>1, <1>2 DEF PlacesAppended
<1>5. Last(c, f) = Last(d, e) + since
  BY <1>1, <1>3, <1>4 DEF Last
<1>6. PICK x \in Nat : x = Last(d, e)
  <2>1. n \in 0 .. n /\ e \in [0 .. n -> Nat]
    BY <1>1 DEF Counts, Places
  <2> QED
    BY <1>1, <2>1 DEF Last
<1> QED
  BY <1>2, <1>3, <1>5, <1>6 DEF Counts
=============================================================================
