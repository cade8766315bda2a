------------------------------ MODULE SocketOps ------------------------------
(***************************************************************************)
(* What the calls of genericSocket.cpp do to a socket, as operators: they   *)
(* are used by the stream sockets and by the UDP sockets.  A socket is a    *)
(* bounded queue of bytes with packet delimiters, kept as a queue of        *)
(* distances.  A byte is whatever its packet says of it: a member of        *)
(* Origin, and whether it ends the packet.                                  *)
(***************************************************************************)
EXTENDS Integers, Sequences

CONSTANTS Origin,       \* whom bytes come from
          MaxSize

Byte == [from : Origin, last : BOOLEAN]

EmptySocket == [data |-> <<>>, delims |-> <<>>, sinceLastDelim |-> 0]

Min2(m, n) == IF m <= n THEN m ELSE n

isFull(s) == Len(s.data) = MaxSize

\* The bytes that fit, and the delimiter if all of them do.
Written(s, bytes, addDelim) ==
  LET stored == SubSeq(bytes, 1, Min2(Len(bytes), MaxSize - Len(s.data)))
      count == s.sinceLastDelim + Len(stored)
  IN IF addDelim /\ stored = bytes
       THEN [data |-> s.data \o stored, delims |-> Append(s.delims, count), sinceLastDelim |-> 0]
       ELSE [s EXCEPT !.data = @ \o stored, !.sinceLastDelim = count]

Packet(from, len, ends) == [i \in 1 .. len |-> [from |-> from, last |-> ends /\ i = len]]

AtDelim(s) == s.delims # <<>> /\ Head(s.delims) = 0

PopDelim(s) == IF AtDelim(s) THEN [s EXCEPT !.delims = Tail(@)] ELSE s

\* The bytes a read of at most max bytes gets: up to the first delimiter.
Available(s, max) ==
  LET len == Min2(max, Len(s.data))
  IN IF s.delims = <<>> THEN len ELSE Min2(len, Head(s.delims))

\* Mutant: reads go on to the delimiter after the next one.
ReadFrom_Crosses(s, max) ==
  LET n == Min2(max, Len(s.data))
  IN [s |-> [s EXCEPT !.data = SubSeq(@, n + 1, Len(@)),
                      !.delims = <<>>,
                      !.sinceLastDelim = Len(s.data) - n],
      bytes |-> SubSeq(s.data, 1, n), atDelim |-> FALSE]

\* read(): a delimiter in front is dropped, the bytes before the next one are
\* counted down, and that one is dropped too if they reach it.
ReadFrom(s, max) ==
  LET t == PopDelim(s)
      n == Available(t, max)
      left == [data |-> SubSeq(t.data, n + 1, Len(t.data)),
               delims |-> IF t.delims = <<>> THEN <<>> ELSE [t.delims EXCEPT ![1] = @ - n],
               sinceLastDelim |-> t.sinceLastDelim - (IF t.delims = <<>> THEN n ELSE 0)]
  IN [s |-> PopDelim(left), bytes |-> SubSeq(t.data, 1, n), atDelim |-> AtDelim(left)]

\* Where the k-th delimiter stands.
DelimAt(s, k) ==
  LET upTo[j \in 0 .. k] == IF j = 0 THEN 0 ELSE upTo[j - 1] + s.delims[j]
  IN upTo[k]

\* Where its delimiters stand, and where packets end.
Delimiters(s) == {DelimAt(s, k) : k \in 1 .. Len(s.delims)}
PacketEnds(s) == {i \in 1 .. Len(s.data) : s.data[i].last}
=============================================================================
