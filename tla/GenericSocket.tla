---------------------------- MODULE GenericSocket ----------------------------
(***************************************************************************)
(* GenericSocket of genericSocket.cpp under any sequence of reads and       *)
(* writes: system calls, which run with interrupts masked.                  *)
(***************************************************************************)
EXTENDS SocketLemmas

CONSTANTS BlockingState,
          MaxLen        \* bound: bytes per call

VARIABLES sock,
          result        \* what the last call returned

Nothing == [bytes |-> <<>>, atDelim |-> FALSE, failed |-> FALSE]

Init == sock = EmptySocket /\ result = Nothing

\* write(): a full blocking socket is an assertion failure, a packet that is
\* to be written whole is left out if it does not fit.
Write(from, len, addDelim, writeWhole) ==
  LET bytes == Packet(from, len, addDelim)
  IN /\ len > 0
     /\ IF writeWhole /\ len > MaxSize - Len(sock.data)
          THEN UNCHANGED sock /\ result' = Nothing
          ELSE /\ sock' = Written(sock, bytes, addDelim)
               /\ result' = [Nothing EXCEPT !.failed = BlockingState /\ isFull(sock)]

Read(max) ==
  LET r == ReadFrom(sock, max)
  IN /\ sock' = r.s
     /\ result' = [bytes |-> r.bytes, atDelim |-> r.atDelim, failed |-> FALSE]

\* (A failed assertion ends in crash(), an endless loop.)
Next == ~result.failed /\ (
  \/ \E from \in Origin, len \in 1 .. MaxLen, addDelim, writeWhole \in BOOLEAN :
       Write(from, len, addDelim, writeWhole)
  \/ \E max \in 0 .. MaxLen : Read(max))

Spec == Init /\ [][Next]_<<sock, result>>
-----------------------------------------------------------------------------
(* The socket keeps within its size.                                         *)
TypeOK ==
  /\ sock.data \in Seq(Byte) /\ Len(sock.data) <= MaxSize
  /\ sock.delims \in Seq(Nat) /\ sock.sinceLastDelim \in Nat
  /\ result.bytes \in Seq(Byte)

(* The distances stand for the ends of the packets, however reads cut them   *)
(* and writes overflow.                                                      *)
DelimsMarkPackets ==
  /\ Delimiters(sock) = PacketEnds(sock)
  /\ \A k \in 1 .. Len(sock.delims) : sock.delims[k] > 0
  /\ DelimAt(sock, Len(sock.delims)) + sock.sinceLastDelim = Len(sock.data)

(* A read does not go past a delimiter, and is told exactly when it has      *)
(* reached one: bytes of two packets come together only if the first was     *)
(* written without delimiter, or was cut by a full socket and lost it.       *)
PacketsApart ==
  LET n == Len(result.bytes)
  IN /\ \A i \in 1 .. n - 1 : ~result.bytes[i].last
     /\ result.atDelim <=> n > 0 /\ result.bytes[n].last
=============================================================================
