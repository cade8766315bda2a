--------------------------- MODULE UdpSocketProofs ---------------------------
(***************************************************************************)
(* Why UDP sockets stay right: the invariants of UdpSocket.  The counts of  *)
(* a socket hold at every step of the handler, and where readers come,      *)
(* between two packets, its three queues tell the same packets.             *)
(***************************************************************************)
EXTENDS UdpSocket

Link == [sock : [data : Seq(Byte), delims : Seq(Nat), sinceLastDelim : Nat], pckInfos : Seq(Origin)]

Writing(port) == handler # Idle /\ handler.port = port
Counted(port) == IF Writing(port) /\ handler.pc = "push" THEN 1 ELSE 0
ToCome(port) == IF Writing(port) THEN Len(handler.left) ELSE 0

\* What a socket counts, when one byte is counted and not queued yet, or none,
\* and coming bytes are still to be written.
CountOK(port, link, counted, coming) ==
  /\ port \notin Reserved /\ link \in Link
  /\ Len(link.sock.data) + coming <= MaxSize
  /\ \E e : Counts(link.sock.data, link.sock.delims, link.sock.sinceLastDelim, e, counted)

HandlerOK ==
  \/ handler = Idle
  \/ /\ handler \in [pc : {"byte", "push", "delim", "infos"}, port : Ports, from : Origin, left : Seq(Byte)]
     /\ handler.pc \in {"byte", "push"} => handler.left # <<>>

CountInv ==
  /\ DOMAIN portLinks = Ports /\ HandlerOK
  /\ \A port \in Ports :
       /\ Writing(port) => portLinks[port] # NULL
       /\ portLinks[port] # NULL => CountOK(port, portLinks[port], Counted(port), ToCome(port))

\* No socket is at the null pointer.
NoNullLink == NULL \notin Link

\* How the handler's assignments change a link.
LEMMA SinceSet ==
  ASSUME NEW p, NEW data, NEW d, NEW since, NEW infos, NEW x, NEW links,
         portLinks[p] = [sock |-> Socket(data, d, since), pckInfos |-> infos],
         links = [portLinks EXCEPT ![p].sock.sinceLastDelim = x]
  PROVE  links = [portLinks EXCEPT ![p] = [sock |-> Socket(data, d, x), pckInfos |-> infos]]
<1>1. PICK link : link = portLinks[p]
  OBVIOUS
<1>2. links = [portLinks EXCEPT ![p] = [link EXCEPT !.sock.sinceLastDelim = x]]
  BY <1>1
<1>3. [link EXCEPT !.sock.sinceLastDelim = x] = [sock |-> Socket(data, d, x), pckInfos |-> infos]
  BY <1>1 DEF Socket
<1> QED
  BY <1>2, <1>3

\* Assigning its bytes.
LEMMA DataSet ==
  ASSUME NEW p, NEW data, NEW d, NEW since, NEW infos, NEW x, NEW links,
         portLinks[p] = [sock |-> Socket(data, d, since), pckInfos |-> infos],
         links = [portLinks EXCEPT ![p].sock.data = x]
  PROVE  links = [portLinks EXCEPT ![p] = [sock |-> Socket(x, d, since), pckInfos |-> infos]]
<1>1. PICK link : link = portLinks[p]
  OBVIOUS
<1>2. links = [portLinks EXCEPT ![p] = [link EXCEPT !.sock.data = x]]
  BY <1>1
<1>3. [link EXCEPT !.sock.data = x] = [sock |-> Socket(x, d, since), pckInfos |-> infos]
  BY <1>1 DEF Socket
<1> QED
  BY <1>2, <1>3

\* Assigning its delimiters and the count since the last one.
LEMMA DelimsSet ==
  ASSUME NEW p, NEW data, NEW d, NEW since, NEW infos, NEW x, NEW c, NEW links,
         portLinks[p] = [sock |-> Socket(data, d, since), pckInfos |-> infos],
         links = [portLinks EXCEPT ![p].sock.delims = c, ![p].sock.sinceLastDelim = x]
  PROVE  links = [portLinks EXCEPT ![p] = [sock |-> Socket(data, c, x), pckInfos |-> infos]]
<1>1. PICK link : link = portLinks[p]
  OBVIOUS
<1>2. PICK new : new = [link EXCEPT !.sock.delims = c]
  OBVIOUS
<1>3. new = [sock |-> Socket(data, c, since), pckInfos |-> infos]
  BY <1>1, <1>2 DEF Socket
<1>4. links = [portLinks EXCEPT ![p] = [new EXCEPT !.sock.sinceLastDelim = x]]
  BY <1>1, <1>2
<1>5. [new EXCEPT !.sock.sinceLastDelim = x] = [sock |-> Socket(data, c, x), pckInfos |-> infos]
  BY <1>3 DEF Socket
<1> QED
  BY <1>4, <1>5

\* Assigning its senders.
LEMMA InfosSet ==
  ASSUME NEW p, NEW sock, NEW infos, NEW x, NEW links,
         portLinks[p] = [sock |-> sock, pckInfos |-> infos],
         links = [portLinks EXCEPT ![p].pckInfos = x]
  PROVE  links = [portLinks EXCEPT ![p] = [sock |-> sock, pckInfos |-> x]]
<1>1. PICK link : link = portLinks[p]
  OBVIOUS
<1>2. links = [portLinks EXCEPT ![p] = [link EXCEPT !.pckInfos = x]]
  BY <1>1
<1>3. [link EXCEPT !.pckInfos = x] = [sock |-> sock, pckInfos |-> x]
  BY <1>1
<1> QED
  BY <1>2, <1>3

\* Assigning its stream socket.
LEMMA SockSet ==
  ASSUME NEW p, NEW sock, NEW infos, NEW x, NEW links,
         portLinks[p] = [sock |-> sock, pckInfos |-> infos],
         links = [portLinks EXCEPT ![p].sock = x]
  PROVE  links = [portLinks EXCEPT ![p] = [sock |-> x, pckInfos |-> infos]]
<1>1. PICK link : link = portLinks[p]
  OBVIOUS
<1>2. links = [portLinks EXCEPT ![p] = [link EXCEPT !.sock = x]]
  BY <1>1
<1>3. [link EXCEPT !.sock = x] = [sock |-> x, pckInfos |-> infos]
  BY <1>1
<1> QED
  BY <1>2, <1>3

\* A step changes one link, and the handler writes to no other one.
LEMMA OneLink ==
  ASSUME NoNullLink, CountInv, NEW p \in Ports, NEW link, portLinks' = [portLinks EXCEPT ![p] = link],
         CountOK(p, link, Counted(p)', ToCome(p)'), HandlerOK',
         \A q \in Ports \ {p} : /\ Writing(q)' <=> Writing(q)
                                /\ Counted(q)' = Counted(q) /\ ToCome(q)' = ToCome(q)
  PROVE  CountInv'
<1>1. DOMAIN portLinks' = Ports /\ portLinks'[p] = link /\ \A q \in Ports \ {p} : portLinks'[q] = portLinks[q]
  BY DEF CountInv
<1>2. ASSUME NEW q \in Ports
      PROVE  /\ Writing(q)' => portLinks'[q] # NULL
             /\ portLinks'[q] # NULL => CountOK(q, portLinks'[q], Counted(q)', ToCome(q)')
  <2>1. CASE q = p
    <3>1. link # NULL
      BY DEF CountOK, NoNullLink
    <3> QED
      BY <1>1, <2>1, <3>1
  <2>2. CASE q # p
    <3>1. portLinks'[q] = portLinks[q] /\ (Writing(q)' <=> Writing(q))
      BY <1>1, <2>2
    <3>2. /\ Writing(q) => portLinks[q] # NULL
          /\ portLinks[q] # NULL => CountOK(q, portLinks[q], Counted(q), ToCome(q))
      BY DEF CountInv
    <3>3. Counted(q)' = Counted(q) /\ ToCome(q)' = ToCome(q)
      BY <2>2
    <3> QED
      BY <3>1, <3>2, <3>3
  <2> QED
    BY <2>1, <2>2
<1> QED
  BY <1>1, <1>2 DEF CountInv

\* The fields of a link.
LEMMA LinkIs ==
  ASSUME NEW link \in Link
  PROVE  \E data \in Seq(Byte), d \in Seq(Nat), since \in Nat, infos \in Seq(Origin) :
           /\ link = [sock |-> Socket(data, d, since), pckInfos |-> infos]
           /\ link.sock = Socket(data, d, since) /\ link.pckInfos = infos
           /\ link.sock.data = data /\ link.sock.delims = d /\ link.sock.sinceLastDelim = since
BY DEF Link, Socket

\* What has the parts of a link is one.
LEMMA IsLink ==
  ASSUME NEW data \in Seq(Byte), NEW d \in Seq(Nat), NEW since \in Nat, NEW infos \in Seq(Origin),
         NEW link, link = [sock |-> Socket(data, d, since), pckInfos |-> infos]
  PROVE  /\ link \in Link
         /\ link.sock.data = data /\ link.sock.delims = d /\ link.sock.sinceLastDelim = since
         /\ link.pckInfos = infos
<1>1. PICK sock : sock = Socket(data, d, since)
  OBVIOUS
<1>2. sock \in [data : Seq(Byte), delims : Seq(Nat), sinceLastDelim : Nat]
  BY <1>1 DEF Socket
<1>3. sock.data = data /\ sock.delims = d /\ sock.sinceLastDelim = since
  BY <1>1 DEF Socket
<1>4. link = [sock |-> sock, pckInfos |-> infos]
  BY <1>1
<1>5. link \in Link
  BY <1>2, <1>4 DEF Link
<1> QED
  BY <1>3, <1>4, <1>5

\* The handler at work: its port, and what there is.
LEMMA AtWork ==
  ASSUME CountInv, Handle
  PROVE  /\ handler \in [pc : {"byte", "push", "delim", "infos"}, port : Ports, from : Origin,
                         left : Seq(Byte)]
         /\ handler # Idle /\ Writing(handler.port) /\ ToCome(handler.port) = Len(handler.left)
         /\ CountOK(handler.port, portLinks[handler.port], Counted(handler.port), Len(handler.left))
<1>1. handler # Idle
  BY DEF Handle, CountByte, PushByte, WriteDelimiter, PushInfos, Idle
<1>2. handler \in [pc : {"byte", "push", "delim", "infos"}, port : Ports, from : Origin, left : Seq(Byte)]
  BY <1>1 DEF CountInv, HandlerOK
<1>3. Writing(handler.port) /\ ToCome(handler.port) = Len(handler.left) /\ handler.port \in Ports
  BY <1>1, <1>2 DEF Writing, ToCome
<1> QED
  BY <1>1, <1>2, <1>3 DEF CountInv

\* ... and after its step.
LEMMA WorkDone ==
  ASSUME NoNullLink, CountInv, Handle, NEW link, portLinks' = [portLinks EXCEPT ![handler.port] = link],
         NEW pc, pc \in {"byte", "push", "delim", "infos"}, NEW left \in Seq(Byte),
         pc \in {"byte", "push"} => left # <<>>,
         handler' = [pc |-> pc, port |-> handler.port, from |-> handler.from, left |-> left],
         CountOK(handler.port, link, IF pc = "push" THEN 1 ELSE 0, Len(left))
  PROVE  CountInv'
<1>1. PICK p \in Ports : p = handler.port
  BY AtWork
<1>2. handler' \in [pc : {"byte", "push", "delim", "infos"}, port : Ports, from : Origin, left : Seq(Byte)]
  BY AtWork
<1>3. handler'.pc = pc /\ handler'.port = p /\ handler'.left = left
  BY <1>1
<1>4. handler' # Idle
  BY <1>3 DEF Idle
<1>5. HandlerOK'
  BY <1>2, <1>3 DEF HandlerOK
<1>6. Counted(p)' = (IF pc = "push" THEN 1 ELSE 0) /\ ToCome(p)' = Len(left)
  BY <1>3, <1>4 DEF Counted, ToCome, Writing, Idle
<1>7. ASSUME NEW q \in Ports \ {p}
      PROVE  (Writing(q)' <=> Writing(q)) /\ Counted(q)' = Counted(q) /\ ToCome(q)' = ToCome(q)
  <2>1. ~Writing(q) /\ ~Writing(q)'
    BY <1>1, <1>3, <1>7 DEF Writing
  <2>2. Counted(q) = 0 /\ ToCome(q) = 0
    BY <2>1 DEF Counted, ToCome
  <2>3. Counted(q)' = 0 /\ ToCome(q)' = 0
    BY <2>1 DEF Counted, ToCome
  <2> QED
    BY <2>1, <2>2, <2>3
<1> QED
  BY <1>1, <1>5, <1>6, <1>7, OneLink

\* Counting a byte keeps the counts (udpSocket.cpp, write()).
LEMMA CountByteStep == ASSUME NoNullLink, CountInv, CountByte PROVE CountInv'
<1>1. PICK p \in Ports, left \in Seq(Byte) : p = handler.port /\ left = handler.left
  BY AtWork DEF Handle
<1>2. PICK link : link = portLinks[p]
  OBVIOUS
<1>3. handler.pc = "byte" /\ handler' = [handler EXCEPT !.pc = "push"]
      /\ portLinks' = [portLinks EXCEPT ![p].sock.sinceLastDelim = @ + 1]
  BY <1>1 DEF CountByte
<1>4. CountOK(p, link, 0, Len(left))
  <2>1. Counted(p) = 0
    BY <1>3 DEF Counted
  <2> QED
    BY <1>1, <1>2, <2>1, AtWork DEF Handle
<1>5. PICK data \in Seq(Byte), d \in Seq(Nat), since \in Nat, infos \in Seq(Origin) :
        /\ link = [sock |-> Socket(data, d, since), pckInfos |-> infos]
        /\ link.sock.data = data /\ link.sock.delims = d /\ link.sock.sinceLastDelim = since
  BY <1>4, LinkIs DEF CountOK
<1>6. PICK new : new = [sock |-> Socket(data, d, since + 1), pckInfos |-> infos]
  OBVIOUS
<1>11. portLinks' = [portLinks EXCEPT ![p].sock.sinceLastDelim = since + 1]
  BY <1>2, <1>3, <1>5
<1>7. portLinks' = [portLinks EXCEPT ![p] = new]
  <2>1. portLinks[p] = [sock |-> Socket(data, d, since), pckInfos |-> infos]
    BY <1>2, <1>5
  <2>2. portLinks' = [portLinks EXCEPT ![p] = [sock |-> Socket(data, d, since + 1), pckInfos |-> infos]]
    BY <1>11, <2>1, SinceSet, Zenon
  <2> QED
    BY <1>6, <2>2
<1>8. CountOK(p, new, 1, Len(left))
  <2>1. PICK e : Counts(data, d, since, e, 0)
    BY <1>4, <1>5 DEF CountOK
  <2>2. Counts(data, d, since + 1, e, 1)
    BY <2>1, CountsCounted
  <2>3. since + 1 \in Nat
    OBVIOUS
  <2>4. new \in Link /\ new.sock.data = data /\ new.sock.delims = d /\ new.sock.sinceLastDelim = since + 1
    BY <1>6, <2>3, IsLink
  <2> QED
    BY <1>4, <1>5, <2>2, <2>4 DEF CountOK
<1>9. handler' = [pc |-> "push", port |-> handler.port, from |-> handler.from, left |-> left]
  BY <1>1, <1>3, AtWork DEF Handle
<1>10. left # <<>>
  BY <1>1, <1>3 DEF CountInv, HandlerOK, Idle
<1> QED
  BY <1>1, <1>7, <1>8, <1>9, <1>10, WorkDone DEF Handle

\* So does queueing it.
LEMMA PushByteStep == ASSUME NoNullLink, CountInv, PushByte PROVE CountInv'
<1>1. PICK p \in Ports, left \in Seq(Byte) : p = handler.port /\ left = handler.left
  BY AtWork DEF Handle
<1>2. PICK link : link = portLinks[p]
  OBVIOUS
<1>3. PICK pc : pc = IF Tail(left) = <<>> THEN "delim" ELSE "byte"
  OBVIOUS
<1>4. handler.pc = "push" /\ handler' = [handler EXCEPT !.left = Tail(left), !.pc = pc]
      /\ portLinks' = [portLinks EXCEPT ![p].sock.data = Append(@, Head(left))]
  BY <1>1, <1>3 DEF PushByte
<1>5. CountOK(p, link, 1, Len(left))
  <2>1. Counted(p) = 1
    BY <1>1, <1>4, AtWork DEF Counted, Handle
  <2> QED
    BY <1>1, <1>2, <2>1, AtWork DEF Handle
<1>6. PICK data \in Seq(Byte), d \in Seq(Nat), since \in Nat, infos \in Seq(Origin) :
        /\ link = [sock |-> Socket(data, d, since), pckInfos |-> infos]
        /\ link.sock.data = data /\ link.sock.delims = d /\ link.sock.sinceLastDelim = since
  BY <1>5, LinkIs DEF CountOK
<1>7. left # <<>>
  BY <1>1, <1>4 DEF CountInv, HandlerOK, Idle
<1>8. PICK b, more : b = Head(left) /\ more = Tail(left)
  OBVIOUS
<1>15. b \in Byte /\ more \in Seq(Byte) /\ Len(more) = Len(left) - 1
  BY <1>7, <1>8
<1>9. PICK all : all = Append(data, b)
  OBVIOUS
<1>16. all \in Seq(Byte) /\ Len(all) = Len(data) + 1
  BY <1>9, <1>15
<1>17. portLinks' = [portLinks EXCEPT ![p].sock.data = all]
  BY <1>2, <1>4, <1>6, <1>8, <1>9
<1>10. PICK new : new = [sock |-> Socket(all, d, since), pckInfos |-> infos]
  OBVIOUS
<1>11. portLinks' = [portLinks EXCEPT ![p] = new]
  <2>1. portLinks[p] = [sock |-> Socket(data, d, since), pckInfos |-> infos]
    BY <1>2, <1>6
  <2>2. portLinks' = [portLinks EXCEPT ![p] = [sock |-> Socket(all, d, since), pckInfos |-> infos]]
    BY <1>17, <2>1, DataSet, Zenon
  <2> QED
    BY <1>10, <2>2
<1>12. CountOK(p, new, 0, Len(more))
  <2>1. PICK e : Counts(data, d, since, e, 1)
    BY <1>5, <1>6 DEF CountOK
  <2>2. Counts(all, d, since, e, 0)
    BY <1>9, <1>15, <2>1, CountsQueued
  <2>3. new \in Link /\ new.sock.data = all /\ new.sock.delims = d /\ new.sock.sinceLastDelim = since
    BY <1>10, <1>16, IsLink
  <2>4. Len(data) + Len(left) <= MaxSize /\ p \notin Reserved
    BY <1>5, <1>6 DEF CountOK
  <2>5. Len(all) + Len(more) = Len(data) + Len(left)
    BY <1>15, <1>16
  <2> QED
    BY <2>2, <2>3, <2>4, <2>5 DEF CountOK
<1>13. handler' = [pc |-> pc, port |-> handler.port, from |-> handler.from, left |-> more]
  BY <1>4, <1>8, AtWork DEF Handle
<1>14. pc \in {"byte", "delim"} /\ (pc = "byte" => more # <<>>)
  BY <1>3, <1>8
<1> QED
  BY <1>1, <1>11, <1>12, <1>13, <1>14, <1>15, WorkDone DEF Handle

\* So does the delimiter.
LEMMA WriteDelimiterStep == ASSUME NoNullLink, CountInv, WriteDelimiter PROVE CountInv'
<1>1. PICK p \in Ports, left \in Seq(Byte) : p = handler.port /\ left = handler.left
  BY AtWork DEF Handle
<1>2. PICK link : link = portLinks[p]
  OBVIOUS
<1>3. handler.pc = "delim" /\ handler' = [handler EXCEPT !.pc = "infos"]
      /\ portLinks' = [portLinks EXCEPT ![p].sock.delims = Append(@, link.sock.sinceLastDelim),
                                        ![p].sock.sinceLastDelim = 0]
  BY <1>1, <1>2 DEF WriteDelimiter
<1>4. CountOK(p, link, 0, Len(left))
  <2>1. Counted(p) = 0
    BY <1>3 DEF Counted
  <2> QED
    BY <1>1, <1>2, <2>1, AtWork DEF Handle
<1>5. PICK data \in Seq(Byte), d \in Seq(Nat), since \in Nat, infos \in Seq(Origin) :
        /\ link = [sock |-> Socket(data, d, since), pckInfos |-> infos]
        /\ link.sock.data = data /\ link.sock.delims = d /\ link.sock.sinceLastDelim = since
  BY <1>4, LinkIs DEF CountOK
<1>6. PICK c : c = Append(d, since)
  OBVIOUS
<1>11. portLinks' = [portLinks EXCEPT ![p].sock.delims = c, ![p].sock.sinceLastDelim = 0]
  BY <1>2, <1>3, <1>5, <1>6
<1>7. PICK new : new = [sock |-> Socket(data, c, 0), pckInfos |-> infos]
  OBVIOUS
<1>8. portLinks' = [portLinks EXCEPT ![p] = new]
  <2>1. portLinks[p] = [sock |-> Socket(data, d, since), pckInfos |-> infos]
    BY <1>2, <1>5
  <2>2. portLinks' = [portLinks EXCEPT ![p] = [sock |-> Socket(data, c, 0), pckInfos |-> infos]]
    BY <1>11, <2>1, DelimsSet, Zenon
  <2> QED
    BY <1>7, <2>2
<1>9. CountOK(p, new, 0, Len(left))
  <2>1. PICK e : Counts(data, d, since, e, 0)
    BY <1>4, <1>5 DEF CountOK
  <2>2. c \in Seq(Nat) /\ \E f : Counts(data, c, 0, f, 0)
    BY <1>6, <2>1, CountsDelimited
  <2>3. new \in Link /\ new.sock.data = data /\ new.sock.delims = c /\ new.sock.sinceLastDelim = 0
    BY <1>7, <2>2, IsLink
  <2> QED
    BY <1>4, <1>5, <2>2, <2>3 DEF CountOK
<1>10. handler' = [pc |-> "infos", port |-> handler.port, from |-> handler.from, left |-> left]
  BY <1>1, <1>3, AtWork DEF Handle
<1> QED
  BY <1>1, <1>8, <1>9, <1>10, WorkDone DEF Handle

\* So does queueing the sender.
LEMMA PushInfosStep == ASSUME MaxSize \in Nat, NoNullLink, CountInv, PushInfos PROVE CountInv'
<1>1. PICK p \in Ports, left \in Seq(Byte), from \in Origin :
        p = handler.port /\ left = handler.left /\ from = handler.from
  BY AtWork DEF Handle
<1>2. PICK link : link = portLinks[p]
  OBVIOUS
<1>3. handler.pc = "infos" /\ handler' = Idle
      /\ portLinks' = [portLinks EXCEPT ![p].pckInfos = Append(@, from)]
  BY <1>1, <1>2 DEF PushInfos
<1>4. CountOK(p, link, 0, Len(left))
  <2>1. Counted(p) = 0
    BY <1>3 DEF Counted
  <2> QED
    BY <1>1, <1>2, <2>1, AtWork DEF Handle
<1>5. PICK data \in Seq(Byte), d \in Seq(Nat), since \in Nat, infos \in Seq(Origin) :
        /\ link = [sock |-> Socket(data, d, since), pckInfos |-> infos]
        /\ link.sock.data = data /\ link.sock.delims = d /\ link.sock.sinceLastDelim = since
  BY <1>4, LinkIs DEF CountOK
<1>6. PICK more : more = Append(infos, from)
  OBVIOUS
<1>12. more \in Seq(Origin)
  BY <1>6
<1>13. portLinks' = [portLinks EXCEPT ![p].pckInfos = more]
  BY <1>2, <1>3, <1>5, <1>6
<1>7. PICK new : new = [sock |-> Socket(data, d, since), pckInfos |-> more]
  OBVIOUS
<1>8. portLinks' = [portLinks EXCEPT ![p] = new]
  <2>1. portLinks[p] = [sock |-> Socket(data, d, since), pckInfos |-> infos]
    BY <1>2, <1>5
  <2> QED
    BY <1>7, <1>13, <2>1, InfosSet
<1>9. CountOK(p, new, 0, 0)
  <2>1. PICK e : Counts(data, d, since, e, 0)
    BY <1>4, <1>5 DEF CountOK
  <2>2. new \in Link /\ new.sock.data = data /\ new.sock.delims = d /\ new.sock.sinceLastDelim = since
    BY <1>7, <1>12, IsLink
  <2>3. p \notin Reserved /\ Len(data) + Len(left) <= MaxSize
    BY <1>4, <1>5 DEF CountOK
  <2>5. Len(data) <= MaxSize
    BY <2>3
  <2> QED
    BY <2>1, <2>2, <2>3, <2>5 DEF CountOK
<1>10. Counted(p)' = 0 /\ ToCome(p)' = 0 /\ HandlerOK'
  BY <1>3 DEF Counted, ToCome, Writing, HandlerOK
<1>11. ASSUME NEW q \in Ports \ {p}
       PROVE  (Writing(q)' <=> Writing(q)) /\ Counted(q)' = Counted(q) /\ ToCome(q)' = ToCome(q)
  <2>1. ~Writing(q) /\ ~Writing(q)'
    BY <1>1, <1>3, <1>11 DEF Writing
  <2>2. Counted(q) = 0 /\ ToCome(q) = 0
    BY <2>1 DEF Counted, ToCome
  <2>3. Counted(q)' = 0 /\ ToCome(q)' = 0
    BY <2>1 DEF Counted, ToCome
  <2> QED
    BY <2>1, <2>2, <2>3
<1> QED
  BY <1>8, <1>9, <1>10, <1>11, OneLink

\* So does binding a port, to a socket that is empty.
LEMMA BindStep ==
  ASSUME MaxSize \in Nat, NoNullLink, CountInv, NEW p \in Ports, Bind(p)
  PROVE  CountInv'
<1>1. PICK new : new = [sock |-> Socket(<<>>, <<>>, 0), pckInfos |-> <<>>]
  OBVIOUS
<1>2. portLinks' = [portLinks EXCEPT ![p] = new]
  BY <1>1 DEF Bind, EmptySocket, Socket
<1>3. portLinks[p] = NULL /\ p \notin Reserved /\ handler' = handler
  BY DEF Bind
<1>4. CountOK(p, new, 0, 0)
  <2>1. <<>> \in Seq(Byte) /\ <<>> \in Seq(Nat) /\ <<>> \in Seq(Origin)
    OBVIOUS
  <2>2. new \in Link /\ new.sock.data = <<>> /\ new.sock.delims = <<>> /\ new.sock.sinceLastDelim = 0
    BY <1>1, <2>1 DEF Link, Socket
  <2>3. PICK e : e = [k \in 0 .. 0 |-> 0]
    OBVIOUS
  <2>4. Counts(<<>>, <<>>, 0, e, 0)
    BY <2>3 DEF Counts, Places, Last
  <2> QED
    BY <1>3, <2>2, <2>4 DEF CountOK
<1>5. ~Writing(p)
  BY <1>3 DEF CountInv
<1>6. ~Writing(p)' /\ \A q \in Ports : Writing(q)' <=> Writing(q)
  BY <1>3, <1>5 DEF Writing
<1>7. Counted(p)' = 0 /\ ToCome(p)' = 0
  BY <1>6 DEF Counted, ToCome
<1>8. \A q \in Ports : Counted(q)' = Counted(q) /\ ToCome(q)' = ToCome(q)
  BY <1>3 DEF Counted, ToCome, Writing
<1>9. HandlerOK'
  BY <1>3 DEF CountInv, HandlerOK
<1> QED
  BY <1>2, <1>4, <1>6, <1>7, <1>8, <1>9, OneLink

\* So does a packet received, refused when there is no room.
LEMMA ReceiveStep ==
  ASSUME MaxSize \in Nat, CountInv, NEW p \in Ports, NEW from \in Origin, NEW len \in Nat \ {0},
         Receive(p, from, len)
  PROVE  CountInv'
<1>1. PICK left \in Seq(Byte) : left = Packet(from, len, TRUE) /\ Len(left) = len /\ left # <<>>
  <2>1. PICK ends \in BOOLEAN : ends = TRUE
    OBVIOUS
  <2>5. Packet(from, len, ends) \in Seq(Byte) /\ Len(Packet(from, len, ends)) = len
    BY PacketIs
  <2>2. Packet(from, len, TRUE) \in Seq(Byte) /\ Len(Packet(from, len, TRUE)) = len
    BY <2>1, <2>5
  <2>3. PICK left \in Seq(Byte) : left = Packet(from, len, TRUE) /\ Len(left) = len
    BY <2>2
  <2>4. left # <<>>
    BY <2>3
  <2> QED
    BY <2>3, <2>4
<1>2. /\ handler = Idle /\ portLinks[p] # NULL /\ portLinks' = portLinks
      /\ handler' = [pc |-> "byte", port |-> p, from |-> from, left |-> left]
      /\ len <= MaxSize - Len(portLinks[p].sock.data)
  BY <1>1 DEF Receive
<1>3. HandlerOK'
  BY <1>1, <1>2 DEF HandlerOK
<1>4. ASSUME NEW q \in Ports, portLinks[q] # NULL
      PROVE  CountOK(q, portLinks[q], Counted(q)', ToCome(q)')
  <2>1. Counted(q) = 0 /\ ToCome(q) = 0
    BY <1>2 DEF Counted, ToCome, Writing
  <2>2. Counted(q)' = 0
    BY <1>2 DEF Counted
  <2>3. CountOK(q, portLinks[q], 0, 0)
    BY <1>4, <2>1 DEF CountInv
  <2>4. CASE q = p
    <3>1. ToCome(q)' = len
      BY <1>1, <1>2, <2>4 DEF ToCome, Writing, Idle
    <3>2. PICK data \in Seq(Byte) : data = portLinks[q].sock.data
      BY <2>3, LinkIs DEF CountOK
    <3>3. Len(data) + len <= MaxSize
      BY <1>2, <2>4, <3>2
    <3> QED
      BY <2>2, <2>3, <3>1, <3>2, <3>3 DEF CountOK
  <2>5. CASE q # p
    <3>1. ToCome(q)' = 0
      BY <1>2, <2>5 DEF ToCome, Writing
    <3> QED
      BY <2>2, <2>3, <3>1
  <2> QED
    BY <2>4, <2>5
<1>5. \A q \in Ports : Writing(q)' => q = p
  BY <1>2 DEF Writing
<1> QED
  BY <1>2, <1>3, <1>4, <1>5 DEF CountInv

\* What a read may do.
DoesRead(p, data, infos, r) ==
  /\ handler' = handler /\ handler = Idle
  /\ \/ data = <<>> /\ portLinks' = portLinks /\ got'.bytes = <<>>
     \/ /\ data # <<>> /\ infos = <<>>
        /\ portLinks' = [portLinks EXCEPT ![p] = [sock |-> r.s, pckInfos |-> infos]]
     \/ /\ data # <<>> /\ infos # <<>>
        /\ got' = [bytes |-> r.bytes, from |-> Head(infos), whole |-> r.atDelim]
        /\ portLinks' = [portLinks EXCEPT ![p] =
             [sock |-> r.s, pckInfos |-> IF r.atDelim THEN Tail(infos) ELSE infos]]

\* A read returns nothing, or takes bytes and perhaps a sender.
LEMMA ReadCases ==
  ASSUME NEW p \in Ports, NEW max, ReadUdp(p, max), NEW data, NEW d, NEW since, NEW infos,
         portLinks[p] = [sock |-> Socket(data, d, since), pckInfos |-> infos],
         NEW r, r = ReadFrom(Socket(data, d, since), max)
  PROVE  DoesRead(p, data, infos, r)
<1>1. PICK link : link = portLinks[p]
  OBVIOUS
<1>2. link.sock = Socket(data, d, since) /\ link.pckInfos = infos /\ link.sock.data = data
  BY <1>1 DEF Socket
<1>3. r = ReadFrom(link.sock, max)
  BY <1>2
<1>4. handler' = handler /\ handler = Idle
  BY DEF ReadUdp
<1>5. \/ /\ link.sock.data = <<>>
         /\ got' = [bytes |-> <<>>, from |-> Nobody, whole |-> FALSE] /\ portLinks' = portLinks
      \/ /\ link.sock.data # <<>> /\ link.pckInfos = <<>>
         /\ portLinks' = [portLinks EXCEPT ![p].sock = r.s]
      \/ /\ link.sock.data # <<>> /\ link.pckInfos # <<>>
         /\ got' = [bytes |-> r.bytes, from |-> Head(link.pckInfos), whole |-> r.atDelim]
         /\ portLinks' = [portLinks EXCEPT ![p] =
              [sock |-> r.s, pckInfos |-> IF r.atDelim THEN Tail(@.pckInfos) ELSE @.pckInfos]]
  BY <1>1, <1>3 DEF ReadUdp
<1>6. CASE data = <<>>
  <2>1. portLinks' = portLinks /\ got' = [bytes |-> <<>>, from |-> Nobody, whole |-> FALSE]
    BY <1>2, <1>5, <1>6
  <2> QED
    BY <1>4, <1>6, <2>1 DEF DoesRead
<1>7. CASE data # <<>> /\ infos = <<>>
  <2>1. portLinks' = [portLinks EXCEPT ![p].sock = r.s]
    BY <1>2, <1>5, <1>7
  <2>2. portLinks' = [portLinks EXCEPT ![p] = [sock |-> r.s, pckInfos |-> infos]]
    BY <2>1, SockSet
  <2> QED
    BY <1>4, <1>7, <2>2 DEF DoesRead
<1>8. CASE data # <<>> /\ infos # <<>>
  <2>1. /\ got' = [bytes |-> r.bytes, from |-> Head(infos), whole |-> r.atDelim]
        /\ portLinks' = [portLinks EXCEPT ![p] =
             [sock |-> r.s, pckInfos |-> IF r.atDelim THEN Tail(@.pckInfos) ELSE @.pckInfos]]
    BY <1>2, <1>5, <1>8
  <2>2. portLinks' = [portLinks EXCEPT ![p] =
             [sock |-> r.s, pckInfos |-> IF r.atDelim THEN Tail(infos) ELSE infos]]
    BY <1>1, <1>2, <2>1
  <2> QED
    BY <1>4, <1>8, <2>1, <2>2 DEF DoesRead
<1> QED
  BY <1>6, <1>7, <1>8

\* What changes neither socket nor handler keeps the counts.
LEMMA SameCounts ==
  ASSUME CountInv, portLinks' = portLinks, handler' = handler
  PROVE  CountInv'
<1>1. HandlerOK'
  BY DEF CountInv, HandlerOK
<1>2. \A q \in Ports : (Writing(q)' <=> Writing(q)) /\ Counted(q)' = Counted(q) /\ ToCome(q)' = ToCome(q)
  BY DEF Writing, Counted, ToCome
<1> QED
  BY <1>1, <1>2 DEF CountInv

\* A read keeps the counts, whatever the handler was doing.
LEMMA ReadUdpStep ==
  ASSUME MaxSize \in Nat, NoNullLink, CountInv, NEW p \in Ports, NEW max \in Nat, ReadUdp(p, max)
  PROVE  CountInv'
<1>1. PICK link : link = portLinks[p]
  OBVIOUS
<1>2. link # NULL
  BY <1>1 DEF ReadUdp
<1>3. PICK counted, coming \in Nat : counted = Counted(p) /\ coming = ToCome(p)
  <2>1. Counted(p) \in Nat
    BY DEF Counted
  <2>2. ToCome(p) \in Nat
    BY DEF CountInv, HandlerOK, ToCome, Writing
  <2> QED
    BY <2>1, <2>2
<1>4. CountOK(p, link, counted, coming)
  BY <1>1, <1>2, <1>3 DEF CountInv
<1>5. PICK data \in Seq(Byte), d \in Seq(Nat), since \in Nat, infos \in Seq(Origin) :
        /\ link = [sock |-> Socket(data, d, since), pckInfos |-> infos]
        /\ link.sock.data = data /\ link.sock.delims = d /\ link.sock.sinceLastDelim = since
  BY <1>4, LinkIs DEF CountOK
<1>6. PICK r : r = ReadFrom(Socket(data, d, since), max)
  OBVIOUS
<1>7. PICK n \in 0 .. Len(data), left \in Nat, c \in Seq(Nat), rest \in Seq(Byte) : \E g :
        /\ r.s = Socket(rest, c, left) /\ Len(rest) = Len(data) - n
        /\ Counts(rest, c, left, g, counted)
  <2>1. PICK e : Counts(data, d, since, e, counted)
    BY <1>4, <1>5 DEF CountOK
  <2>2. LeavesCounts(r.s, data, counted)
    BY <1>6, <2>1, CountsRead, Zenon
  <2> QED
    BY <2>2 DEF LeavesCounts
<1>8. ASSUME NEW more \in Seq(Origin),
             portLinks' = [portLinks EXCEPT ![p] = [sock |-> r.s, pckInfos |-> more]],
             handler' = handler
      PROVE  CountInv'
  <2>1. PICK new : new = [sock |-> Socket(rest, c, left), pckInfos |-> more]
    OBVIOUS
  <2>2. portLinks' = [portLinks EXCEPT ![p] = new]
    BY <1>7, <1>8, <2>1
  <2>3. new \in Link /\ new.sock.data = rest /\ new.sock.delims = c /\ new.sock.sinceLastDelim = left
    BY <2>1, IsLink
  <2>4. p \notin Reserved /\ Len(rest) + coming <= MaxSize
    <3>1. p \notin Reserved /\ Len(data) + coming <= MaxSize
      BY <1>4, <1>5 DEF CountOK
    <3>3. Len(rest) = Len(data) - n
      BY <1>7
    <3>2. PICK x, y \in Nat : x = Len(rest) /\ y = Len(data)
      OBVIOUS
    <3>4. x = y - n /\ n \in Nat /\ y + coming <= MaxSize
      BY <3>1, <3>2, <3>3
    <3>5. x + coming <= MaxSize
      BY <3>4
    <3> QED
      BY <3>1, <3>2, <3>5
  <2>5. CountOK(p, new, counted, coming)
    BY <1>7, <2>3, <2>4 DEF CountOK
  <2>6. HandlerOK' /\ \A q \in Ports : /\ Writing(q)' <=> Writing(q)
                                       /\ Counted(q)' = Counted(q) /\ ToCome(q)' = ToCome(q)
    BY <1>8 DEF CountInv, HandlerOK, Writing, Counted, ToCome
  <2>7. CountOK(p, new, Counted(p)', ToCome(p)')
    BY <1>3, <2>5, <2>6
  <2> QED
    BY <2>2, <2>6, <2>7, OneLink
<1>9. /\ handler' = handler
      /\ \/ portLinks' = portLinks
         \/ portLinks' = [portLinks EXCEPT ![p] = [sock |-> r.s, pckInfos |-> infos]]
         \/ /\ infos # <<>>
            /\ portLinks' = [portLinks EXCEPT ![p] =
                 [sock |-> r.s, pckInfos |-> IF r.atDelim THEN Tail(infos) ELSE infos]]
  <2>1. portLinks[p] = [sock |-> Socket(data, d, since), pckInfos |-> infos]
    BY <1>1, <1>5
  <2>2. DoesRead(p, data, infos, r)
    BY <1>6, <2>1, ReadCases, Zenon
  <2> QED
    BY <2>2 DEF DoesRead
<1>10. infos # <<>> => Tail(infos) \in Seq(Origin)
  OBVIOUS
<1>11. CASE portLinks' = portLinks
  BY <1>9, <1>11, SameCounts
<1>12. CASE portLinks' = [portLinks EXCEPT ![p] = [sock |-> r.s, pckInfos |-> infos]]
  BY <1>8, <1>9, <1>12
<1>13. CASE /\ infos # <<>>
            /\ portLinks' = [portLinks EXCEPT ![p] =
                 [sock |-> r.s, pckInfos |-> IF r.atDelim THEN Tail(infos) ELSE infos]]
  <2>1. PICK more \in Seq(Origin) : more = IF r.atDelim THEN Tail(infos) ELSE infos
    BY <1>10, <1>13
  <2> QED
    BY <1>8, <1>9, <1>13, <2>1
<1> QED
  BY <1>9, <1>11, <1>12, <1>13
-----------------------------------------------------------------------------
\* When no program comes between.  The senders are those of the packets, in
\* order; the bytes of a packet that is being written follow the others.
FirstFrom(data, e, infos, n) ==
  \A k \in 1 .. n : \A i \in 1 .. Len(data) : e[k - 1] < i /\ i <= e[k] => data[i].from = infos[k]
Senders(data, d, e, infos) == Len(infos) = Len(d) /\ FirstFrom(data, e, infos, Len(d))
Begun(data, d, e, from) == \A i \in 1 .. Len(data) : i > Last(d, e) => data[i].from = from

\* The states of a socket: no packet is being written, some bytes are, all its
\* bytes are, its delimiter is, and its sender is missing.
Settled(data, d, since, infos) ==
  since = 0 /\ \E e : Marked(data, d, 0, e) /\ Senders(data, d, e, infos)
UnderWay(data, d, since, infos, from, counted) == \E begun \in Nat : \E e :
  /\ since = begun + counted
  /\ Marked(data, d, begun, e) /\ Senders(data, d, e, infos) /\ Begun(data, d, e, from)
Ended(data, d, since, infos, from) == \E front \in Seq(Byte), b \in Byte, begun \in Nat : \E e :
  /\ data = Append(front, b) /\ b.last /\ b.from = from /\ since = begun + 1
  /\ Marked(front, d, begun, e) /\ Senders(front, d, e, infos) /\ Begun(front, d, e, from)

\* A byte queued is behind those that were.
LEMMA AppendedIs ==
  ASSUME NEW data \in Seq(Byte), NEW b \in Byte
  PROVE  /\ Append(data, b) = data \o <<b>> /\ <<b>> \in Seq(Byte) /\ Len(<<b>>) = 1 /\ <<b>>[1] = b
         /\ Append(data, b) \in Seq(Byte) /\ Len(Append(data, b)) = Len(data) + 1
         /\ \A i \in 1 .. Len(data) : Append(data, b)[i] = data[i]
         /\ Append(data, b)[Len(data) + 1] = b
OBVIOUS

\* The bytes of whole packets stay theirs when one is added.
LEMMA SendersKept ==
  ASSUME NEW data \in Seq(Byte), NEW d \in Seq(Nat), NEW begun \in Nat, NEW e, NEW infos,
         Marked(data, d, begun, e), Senders(data, d, e, infos), NEW b \in Byte,
         NEW all, all = Append(data, b)
  PROVE  FirstFrom(all, e, infos, Len(d))
<1>1. PICK l \in Nat : l = Len(data)
  OBVIOUS
<1>2. Len(all) = l + 1 /\ \A i \in 1 .. l : all[i] = data[i]
  BY <1>1, AppendedIs
<1>3. ASSUME NEW k \in 1 .. Len(d), NEW i \in 1 .. Len(all), e[k - 1] < i, i <= e[k]
      PROVE  all[i].from = infos[k]
  <2>1. PICK x, y \in Nat : x = e[k] /\ y = Last(d, e) /\ x <= y
    BY MarkedLast
  <2>2. y + begun = l
    BY <1>1, <2>1 DEF Marked
  <2>3. i \in 1 .. l
    BY <1>2, <1>3, <2>1, <2>2
  <2>4. data[i].from = infos[k]
    BY <1>1, <1>3, <2>3 DEF Senders, FirstFrom
  <2> QED
    BY <1>2, <2>3, <2>4
<1> QED
  BY <1>3 DEF FirstFrom

\* Queueing the last byte of a packet ends it; another leaves it under way.
LEMMA BytePushed ==
  ASSUME NEW data \in Seq(Byte), NEW d \in Seq(Nat), NEW since \in Nat, NEW infos, NEW from,
         UnderWay(data, d, since, infos, from, 1), NEW b \in Byte, b.from = from
  PROVE  /\ b.last => Ended(Append(data, b), d, since, infos, from)
         /\ ~b.last => UnderWay(Append(data, b), d, since, infos, from, 0)
<1>1. PICK begun \in Nat : \E e :
        /\ since = begun + 1
        /\ Marked(data, d, begun, e) /\ Senders(data, d, e, infos) /\ Begun(data, d, e, from)
  BY DEF UnderWay
<1>2. PICK e :
        /\ since = begun + 1
        /\ Marked(data, d, begun, e) /\ Senders(data, d, e, infos) /\ Begun(data, d, e, from)
  BY <1>1
<1>3. CASE b.last
  BY <1>2, <1>3 DEF Ended
<1>4. CASE ~b.last
  <2>1. PICK more \in Seq(Byte) : more = <<b>> /\ Len(more) = 1 /\ more[1] = b
    BY AppendedIs
  <2>2. NoEnd(more)
    BY <1>4, <2>1 DEF NoEnd
  <2>3. Marked(data \o more, d, begun + 1, e)
    BY <1>2, <2>1, <2>2, MarkedBytes
  <2>4. PICK all : all = Append(data, b)
    OBVIOUS
  <2>5. /\ all = data \o more /\ all \in Seq(Byte) /\ Len(all) = Len(data) + 1
        /\ (\A i \in 1 .. Len(data) : all[i] = data[i]) /\ all[Len(data) + 1] = b
    BY <2>1, <2>4, AppendedIs
  <2>6. Marked(all, d, begun + 1, e)
    BY <2>3, <2>5
  <2>7. Senders(all, d, e, infos)
    <3>1. FirstFrom(all, e, infos, Len(d))
      BY <1>2, <2>4, SendersKept
    <3> QED
      BY <1>2, <3>1 DEF Senders
  <2>8. Begun(all, d, e, from)
    <3>1. ASSUME NEW i \in 1 .. Len(all), i > Last(d, e) PROVE all[i].from = from
      <4>1. CASE i = Len(data) + 1
        BY <2>5, <4>1
      <4>2. CASE i # Len(data) + 1
        <5>1. i \in 1 .. Len(data)
          BY <2>5, <4>2
        <5>2. all[i] = data[i]
          BY <2>5, <5>1
        <5> QED
          BY <1>2, <3>1, <5>1, <5>2 DEF Begun
      <4> QED
        BY <4>1, <4>2
    <3> QED
      BY <3>1 DEF Begun
  <2>9. since = (begun + 1) + 0 /\ begun + 1 \in Nat
    BY <1>2
  <2>10. UnderWay(all, d, since, infos, from, 0)
    BY <2>6, <2>7, <2>8, <2>9 DEF UnderWay
  <2> QED
    BY <1>4, <2>4, <2>10
<1> QED
  BY <1>3, <1>4

\* Delimiter and sender written, the three queues tell the same packets.
LEMMA PacketWritten ==
  ASSUME NEW data \in Seq(Byte), NEW d \in Seq(Nat), NEW since \in Nat, NEW infos \in Seq(Origin),
         NEW from \in Origin, Ended(data, d, since, infos, from)
  PROVE  Settled(data, Append(d, since), 0, Append(infos, from))
<1>1. PICK front \in Seq(Byte), b \in Byte, begun \in Nat : \E e :
        /\ data = Append(front, b) /\ b.last /\ b.from = from /\ since = begun + 1
        /\ Marked(front, d, begun, e) /\ Senders(front, d, e, infos) /\ Begun(front, d, e, from)
  BY DEF Ended
<1>2. PICK e :
        /\ data = Append(front, b) /\ b.last /\ b.from = from /\ since = begun + 1
        /\ Marked(front, d, begun, e) /\ Senders(front, d, e, infos) /\ Begun(front, d, e, from)
  BY <1>1
<1>3. PICK more \in Seq(Byte) : more = <<b>> /\ Len(more) = 1 /\ more[1] = b
  BY AppendedIs
<1>4. OneEnd(more) /\ more # <<>>
  BY <1>2, <1>3 DEF OneEnd
<1>5. PICK c, f : c = Append(d, since) /\ f = PlacesAppended(d, e, since)
  OBVIOUS
<1>6. /\ data = front \o more /\ Len(data) = Len(front) + 1 /\ data[Len(front) + 1] = b
      /\ \A i \in 1 .. Len(front) : data[i] = front[i]
  BY <1>2, <1>3, AppendedIs
<1>7. since = begun + Len(more)
  BY <1>2, <1>3
<1>8. /\ c \in Seq(Nat) /\ Len(c) = Len(d) + 1 /\ Marked(front \o more, c, 0, f)
      /\ (\A k \in 0 .. Len(d) : f[k] = e[k]) /\ f[Len(d) + 1] = Len(front) + Len(more)
  <2>1. /\ Append(d, since) \in Seq(Nat) /\ Len(Append(d, since)) = Len(d) + 1
        /\ Marked(front \o more, Append(d, since), 0, PlacesAppended(d, e, since))
        /\ OneMorePlace(PlacesAppended(d, e, since), d, e, Len(front) + Len(more))
    <3>1. Marked(front, d, begun, e)
      BY <1>2
    <3>2. PICK count : count = begun + Len(more)
      OBVIOUS
    <3>3. /\ Append(d, count) \in Seq(Nat) /\ Len(Append(d, count)) = Len(d) + 1
          /\ Marked(front \o more, Append(d, count), 0, PlacesAppended(d, e, count))
          /\ OneMorePlace(PlacesAppended(d, e, count), d, e, Len(front) + Len(more))
      BY <1>4, <3>1, <3>2, MarkedPacket
    <3> QED
      BY <1>7, <3>2, <3>3
  <2> QED
    BY <1>5, <2>1 DEF OneMorePlace
<1>9. PICK all : all = Append(infos, from)
  OBVIOUS
<1>10. Len(infos) = Len(d)
  BY <1>2 DEF Senders
<1>11. /\ Len(all) = Len(c) /\ all[Len(d) + 1] = from
       /\ \A k \in 1 .. Len(d) : all[k] = infos[k]
  BY <1>8, <1>9, <1>10
<1>15. FirstFrom(data, e, infos, Len(d))
  BY <1>2, SendersKept
<1>12. ASSUME NEW k \in 1 .. Len(c), NEW i \in 1 .. Len(data), f[k - 1] < i, i <= f[k]
       PROVE  data[i].from = all[k]
  <2>1. CASE k = Len(d) + 1
    <3>1. k - 1 = Len(d) /\ Len(d) \in 0 .. Len(d)
      BY <2>1
    <3>2. i > Last(d, e)
      BY <1>8, <1>12, <3>1 DEF Last
    <3>3. CASE i = Len(front) + 1
      BY <1>2, <1>6, <1>11, <2>1, <3>3
    <3>4. CASE i # Len(front) + 1
      <4>1. i \in 1 .. Len(front)
        BY <1>6, <3>4
      <4>2. data[i] = front[i]
        BY <1>6, <4>1
      <4>3. front[i].from = from
        BY <1>2, <3>2, <4>1 DEF Begun
      <4> QED
        BY <1>11, <2>1, <4>2, <4>3
    <3> QED
      BY <3>3, <3>4
  <2>2. CASE k # Len(d) + 1
    <3>1. k \in 1 .. Len(d) /\ k \in 0 .. Len(d) /\ k - 1 \in 0 .. Len(d)
      BY <1>8, <2>2
    <3>2. e[k - 1] < i /\ i <= e[k]
      BY <1>8, <1>12, <3>1
    <3>3. data[i].from = infos[k]
      BY <1>15, <3>1, <3>2 DEF FirstFrom
    <3> QED
      BY <1>11, <3>1, <3>3
  <2> QED
    BY <2>1, <2>2
<1>13. Senders(data, c, f, all)
  BY <1>11, <1>12 DEF Senders, FirstFrom
<1>14. Marked(data, c, 0, f)
  BY <1>6, <1>8
<1> QED
  BY <1>5, <1>9, <1>13, <1>14 DEF Settled

\* Nothing of a packet is there when its handling begins.
LEMMA PacketBegins ==
  ASSUME NEW data \in Seq(Byte), NEW d \in Seq(Nat), NEW since, NEW infos,
         Settled(data, d, since, infos), NEW from
  PROVE  UnderWay(data, d, since, infos, from, 0)
<1>1. PICK e : since = 0 /\ Marked(data, d, 0, e) /\ Senders(data, d, e, infos)
  BY DEF Settled
<1>2. Last(d, e) = Len(data)
  <2>1. PICK x \in Nat : x = Last(d, e)
    BY <1>1, MarkedLast
  <2> QED
    BY <1>1, <2>1 DEF Marked
<1>3. Begun(data, d, e, from)
  BY <1>2 DEF Begun
<1> QED
  BY <1>1, <1>3 DEF UnderWay

\* What a read between two packets gives, and what it leaves.
ReadRight(r, data, infos) ==
  /\ data # <<>> => infos # <<>>
  /\ \E rest \in Seq(Byte), c \in Seq(Nat) :
       r.s = Socket(rest, c, 0) /\ Settled(rest, c, 0, IF r.atDelim THEN Tail(infos) ELSE infos)
  /\ r.bytes # <<>> =>
       /\ \A i \in 1 .. Len(r.bytes) :
            r.bytes[i].from = Head(infos) /\ (r.bytes[i].last => i = Len(r.bytes))
       /\ r.atDelim = r.bytes[Len(r.bytes)].last

\* Whether a read ends at a delimiter is true or false.
LEMMA AtDelimIs ==
  ASSUME NEW data, NEW d, NEW since, NEW max, NEW r, r = ReadFrom(Socket(data, d, since), max)
  PROVE  r.atDelim \in BOOLEAN
<1>1. PICK s : r.atDelim = AtDelim(s)
  BY ReadIs
<1> QED
  BY <1>1 DEF AtDelim

\* A read between packets names the sender of its bytes, and leaves the three
\* queues telling the same packets.
LEMMA SettledRead ==
  ASSUME NEW data \in Seq(Byte), NEW d \in Seq(Nat), NEW infos \in Seq(Origin),
         Settled(data, d, 0, infos), NEW max \in Nat, NEW r,
         r = ReadFrom(Socket(data, d, 0), max)
  PROVE  ReadRight(r, data, infos)
<1>1. PICK e : Marked(data, d, 0, e) /\ Senders(data, d, e, infos)
  BY DEF Settled
<1>2. PICK n \in 0 .. Len(data), left \in Nat : \E rest, c, g :
        /\ r.s = Socket(rest, c, left) /\ r.bytes = SubSeq(data, 1, n)
        /\ Rest(rest, data, n) /\ Marked(rest, c, left, g) /\ c \in Seq(Nat)
        /\ d # <<>> => n <= d[1]
        /\ r.atDelim <=> d # <<>> /\ d[1] = n
        /\ r.atDelim => n # 0 /\ Reached(c, g, d, e, n)
        /\ ~r.atDelim => Before(c, g, d, e, n)
        /\ left = 0 - (IF d = <<>> THEN n ELSE 0)
  <2>1. PICK since \in Nat : since = 0
    OBVIOUS
  <2>2. Marked(data, d, since, e) /\ r = ReadFrom(Socket(data, d, since), max)
    BY <1>1, <2>1
  <2>3. Takes(r, data, d, since, e)
    BY <2>2, MarkedRead, Zenon
  <2> QED
    BY <2>1, <2>3, Zenon DEF Takes
<1>3. PICK rest, c, g :
        /\ r.s = Socket(rest, c, left) /\ r.bytes = SubSeq(data, 1, n)
        /\ Rest(rest, data, n) /\ Marked(rest, c, left, g) /\ c \in Seq(Nat)
        /\ d # <<>> => n <= d[1]
        /\ r.atDelim <=> d # <<>> /\ d[1] = n
        /\ r.atDelim => n # 0 /\ Reached(c, g, d, e, n)
        /\ ~r.atDelim => Before(c, g, d, e, n)
        /\ left = 0 - (IF d = <<>> THEN n ELSE 0)
  BY <1>2
<1>4. left = 0
  <2>1. left = 0 - (IF d = <<>> THEN n ELSE 0)
    BY <1>3
  <2>2. n \in Nat
    OBVIOUS
  <2>3. PICK taken : taken = IF d = <<>> THEN n ELSE 0
    OBVIOUS
  <2>4. taken \in Nat
    BY <2>2, <2>3, Zenon
  <2>5. left = 0 - taken
    BY <2>1, <2>3, Zenon
  <2> QED
    BY <2>4, <2>5
<1>5. rest \in Seq(Byte) /\ c \in Seq(Nat) /\ r.s = Socket(rest, c, 0) /\ Marked(rest, c, 0, g)
  BY <1>3, <1>4 DEF Rest
<1>6. data # <<>> => d # <<>>
  <2>1. CASE d = <<>>
    <3>1. Last(d, e) = 0
      BY <1>1, <2>1 DEF Marked, Places, Last
    <3>2. Len(data) = 0
      BY <1>1, <3>1 DEF Marked
    <3> QED
      BY <3>2
  <2> QED
    BY <2>1
<1>7. Len(infos) = Len(d) /\ (d # <<>> => infos # <<>> /\ Head(infos) = infos[1])
  BY <1>1 DEF Senders
<1>8. /\ e[0] = 0 /\ (d # <<>> => d[1] \in Nat \ {0} /\ e[1] = d[1])
      /\ \A k \in 0 .. Len(d) : e[k] \in Nat
  BY <1>1, MarkedFirst
<1>9. ASSUME NEW k \in 1 .. Len(d), NEW i \in 1 .. Len(rest), e[k - 1] < i + n, i + n <= e[k]
      PROVE  rest[i].from = infos[k]
  <2>1. i + n \in 1 .. Len(data) /\ rest[i] = data[i + n]
    BY <1>3, RestIs
  <2> QED
    BY <1>1, <1>9, <2>1 DEF Senders, FirstFrom
<1> DEFINE Leaves == \E rest1 \in Seq(Byte), c1 \in Seq(Nat) :
                       /\ r.s = Socket(rest1, c1, 0)
                       /\ Settled(rest1, c1, 0, IF r.atDelim THEN Tail(infos) ELSE infos)
<1> HIDE DEF Leaves
<1>10. ASSUME r.atDelim PROVE Leaves
  <2>1. Reached(c, g, d, e, n)
    BY <1>3, <1>10
  <2>2. d # <<>> /\ infos # <<>>
    BY <1>3, <1>7, <1>10
  <2>3. PICK m \in Nat : m + 1 = Len(d) /\ m + 1 = Len(infos)
    BY <1>7, <2>2
  <2>4. PICK more : more = Tail(infos)
    OBVIOUS
  <2>5. Len(more) = m /\ \A k \in 1 .. m : more[k] = infos[k + 1]
    BY <2>2, <2>3, <2>4
  <2>6. Len(c) = m /\ \A k \in 0 .. m : g[k] = e[k + 1] - n
    BY <2>1, <2>3 DEF Reached
  <2>7. ASSUME NEW k \in 1 .. m, NEW i \in 1 .. Len(rest), g[k - 1] < i, i <= g[k]
        PROVE  rest[i].from = more[k]
    <3>7. k \in 0 .. Len(d) /\ k + 1 \in 0 .. Len(d)
      BY <2>3
    <3>8. e[k] \in Nat /\ e[k + 1] \in Nat
      BY <1>8, <3>7
    <3>1. PICK x, y \in Nat : x = e[k] /\ y = e[k + 1]
      BY <3>8
    <3>2. (k - 1) + 1 = k /\ k - 1 \in 0 .. m /\ k \in 0 .. m
      OBVIOUS
    <3>3. g[k - 1] = x - n /\ g[k] = y - n
      BY <2>6, <3>1, <3>2
    <3>9. x - n < i /\ i <= y - n /\ i \in Nat
      BY <2>7, <3>3
    <3>4. x < i + n /\ i + n <= y
      BY <3>9
    <3>5. k + 1 \in 1 .. Len(d) /\ (k + 1) - 1 = k
      BY <2>3
    <3>6. rest[i].from = infos[k + 1]
      BY <1>9, <3>1, <3>4, <3>5
    <3> QED
      BY <2>5, <3>6
  <2>8. Senders(rest, c, g, more)
    BY <2>5, <2>6, <2>7 DEF Senders, FirstFrom
  <2> QED
    BY <1>5, <1>10, <2>4, <2>8 DEF Settled, Leaves
<1>11. ASSUME ~r.atDelim PROVE Leaves
  <2>1. Before(c, g, d, e, n)
    BY <1>3, <1>11
  <2>2. PICK m \in Nat : m = Len(d) /\ m = Len(c) /\ m = Len(infos)
    BY <1>7, <2>1 DEF Before
  <2>3. (\A k \in 1 .. m : g[k] = e[k] - n) /\ g[0] = 0
    BY <1>5, <2>1, <2>2 DEF Before, Marked, Places
  <2>4. ASSUME NEW k \in 1 .. m, NEW i \in 1 .. Len(rest), g[k - 1] < i, i <= g[k]
        PROVE  rest[i].from = infos[k]
    <3>4. k - 1 \in 0 .. Len(d) /\ k \in 0 .. Len(d)
      BY <2>2
    <3>5. e[k - 1] \in Nat /\ e[k] \in Nat
      BY <1>8, <3>4
    <3>1. PICK x, y \in Nat : x = e[k - 1] /\ y = e[k]
      BY <3>5
    <3>2. g[k] = y - n /\ i + n <= y
      BY <2>3, <2>4, <3>1
    <3>3. x < i + n
      <4>1. CASE k = 1
        BY <1>8, <3>1, <4>1
      <4>2. CASE k # 1
        <5>1. k - 1 \in 1 .. m
          BY <4>2
        <5>2. g[k - 1] = x - n
          BY <2>3, <3>1, <5>1
        <5> QED
          BY <2>4, <3>1, <5>2
      <4> QED
        BY <4>1, <4>2
    <3> QED
      BY <1>9, <2>2, <3>1, <3>2, <3>3
  <2>5. Senders(rest, c, g, infos)
    BY <2>2, <2>4 DEF Senders, FirstFrom
  <2> QED
    BY <1>5, <1>11, <2>5 DEF Settled, Leaves
<1>12. PICK bytes : bytes = r.bytes /\ bytes = SubSeq(data, 1, n)
  BY <1>3
<1>13. bytes \in Seq(Byte) /\ Len(bytes) = n /\ \A i \in 1 .. n : bytes[i] = data[i]
  <2>1. bytes = SubSeq(data, 1, n)
    BY <1>12
  <2> QED
    BY <2>1, PrefixIs, Zenon
<1>14. ASSUME NEW i \in 1 .. n
       PROVE  /\ bytes[i].from = Head(infos)
              /\ bytes[i].last <=> r.atDelim /\ i = n
  <2>1. bytes[i] = data[i] /\ i \in 1 .. Len(data) /\ data # <<>>
    BY <1>2, <1>13
  <2>2. d # <<>> /\ n <= d[1] /\ d[1] \in Nat
    BY <1>3, <1>6, <1>8, <2>1
  <2>3. data[i].last <=> d # <<>> /\ d[1] = n /\ i = n
    BY <1>1, <2>2, MarkedFront
  <2>4. 1 \in 1 .. Len(d) /\ e[1 - 1] < i /\ i <= e[1]
    BY <1>8, <2>2
  <2>5. data[i].from = infos[1]
    BY <1>1, <2>1, <2>4 DEF Senders, FirstFrom
  <2> QED
    BY <1>3, <1>7, <2>1, <2>2, <2>3, <2>5
<1>15. ASSUME bytes # <<>> PROVE r.atDelim = bytes[n].last
  <2>1. n \in 1 .. n
    BY <1>13, <1>15
  <2>5. bytes[n] \in Byte
    BY <1>13, <2>1
  <2>2. bytes[n].last \in BOOLEAN
    BY <2>5 DEF Byte
  <2>3. r.atDelim \in BOOLEAN
    BY AtDelimIs
  <2>4. bytes[n].last <=> r.atDelim
    BY <1>14, <2>1
  <2> QED
    BY <2>2, <2>3, <2>4
<1>16. Leaves
  BY <1>10, <1>11
<1>17. data # <<>> => infos # <<>>
  BY <1>6, <1>7
<1>18. r.bytes # <<>> =>
         /\ \A i \in 1 .. Len(r.bytes) :
              r.bytes[i].from = Head(infos) /\ (r.bytes[i].last => i = Len(r.bytes))
         /\ r.atDelim = r.bytes[Len(r.bytes)].last
  <2>1. \A i \in 1 .. n : bytes[i].from = Head(infos) /\ (bytes[i].last => i = n)
    BY <1>14
  <2> QED
    BY <1>12, <1>13, <1>15, <2>1
<1> QED
  BY <1>16, <1>17, <1>18 DEF ReadRight, Leaves

\* Such a socket is what the queues promise.
LEMMA SettledAligned ==
  ASSUME NEW data \in Seq(Byte), NEW d \in Seq(Nat), NEW infos \in Seq(Origin),
         Settled(data, d, 0, infos), NEW link,
         link = [sock |-> Socket(data, d, 0), pckInfos |-> infos]
  PROVE  Aligned(link)
<1>1. PICK e : Marked(data, d, 0, e) /\ Senders(data, d, e, infos)
  BY DEF Settled
<1>2. PICK s : s = Socket(data, d, 0)
  OBVIOUS
<1>3. link.sock = s /\ link.pckInfos = infos /\ s.data = data /\ s.delims = d
  BY <1>2 DEF Socket
<1>4. 0 \in Nat
  OBVIOUS
<1>5. /\ \A k \in 0 .. Len(d) : DelimAt(s, k) = e[k]
      /\ Delimiters(s) = PacketEnds(s)
  BY <1>1, <1>2, <1>4, MarkedDelims
<1>6. Len(infos) = Len(d)
  BY <1>1 DEF Senders
<1>7. ASSUME NEW k \in 1 .. Len(d), DelimAt(s, k) \in DOMAIN data
      PROVE  data[DelimAt(s, k)].from = infos[k]
  <2>1. DelimAt(s, k) = e[k] /\ k \in 0 .. Len(d) /\ k - 1 \in 0 .. Len(d)
    BY <1>5
  <2>2. \A j \in 0 .. Len(d) : e[j] \in Nat
    BY <1>1, <1>4, MarkedFirst
  <2>6. e[k - 1] \in Nat /\ e[k] \in Nat /\ d[k] \in Nat
    BY <2>1, <2>2
  <2>3. PICK x, y, z \in Nat : x = e[k - 1] /\ y = e[k] /\ z = d[k]
    BY <2>6
  <2>4. y = x + z /\ z > 0
    BY <1>1, <2>3 DEF Marked, Places
  <2>5. y \in 1 .. Len(data)
    BY <1>7, <2>1, <2>3
  <2>7. FirstFrom(data, e, infos, Len(d)) /\ e[k - 1] < y /\ y <= e[k]
    BY <1>1, <2>3, <2>4 DEF Senders
  <2>8. data[y].from = infos[k]
    BY <2>5, <2>7 DEF FirstFrom
  <2> QED
    BY <2>1, <2>3, <2>8
<1> QED
  BY <1>3, <1>5, <1>6, <1>7 DEF Aligned

\* What a socket is at every moment of the handler.
PcOf(port) == IF Writing(port) THEN handler.pc ELSE "idle"
FromOf(port) == IF Writing(port) THEN handler.from ELSE Nobody

Right(data, d, since, infos, pc, from) ==
  /\ pc = "idle" => Settled(data, d, since, infos)
  /\ pc = "byte" => UnderWay(data, d, since, infos, from, 0)
  /\ pc = "push" => UnderWay(data, d, since, infos, from, 1)
  /\ pc = "delim" => Ended(data, d, since, infos, from)
  /\ pc = "infos" => Settled(data, d, since, Append(infos, from))
LinkRight(link, pc, from) ==
  Right(link.sock.data, link.sock.delims, link.sock.sinceLastDelim, link.pckInfos, pc, from)

OfOne(bytes, from) == \A i \in 1 .. Len(bytes) : bytes[i].from = from
LeftRight == handler # Idle => OfOne(handler.left, handler.from) /\ OneEnd(handler.left)

RightInv ==
  /\ LeftRight /\ SenderIsRight
  /\ \A port \in Ports : portLinks[port] # NULL => LinkRight(portLinks[port], PcOf(port), FromOf(port))

\* When one link changes and stays right, all are right.
LEMMA RightLink ==
  ASSUME CountInv, RightInv, NEW p \in Ports, NEW link, portLinks' = [portLinks EXCEPT ![p] = link],
         LinkRight(link, PcOf(p)', FromOf(p)'), LeftRight', SenderIsRight',
         \A q \in Ports \ {p} : PcOf(q)' = PcOf(q) /\ FromOf(q)' = FromOf(q)
  PROVE  RightInv'
<1>1. portLinks'[p] = link /\ \A q \in Ports \ {p} : portLinks'[q] = portLinks[q]
  BY DEF CountInv
<1>2. ASSUME NEW q \in Ports, portLinks'[q] # NULL
      PROVE  LinkRight(portLinks'[q], PcOf(q)', FromOf(q)')
  <2>1. CASE q = p
    BY <1>1, <2>1
  <2>2. CASE q # p
    <3>1. portLinks'[q] = portLinks[q] /\ PcOf(q)' = PcOf(q) /\ FromOf(q)' = FromOf(q)
      BY <1>1, <2>2
    <3> QED
      BY <1>2, <3>1 DEF RightInv
  <2> QED
    BY <2>1, <2>2
<1> QED
  BY <1>2 DEF RightInv

\* A step of the handler.
LEMMA WorkRight ==
  ASSUME CountInv, RightInv, Handle, NEW data, NEW d, NEW since, NEW infos, NEW link,
         link = [sock |-> Socket(data, d, since), pckInfos |-> infos],
         portLinks' = [portLinks EXCEPT ![handler.port] = link],
         NEW pc, Right(data, d, since, infos, pc, handler.from),
         \/ handler' = Idle /\ pc = "idle"
         \/ /\ handler' # Idle /\ handler'.port = handler.port /\ handler'.pc = pc
            /\ handler'.from = handler.from,
         LeftRight', got' = got
  PROVE  RightInv'
<1>1. PICK p \in Ports : p = handler.port
  BY AtWork
<1>2. link.sock.data = data /\ link.sock.delims = d /\ link.sock.sinceLastDelim = since
      /\ link.pckInfos = infos
  BY DEF Socket
<1>3. LinkRight(link, PcOf(p)', FromOf(p)')
  <2>1. CASE handler' = Idle /\ pc = "idle"
    <3>1. PcOf(p)' = "idle"
      BY <2>1 DEF PcOf, Writing
    <3> QED
      BY <1>2, <2>1, <3>1 DEF LinkRight, Right
  <2>2. CASE /\ handler' # Idle /\ handler'.port = handler.port /\ handler'.pc = pc
             /\ handler'.from = handler.from
    <3>1. PcOf(p)' = pc /\ FromOf(p)' = handler.from
      BY <1>1, <2>2 DEF PcOf, FromOf, Writing
    <3> QED
      BY <1>2, <3>1 DEF LinkRight
  <2> QED
    BY <2>1, <2>2
<1>4. ASSUME NEW q \in Ports \ {p}
      PROVE  PcOf(q)' = PcOf(q) /\ FromOf(q)' = FromOf(q)
  <2>1. ~Writing(q) /\ ~Writing(q)'
    BY <1>1, <1>4 DEF Writing
  <2>2. PcOf(q) = "idle" /\ FromOf(q) = Nobody
    BY <2>1 DEF PcOf, FromOf
  <2>3. PcOf(q)' = "idle" /\ FromOf(q)' = Nobody
    BY <2>1 DEF PcOf, FromOf
  <2> QED
    BY <2>2, <2>3
<1>5. SenderIsRight'
  BY DEF RightInv, SenderIsRight
<1> QED
  BY <1>1, <1>3, <1>4, <1>5, RightLink

\* What the handler finds.
LEMMA RightAtWork ==
  ASSUME CountInv, RightInv, Handle
  PROVE  \E data \in Seq(Byte), d \in Seq(Nat), since \in Nat, infos \in Seq(Origin) :
           /\ portLinks[handler.port] = [sock |-> Socket(data, d, since), pckInfos |-> infos]
           /\ Right(data, d, since, infos, handler.pc, handler.from)
           /\ portLinks[handler.port].sock = Socket(data, d, since)
<1>1. PICK p \in Ports : p = handler.port
  BY AtWork
<1>2. CountOK(p, portLinks[p], Counted(p), Len(handler.left)) /\ Writing(p)
  BY <1>1, AtWork
<1>3. PICK link \in Link : link = portLinks[p]
  BY <1>2 DEF CountOK
<1>4. PICK data \in Seq(Byte), d \in Seq(Nat), since \in Nat, infos \in Seq(Origin) :
        /\ link = [sock |-> Socket(data, d, since), pckInfos |-> infos]
        /\ link.sock = Socket(data, d, since) /\ link.pckInfos = infos
        /\ link.sock.data = data /\ link.sock.delims = d /\ link.sock.sinceLastDelim = since
  BY LinkIs
<1>5. portLinks[p] # NULL
  BY <1>2 DEF CountInv
<1>6. PcOf(p) = handler.pc /\ FromOf(p) = handler.from
  BY <1>2 DEF PcOf, FromOf
<1>7. LinkRight(link, handler.pc, handler.from)
  BY <1>3, <1>5, <1>6 DEF RightInv
<1> QED
  BY <1>1, <1>3, <1>4, <1>7 DEF LinkRight

\* Counting a byte keeps every link right.
LEMMA CountByteRight == ASSUME CountInv, RightInv, CountByte PROVE RightInv'
<1>1. Handle
  BY DEF Handle
<1>2. PICK p : p = handler.port
  OBVIOUS
<1>3. PICK data \in Seq(Byte), d \in Seq(Nat), since \in Nat, infos \in Seq(Origin) :
        /\ portLinks[p] = [sock |-> Socket(data, d, since), pckInfos |-> infos]
        /\ Right(data, d, since, infos, handler.pc, handler.from)
        /\ portLinks[p].sock = Socket(data, d, since)
  BY <1>1, <1>2, RightAtWork
<1>4. portLinks[p].sock.sinceLastDelim = since
  BY <1>3 DEF Socket
<1>5. portLinks' = [portLinks EXCEPT ![p].sock.sinceLastDelim = since + 1]
  BY <1>2, <1>4 DEF CountByte
<1>6. PICK new : new = [sock |-> Socket(data, d, since + 1), pckInfos |-> infos]
  OBVIOUS
<1>7. portLinks' = [portLinks EXCEPT ![p] = new]
  <2>1. portLinks' = [portLinks EXCEPT ![p] = [sock |-> Socket(data, d, since + 1), pckInfos |-> infos]]
    BY <1>3, <1>5, SinceSet, Zenon
  <2> QED
    BY <1>6, <2>1
<1>8. UnderWay(data, d, since, infos, handler.from, 0)
  BY <1>3 DEF CountByte, Right
<1>9. UnderWay(data, d, since + 1, infos, handler.from, 1)
  <2>1. PICK begun \in Nat : \E e :
          /\ since = begun + 0 /\ Marked(data, d, begun, e) /\ Senders(data, d, e, infos)
          /\ Begun(data, d, e, handler.from)
    BY <1>8 DEF UnderWay
  <2>2. since + 1 = begun + 1
    BY <2>1
  <2> QED
    BY <2>1, <2>2 DEF UnderWay
<1>10. Right(data, d, since + 1, infos, "push", handler.from)
  BY <1>9 DEF Right
<1>11. /\ handler' = [handler EXCEPT !.pc = "push"] /\ got' = got
       /\ handler \in [pc : {"byte", "push", "delim", "infos"}, port : Ports, from : Origin, left : Seq(Byte)]
  BY <1>1, AtWork DEF CountByte
<1>12. /\ handler'.port = handler.port /\ handler'.pc = "push" /\ handler'.from = handler.from
       /\ handler'.left = handler.left
  BY <1>11
<1>13. handler' # Idle /\ handler # Idle
  BY <1>1, <1>12, AtWork DEF Idle
<1>14. LeftRight'
  BY <1>12, <1>13 DEF LeftRight, RightInv
<1> QED
  BY <1>1, <1>2, <1>6, <1>7, <1>10, <1>11, <1>12, <1>13, <1>14, WorkRight

\* So does queueing it.
LEMMA PushByteRight == ASSUME CountInv, RightInv, PushByte PROVE RightInv'
<1>1. Handle
  BY DEF Handle
<1>2. PICK p, left, from : p = handler.port /\ left = handler.left /\ from = handler.from
  OBVIOUS
<1>3. PICK data \in Seq(Byte), d \in Seq(Nat), since \in Nat, infos \in Seq(Origin) :
        /\ portLinks[p] = [sock |-> Socket(data, d, since), pckInfos |-> infos]
        /\ Right(data, d, since, infos, handler.pc, handler.from)
        /\ portLinks[p].sock = Socket(data, d, since)
  BY <1>1, <1>2, RightAtWork
<1>4. left \in Seq(Byte) /\ left # <<>> /\ handler # Idle
  <2>1. left \in Seq(Byte) /\ handler # Idle
    BY <1>1, <1>2, AtWork
  <2> QED
    BY <1>2, <2>1 DEF PushByte, CountInv, HandlerOK
<1>5. PICK b, more : b = Head(left) /\ more = Tail(left)
  OBVIOUS
<1>6. /\ b \in Byte /\ more \in Seq(Byte) /\ Len(more) = Len(left) - 1 /\ b = left[1]
      /\ \A i \in 1 .. Len(more) : more[i] = left[i + 1]
  BY <1>4, <1>5
<1>7. PICK n \in Nat : n = Len(more) /\ n + 1 = Len(left)
  BY <1>6
<1>8. OfOne(left, from) /\ OneEnd(left)
  BY <1>2, <1>4 DEF RightInv, LeftRight
<1>9. b.from = from /\ (b.last <=> n = 0)
  BY <1>6, <1>7, <1>8 DEF OfOne, OneEnd
<1>10. OfOne(more, from) /\ OneEnd(more)
  <2>1. ASSUME NEW i \in 1 .. n PROVE more[i].from = from /\ (more[i].last <=> i = n)
    <3>1. i + 1 \in 1 .. Len(left) /\ more[i] = left[i + 1]
      BY <1>6, <1>7
    <3>2. i + 1 = Len(left) <=> i = n
      BY <1>7
    <3> QED
      BY <1>8, <3>1, <3>2 DEF OfOne, OneEnd
  <2> QED
    BY <1>7, <2>1 DEF OfOne, OneEnd
<1>11. PICK all : all = Append(data, b)
  OBVIOUS
<1>12. portLinks[p].sock.data = data
  BY <1>3 DEF Socket
<1>13. portLinks' = [portLinks EXCEPT ![p].sock.data = all]
  BY <1>2, <1>5, <1>11, <1>12 DEF PushByte
<1>14. PICK new : new = [sock |-> Socket(all, d, since), pckInfos |-> infos]
  OBVIOUS
<1>15. portLinks' = [portLinks EXCEPT ![p] = new]
  <2>1. portLinks' = [portLinks EXCEPT ![p] = [sock |-> Socket(all, d, since), pckInfos |-> infos]]
    BY <1>3, <1>13, DataSet, Zenon
  <2> QED
    BY <1>14, <2>1
<1>16. PICK pc : pc = IF more = <<>> THEN "delim" ELSE "byte"
  OBVIOUS
<1>17. UnderWay(data, d, since, infos, from, 1)
  BY <1>2, <1>3 DEF PushByte, Right
<1>18. /\ b.last => Ended(all, d, since, infos, from)
       /\ ~b.last => UnderWay(all, d, since, infos, from, 0)
  BY <1>6, <1>9, <1>11, <1>17, BytePushed
<1>19. b.last <=> more = <<>>
  BY <1>6, <1>7, <1>9
<1>20. Right(all, d, since, infos, pc, handler.from)
  BY <1>2, <1>16, <1>18, <1>19 DEF Right
<1>21. /\ handler' = [handler EXCEPT !.left = more, !.pc = pc] /\ got' = got
       /\ handler \in [pc : {"byte", "push", "delim", "infos"}, port : Ports, from : Origin, left : Seq(Byte)]
  BY <1>1, <1>2, <1>5, <1>16, AtWork DEF PushByte
<1>22. handler'.port = p /\ handler'.pc = pc /\ handler'.from = from /\ handler'.left = more
  BY <1>2, <1>21
<1>23. handler' # Idle
  BY <1>16, <1>22 DEF Idle
<1>24. LeftRight'
  BY <1>10, <1>22 DEF LeftRight
<1> QED
  BY <1>1, <1>2, <1>14, <1>15, <1>20, <1>21, <1>22, <1>23, <1>24, WorkRight

\* So does the delimiter.
LEMMA WriteDelimiterRight == ASSUME CountInv, RightInv, WriteDelimiter PROVE RightInv'
<1>1. Handle
  BY DEF Handle
<1>2. PICK p : p = handler.port
  OBVIOUS
<1>3. PICK data \in Seq(Byte), d \in Seq(Nat), since \in Nat, infos \in Seq(Origin) :
        /\ portLinks[p] = [sock |-> Socket(data, d, since), pckInfos |-> infos]
        /\ Right(data, d, since, infos, handler.pc, handler.from)
        /\ portLinks[p].sock = Socket(data, d, since)
  BY <1>1, <1>2, RightAtWork
<1>4. portLinks[p].sock.sinceLastDelim = since /\ portLinks[p].sock.delims = d
  BY <1>3 DEF Socket
<1>5. PICK c : c = Append(d, since)
  OBVIOUS
<1>6. portLinks' = [portLinks EXCEPT ![p].sock.delims = c, ![p].sock.sinceLastDelim = 0]
  BY <1>2, <1>4, <1>5 DEF WriteDelimiter
<1>7. PICK new : new = [sock |-> Socket(data, c, 0), pckInfos |-> infos]
  OBVIOUS
<1>8. portLinks' = [portLinks EXCEPT ![p] = new]
  <2>1. portLinks[p] = [sock |-> Socket(data, d, since), pckInfos |-> infos]
    BY <1>3
  <2>2. portLinks' = [portLinks EXCEPT ![p] = [sock |-> Socket(data, c, 0), pckInfos |-> infos]]
    BY <1>6, <2>1, DelimsSet, Zenon
  <2> QED
    BY <1>7, <2>2
<1>9. /\ handler' = [handler EXCEPT !.pc = "infos"] /\ got' = got
      /\ handler \in [pc : {"byte", "push", "delim", "infos"}, port : Ports, from : Origin, left : Seq(Byte)]
  BY <1>1, AtWork DEF WriteDelimiter
<1>10. Settled(data, c, 0, Append(infos, handler.from))
  <2>1. Ended(data, d, since, infos, handler.from)
    BY <1>3 DEF WriteDelimiter, Right
  <2>2. handler.from \in Origin
    BY <1>9
  <2> QED
    BY <1>5, <2>1, <2>2, PacketWritten
<1>11. Right(data, c, 0, infos, "infos", handler.from)
  BY <1>10 DEF Right
<1>12. /\ handler'.port = handler.port /\ handler'.pc = "infos" /\ handler'.from = handler.from
       /\ handler'.left = handler.left
  BY <1>9
<1>13. handler' # Idle /\ handler # Idle
  BY <1>1, <1>12, AtWork DEF Idle
<1>14. LeftRight'
  BY <1>12, <1>13 DEF LeftRight, RightInv
<1> QED
  BY <1>1, <1>2, <1>7, <1>8, <1>9, <1>11, <1>12, <1>13, <1>14, WorkRight

\* So does queueing the sender, which ends the packet.
LEMMA PushInfosRight == ASSUME CountInv, RightInv, PushInfos PROVE RightInv'
<1>1. Handle
  BY DEF Handle
<1>2. PICK p : p = handler.port
  OBVIOUS
<1>3. PICK data \in Seq(Byte), d \in Seq(Nat), since \in Nat, infos \in Seq(Origin) :
        /\ portLinks[p] = [sock |-> Socket(data, d, since), pckInfos |-> infos]
        /\ Right(data, d, since, infos, handler.pc, handler.from)
        /\ portLinks[p].sock = Socket(data, d, since)
  BY <1>1, <1>2, RightAtWork
<1>4. portLinks[p].pckInfos = infos
  BY <1>3
<1>5. PICK more : more = Append(infos, handler.from)
  OBVIOUS
<1>6. portLinks' = [portLinks EXCEPT ![p].pckInfos = more]
  BY <1>2, <1>4, <1>5 DEF PushInfos
<1>7. PICK new : new = [sock |-> Socket(data, d, since), pckInfos |-> more]
  OBVIOUS
<1>8. portLinks' = [portLinks EXCEPT ![p] = new]
  <2>1. portLinks[p] = [sock |-> Socket(data, d, since), pckInfos |-> infos]
    BY <1>3
  <2> QED
    BY <1>6, <1>7, <2>1, InfosSet
<1>9. Settled(data, d, since, more)
  BY <1>3, <1>5 DEF PushInfos, Right
<1>10. Right(data, d, since, more, "idle", handler.from)
  BY <1>9 DEF Right
<1>11. handler' = Idle /\ got' = got
  BY DEF PushInfos
<1>12. LeftRight'
  BY <1>11 DEF LeftRight
<1> QED
  BY <1>1, <1>2, <1>7, <1>8, <1>10, <1>11, <1>12, WorkRight

\* So does binding a port.
LEMMA BindRight == ASSUME CountInv, RightInv, NEW p \in Ports, Bind(p) PROVE RightInv'
<1>1. PICK new : new = [sock |-> Socket(<<>>, <<>>, 0), pckInfos |-> <<>>]
  OBVIOUS
<1>2. portLinks' = [portLinks EXCEPT ![p] = new] /\ handler' = handler /\ got' = got
  BY <1>1 DEF Bind, EmptySocket, Socket
<1>3. ~Writing(p)
  BY DEF Bind, CountInv
<1>4. new.sock.data = <<>> /\ new.sock.delims = <<>> /\ new.sock.sinceLastDelim = 0 /\ new.pckInfos = <<>>
  BY <1>1 DEF Socket
<1>5. Settled(<<>>, <<>>, 0, <<>>)
  <2>1. PICK e : e = [k \in 0 .. 0 |-> 0]
    OBVIOUS
  <2>2. Marked(<<>>, <<>>, 0, e)
    BY <2>1 DEF Marked, Places, Last
  <2>3. Senders(<<>>, <<>>, e, <<>>)
    BY DEF Senders, FirstFrom
  <2> QED
    BY <2>2, <2>3 DEF Settled
<1>6. PcOf(p)' = "idle"
  BY <1>2, <1>3 DEF PcOf, Writing
<1>7. LinkRight(new, PcOf(p)', FromOf(p)')
  BY <1>4, <1>5, <1>6 DEF LinkRight, Right
<1>8. \A q \in Ports \ {p} : PcOf(q)' = PcOf(q) /\ FromOf(q)' = FromOf(q)
  BY <1>2 DEF PcOf, FromOf, Writing
<1>9. LeftRight' /\ SenderIsRight'
  BY <1>2 DEF RightInv, LeftRight, SenderIsRight
<1> QED
  BY <1>2, <1>7, <1>8, <1>9, RightLink

\* So does the beginning of a packet.
LEMMA ReceiveRight ==
  ASSUME CountInv, RightInv, NEW p \in Ports, NEW from \in Origin, NEW len \in Nat \ {0},
         Receive(p, from, len)
  PROVE  RightInv'
<1>1. PICK ends \in BOOLEAN : ends = TRUE
  OBVIOUS
<1>2. PICK left : left = Packet(from, len, ends)
  OBVIOUS
<1>3. Len(left) = len /\ \A i \in 1 .. len : (left[i].last <=> ends /\ i = len) /\ left[i].from = from
  BY <1>2, PacketIs
<1>4. OfOne(left, from) /\ OneEnd(left)
  BY <1>1, <1>3 DEF OfOne, OneEnd
<1>5. /\ handler = Idle /\ portLinks' = portLinks /\ got' = got
      /\ handler' = [pc |-> "byte", port |-> p, from |-> from, left |-> left]
  BY <1>1, <1>2 DEF Receive
<1>6. handler'.pc = "byte" /\ handler'.port = p /\ handler'.from = from /\ handler'.left = left
  BY <1>5
<1>7. handler' # Idle
  BY <1>6 DEF Idle
<1>8. LeftRight' /\ SenderIsRight'
  BY <1>4, <1>5, <1>6 DEF RightInv, LeftRight, SenderIsRight
<1>9. ASSUME NEW q \in Ports, portLinks[q] # NULL
      PROVE  LinkRight(portLinks[q], PcOf(q)', FromOf(q)')
  <2>1. PcOf(q) = "idle"
    BY <1>5 DEF PcOf, Writing
  <2>2. CASE q = p
    <3>1. PcOf(q)' = "byte" /\ FromOf(q)' = from
      BY <1>6, <1>7, <2>2 DEF PcOf, FromOf, Writing
    <3>2. PICK link \in Link : link = portLinks[q]
      BY <1>9 DEF CountInv, CountOK
    <3>3. PICK data \in Seq(Byte), d \in Seq(Nat), since \in Nat, infos \in Seq(Origin) :
            /\ link.pckInfos = infos
            /\ link.sock.data = data /\ link.sock.delims = d /\ link.sock.sinceLastDelim = since
      BY LinkIs
    <3>4. Settled(data, d, since, infos)
      BY <1>9, <2>1, <3>2, <3>3 DEF RightInv, LinkRight, Right
    <3>5. UnderWay(data, d, since, infos, from, 0)
      BY <3>4, PacketBegins
    <3> QED
      BY <3>1, <3>2, <3>3, <3>5 DEF LinkRight, Right
  <2>3. CASE q # p
    <3>1. PcOf(q)' = "idle"
      BY <1>6, <2>3 DEF PcOf, Writing
    <3> QED
      BY <1>9, <2>1, <3>1 DEF RightInv, LinkRight, Right
  <2> QED
    BY <2>2, <2>3
<1> QED
  BY <1>5, <1>8, <1>9 DEF RightInv

\* So does a read, between two packets.
LEMMA ReadUdpRight ==
  ASSUME CountInv, RightInv, NEW p \in Ports, NEW max \in Nat, ReadUdp(p, max)
  PROVE  RightInv'
<1>1. PICK link : link = portLinks[p]
  OBVIOUS
<1>2. link # NULL
  BY <1>1 DEF ReadUdp
<1>3. handler = Idle /\ handler' = handler
  BY DEF ReadUdp
<1>4. PcOf(p) = "idle" /\ PcOf(p)' = "idle"
  BY <1>3 DEF PcOf, Writing
<1>5. link \in Link
  BY <1>1, <1>2 DEF CountInv, CountOK
<1>6. PICK data \in Seq(Byte), d \in Seq(Nat), since \in Nat, infos \in Seq(Origin) :
        /\ link = [sock |-> Socket(data, d, since), pckInfos |-> infos]
        /\ link.pckInfos = infos
        /\ link.sock.data = data /\ link.sock.delims = d /\ link.sock.sinceLastDelim = since
  BY <1>5, LinkIs
<1>7. Settled(data, d, since, infos)
  BY <1>1, <1>2, <1>4, <1>6 DEF RightInv, LinkRight, Right
<1>8. since = 0 /\ Settled(data, d, 0, infos)
  BY <1>7 DEF Settled
<1>9. PICK r : r = ReadFrom(Socket(data, d, 0), max)
  OBVIOUS
<1>10. ReadRight(r, data, infos)
  BY <1>8, <1>9, SettledRead
<1>11. DoesRead(p, data, infos, r)
  <2>1. portLinks[p] = [sock |-> Socket(data, d, 0), pckInfos |-> infos]
    BY <1>1, <1>6, <1>8
  <2> QED
    BY <1>9, <2>1, ReadCases, Zenon
<1>12. LeftRight'
  BY <1>3 DEF LeftRight
<1>13. \A q \in Ports : PcOf(q)' = PcOf(q) /\ FromOf(q)' = FromOf(q)
  BY <1>3 DEF PcOf, FromOf, Writing
<1>14. CASE data = <<>>
  <2>1. portLinks' = portLinks /\ got'.bytes = <<>>
    BY <1>11, <1>14 DEF DoesRead
  <2>2. SenderIsRight'
    BY <2>1 DEF SenderIsRight
  <2> QED
    BY <1>12, <1>13, <2>1, <2>2 DEF RightInv
<1>15. CASE data # <<>>
  <2>1. infos # <<>>
    BY <1>10, <1>15 DEF ReadRight
  <2>2. /\ got' = [bytes |-> r.bytes, from |-> Head(infos), whole |-> r.atDelim]
        /\ portLinks' = [portLinks EXCEPT ![p] =
             [sock |-> r.s, pckInfos |-> IF r.atDelim THEN Tail(infos) ELSE infos]]
    BY <1>11, <1>15, <2>1 DEF DoesRead
  <2>3. PICK more : more = IF r.atDelim THEN Tail(infos) ELSE infos
    OBVIOUS
  <2>4. PICK rest \in Seq(Byte), c \in Seq(Nat) : r.s = Socket(rest, c, 0) /\ Settled(rest, c, 0, more)
    BY <1>10, <2>3 DEF ReadRight
  <2>5. PICK new : new = [sock |-> Socket(rest, c, 0), pckInfos |-> more]
    OBVIOUS
  <2>6. portLinks' = [portLinks EXCEPT ![p] = new]
    BY <2>2, <2>3, <2>4, <2>5
  <2>7. new.sock.data = rest /\ new.sock.delims = c /\ new.sock.sinceLastDelim = 0 /\ new.pckInfos = more
    BY <2>5 DEF Socket
  <2>8. LinkRight(new, PcOf(p)', FromOf(p)')
    BY <1>4, <2>4, <2>7 DEF LinkRight, Right
  <2>9. got'.bytes = r.bytes /\ got'.from = Head(infos) /\ got'.whole = r.atDelim
    BY <2>2
  <2>10. SenderIsRight'
    BY <1>10, <2>9 DEF SenderIsRight, ReadRight
  <2> QED
    BY <1>12, <1>13, <2>6, <2>8, <2>10, RightLink
<1> QED
  BY <1>14, <1>15
-----------------------------------------------------------------------------
\* What holds of every socket.
IInv == CountInv /\ RightInv

\* No port has a socket at first.
LEMMA InitInv == Init => IInv
<1> SUFFICES ASSUME Init PROVE IInv
  OBVIOUS
<1>1. DOMAIN portLinks = Ports /\ (\A port \in Ports : portLinks[port] = NULL) /\ handler = Idle
      /\ got = [bytes |-> <<>>, from |-> Nobody, whole |-> FALSE]
  BY DEF Init
<1>2. CountInv
  BY <1>1 DEF CountInv, HandlerOK, Writing
<1>3. got.bytes = <<>>
  BY <1>1
<1>4. RightInv
  BY <1>1, <1>3 DEF RightInv, LeftRight, SenderIsRight
<1> QED
  BY <1>2, <1>4 DEF IInv

\* Every step keeps both invariants.
LEMMA NextInv ==
  ASSUME MaxSize \in Nat, MaxLen \in Nat, NoNullLink, IInv, Next
  PROVE  IInv'
<1>1. CASE Handle
  BY <1>1, CountByteStep, PushByteStep, WriteDelimiterStep, PushInfosStep,
     CountByteRight, PushByteRight, WriteDelimiterRight, PushInfosRight DEF IInv, Handle
<1>2. ASSUME NEW p \in Ports, Bind(p) PROVE IInv'
  BY <1>2, BindStep, BindRight DEF IInv
<1>3. ASSUME NEW p \in Ports, NEW from \in Origin, NEW len \in 1 .. MaxLen, Receive(p, from, len)
      PROVE  IInv'
  <2>1. len \in Nat \ {0}
    OBVIOUS
  <2> QED
    BY <1>3, <2>1, ReceiveStep, ReceiveRight DEF IInv
<1>4. ASSUME NEW p \in Ports, NEW max \in 0 .. MaxLen, ReadUdp(p, max) PROVE IInv'
  <2>1. max \in Nat
    OBVIOUS
  <2> QED
    BY <1>4, <2>1, ReadUdpStep, ReadUdpRight DEF IInv
<1> QED
  BY <1>1, <1>2, <1>3, <1>4 DEF Next

\* So does a step that changes nothing of the sockets.
LEMMA SameInv == ASSUME IInv, UNCHANGED vars PROVE IInv'
<1>1. portLinks' = portLinks /\ handler' = handler /\ got' = got
  BY DEF vars
<1>2. CountInv'
  BY <1>1, SameCounts DEF IInv
<1>3. \A q \in Ports : PcOf(q)' = PcOf(q) /\ FromOf(q)' = FromOf(q)
  BY <1>1 DEF PcOf, FromOf, Writing
<1>4. RightInv => RightInv'
  BY <1>1, <1>3 DEF RightInv, LeftRight, SenderIsRight
<1> QED
  BY <1>2, <1>4 DEF IInv

\* What the properties ask.
LEMMA InvCounts == ASSUME MaxSize \in Nat, IInv PROVE TypeOK
<1>1. ASSUME NEW port \in Bound
      PROVE  /\ port \notin Reserved
             /\ portLinks[port].sock.data \in Seq(Byte) /\ Len(portLinks[port].sock.data) <= MaxSize
             /\ portLinks[port].sock.delims \in Seq(Nat) /\ portLinks[port].pckInfos \in Seq(Origin)
  <2>1. port \in Ports /\ portLinks[port] # NULL
    BY DEF Bound
  <2>2. PICK counted, coming : counted = Counted(port) /\ coming = ToCome(port)
    OBVIOUS
  <2>3. PICK link : link = portLinks[port]
    OBVIOUS
  <2>4. CountOK(port, link, counted, coming)
    BY <2>1, <2>2, <2>3 DEF IInv, CountInv
  <2>5. PICK data \in Seq(Byte), d \in Seq(Nat), since \in Nat, infos \in Seq(Origin) :
          /\ link.pckInfos = infos
          /\ link.sock.data = data /\ link.sock.delims = d /\ link.sock.sinceLastDelim = since
    <3>1. link \in Link
      BY <2>4 DEF CountOK
    <3> QED
      BY <3>1, LinkIs
  <2>6. coming \in Nat
    BY <2>2 DEF IInv, CountInv, HandlerOK, ToCome, Writing
  <2>7. Len(data) <= MaxSize
    <3>1. PICK l \in Nat : l = Len(data)
      OBVIOUS
    <3>2. l + coming <= MaxSize
      BY <2>4, <2>5, <3>1 DEF CountOK
    <3> QED
      BY <2>6, <3>1, <3>2
  <2> QED
    BY <2>3, <2>4, <2>5, <2>7 DEF CountOK
<1> QED
  BY <1>1 DEF TypeOK

(* The three queues of a socket tell the same packets, and a read names the *)
(* sender of its bytes.                                                     *)
LEMMA InvRight == ASSUME IInv PROVE QueuesAligned /\ SenderIsRight
<1>1. ASSUME handler = Idle, NEW port \in Bound PROVE Aligned(portLinks[port])
  <2>1. port \in Ports /\ portLinks[port] # NULL
    BY DEF Bound
  <2>2. PICK link : link = portLinks[port]
    OBVIOUS
  <2>3. link \in Link
    BY <2>1, <2>2 DEF IInv, CountInv, CountOK
  <2>4. PICK data \in Seq(Byte), d \in Seq(Nat), since \in Nat, infos \in Seq(Origin) :
          /\ link = [sock |-> Socket(data, d, since), pckInfos |-> infos]
          /\ link.pckInfos = infos
          /\ link.sock.data = data /\ link.sock.delims = d /\ link.sock.sinceLastDelim = since
    BY <2>3, LinkIs
  <2>5. PcOf(port) = "idle"
    BY <1>1 DEF PcOf, Writing
  <2>6. Settled(data, d, since, infos)
    BY <2>1, <2>2, <2>4, <2>5 DEF IInv, RightInv, LinkRight, Right
  <2>7. since = 0
    BY <2>6 DEF Settled
  <2> QED
    BY <2>2, <2>4, <2>6, <2>7, SettledAligned
<1> QED
  BY <1>1 DEF QueuesAligned, IInv, RightInv
=============================================================================
