------------------------------ MODULE UdpSocket ------------------------------
(***************************************************************************)
(* The UDP ports: programs bind them and read them by system calls; the     *)
(* packet handler, an ordinary process, fills their sockets.  Assumption:   *)
(* no program reads a port while the handler is inside write().  Nothing in *)
(* the code ensures it: the handler is pre-emptible, the counter and the    *)
(* queues it stores to (sinceLastDelim++, Queue::push()) are those that the *)
(* system call of a reader changes, and a reader that finds bytes whose     *)
(* sender is not there yet ends in Queue::Empty.  What such a reader leaves *)
(* behind is not modelled.                                                  *)
(***************************************************************************)
EXTENDS SocketLemmas

CONSTANTS Ports, NULL,
          Reserved,     \* the ports below 16
          MaxLen        \* bound: bytes per packet and per read

VARIABLES portLinks,    \* per port: NULL, or its socket with its queue of senders
          handler,      \* where the packet handler is in UdpSocket::write()
          got           \* what the last read returned

vars == <<portLinks, handler, got>>

Nobody == "nobody"      \* fromAddr 0, of a read that found nothing
Thrown == "thrown"      \* Queue::Empty, uncaught

Idle == [pc |-> "idle"]

Init ==
  /\ portLinks = [port \in Ports |-> NULL]
  /\ handler = Idle
  /\ got = [bytes |-> <<>>, from |-> Nobody, whole |-> FALSE]

\* bindUdpPort(): NULL for a port in use or below 16.
Bind(port) ==
  /\ portLinks[port] = NULL /\ port \notin Reserved
  /\ portLinks' = [portLinks EXCEPT ![port] = [sock |-> EmptySocket, pckInfos |-> <<>>]]
  /\ UNCHANGED <<handler, got>>

\* processPacket(): a packet for a bound port, written whole or dropped.
Receive(port, from, len) ==
  /\ handler = Idle /\ portLinks[port] # NULL
  /\ len <= MaxSize - Len(portLinks[port].sock.data)
  /\ handler' = [pc |-> "byte", port |-> port, from |-> from, left |-> Packet(from, len, TRUE)]
  /\ UNCHANGED <<portLinks, got>>

\* writeByte(): counted, then queued.
CountByte ==
  /\ handler.pc = "byte"
  /\ portLinks' = [portLinks EXCEPT ![handler.port].sock.sinceLastDelim = @ + 1]
  /\ handler' = [handler EXCEPT !.pc = "push"]
  /\ UNCHANGED got

PushByte ==
  /\ handler.pc = "push"
  /\ portLinks' = [portLinks EXCEPT ![handler.port].sock.data = Append(@, Head(handler.left))]
  /\ handler' = [handler EXCEPT !.left = Tail(@),
                                !.pc = IF Tail(handler.left) = <<>> THEN "delim" ELSE "byte"]
  /\ UNCHANGED got

WriteDelimiter ==
  /\ handler.pc = "delim"
  /\ portLinks' = [portLinks EXCEPT
       ![handler.port].sock.delims = Append(@, portLinks[handler.port].sock.sinceLastDelim),
       ![handler.port].sock.sinceLastDelim = 0]
  /\ handler' = [handler EXCEPT !.pc = "infos"]
  /\ UNCHANGED got

PushInfos ==
  /\ handler.pc = "infos"
  /\ portLinks' = [portLinks EXCEPT ![handler.port].pckInfos = Append(@, handler.from)]
  /\ handler' = Idle
  /\ UNCHANGED got

\* read(): the first bytes of the first packet, with the sender in front, who
\* is taken away when the packet is read to its end.
ReadUdp(port, max) ==
  /\ portLinks[port] # NULL /\ handler = Idle
  /\ LET link == portLinks[port]
         r == ReadFrom(link.sock, max)
         answer == [bytes |-> <<>>, from |-> Nobody, whole |-> FALSE]
     IN \/ /\ link.sock.data = <<>>
           /\ got' = answer /\ UNCHANGED portLinks
        \/ /\ link.sock.data # <<>> /\ link.pckInfos = <<>>
           /\ got' = [answer EXCEPT !.bytes = r.bytes, !.from = Thrown]
           /\ portLinks' = [portLinks EXCEPT ![port].sock = r.s]
        \/ /\ link.sock.data # <<>> /\ link.pckInfos # <<>>
           /\ got' = [bytes |-> r.bytes, from |-> Head(link.pckInfos),
                      whole |-> r.atDelim]
           /\ portLinks' = [portLinks EXCEPT ![port] =
                [sock |-> r.s, pckInfos |-> IF r.atDelim THEN Tail(@.pckInfos) ELSE @.pckInfos]]
  /\ UNCHANGED handler

Handle == CountByte \/ PushByte \/ WriteDelimiter \/ PushInfos

\* (The kernel does not survive the exception.)
Next == got.from # Thrown /\ (
  \/ Handle
  \/ \E port \in Ports :
       \/ Bind(port)
       \/ \E from \in Origin, len \in 1 .. MaxLen : Receive(port, from, len)
       \/ \E max \in 0 .. MaxLen : ReadUdp(port, max))

Spec == Init /\ [][Next]_vars
-----------------------------------------------------------------------------
Bound == {port \in Ports : portLinks[port] # NULL}

(* Sockets exist for allowed ports only and keep within their size.          *)
TypeOK ==
  /\ Bound \cap Reserved = {}
  /\ \A port \in Bound :
       /\ portLinks[port].sock.data \in Seq(Byte) /\ Len(portLinks[port].sock.data) <= MaxSize
       /\ portLinks[port].sock.delims \in Seq(Nat)
       /\ portLinks[port].pckInfos \in Seq(Origin)

\* Between two packets the three queues of a socket agree: one delimiter and
\* one sender per packet, each where the packet ends.
Aligned(link) ==
  /\ Delimiters(link.sock) = PacketEnds(link.sock)
  /\ Len(link.sock.delims) = Len(link.pckInfos)
  /\ \A k \in 1 .. Len(link.pckInfos) :
       DelimAt(link.sock, k) \in DOMAIN link.sock.data
         => link.sock.data[DelimAt(link.sock, k)].from = link.pckInfos[k]

(* The bytes, the delimiters and the senders of a socket, three queues that  *)
(* are filled and emptied at different moments, agree between two packets.   *)
QueuesAligned == handler = Idle => \A port \in Bound : Aligned(portLinks[port])

(* A read gives bytes of one packet only, names its sender, and says rightly *)
(* whether it is complete.                                                   *)
SenderIsRight ==
  got.bytes # <<>> =>
    /\ \A i \in 1 .. Len(got.bytes) :
         got.bytes[i].from = got.from /\ (got.bytes[i].last => i = Len(got.bytes))
    /\ got.whole = got.bytes[Len(got.bytes)].last
=============================================================================
