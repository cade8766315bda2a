-------------------------------- MODULE Codec --------------------------------
(***************************************************************************)
(* How packets are written and read: ipv4.cpp, udp.cpp, icmp.cpp, arp.cpp, *)
(* processPacket() and networkChksum() of networkCore.cpp, on Bytes.  A    *)
(* host sends one frame at a time with the same functions; on its way one  *)
(* byte may change, its end may be cut, or the wire may pad it.  Bytes is  *)
(* a sequence: what has been read of it is gone.                           *)
(***************************************************************************)
EXTENDS Integers, SequencesExt

CONSTANTS Payloads,    \* the data that is sent, of bytes
          Here, There, \* two hosts: [mac, ip], six and four bytes
          FromPorts, ToPorts, Bound  \* Bound: the ports with a socket
VARIABLES packetId,    \* formatPacket()'s static counter
          sent,        \* what the frame should say
          frame,       \* its bytes on the wire
          hurt,        \* what has happened to them: [kind, at]
          outcome,     \* what processPacket() has made of them
          buffer       \* the static buffer between frame and socket
vars == <<packetId, sent, frame, hurt, outcome, buffer>>

U16(v) == <<(v % 65536) \div 256, v % 256>>
Short(b, i) == (256 * b[i]) + b[i + 1]
Zeros(n) == [i \in 1..n |-> 0]
Drop(b, n) == SubSeq(b, n + 1, Len(b))
BROADCAST == [i \in 1..6 |-> 255]
ETHERTYPE_IPV4 == 2048
ETHERTYPE_ARP == 2054

\* networkChksum() on the first n bytes, n even, after a short already read.
Fold16(a, b) == LET s == a + b IN (s % 65536) + (s \div 65536)
Sum(b, n, first) == FoldLeft(Fold16, first, [i \in 1..(n \div 2) |-> Short(b, (2 * i) - 1)])
NetworkChksum(b, n, first) == 65535 - Sum(b, n, first)

EthernetHeader(mac, from, type) == mac \o from.mac \o U16(type)
\* ipv4::formatPacket(): the checksum goes into the bytes it was 0 for.
FormatIpv4(payload, from, to, protocol) ==
  LET head(sum) == <<69, 0>> \o U16(Len(payload) + 20) \o U16(packetId) \o <<0, 0, 255, protocol>>
                   \o U16(sum) \o from.ip \o to.ip
  IN head(NetworkChksum(head(0), 20, 0)) \o payload
FormatUdp(data, from, to, fromPort, toPort) ==
  FormatIpv4(U16(fromPort) \o U16(toPort) \o U16(8 + Len(data)) \o <<0, 0>> \o data, from, to, 17)
FormatArp(oper, from, mac, ip) == <<0, 1, 8, 0, 6, 4>> \o U16(oper) \o from.mac \o from.ip \o mac \o ip
Ping(type, id, data) ==
  LET m(sum) == <<type, 0>> \o U16(sum) \o U16(id) \o <<0, 1>> \o data
  IN m(NetworkChksum(m(0) \o <<0>>, 8 + Len(data) + (Len(data) % 2), 0))
\* icmp::respondToPing(): its reply has no checksum.
EchoReply_Short(p, size) == Zeros(4) \o SubSeq(p, 5, size - 1)
EchoReply(p, size) == Zeros(4) \o SubSeq(p, 5, size)

\* What becomes of a packet: "thrown" is an exception that nothing catches, and
\* that ends the packet handler; the others are caught, and logged.
Dropped(why) == [kind |-> why, data |-> <<>>, from |-> <<>>, ports |-> <<0, 0>>]
-----------------------------------------------------------------------------
(* processPacket() and what it calls, as what they make of bytes.          *)
ReadUdp(p, ip) ==
  IF Len(p) < 8 THEN Dropped("out of range")
  ELSE LET size == (Short(p, 5) + 65528) % 65536
           data == Drop(p, 8)
           toPort == Short(p, 3)
       IN IF toPort = 2
          THEN IF size = 3 /\ Len(data) >= 3 /\ SubSeq(data, 1, 3) = <<82, 80, 105>>
               THEN [Dropped("listener") EXCEPT !.from = ip.from] ELSE Dropped("not for us")
          ELSE IF toPort \notin Bound THEN Dropped("not for us")
          ELSE [kind |-> "udp", from |-> ip.from, ports |-> <<Short(p, 1), toPort>>,
                data |-> [i \in 1..size |-> IF i <= Len(data) THEN data[i] ELSE buffer]]
ReadPing(p, ip) ==
  IF Len(p) < 8 \/ ip.size < 8 THEN Dropped("not for us")
  ELSE IF ip.size % 2 = 0 /\ Len(p) < ip.size THEN Dropped("out of range")
  ELSE IF ip.size % 2 = 0 /\ NetworkChksum(p, ip.size, 0) # 0 THEN Dropped("bad checksum")
  ELSE IF p[1] # 8 \/ p[2] # 0 THEN Dropped("not for us")
  ELSE IF Len(p) < ip.size THEN Dropped("out of range")
  ELSE [Dropped("ping") EXCEPT !.from = ip.from, !.data = EchoReply(p, ip.size)]
HeaderOk(p, words) == NetworkChksum(Drop(p, 2), (4 * words) - 2, Short(p, 1)) = 0
ReadIpv4(p) ==
  IF Len(p) < 2 THEN Dropped("out of range")
  ELSE LET words == p[1] % 16 IN
    IF p[1] \div 16 # 4 \/ words < 5 THEN Dropped("wrong protocol")
    ELSE IF Len(p) < 4 * words THEN Dropped("out of range")
    ELSE IF ~HeaderOk(p, words) THEN Dropped("bad checksum")
    ELSE LET ip == [size |-> (Short(p, 3) + 65536 - (4 * words)) % 65536, from |-> SubSeq(p, 13, 16)]
             rest == Drop(p, 4 * words)
         IN IF SubSeq(p, 17, 20) # Here.ip THEN Dropped("not for us")
            ELSE IF p[10] = 1 THEN ReadPing(rest, ip)
            ELSE IF p[10] = 17 THEN ReadUdp(rest, ip) ELSE Dropped("not for us")
\* readArp(), outside the try block, remembers the sender and answers a question
\* about our address.
ReadArp(p) ==
  IF Len(p) < 8 THEN Dropped("thrown")
  ELSE IF SubSeq(p, 1, 6) # <<0, 1, 8, 0, 6, 4>> THEN Dropped("not for us")
  ELSE IF Len(p) < 28 THEN Dropped("thrown")
  ELSE [kind |-> IF Short(p, 7) = 1 /\ SubSeq(p, 25, 28) = Here.ip THEN "asked" ELSE "learned",
        from |-> SubSeq(p, 15, 18), ports |-> <<0, 0>>, data |-> SubSeq(p, 9, 14)]
\* The Ethernet header, too, is read outside the try block.
Processed(f) ==
  IF Len(f) < 14 THEN Dropped("thrown")
  ELSE IF SubSeq(f, 1, 6) \notin {Here.mac, Zeros(6), BROADCAST} THEN Dropped("not for us")
  ELSE CASE Short(f, 13) = ETHERTYPE_IPV4 -> ReadIpv4(Drop(f, 14))
         [] Short(f, 13) = ETHERTYPE_ARP -> ReadArp(Drop(f, 14))
         [] OTHER -> Dropped("not for us")
-----------------------------------------------------------------------------
Nothing == Dropped("nothing")
Init ==
  /\ packetId \in {42, 65533} /\ sent = Nothing /\ frame = <<>> /\ outcome = Nothing
  /\ hurt = [kind |-> "none", at |-> 0] /\ buffer \in {0, 7}

Send(what, bytes) ==
  /\ frame = <<>> /\ sent' = what /\ frame' = bytes /\ packetId' = (packetId + 7) % 65536
  /\ UNCHANGED <<hurt, outcome, buffer>>
SendUdp(data, p, q) ==
  Send([kind |-> "udp", data |-> data, from |-> There.ip, ports |-> <<p, q>>],
       EthernetHeader(Here.mac, There, ETHERTYPE_IPV4) \o FormatUdp(data, There, Here, p, q))
SendPing(data) ==
  Send([kind |-> "ping", data |-> Zeros(4) \o U16(513) \o <<0, 1>> \o data, from |-> There.ip, ports |-> <<0, 0>>],
       EthernetHeader(Here.mac, There, ETHERTYPE_IPV4) \o FormatIpv4(Ping(8, 513, data), There, Here, 1))
SendQuery ==
  Send([kind |-> "asked", data |-> There.mac, from |-> There.ip, ports |-> <<0, 0>>],
       EthernetHeader(BROADCAST, There, ETHERTYPE_ARP) \o FormatArp(1, There, Zeros(6), Here.ip))
SendReply ==
  Send([kind |-> "learned", data |-> There.mac, from |-> There.ip, ports |-> <<0, 0>>],
       EthernetHeader(Here.mac, There, ETHERTYPE_ARP) \o FormatArp(2, There, Here.mac, Here.ip))

OnWire == frame # <<>> /\ outcome = Nothing /\ hurt.kind = "none"
Change(i, d) ==
  /\ OnWire /\ frame' = [frame EXCEPT ![i] = (@ + d) % 256] /\ hurt' = [kind |-> "changed", at |-> i]
  /\ UNCHANGED <<packetId, sent, outcome, buffer>>
Cut(n) ==
  /\ OnWire /\ frame' = SubSeq(frame, 1, n) /\ hurt' = [kind |-> "cut", at |-> n]
  /\ UNCHANGED <<packetId, sent, outcome, buffer>>
Pad ==
  /\ OnWire /\ Len(frame) < 60 /\ frame' = frame \o Zeros(60 - Len(frame))
  /\ hurt' = [kind |-> "padded", at |-> 0] /\ UNCHANGED <<packetId, sent, outcome, buffer>>

ProcessPacket ==
  /\ frame # <<>> /\ outcome = Nothing /\ outcome' = Processed(frame)
  /\ UNCHANGED <<packetId, sent, frame, hurt, buffer>>
Done ==
  /\ outcome.kind \notin {"nothing", "thrown"} /\ sent' = Nothing /\ frame' = <<>> /\ outcome' = Nothing
  /\ hurt' = [kind |-> "none", at |-> 0] /\ UNCHANGED <<packetId, buffer>>

\* Bound: one packet from each value of the counter.
Next ==
  \/ packetId \in {42, 65533} /\
       \/ \E d \in Payloads : SendPing(d) \/ \E p \in FromPorts, q \in ToPorts : SendUdp(d, p, q)
       \/ SendQuery \/ SendReply
  \/ \E i \in DOMAIN frame : Cut(i) \/ \E d \in {1, 128, 255} : Change(i, d)
  \/ Pad \/ ProcessPacket \/ Done

Spec == Init /\ [][Next]_vars
-----------------------------------------------------------------------------
Delivered == outcome.kind \in {"udp", "ping", "learned", "asked", "listener"}
ForLogger == sent.kind = "udp" /\ sent.ports[2] = 2

(* A frame that arrives whole, padded or not, is read as it was written:   *)
(* the data and nothing behind it, the sender, the ports; a ping is        *)
(* answered with its own words.                                            *)
ReadAsWritten ==
  outcome # Nothing /\ hurt.kind \in {"none", "padded"} =>
    IF ForLogger
    THEN outcome.kind = IF sent.data = <<82, 80, 105>> THEN "listener" ELSE "not for us"
    ELSE IF sent.kind = "udp" /\ sent.ports[2] \notin Bound THEN outcome.kind = "not for us"
    ELSE outcome = sent

(* A packet is not delivered if a byte of its IPv4 header has changed, nor *)
(* if it is cut before the end of its headers.                             *)
DamageIsSeen ==
  outcome # Nothing /\ sent.kind \in {"udp", "ping"} =>
    /\ hurt.kind = "changed" /\ hurt.at \in 15..34 => ~Delivered
    /\ hurt.kind = "cut" /\ hurt.at < 42 => ~Delivered

(* The frames that end the packet handler are those cut inside the Ethernet *)
(* header and the ARP frames cut anywhere: whatever happens to an IPv4      *)
(* packet behind the Ethernet header, the handler goes on.                  *)
OnlyCutFramesKill ==
  outcome.kind = "thrown" <=>
    /\ outcome # Nothing /\ hurt.kind = "cut"
    /\ hurt.at < IF sent.kind \in {"asked", "learned"} THEN 42 ELSE 14
=============================================================================
