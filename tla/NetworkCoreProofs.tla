--------------------------- MODULE NetworkCoreProofs ---------------------------
(***************************************************************************)
(* Proofs about NetworkCore.tla, for every set of machines and every bound  *)
(* on the tries of a packet and on the work taken on.                       *)
(***************************************************************************)
EXTENDS NetworkCore, SequenceTheorems, TLAPS

Asked(a) == arpCache[a] # "none"

Places == {"poll", "reply", "listen", "svc_queue", "take", "loop", "front", "pop",
           "idle", "lock_dest", "dest", "lookup", "insert", "query", "enqueue"}

Placed ==
  /\ pc \in [Actors -> Places] /\ dest # 0
  /\ pc["handler"] = "listen" => to["handler"] \in Addrs

(* The handler holds queue_mutex through its loop, and when it looks for the  *)
(* address of the front packet.                                               *)
HandlerLocks ==
  /\ pc["handler"] \in {"loop", "front", "pop"} => queueMutex = "handler"
  /\ queueMutex = "handler" =>
       pc["handler"] \in {"loop", "front", "pop", "lookup", "insert", "query"}

(* There is a packet at the front as long as the handler deals with it.       *)
AtFront ==
  queueMutex = "handler" /\ pc["handler"] # "loop" =>
    /\ sendingQueue # <<>>
    /\ pc["handler"] \in {"lookup", "insert", "query"} =>
         FrontPacket.kind = "data" /\ FrontPacket.to = to["handler"]

LoggerLocks ==
  /\ pc["logger"] = "dest" => destMutex = "logger"
  /\ pc["logger"] \in {"idle", "lock_dest"} => destMutex = "free"

(* Programs hand over fresh packets of data.                                  *)
SysData ==
  \A k \in 1 .. Len(irqSendingQueue) :
    irqSendingQueue[k].kind = "data" /\ irqSendingQueue[k].tries = 0

(* A packet that was tried too often is about to be popped.                   *)
TriesLeft ==
  \A k \in 1 .. Len(sendingQueue) :
    sendingQueue[k].tries <= MaxTries \/ (k = 1 /\ pc["handler"] = "pop")

IInv ==
  /\ TypeOK
  /\ Placed
  /\ HandlerLocks
  /\ AtFront
  /\ LoggerLocks
  /\ SysData
  /\ TriesLeft
-----------------------------------------------------------------------------
(* Queues of packets *)

\* A packet of a kind, to an address, with all its tries to come.
LEMMA NewPacket ==
  ASSUME NEW k \in Kinds, NEW a \in AllAddrs
  PROVE  /\ Packet(k, a) \in Packets
         /\ Packet(k, a).kind = k /\ Packet(k, a).to = a /\ Packet(k, a).tries = 0
BY NetworkAssumption DEF Packet, Packets

(* The elements of a queue with a packet before it or behind it.              *)
LEMMA PutInFront ==
  ASSUME NEW q \in Seq(Packets), NEW p \in Packets
  PROVE  /\ <<p>> \o q \in Seq(Packets)
         /\ Len(<<p>> \o q) = Len(q) + 1
         /\ (<<p>> \o q)[1] = p
         /\ \A k \in 2 .. Len(q) + 1 : (<<p>> \o q)[k] = q[k - 1]
<1>1. <<p>> \in Seq(Packets) /\ Len(<<p>>) = 1 /\ <<p>>[1] = p
  OBVIOUS
<1>2. Len(q) \in Nat
  OBVIOUS
<1> QED
  BY <1>1, <1>2, ConcatProperties

\* At the boot nobody holds a lock and the queues are empty.
LEMMA InitInv == Init => IInv
<1> SUFFICES ASSUME Init PROVE IInv
  OBVIOUS
<1>1. TypeOK
  <2>1. <<>> \in Seq(Packets) /\ <<>> \in Seq(Addrs)
    OBVIOUS
  <2> QED
    BY <2>1 DEF Init, TypeOK, Actors, AllAddrs
<1>2. Placed /\ HandlerLocks /\ AtFront /\ LoggerLocks /\ SysData /\ TriesLeft
  BY DEF Init, Placed, Places, Actors, HandlerLocks, AtFront, LoggerLocks, SysData, TriesLeft
<1> QED
  BY <1>1, <1>2 DEF IInv
-----------------------------------------------------------------------------
(* Finding an address in the ARP cache, or putting it there, keeps the      *)
(* invariant.                                                               *)
LEMMA LookupStep ==
  ASSUME IInv, NEW p \in Actors, Lookup(p) \/ Insert(p)
  PROVE  IInv'
<1>1. /\ UNCHANGED <<queueMutex, destMutex, sendingQueue, irqSendingQueue, to, logDest, dest, logQueue>>
      /\ to[p] \in AllAddrs
      /\ pc \in [Actors -> Places]
      /\ p = "logger" => AfterLookup(p) = "enqueue"
  BY DEF Lookup, Insert, queues, logs, IInv, TypeOK, AfterLookup, Placed
<1>2. CASE Lookup(p)
  <2>1. /\ pc[p] = "lookup" /\ mac' \in BOOLEAN
        /\ pc' = [pc EXCEPT ![p] = pc'[p]] /\ pc'[p] \in {"insert", AfterLookup(p)}
        /\ arpCache' = arpCache
    BY <1>1, <1>2 DEF Lookup, Goto, IInv, TypeOK
  <2>2. TypeOK'
    BY <1>1, <2>1 DEF TypeOK, IInv, AfterLookup, Actors, Placed
  <2>3. Placed' /\ HandlerLocks' /\ LoggerLocks'
    BY <1>1, <2>1 DEF Placed, HandlerLocks, AtFront, LoggerLocks, IInv, AfterLookup, Actors, Places, TypeOK
  <2>4. AtFront'
    BY <1>1, <2>1 DEF Placed, HandlerLocks, AtFront, FrontPacket, IInv, AfterLookup, Actors
  <2>5. SysData' /\ TriesLeft'
    BY <1>1, <2>1 DEF SysData, TriesLeft, IInv, AfterLookup, Actors, Placed
  <2> QED
    BY <2>2, <2>3, <2>4, <2>5 DEF IInv
<1>3. CASE Insert(p)
  <2>1. /\ pc[p] = "insert" /\ mac' = mac
        /\ pc' = [pc EXCEPT ![p] = "query"]
        /\ arpCache' = [arpCache EXCEPT ![to[p]] = "sent"]
    BY <1>3 DEF Insert, Goto
  <2>2. TypeOK'
    BY <1>1, <2>1 DEF TypeOK, IInv, Actors, Placed
  <2>3. Placed' /\ HandlerLocks' /\ LoggerLocks'
    BY <1>1, <2>1 DEF Placed, HandlerLocks, LoggerLocks, IInv, Actors, Places
  <2>4. AtFront'
    BY <1>1, <2>1 DEF Placed, HandlerLocks, AtFront, FrontPacket, IInv, Actors
  <2>5. SysData' /\ TriesLeft'
    BY <1>1, <2>1 DEF SysData, TriesLeft, IInv, Actors, Placed
  <2> QED
    BY <2>2, <2>3, <2>4, <2>5 DEF IInv
<1> QED
  BY <1>2, <1>3

(* Steps that leave both queues of packets alone.                             *)
LEMMA HandlerQuiet ==
  ASSUME IInv,
         \/ PollNothing
         \/ \E a \in Addrs : ReadArp(a, TRUE) \/ ReadArp(a, FALSE)
                             \/ RespondToPing(a) \/ ReadSubscription(a)
         \/ AddListener \/ TakeQueue \/ Loop \/ SendFront
  PROVE  IInv'
<1>1. /\ UNCHANGED <<sendingQueue, irqSendingQueue, destMutex, dest, logQueue>>
      /\ pc \in [Actors -> Places] /\ to \in [Actors -> AllAddrs]
  BY DEF PollNothing, ReadArp, RespondToPing, ReadSubscription, AddListener,
     TakeQueue, Loop, SendFront, queues, logs, IInv, TypeOK, Placed
<1>2. /\ Addrs \subseteq AllAddrs
      /\ sendingQueue # <<>> => FrontPacket \in Packets
  BY HeadTailProperties DEF IInv, TypeOK, FrontPacket, AllAddrs
<1>3. CASE PollNothing
  BY <1>1, <1>3 DEF PollNothing, Polling, Goto, queues, logs, IInv, TypeOK, Placed,
     HandlerLocks, AtFront, LoggerLocks, SysData, TriesLeft, Actors, Places, FrontPacket
<1>4. ASSUME NEW a \in Addrs, NEW r \in BOOLEAN, ReadArp(a, r) PROVE IInv'
  BY <1>1, <1>2, <1>4 DEF ReadArp, Polling, Goto, queues, logs, IInv, TypeOK, Placed,
     HandlerLocks, AtFront, LoggerLocks, SysData, TriesLeft, Actors, Places, FrontPacket
<1>5. ASSUME NEW a \in Addrs, RespondToPing(a) \/ ReadSubscription(a) PROVE IInv'
  BY <1>1, <1>2, <1>5 DEF RespondToPing, ReadSubscription, SendPacket, Polling, Goto, queues,
     logs, IInv, TypeOK, Placed,
     HandlerLocks, AtFront, LoggerLocks, SysData, TriesLeft, Actors, Places, FrontPacket
<1>6. CASE AddListener
  <2>1. logDest' \in Seq(Addrs)
    <3>1. logDest \in Seq(Addrs) /\ to["handler"] \in Addrs
      BY <1>6 DEF AddListener, IInv, TypeOK, Placed
    <3> QED
      BY <1>6, <3>1, AppendProperties DEF AddListener
  <2> QED
    BY <1>1, <1>2, <1>6, <2>1 DEF AddListener, Goto, queues, logs, IInv, TypeOK, Placed,
     HandlerLocks, AtFront, LoggerLocks, SysData, TriesLeft, Actors, Places, FrontPacket
<1>7. CASE TakeQueue \/ SendFront
  BY <1>1, <1>2, <1>7 DEF TakeQueue, SendFront, Goto, queues, logs, IInv, TypeOK, Placed,
     HandlerLocks, AtFront, LoggerLocks, SysData, TriesLeft, Actors, Places, FrontPacket
<1>8. CASE Loop
  <2>1. /\ pc["handler"] = "loop" /\ queueMutex = "handler"
        /\ UNCHANGED <<arpCache, logDest>>
    BY <1>8 DEF Loop, logs, IInv, HandlerLocks
  <2>2. CASE LeaveLoop /\ UNCHANGED <<to, mac>>
    BY <1>1, <2>1, <2>2 DEF LeaveLoop, Goto, IInv, TypeOK, Placed,
       HandlerLocks, AtFront, LoggerLocks, SysData, TriesLeft, Actors, Places, FrontPacket
  <2>3. CASE /\ sendingQueue # <<>> /\ FrontPacket.kind = "data"
             /\ SendPacket("handler", FrontPacket.to) /\ UNCHANGED <<mac, queueMutex>>
    <3>1. FrontPacket.to \in AllAddrs
      BY <1>2, <2>3 DEF Packets
    <3>2. /\ to' = [to EXCEPT !["handler"] = FrontPacket.to]
          /\ pc' = [pc EXCEPT !["handler"] = "lookup"]
          /\ UNCHANGED <<mac, queueMutex>> /\ FrontPacket' = FrontPacket
      BY <1>1, <2>3 DEF SendPacket, Goto, FrontPacket
    <3>3. AtFront'
      BY <1>1, <2>3, <3>2 DEF AtFront, Actors
    <3> QED
      BY <1>1, <2>1, <3>1, <3>2, <3>3 DEF IInv, TypeOK, Placed,
         HandlerLocks, LoggerLocks, SysData, TriesLeft, Actors, Places
  <2>4. CASE /\ sendingQueue # <<>> /\ mac' = TRUE
             /\ Goto("handler", "front") /\ UNCHANGED <<to, queueMutex>>
    BY <1>1, <2>1, <2>4 DEF Goto, IInv, TypeOK, Placed,
       HandlerLocks, AtFront, LoggerLocks, SysData, TriesLeft, Actors, Places
  <2> QED
    BY <1>8, <2>2, <2>3, <2>4 DEF Loop
<1> QED
  BY <1>3, <1>4, <1>5, <1>6, <1>7, <1>8

\* So does the logger up to its send, and so does an entry that expires.
LEMMA OthersQuiet ==
  ASSUME IInv, 
         TakeLog \/ LockDest \/ NextDest \/ EnqueueLog \/ \E a \in Addrs : Expire(a)
  PROVE  IInv'
<1>1. /\ UNCHANGED <<sendingQueue, irqSendingQueue, queueMutex, logDest>>
      /\ pc \in [Actors -> Places] /\ to \in [Actors -> AllAddrs]
  BY DEF TakeLog, LockDest, NextDest, EnqueueLog, Expire, queues, logs, IInv, TypeOK, Placed
<1>2. Addrs \subseteq AllAddrs
  BY DEF AllAddrs
<1>3. CASE TakeLog \/ LockDest \/ EnqueueLog
  BY <1>1, <1>3 DEF TakeLog, LockDest, EnqueueLog, Goto, queues, logs, IInv, TypeOK, Placed,
     HandlerLocks, AtFront, LoggerLocks, SysData, TriesLeft, Actors, Places, FrontPacket
<1>4. ASSUME NEW a \in Addrs, Expire(a) PROVE IInv'
  <2>1. /\ UNCHANGED <<pc, to, mac, sendingQueue, irqSendingQueue, queueMutex>>
        /\ UNCHANGED <<destMutex, logDest, dest, logQueue>>
    BY <1>4 DEF Expire, queues, logs
  <2>2. TypeOK'
    <3>1. arpCache' \in [AllAddrs -> {"none", "sent", "stale", "known"}]
      BY <1>4 DEF Expire, IInv, TypeOK
    <3> QED
      BY <2>1, <3>1 DEF IInv, TypeOK
  <2>3. Placed' /\ HandlerLocks' /\ LoggerLocks'
    BY <2>1 DEF IInv, Placed, HandlerLocks, LoggerLocks
  <2>4. AtFront' /\ SysData' /\ TriesLeft'
    BY <2>1 DEF IInv, AtFront, SysData, TriesLeft, FrontPacket
  <2> QED
    BY ONLY <2>2, <2>3, <2>4 DEF IInv
<1>5. CASE NextDest
  <2>1. dest <= Len(logDest) => logDest[dest] \in AllAddrs
    <3>1. logDest \in Seq(Addrs) /\ dest \in Nat \ {0}
      BY DEF IInv, TypeOK, Placed
    <3> QED
      BY <1>2, <3>1, ElementOfSeq, LenProperties
  <2>2. /\ UNCHANGED <<mac, sendingQueue, irqSendingQueue, queueMutex>>
        /\ UNCHANGED <<arpCache, logDest, dest, logQueue>>
    BY <1>5 DEF NextDest, queues
  <2>3. /\ pc["logger"] = "dest" /\ pc' \in [Actors -> Places] /\ to' \in [Actors -> AllAddrs]
        /\ pc'["handler"] = pc["handler"] /\ to'["handler"] = to["handler"]
        /\ \/ pc'["logger"] = "lookup" /\ destMutex' = destMutex
           \/ pc'["logger"] = "idle" /\ destMutex' = "free"
    BY <1>1, <1>5, <2>1 DEF NextDest, SendPacket, Goto, Actors, Places
  <2>4. TypeOK'
    BY <2>2, <2>3 DEF IInv, TypeOK
  <2>5. Placed' /\ HandlerLocks' /\ LoggerLocks'
    BY <2>2, <2>3 DEF IInv, Placed, HandlerLocks, LoggerLocks
  <2>6. AtFront' /\ SysData' /\ TriesLeft'
    BY <2>2, <2>3 DEF IInv, AtFront, SysData, TriesLeft, FrontPacket
  <2> QED
    BY ONLY <2>4, <2>5, <2>6 DEF IInv
<1> QED
  BY <1>3, <1>4, <1>5

(* Steps that put a packet at one end of the sending queue, for which its     *)
(* lock must be free.                                                         *)
LEMMA PutStep ==
  ASSUME IInv, NEW p \in Actors,
         Query(p) \/ Enqueue(p) \/ (p = "handler" /\ SendReply)
  PROVE  IInv'
<1> DEFINE k == IF Query(p) THEN "query" ELSE IF Enqueue(p) THEN "data" ELSE "reply"
<1>1. /\ UNCHANGED <<to, mac, queueMutex, destMutex, irqSendingQueue, arpCache, logDest, logQueue>>
      /\ pc \in [Actors -> Places] /\ to \in [Actors -> AllAddrs]
      /\ sendingQueue \in Seq(Packets) /\ Len(sendingQueue) \in Nat
      /\ queueMutex = "free"
      /\ to[p] \in AllAddrs
  BY DEF Query, Enqueue, SendReply, queues, logs, IInv, TypeOK, Placed
<1>2. \A j \in Kinds : /\ Packet(j, to[p]) \in Packets
                       /\ Packet(j, to[p]).tries = 0
  BY <1>1, NewPacket
<1>3. /\ sendingQueue' \in Seq(Packets)
      /\ TriesLeft'
  <2>1. pc["handler"] # "pop" /\ \A j \in 1 .. Len(sendingQueue) : sendingQueue[j].tries <= MaxTries
    BY <1>1 DEF IInv, HandlerLocks, TriesLeft
  <2>2. CASE Query(p)
    <3>1. sendingQueue' = <<Packet("query", to[p])>> \o sendingQueue
      BY <2>2 DEF Query
    <3>2. Packet("query", to[p]) \in Packets /\ Packet("query", to[p]).tries <= MaxTries
      BY <1>2, NetworkAssumption DEF Kinds
    <3>3. /\ sendingQueue' \in Seq(Packets) /\ Len(sendingQueue') = Len(sendingQueue) + 1
          /\ sendingQueue'[1].tries <= MaxTries
          /\ \A j \in 2 .. Len(sendingQueue) + 1 : sendingQueue'[j] = sendingQueue[j - 1]
      BY <1>1, <3>1, <3>2, PutInFront
    <3>4. ASSUME NEW j \in 2 .. Len(sendingQueue) + 1 PROVE sendingQueue'[j].tries <= MaxTries
      BY <1>1, <2>1, <3>3
    <3> QED
      BY <1>1, <3>3, <3>4 DEF TriesLeft
  <2>3. ASSUME NEW j \in Kinds, sendingQueue' = Append(sendingQueue, Packet(j, to[p]))
        PROVE  sendingQueue' \in Seq(Packets) /\ TriesLeft'
    <3>1. Packet(j, to[p]) \in Packets /\ Packet(j, to[p]).tries <= MaxTries
      BY <1>2, NetworkAssumption
    <3>2. /\ sendingQueue' \in Seq(Packets) /\ Len(sendingQueue') = Len(sendingQueue) + 1
          /\ \A i \in 1 .. Len(sendingQueue) : sendingQueue'[i] = sendingQueue[i]
          /\ sendingQueue'[Len(sendingQueue) + 1] = Packet(j, to[p])
      BY <1>1, <2>3, <3>1, AppendProperties
    <3> QED
      BY <1>1, <2>1, <3>1, <3>2 DEF TriesLeft
  <2> QED
    BY <2>2, <2>3 DEF Enqueue, SendReply, Kinds
<1>4. CASE Query(p)
  <2>1. pc[p] = "query" /\ pc' = [pc EXCEPT ![p] = "enqueue"] /\ dest' = dest
    BY <1>1, <1>4 DEF Query, Goto, AfterLookup, Actors, logs
  <2> QED
    BY <1>1, <1>3, <2>1 DEF IInv, TypeOK, Placed, HandlerLocks, AtFront, LoggerLocks, SysData,
       Actors, Places
<1>5. CASE Enqueue(p)
  <2>1. /\ pc[p] = "enqueue" /\ pc' = [pc EXCEPT ![p] = AfterSend(p)]
        /\ dest' \in Nat \ {0}
    BY <1>1, <1>5 DEF Enqueue, Goto, IInv, TypeOK, Placed
  <2>2. /\ p = "handler" => AfterSend(p) = "poll"
        /\ p = "logger" /\ destMutex = "logger" => AfterSend(p) = "dest"
        /\ p = "logger" /\ destMutex # "logger" => AfterSend(p) = "idle"
    BY DEF AfterSend
  <2> QED
    BY <1>1, <1>3, <2>1, <2>2 DEF IInv, TypeOK, Placed, HandlerLocks, AtFront, LoggerLocks, SysData,
       Actors, Places
<1>6. CASE SendReply
  <2>1. pc["handler"] = "reply" /\ pc' = [pc EXCEPT !["handler"] = "poll"] /\ dest' = dest
    BY <1>6 DEF SendReply, Goto, logs
  <2> QED
    BY <1>1, <1>3, <2>1 DEF IInv, TypeOK, Placed, HandlerLocks, AtFront, LoggerLocks, SysData,
       Actors, Places
<1> QED
  BY <1>4, <1>5, <1>6

(* processSvcQueue() moves what the programs have handed over.                *)
LEMMA SvcStep == IInv /\ ProcessSvcQueue => IInv'
<1> SUFFICES ASSUME IInv, ProcessSvcQueue PROVE IInv'
  OBVIOUS
<1>1. /\ UNCHANGED <<to, mac, queueMutex, destMutex, arpCache, logDest, dest, logQueue>>
      /\ pc \in [Actors -> Places] /\ pc["handler"] = "svc_queue"
      /\ pc' = [pc EXCEPT !["handler"] = "take"]
      /\ sendingQueue \in Seq(Packets) /\ irqSendingQueue \in Seq(Packets)
      /\ sendingQueue' = sendingQueue \o irqSendingQueue /\ irqSendingQueue' = <<>>
      /\ queueMutex = "free"
  BY DEF ProcessSvcQueue, Goto, logs, IInv, TypeOK, Placed, HandlerLocks
<1>2. /\ sendingQueue' \in Seq(Packets)
      /\ Len(sendingQueue') = Len(sendingQueue) + Len(irqSendingQueue)
      /\ \A j \in 1 .. Len(sendingQueue) + Len(irqSendingQueue) :
           sendingQueue'[j] = IF j <= Len(sendingQueue) THEN sendingQueue[j]
                              ELSE irqSendingQueue[j - Len(sendingQueue)]
      /\ Len(sendingQueue) \in Nat /\ Len(irqSendingQueue) \in Nat
  BY <1>1, ConcatProperties
<1>3. TriesLeft'
  <2>1. \A j \in 1 .. Len(sendingQueue) : sendingQueue[j].tries <= MaxTries
    BY <1>1 DEF IInv, TriesLeft
  <2>2. \A j \in 1 .. Len(irqSendingQueue) : irqSendingQueue[j].tries <= MaxTries
    BY NetworkAssumption DEF IInv, SysData
  <2> QED
    BY <1>2, <2>1, <2>2 DEF TriesLeft
<1>4. irqSendingQueue' \in Seq(Packets) /\ SysData'
  BY <1>1 DEF SysData
<1> QED
  BY <1>1, <1>2, <1>3, <1>4
  DEF IInv, TypeOK, Placed, HandlerLocks, AtFront, LoggerLocks, Actors, Places

(* A front packet that fails counts a try; the pop removes it.                *)
LEMMA FrontStep == IInv /\ (FailFront \/ Pop) => IInv'
<1> SUFFICES ASSUME IInv, FailFront \/ Pop PROVE IInv'
  OBVIOUS
<1>1. /\ UNCHANGED <<to, mac, destMutex, irqSendingQueue, arpCache, logDest, dest, logQueue>>
      /\ pc \in [Actors -> Places] /\ mac \in BOOLEAN
      /\ sendingQueue \in Seq(Packets) /\ sendingQueue # <<>>
      /\ queueMutex = "handler"
      /\ Len(sendingQueue) \in Nat \ {0}
  <2>1. queueMutex = "handler" /\ pc["handler"] # "loop"
    BY DEF FailFront, Pop, IInv, HandlerLocks
  <2> QED
    BY <2>1, EmptySeq DEF FailFront, Pop, logs, IInv, TypeOK, Placed, AtFront
<1>2. CASE FailFront
  <2> DEFINE t == FrontPacket.tries + (IF mac THEN 0 ELSE 1)
             front == [sendingQueue[1] EXCEPT !.tries = t]
  <2>1. /\ pc["handler"] = "front"
        /\ sendingQueue' = [sendingQueue EXCEPT ![1] = front]
        /\ IF t > MaxTries THEN pc' = [pc EXCEPT !["handler"] = "pop"] /\ queueMutex' = queueMutex
                           ELSE pc' = [pc EXCEPT !["handler"] = "poll"] /\ queueMutex' = "free"
    BY <1>2 DEF FailFront, LeaveLoop, Goto
  <2>2. /\ sendingQueue[1] \in Packets /\ FrontPacket = sendingQueue[1]
        /\ \A j \in 1 .. Len(sendingQueue) : sendingQueue[j].tries <= MaxTries
    BY <1>1, <2>1, ElementOfSeq DEF FrontPacket, IInv, TriesLeft
  <2>3. t \in 0 .. MaxTries + 1
    <3>1. FrontPacket.tries \in 0 .. MaxTries + 1 /\ FrontPacket.tries <= MaxTries
      BY <1>1, <2>2 DEF Packets
    <3> QED
      BY <1>1, <3>1, NetworkAssumption
  <2>4. front \in Packets /\ front.tries = t
    BY <2>2, <2>3 DEF Packets
  <2>5. /\ sendingQueue' \in Seq(Packets) /\ Len(sendingQueue') = Len(sendingQueue)
        /\ \A j \in 1 .. Len(sendingQueue) :
             sendingQueue'[j] = IF j = 1 THEN front ELSE sendingQueue[j]
    BY <1>1, <2>1, <2>4, ExceptSeq
  <2>6. sendingQueue' # <<>>
    BY <1>1, <2>5
  <2>7. TriesLeft'
    BY <1>1, <2>1, <2>2, <2>3, <2>4, <2>5, NetworkAssumption DEF TriesLeft, Actors
  <2> HIDE DEF t, front
  <2> QED
    BY <1>1, <2>1, <2>5, <2>6, <2>7
    DEF IInv, TypeOK, Placed, HandlerLocks, AtFront, LoggerLocks, SysData, Actors, Places
<1>3. CASE Pop
  <2>1. /\ pc["handler"] = "pop" /\ pc' = [pc EXCEPT !["handler"] = "loop"]
        /\ sendingQueue' = Tail(sendingQueue) /\ queueMutex' = queueMutex
    BY <1>3 DEF Pop, Goto
  <2>2. /\ sendingQueue' \in Seq(Packets) /\ Len(sendingQueue') = Len(sendingQueue) - 1
        /\ \A j \in 1 .. Len(sendingQueue') : sendingQueue'[j] = sendingQueue[j + 1]
    BY <1>1, <2>1, HeadTailProperties
  <2>3. TriesLeft'
    BY <1>1, <2>2 DEF TriesLeft, IInv
  <2> QED
    BY <1>1, <2>1, <2>2, <2>3
    DEF IInv, TypeOK, Placed, HandlerLocks, AtFront, LoggerLocks, SysData, Actors, Places
<1> QED
  BY <1>2, <1>3

(* udp_write() appends a fresh packet to the queue of its own.                *)
LEMMA SysStep ==
  ASSUME IInv, NEW a \in Addrs, SendSysPacket(a)
  PROVE  IInv'
<1>1. /\ UNCHANGED <<pc, to, mac, queueMutex, sendingQueue, arpCache, destMutex, logDest, dest, logQueue>>
      /\ irqSendingQueue \in Seq(Packets) /\ Len(irqSendingQueue) \in Nat
      /\ irqSendingQueue' = Append(irqSendingQueue, Packet("data", a))
  BY DEF SendSysPacket, queues, logs, IInv, TypeOK
<1>2. Packet("data", a) \in Packets /\ Packet("data", a).kind = "data" /\ Packet("data", a).tries = 0
  BY NewPacket DEF Kinds, AllAddrs
<1>3. /\ irqSendingQueue' \in Seq(Packets) /\ Len(irqSendingQueue') = Len(irqSendingQueue) + 1
      /\ \A i \in 1 .. Len(irqSendingQueue) : irqSendingQueue'[i] = irqSendingQueue[i]
      /\ irqSendingQueue'[Len(irqSendingQueue) + 1] = Packet("data", a)
  BY <1>1, <1>2, AppendProperties
<1>4. SysData'
  BY <1>1, <1>2, <1>3 DEF SysData, IInv
<1> QED
  BY <1>1, <1>3, <1>4
  DEF IInv, TypeOK, Placed, HandlerLocks, AtFront, LoggerLocks, TriesLeft, FrontPacket

\* Every step keeps the invariant.
LEMMA NextInv == IInv /\ [Next]_vars => IInv'
<1> SUFFICES ASSUME IInv, [Next]_vars PROVE IInv'
  OBVIOUS
<1>1. ASSUME NEW p \in Actors, Sending(p) PROVE IInv'
  BY <1>1, LookupStep, PutStep DEF Sending
<1>2. CASE Handler
  BY <1>1, <1>2, HandlerQuiet, PutStep, SvcStep, FrontStep DEF Handler, Actors
<1>3. CASE Logger
  BY <1>1, <1>3, OthersQuiet DEF Logger, Actors
<1>4. CASE Others
  BY <1>4, HandlerQuiet, OthersQuiet, SysStep DEF Others, Frames
<1>5. CASE UNCHANGED vars
  BY <1>5 DEF vars, IInv, TypeOK, Placed, HandlerLocks, AtFront, LoggerLocks, SysData, TriesLeft,
     FrontPacket
<1> QED
  BY <1>2, <1>3, <1>4, <1>5 DEF Next

(* The inductive invariant holds whatever the programs send to.               *)
THEOREM Invariance == Spec => []IInv
BY InitInv, NextInv, PTL DEF Spec

(* Queues, cache, locks and program counters stay of their types, whatever  *)
(* the programs send to.                                                    *)
THEOREM TypeCorrect == Spec => []TypeOK
BY Invariance, PTL DEF IInv
-----------------------------------------------------------------------------
(* Popping *)

(* The section of sendQueuedPacket() and pop() for a step of the other actors *)
(* or of the handler itself.                                                  *)
LEMMA PopsStep ==
  IInv /\ [Next]_vars =>
    (InSend(pc) /\ InSend(pc') => Contents(sendingQueue') = Contents(sendingQueue))
<1> SUFFICES ASSUME IInv, [Next]_vars, InSend(pc), InSend(pc')
             PROVE  Contents(sendingQueue') = Contents(sendingQueue)
  OBVIOUS
<1>1. /\ pc \in [Actors -> Places] /\ pc["handler"] \in {"front", "pop"}
      /\ pc'["handler"] \in {"front", "pop"}
      /\ queueMutex = "handler"
      /\ sendingQueue \in Seq(Packets) /\ sendingQueue # <<>>
  BY DEF InSend, IInv, TypeOK, Placed, HandlerLocks, AtFront
<1>2. ASSUME sendingQueue' = sendingQueue
      PROVE  Contents(sendingQueue') = Contents(sendingQueue)
  BY <1>2 DEF Contents
<1>3. CASE FailFront
  <2> DEFINE t == FrontPacket.tries + (IF mac THEN 0 ELSE 1)
             front == [sendingQueue[1] EXCEPT !.tries = t]
  <2>1. sendingQueue' = [sendingQueue EXCEPT ![1] = front]
    BY <1>3 DEF FailFront
  <2>2. /\ Len(sendingQueue) \in Nat \ {0} /\ sendingQueue[1] \in Packets
        /\ DOMAIN sendingQueue = 1 .. Len(sendingQueue)
    BY <1>1, EmptySeq, ElementOfSeq, LenProperties
  <2>3. front.kind = sendingQueue[1].kind /\ front.to = sendingQueue[1].to
    BY <2>2 DEF Packets
  <2>4. Len(sendingQueue') = Len(sendingQueue)
    BY <2>1, <2>2
  <2>5. \A k \in 1 .. Len(sendingQueue) :
          /\ sendingQueue'[k].kind = sendingQueue[k].kind
          /\ sendingQueue'[k].to = sendingQueue[k].to
    BY <2>1, <2>2, <2>3
  <2> QED
    BY <2>4, <2>5 DEF Contents
<1>4. CASE \/ PollNothing \/ SendReply \/ AddListener \/ ProcessSvcQueue \/ TakeQueue \/ Loop
           \/ Sending("handler") \/ Frames
  <2>1. pc["handler"] \notin {"front", "pop"}
    BY <1>4 DEF PollNothing, SendReply, AddListener, ProcessSvcQueue, TakeQueue, Loop,
       Sending, Lookup, Insert, Query, Enqueue, Frames, ReadArp, RespondToPing,
       ReadSubscription, Polling
  <2> QED
    BY <1>1, <2>1
<1>8. CASE Pop
  BY <1>1, <1>8 DEF Pop, Goto, Actors
<1>5. CASE SendFront \/ UNCHANGED vars
  BY <1>2, <1>5 DEF SendFront, queues, vars
<1>6. CASE Logger
  BY <1>1, <1>2, <1>6 DEF Logger, Sending, Lookup, Insert, Query, Enqueue, LockDest, NextDest, queues
<1>7. CASE TakeLog \/ EnqueueLog \/ \E a \in Addrs : SendSysPacket(a) \/ Expire(a)
  BY <1>2, <1>7 DEF TakeLog, EnqueueLog, SendSysPacket, Expire, queues
<1> QED
  BY <1>3, <1>4, <1>5, <1>6, <1>7, <1>8 DEF Next, Handler, Others

(* Between looking at the front packet and popping it the handler is the only *)
(* one to touch the queue: what it pops is what it has just sent or given up. *)
THEOREM PopsCorrect == Spec => PopsItsFront
<1>1. IInv /\ [Next]_vars =>
        [InSend(pc) /\ InSend(pc') => Contents(sendingQueue') = Contents(sendingQueue)]_vars
  BY PopsStep
<1>2. Spec => [][InSend(pc) /\ InSend(pc') =>
                   Contents(sendingQueue') = Contents(sendingQueue)]_vars
  BY <1>1, Invariance, PTL DEF Spec
<1> QED
  BY <1>2 DEF PopsItsFront
-----------------------------------------------------------------------------
(* The order of the sending queue *)

\* What the contents of a queue are, place by place.
LEMMA ContentsOf ==
  ASSUME NEW q \in Seq(Packets)
  PROVE  /\ Contents(q) \in Seq(Kinds \X AllAddrs)
         /\ Len(q) \in Nat /\ Len(Contents(q)) = Len(q)
         /\ \A k \in 1 .. Len(q) : Contents(q)[k] = <<q[k].kind, q[k].to>>
<1>1. PICK n \in Nat : n = Len(q)
  BY LenProperties
<1>2. \A k \in 1 .. n : <<q[k].kind, q[k].to>> \in Kinds \X AllAddrs
  <2>1. \A k \in 1 .. n : q[k] \in Packets
    BY <1>1, ElementOfSeq
  <2>2. \A p \in Packets : p.kind \in Kinds /\ p.to \in AllAddrs
    BY DEF Packets
  <2> QED
    BY <2>1, <2>2
<1>3. Contents(q) = [k \in 1 .. n |-> <<q[k].kind, q[k].to>>]
  BY <1>1 DEF Contents
<1> QED
  BY <1>1, <1>2, <1>3

\* r begins with the packets of q.
Continues(q, r) ==
  /\ Len(q) <= Len(r)
  /\ \A k \in 1 .. Len(q) : r[k].kind = q[k].kind /\ r[k].to = q[k].to

LEMMA PrefixOfContents ==
  ASSUME NEW q \in Seq(Packets), NEW r \in Seq(Packets), Continues(q, r)
  PROVE  IsPrefix(Contents(q), Contents(r))
<1>1. PICK m, n \in Nat : m = Len(q) /\ n = Len(r)
  BY LenProperties
<1>2. PICK x, y : x = Contents(q) /\ y = Contents(r)
  OBVIOUS
<1>3. /\ x \in Seq(Kinds \X AllAddrs) /\ Len(x) = m
      /\ y \in Seq(Kinds \X AllAddrs) /\ Len(y) = n
  BY <1>1, <1>2, ContentsOf
<1>4. m <= n /\ \A k \in 1 .. m : x[k] = y[k]
  <2>1. m <= n /\ \A k \in 1 .. m : r[k].kind = q[k].kind /\ r[k].to = q[k].to
    BY <1>1 DEF Continues
  <2>2. \A k \in 1 .. m : x[k] = <<q[k].kind, q[k].to>>
    BY <1>1, <1>2, ContentsOf
  <2>3. \A k \in 1 .. n : y[k] = <<r[k].kind, r[k].to>>
    BY <1>1, <1>2, ContentsOf
  <2>4. ASSUME NEW k \in 1 .. m PROVE x[k] = y[k]
    <3>1. k \in 1 .. n
      BY <2>1
    <3> QED
      BY <2>1, <2>2, <2>3, <3>1
  <2> QED
    BY <2>1, <2>4
<1>5. SubSeq(x, 1, m) = [k \in 1 .. m |-> x[k]] /\ SubSeq(y, 1, m) = [k \in 1 .. m |-> y[k]]
  BY <1>3, <1>4
<1> QED
  BY <1>2, <1>3, <1>4, <1>5 DEF IsPrefix

(* A step of the network's processes, of a program or of the world moves the  *)
(* sending queue as a first-in first-out queue with urgent queries.           *)
LEMMA OrderStep ==
  ASSUME IInv, [Next]_vars,
         NEW old, old = Contents(sendingQueue),
         NEW new, new = Contents(sendingQueue')
  PROVE  InTurn(old, new)
<1>1. /\ sendingQueue \in Seq(Packets) /\ Len(sendingQueue) \in Nat
      /\ irqSendingQueue \in Seq(Packets)
      /\ to \in [Actors -> AllAddrs]
  BY DEF IInv, TypeOK
<1>2. sendingQueue' \in Seq(Packets)
  BY NextInv DEF IInv, TypeOK
<1>3. ASSUME Continues(sendingQueue, sendingQueue') PROVE InTurn(old, new)
  BY <1>1, <1>2, <1>3, PrefixOfContents DEF InTurn
<1>4. ASSUME sendingQueue' = sendingQueue PROVE InTurn(old, new)
  BY <1>1, <1>3, <1>4 DEF Continues
<1>5. ASSUME NEW p \in Packets, sendingQueue' = Append(sendingQueue, p)
      PROVE  InTurn(old, new)
  BY <1>1, <1>3, <1>5, AppendProperties DEF Continues
<1>6. ASSUME NEW p \in Actors, Query(p)
      PROVE  InTurn(old, new)
  <2>1. PICK a \in AllAddrs : a = to[p]
    BY <1>1
  <2>2. PICK k : k = Packet("query", a)
    OBVIOUS
  <2>3. k \in Packets /\ k.kind = "query" /\ k.to = a
    BY <2>2, NewPacket DEF Kinds
  <2>4. sendingQueue' = <<k>> \o sendingQueue
    BY <1>6, <2>1, <2>2 DEF Query
  <2>5. PICK n \in Nat : n = Len(sendingQueue)
    BY <1>1
  <2>6. /\ Len(sendingQueue') = n + 1 /\ sendingQueue'[1] = k
        /\ \A j \in 2 .. n + 1 : sendingQueue'[j] = sendingQueue[j - 1]
    BY <1>1, <2>3, <2>4, <2>5, PutInFront
  <2>7. /\ new \in Seq(Kinds \X AllAddrs) /\ Len(new) = n + 1
        /\ \A j \in 1 .. n + 1 : new[j] = <<sendingQueue'[j].kind, sendingQueue'[j].to>>
    BY <1>2, <2>6, ContentsOf
  <2>8. /\ old \in Seq(Kinds \X AllAddrs) /\ Len(old) = n
        /\ \A j \in 1 .. n : old[j] = <<sendingQueue[j].kind, sendingQueue[j].to>>
    BY <1>1, <2>5, ContentsOf
  <2>9. new[1] = <<"query", a>> /\ \A j \in 2 .. n + 1 : new[j] = old[j - 1]
    <3>1. new[1] = <<"query", a>>
      <4>1. new[1] = <<sendingQueue'[1].kind, sendingQueue'[1].to>>
        BY <2>7
      <4> QED
        BY <2>3, <2>6, <4>1
    <3>2. ASSUME NEW j \in 2 .. n + 1 PROVE new[j] = old[j - 1]
      <4>1. j \in 1 .. n + 1 /\ j - 1 \in 1 .. n
        OBVIOUS
      <4>2. new[j] = <<sendingQueue'[j].kind, sendingQueue'[j].to>>
        BY <2>7, <4>1
      <4>3. old[j - 1] = <<sendingQueue[j - 1].kind, sendingQueue[j - 1].to>>
        BY <2>8, <4>1
      <4> QED
        BY <2>6, <4>2, <4>3
    <3> QED
      BY <3>1, <3>2
  <2>10. PICK one : one = <<<<"query", a>>>>
    OBVIOUS
  <2>11. one \in Seq(Kinds \X AllAddrs) /\ Len(one) = 1 /\ one[1] = <<"query", a>>
    BY <2>10 DEF Kinds
  <2>12. PICK both : both = one \o old
    OBVIOUS
  <2>13. /\ both \in Seq(Kinds \X AllAddrs) /\ Len(both) = n + 1
         /\ \A j \in 1 .. n + 1 : both[j] = IF j <= 1 THEN one[j] ELSE old[j - 1]
    <3>1. /\ one \o old \in Seq(Kinds \X AllAddrs) /\ Len(one \o old) = Len(one) + Len(old)
          /\ \A j \in 1 .. Len(one) + Len(old) :
               (one \o old)[j] = IF j <= Len(one) THEN one[j] ELSE old[j - Len(one)]
      BY <2>8, <2>11, ConcatProperties
    <3> QED
      BY <2>5, <2>8, <2>11, <2>12, <3>1
  <2>14. ASSUME NEW j \in 1 .. n + 1 PROVE new[j] = both[j]
    <3>1. CASE j = 1
      <4>1. both[1] = one[1]
        BY <2>13
      <4> QED
        BY <2>9, <2>11, <3>1, <4>1
    <3>2. CASE j # 1
      <4>1. j \in 2 .. n + 1 /\ ~(j <= 1)
        BY <3>2
      <4> QED
        BY <2>9, <2>13, <4>1
    <3> QED
      BY <3>1, <3>2
  <2>15. new = both
    BY <2>7, <2>13, <2>14, SeqEqual
  <2> QED
    BY <2>10, <2>12, <2>15 DEF InTurn
<1>7. ASSUME NEW p \in Actors, Sending(p)
      PROVE  InTurn(old, new)
  <2>1. CASE Lookup(p) \/ Insert(p)
    BY <1>4, <2>1 DEF Lookup, Insert, queues
  <2>2. CASE Enqueue(p)
    <3>1. Packet("data", to[p]) \in Packets
      BY <1>1, NewPacket DEF Kinds
    <3> QED
      BY <1>5, <2>2, <3>1 DEF Enqueue
  <2> QED
    BY <1>6, <1>7, <2>1, <2>2 DEF Sending
<1>8. CASE SendReply
  <2>1. Packet("reply", to["handler"]) \in Packets
    BY <1>1, NewPacket DEF Kinds, Actors
  <2> QED
    BY <1>5, <1>8, <2>1 DEF SendReply
<1>9. CASE ProcessSvcQueue
  <2>1. sendingQueue' = sendingQueue \o irqSendingQueue
    BY <1>9 DEF ProcessSvcQueue
  <2>2. PICK m, n \in Nat : m = Len(sendingQueue) /\ n = Len(irqSendingQueue)
    BY <1>1, LenProperties
  <2>3. Len(sendingQueue') = m + n /\ \A j \in 1 .. m : sendingQueue'[j] = sendingQueue[j]
    BY <1>1, <2>1, <2>2, ConcatProperties
  <2> QED
    BY <1>3, <2>2, <2>3 DEF Continues
<1>10. CASE FailFront
  <2> DEFINE t == FrontPacket.tries + (IF mac THEN 0 ELSE 1)
             front == [sendingQueue[1] EXCEPT !.tries = t]
  <2>1. sendingQueue' = [sendingQueue EXCEPT ![1] = front]
    BY <1>10 DEF FailFront
  <2>2. sendingQueue # <<>>
    BY <1>10 DEF FailFront, IInv, HandlerLocks, AtFront
  <2>3. /\ Len(sendingQueue) \in Nat \ {0} /\ sendingQueue[1] \in Packets
        /\ DOMAIN sendingQueue = 1 .. Len(sendingQueue)
    BY <1>1, <2>2, EmptySeq, ElementOfSeq, LenProperties
  <2>4. front.kind = sendingQueue[1].kind /\ front.to = sendingQueue[1].to
    BY <2>3 DEF Packets
  <2>5. /\ Len(sendingQueue') = Len(sendingQueue)
        /\ \A k \in 1 .. Len(sendingQueue) :
             sendingQueue'[k].kind = sendingQueue[k].kind /\ sendingQueue'[k].to = sendingQueue[k].to
    BY <2>1, <2>3, <2>4
  <2> QED
    BY <1>1, <1>3, <2>5 DEF Continues
<1>11. CASE Pop
  <2>1. sendingQueue' = Tail(sendingQueue) /\ sendingQueue # <<>>
    BY <1>11 DEF Pop, IInv, HandlerLocks, AtFront
  <2>2. PICK n \in Nat : n + 1 = Len(sendingQueue)
    <3>1. Len(sendingQueue) # 0
      BY <1>1, <2>1, EmptySeq
    <3>2. Len(sendingQueue) - 1 \in Nat
      BY <1>1, <3>1
    <3> QED
      BY <1>1, <3>2
  <2>3. Len(sendingQueue') = n /\ \A j \in 1 .. n : sendingQueue'[j] = sendingQueue[j + 1]
    BY <1>1, <2>1, <2>2, HeadTailProperties
  <2>4. /\ old \in Seq(Kinds \X AllAddrs) /\ Len(old) = n + 1
        /\ \A j \in 1 .. n + 1 : old[j] = <<sendingQueue[j].kind, sendingQueue[j].to>>
    BY <1>1, <2>2, ContentsOf
  <2>5. /\ new \in Seq(Kinds \X AllAddrs) /\ Len(new) = n
        /\ \A j \in 1 .. n : new[j] = <<sendingQueue'[j].kind, sendingQueue'[j].to>>
    BY <1>2, <2>3, ContentsOf
  <2>6. ASSUME NEW j \in 1 .. n PROVE new[j] = old[j + 1]
    <3>1. j + 1 \in 1 .. n + 1
      OBVIOUS
    <3>2. new[j] = <<sendingQueue'[j].kind, sendingQueue'[j].to>>
      BY <2>5
    <3>3. old[j + 1] = <<sendingQueue[j + 1].kind, sendingQueue[j + 1].to>>
      BY <2>4, <3>1
    <3> QED
      BY <2>3, <3>2, <3>3
  <2>7. old # <<>>
    BY <2>4
  <2>8. /\ Tail(old) \in Seq(Kinds \X AllAddrs) /\ Len(Tail(old)) = n
        /\ \A j \in 1 .. n : Tail(old)[j] = old[j + 1]
    BY <2>4, <2>7, HeadTailProperties
  <2> QED
    <3>1. new = Tail(old)
      BY <2>5, <2>6, <2>8, SeqEqual
    <3> QED
      BY <2>7, <3>1 DEF InTurn
<1>12. CASE \/ PollNothing \/ AddListener \/ TakeQueue \/ Loop \/ SendFront \/ Frames
            \/ LockDest \/ NextDest \/ TakeLog \/ EnqueueLog
            \/ \E a \in Addrs : SendSysPacket(a) \/ Expire(a)
            \/ UNCHANGED vars
  BY <1>4, <1>12 DEF PollNothing, AddListener, TakeQueue, Loop, SendFront, Frames, ReadArp,
     RespondToPing, ReadSubscription, LockDest, NextDest, TakeLog, EnqueueLog, SendSysPacket,
     Expire, queues, vars
<1> QED
  BY <1>7, <1>8, <1>9, <1>10, <1>11, <1>12
  DEF Next, Handler, Logger, Others, Actors

(* Nothing but an ARP query overtakes in the sending queue.                   *)
THEOREM OrderCorrect == Spec => FirstInFirstOut
<1>1. IInv /\ [Next]_vars =>
        [InTurn(Contents(sendingQueue), Contents(sendingQueue'))]_vars
  BY OrderStep
<1>2. Spec => [][InTurn(Contents(sendingQueue), Contents(sendingQueue'))]_vars
  BY <1>1, Invariance, PTL DEF Spec
<1> QED
  BY <1>2 DEF FirstInFirstOut
-----------------------------------------------------------------------------
(* Queries *)

SendersAsked ==
  \A p \in Actors : pc[p] \in {"query", "enqueue"} => Asked(to[p])

SysAsked ==
  \A k \in 1 .. Len(irqSendingQueue) : Asked(irqSendingQueue[k].to)

QueuedAsked ==
  \A k \in 1 .. Len(sendingQueue) :
    sendingQueue[k].kind = "data" => arpCache[sendingQueue[k].to] # "none"

(* Only a machine that may be late has its query outdated, so the handler has *)
(* none to repeat under queue_mutex but for such a machine.                   *)
WaitsOverLate ==
  /\ \A a \in AllAddrs : arpCache[a] = "stale" => a \in Late
  /\ WaitsForItself => to["handler"] \in Late

AskedInv == IInv /\ QueuedAsked /\ SendersAsked /\ SysAsked /\ WaitsOverLate

(* A step that leaves the queues alone, or takes packets out of them, and     *)
(* forgets no address.                                                        *)
LEMMA AskedKept ==
  ASSUME AskedInv,
         \A a \in AllAddrs : Asked(a) => Asked(a)',
         \A k \in 1 .. Len(sendingQueue') : \E j \in 1 .. Len(sendingQueue) :
           /\ sendingQueue'[k].kind = sendingQueue[j].kind
           /\ sendingQueue'[k].to = sendingQueue[j].to,
         irqSendingQueue' = irqSendingQueue
  PROVE  QueuedAsked' /\ SysAsked'
<1>1. sendingQueue \in Seq(Packets) /\ irqSendingQueue \in Seq(Packets)
  BY DEF AskedInv, IInv, TypeOK
<1>2. /\ \A k \in 1 .. Len(sendingQueue) : sendingQueue[k] \in Packets
      /\ \A k \in 1 .. Len(irqSendingQueue) : irqSendingQueue[k] \in Packets
  BY <1>1, ElementOfSeq
<1>3. /\ \A k \in 1 .. Len(sendingQueue) : sendingQueue[k].to \in AllAddrs
      /\ \A k \in 1 .. Len(irqSendingQueue) : irqSendingQueue[k].to \in AllAddrs
  BY <1>2 DEF Packets
<1>4. SysAsked'
  BY <1>3 DEF AskedInv, SysAsked
<1>5. QueuedAsked'
  BY <1>3 DEF AskedInv, QueuedAsked, Asked
<1> QED
  BY <1>4, <1>5

\* What an actor sends, to an address it has asked for, keeps the invariant.
LEMMA AskedSending ==
  ASSUME AskedInv, NEW p \in Actors, Sending(p)
  PROVE  QueuedAsked' /\ SendersAsked' /\ SysAsked' /\ WaitsOverLate'
<1>1. /\ pc \in [Actors -> Places] /\ to \in [Actors -> AllAddrs] /\ to[p] \in AllAddrs
      /\ to' = to /\ irqSendingQueue' = irqSendingQueue /\ queueMutex' = queueMutex
      /\ arpCache \in [AllAddrs -> {"none", "sent", "stale", "known"}]
      /\ sendingQueue \in Seq(Packets) /\ Len(sendingQueue) \in Nat
  BY DEF Sending, Lookup, Insert, Query, Enqueue, queues, logs, AskedInv, IInv, Placed, TypeOK
<1>2. CASE Lookup(p)
  <2>1. /\ arpCache' = arpCache /\ sendingQueue' = sendingQueue /\ pc[p] = "lookup"
        /\ pc' = [pc EXCEPT ![p] = IF arpCache[to[p]] \in {"none", "stale"} THEN "insert"
                                   ELSE AfterLookup(p)]
    BY <1>2 DEF Lookup, Goto, queues
  <2>2. QueuedAsked' /\ SysAsked'
    BY <1>1, <2>1, AskedKept DEF Asked
  <2>3. SendersAsked'
    BY <1>1, <2>1 DEF AskedInv, SendersAsked, Asked, AfterLookup
  <2>4. queueMutex # "free" /\ p = "handler" => Asked(to[p])
    <3> SUFFICES ASSUME queueMutex # "free", p = "handler" PROVE Asked(to[p])
      OBVIOUS
    <3>1. /\ sendingQueue # <<>> /\ sendingQueue[1].kind = "data" /\ sendingQueue[1].to = to[p]
      BY <2>1 DEF AskedInv, IInv, TypeOK, AtFront, FrontPacket
    <3>2. 1 \in 1 .. Len(sendingQueue)
      BY <1>1, <3>1, EmptySeq
    <3> QED
      BY <3>1, <3>2 DEF AskedInv, QueuedAsked, Asked
  <2>5. WaitsForItself' => to["handler"] \in Late
    <3> SUFFICES ASSUME WaitsForItself' PROVE to["handler"] \in Late
      OBVIOUS
    <3>1. CASE p = "handler"
      <4>1. queueMutex = "handler" /\ pc'["handler"] \in {"insert", "query"}
        BY <1>1 DEF WaitsForItself
      <4>2. AfterLookup(p) = "front"
        BY <3>1, <4>1 DEF AfterLookup
      <4>3. pc'["handler"] = "insert" /\ arpCache[to[p]] \in {"none", "stale"}
        BY <1>1, <2>1, <3>1, <4>1, <4>2
      <4>4. arpCache[to[p]] # "none"
        BY <2>4, <3>1, <4>1 DEF Asked
      <4> QED
        BY <1>1, <3>1, <4>3, <4>4 DEF AskedInv, WaitsOverLate
    <3>2. CASE p # "handler"
      BY <1>1, <2>1, <3>2 DEF AskedInv, WaitsOverLate, WaitsForItself, Actors
    <3> QED
      BY <3>1, <3>2
  <2>6. WaitsOverLate'
    BY <1>1, <2>1, <2>5 DEF AskedInv, WaitsOverLate
  <2> QED
    BY <2>2, <2>3, <2>6
<1>3. CASE Insert(p)
  <2>1. /\ arpCache' = [arpCache EXCEPT ![to[p]] = "sent"] /\ sendingQueue' = sendingQueue
        /\ pc[p] = "insert" /\ pc' = [pc EXCEPT ![p] = "query"]
    BY <1>3 DEF Insert, Goto, queues
  <2>2. /\ \A a \in AllAddrs : Asked(a) => Asked(a)'
        /\ Asked(to[p])'
    BY <1>1, <2>1 DEF Asked
  <2>3. QueuedAsked' /\ SysAsked'
    BY <1>1, <2>1, <2>2, AskedKept
  <2>4. SendersAsked'
    BY <1>1, <2>1, <2>2 DEF AskedInv, SendersAsked, Asked
  <2>5. WaitsOverLate'
    BY <1>1, <2>1 DEF AskedInv, WaitsOverLate, WaitsForItself, Actors
  <2> QED
    BY <2>3, <2>4, <2>5
<1>4. CASE Query(p)
  <2>1. /\ arpCache' = arpCache /\ pc[p] = "query" /\ queueMutex = "free"
        /\ sendingQueue' = <<Packet("query", to[p])>> \o sendingQueue
        /\ pc' = [pc EXCEPT ![p] = "enqueue"]
    BY <1>4 DEF Query, Goto, AfterLookup, Actors
  <2>2. Packet("query", to[p]) \in Packets /\ Packet("query", to[p]).kind = "query"
    BY <1>1, NewPacket DEF Kinds
  <2>3. /\ Len(sendingQueue') = Len(sendingQueue) + 1 /\ sendingQueue'[1].kind = "query"
        /\ \A k \in 2 .. Len(sendingQueue) + 1 : sendingQueue'[k] = sendingQueue[k - 1]
    BY <1>1, <2>1, <2>2, PutInFront
  <2>4. QueuedAsked'
    BY <1>1, <2>1, <2>3 DEF AskedInv, QueuedAsked
  <2> QED
    BY <1>1, <2>1, <2>4 DEF AskedInv, SendersAsked, SysAsked, WaitsOverLate, WaitsForItself, Actors, Asked
<1>5. CASE Enqueue(p)
  <2>1. /\ arpCache' = arpCache /\ pc[p] = "enqueue" /\ queueMutex = "free"
        /\ sendingQueue' = Append(sendingQueue, Packet("data", to[p]))
        /\ pc' = [pc EXCEPT ![p] = AfterSend(p)]
        /\ AfterSend(p) \in {"poll", "dest", "idle"}
    BY <1>5 DEF Enqueue, Goto, AfterSend
  <2>2. Packet("data", to[p]) \in Packets /\ Packet("data", to[p]).to = to[p]
    BY <1>1, NewPacket DEF Kinds
  <2>3. /\ Len(sendingQueue') = Len(sendingQueue) + 1
        /\ sendingQueue'[Len(sendingQueue) + 1].to = to[p]
        /\ \A k \in 1 .. Len(sendingQueue) : sendingQueue'[k] = sendingQueue[k]
    BY <1>1, <2>1, <2>2, AppendProperties
  <2>4. Asked(to[p])
    BY <2>1 DEF AskedInv, SendersAsked
  <2>5. QueuedAsked'
    BY <1>1, <2>1, <2>3, <2>4 DEF AskedInv, QueuedAsked, Asked
  <2> QED
    BY <1>1, <2>1, <2>5 DEF AskedInv, SendersAsked, SysAsked, WaitsOverLate, WaitsForItself, Actors, Asked
<1> QED
  BY <1>2, <1>3, <1>4, <1>5 DEF Sending

(* The handler's own steps.                                                   *)
LEMMA AskedHandler ==
  ASSUME AskedInv,
         \/ PollNothing \/ SendReply \/ AddListener \/ ProcessSvcQueue \/ TakeQueue \/ Loop
         \/ SendFront \/ FailFront \/ Pop \/ Frames
  PROVE  QueuedAsked' /\ SendersAsked' /\ SysAsked' /\ WaitsOverLate'
<1>1. /\ pc \in [Actors -> Places] /\ to \in [Actors -> AllAddrs] /\ Addrs \subseteq AllAddrs
      /\ arpCache \in [AllAddrs -> {"none", "sent", "stale", "known"}]
      /\ sendingQueue \in Seq(Packets) /\ Len(sendingQueue) \in Nat
      /\ irqSendingQueue \in Seq(Packets) /\ Len(irqSendingQueue) \in Nat
  BY DEF AskedInv, IInv, Placed, TypeOK, AllAddrs
<1>2. \A a \in AllAddrs : Asked(a) => Asked(a)'
  BY <1>1 DEF PollNothing, SendReply, AddListener, ProcessSvcQueue, TakeQueue, Loop, SendFront,
     FailFront, Pop, Frames, ReadArp, RespondToPing, ReadSubscription, Asked
<1>3. /\ pc'["handler"] \notin {"insert", "query", "enqueue"}
      /\ pc'["logger"] = pc["logger"] /\ to'["logger"] = to["logger"]
  BY <1>1 DEF PollNothing, SendReply, AddListener, ProcessSvcQueue, TakeQueue, Loop, SendFront,
     FailFront, Pop, Frames, ReadArp, RespondToPing, ReadSubscription, LeaveLoop, SendPacket,
     Goto, Actors
<1>10. \A a \in AllAddrs : arpCache'[a] = "stale" => arpCache[a] = "stale"
  BY <1>1 DEF PollNothing, SendReply, AddListener, ProcessSvcQueue, TakeQueue, Loop, SendFront,
     FailFront, Pop, Frames, ReadArp, RespondToPing, ReadSubscription, Asked
<1>11. SendersAsked'
  BY <1>1, <1>2, <1>3 DEF AskedInv, SendersAsked, Actors, Asked
<1>4. SendersAsked' /\ WaitsOverLate'
  BY <1>1, <1>3, <1>10, <1>11 DEF AskedInv, WaitsOverLate, WaitsForItself
<1>5. CASE PollNothing \/ AddListener \/ TakeQueue \/ Loop \/ SendFront \/ Frames
  <2>1. sendingQueue' = sendingQueue /\ irqSendingQueue' = irqSendingQueue
    BY <1>5 DEF PollNothing, AddListener, TakeQueue, Loop, SendFront, Frames, ReadArp,
       RespondToPing, ReadSubscription, queues
  <2> QED
    BY <1>2, <1>4, <2>1, AskedKept
<1>6. CASE SendReply
  <2>1. /\ sendingQueue' = Append(sendingQueue, Packet("reply", to["handler"]))
        /\ irqSendingQueue' = irqSendingQueue /\ arpCache' = arpCache
    BY <1>6 DEF SendReply
  <2>2. Packet("reply", to["handler"]) \in Packets /\ Packet("reply", to["handler"]).kind = "reply"
    BY <1>1, NewPacket DEF Kinds, Actors
  <2>3. /\ Len(sendingQueue') = Len(sendingQueue) + 1
        /\ sendingQueue'[Len(sendingQueue) + 1].kind = "reply"
        /\ \A k \in 1 .. Len(sendingQueue) : sendingQueue'[k] = sendingQueue[k]
    BY <1>1, <2>1, <2>2, AppendProperties
  <2>4. SysAsked'
    BY <2>1 DEF AskedInv, SysAsked, Asked
  <2>5. QueuedAsked
    BY DEF AskedInv
  <2>6. \A k \in 1 .. Len(sendingQueue') :
          \/ k \in 1 .. Len(sendingQueue) /\ sendingQueue'[k] = sendingQueue[k]
          \/ sendingQueue'[k].kind = "reply"
    BY <1>1, <2>3
  <2>7. QueuedAsked'
    BY <2>1, <2>5, <2>6 DEF QueuedAsked, Asked
  <2> QED
    BY <1>4, <2>4, <2>7
<1>7. CASE ProcessSvcQueue
  <2>1. /\ sendingQueue' = sendingQueue \o irqSendingQueue
        /\ irqSendingQueue' = <<>> /\ arpCache' = arpCache
    BY <1>7 DEF ProcessSvcQueue
  <2>2. /\ Len(sendingQueue') = Len(sendingQueue) + Len(irqSendingQueue)
        /\ \A j \in 1 .. Len(sendingQueue) + Len(irqSendingQueue) :
             sendingQueue'[j] = IF j <= Len(sendingQueue) THEN sendingQueue[j]
                                ELSE irqSendingQueue[j - Len(sendingQueue)]
    BY <1>1, <2>1, ConcatProperties
  <2>3. QueuedAsked'
    <3> SUFFICES ASSUME NEW k \in 1 .. Len(sendingQueue'), sendingQueue'[k].kind = "data"
                 PROVE  arpCache'[sendingQueue'[k].to] # "none"
      BY DEF QueuedAsked
    <3>1. CASE k <= Len(sendingQueue)
      BY <1>1, <2>1, <2>2, <3>1 DEF AskedInv, QueuedAsked
    <3>2. CASE k > Len(sendingQueue)
      <4>1. k - Len(sendingQueue) \in 1 .. Len(irqSendingQueue)
        BY <1>1, <2>2, <3>2
      <4> QED
        BY <1>1, <2>1, <2>2, <3>2, <4>1 DEF AskedInv, SysAsked, Asked
    <3> QED
      BY <1>1, <2>2, <3>1, <3>2
  <2> QED
    BY <1>4, <2>1, <2>3 DEF SysAsked
<1>8. CASE FailFront
  <2> DEFINE t == FrontPacket.tries + (IF mac THEN 0 ELSE 1)
             front == [sendingQueue[1] EXCEPT !.tries = t]
  <2>1. /\ sendingQueue' = [sendingQueue EXCEPT ![1] = front]
        /\ irqSendingQueue' = irqSendingQueue /\ pc["handler"] = "front"
    BY <1>8 DEF FailFront
  <2>2. sendingQueue # <<>>
    BY <2>1 DEF AskedInv, IInv, HandlerLocks, AtFront
  <2>3. /\ Len(sendingQueue) \in Nat \ {0} /\ sendingQueue[1] \in Packets
        /\ DOMAIN sendingQueue = 1 .. Len(sendingQueue)
    BY <1>1, <2>2, EmptySeq, ElementOfSeq, LenProperties
  <2>4. front.kind = sendingQueue[1].kind /\ front.to = sendingQueue[1].to
    BY <2>3 DEF Packets
  <2>5. /\ Len(sendingQueue') = Len(sendingQueue)
        /\ \A k \in 1 .. Len(sendingQueue) :
             sendingQueue'[k].kind = sendingQueue[k].kind /\ sendingQueue'[k].to = sendingQueue[k].to
    BY <2>1, <2>3, <2>4
  <2>6. QueuedAsked' /\ SysAsked'
    BY <1>2, <2>1, <2>5, AskedKept
  <2> QED
    BY <1>4, <2>6
<1>9. CASE Pop
  <2>1. /\ sendingQueue' = Tail(sendingQueue)
        /\ irqSendingQueue' = irqSendingQueue /\ pc["handler"] = "pop"
    BY <1>9 DEF Pop
  <2>2. sendingQueue # <<>>
    BY <2>1 DEF AskedInv, IInv, HandlerLocks, AtFront
  <2>3. /\ Len(sendingQueue') = Len(sendingQueue) - 1
        /\ \A j \in 1 .. Len(sendingQueue') : sendingQueue'[j] = sendingQueue[j + 1]
    BY <1>1, <2>1, <2>2, HeadTailProperties
  <2>4. \A k \in 1 .. Len(sendingQueue') : k + 1 \in 1 .. Len(sendingQueue)
    BY <1>1, <2>3
  <2> QED
    BY <1>2, <1>4, <2>1, <2>3, <2>4, AskedKept
<1> QED
  BY <1>5, <1>6, <1>7, <1>8, <1>9

(* The logger, the programs, and the minute that passes.                      *)
LEMMA AskedOthers ==
  ASSUME ~UnknownTargets, AskedInv,
         \/ LockDest \/ NextDest \/ TakeLog \/ EnqueueLog
         \/ \E a \in Addrs : SendSysPacket(a) \/ Expire(a)
  PROVE  QueuedAsked' /\ SendersAsked' /\ SysAsked' /\ WaitsOverLate'
<1>1. /\ pc \in [Actors -> Places] /\ to \in [Actors -> AllAddrs] /\ Addrs \subseteq AllAddrs
      /\ arpCache \in [AllAddrs -> {"none", "sent", "stale", "known"}]
      /\ sendingQueue \in Seq(Packets) /\ Len(sendingQueue) \in Nat
      /\ irqSendingQueue \in Seq(Packets) /\ Len(irqSendingQueue) \in Nat
      /\ sendingQueue' = sendingQueue /\ queueMutex' = queueMutex
  BY DEF LockDest, NextDest, TakeLog, EnqueueLog, SendSysPacket, Expire, queues,
     AskedInv, IInv, Placed, TypeOK, AllAddrs
<1>2. CASE LockDest \/ NextDest \/ TakeLog \/ EnqueueLog
  <2>1. /\ arpCache' = arpCache /\ irqSendingQueue' = irqSendingQueue
        /\ pc'["handler"] = pc["handler"] /\ to'["handler"] = to["handler"]
        /\ pc'["logger"] \notin {"query", "enqueue"} \/ (pc' = pc /\ to' = to)
    BY <1>1, <1>2 DEF LockDest, NextDest, TakeLog, EnqueueLog, SendPacket, Goto, Actors
  <2>2. QueuedAsked' /\ SysAsked'
    BY <1>1, <2>1, AskedKept DEF Asked
  <2> QED
    BY <1>1, <2>1, <2>2 DEF AskedInv, SendersAsked, WaitsOverLate, WaitsForItself, Actors, Asked
<1>3. ASSUME NEW a \in Addrs, SendSysPacket(a)
      PROVE  QueuedAsked' /\ SendersAsked' /\ SysAsked' /\ WaitsOverLate'
  <2>1. /\ UNCHANGED <<pc, to, arpCache>> /\ Asked(a)
        /\ irqSendingQueue' = Append(irqSendingQueue, Packet("data", a))
    BY <1>3 DEF SendSysPacket, Asked
  <2>2. Packet("data", a) \in Packets /\ Packet("data", a).to = a
    BY <1>1, NewPacket DEF Kinds
  <2>3. /\ Len(irqSendingQueue') = Len(irqSendingQueue) + 1
        /\ irqSendingQueue'[Len(irqSendingQueue) + 1].to = a
        /\ \A k \in 1 .. Len(irqSendingQueue) : irqSendingQueue'[k] = irqSendingQueue[k]
    BY <1>1, <2>1, <2>2, AppendProperties
  <2>4. SysAsked'
    BY <1>1, <2>1, <2>3 DEF AskedInv, SysAsked, Asked
  <2> QED
    BY <1>1, <2>1, <2>4 DEF AskedInv, QueuedAsked, SendersAsked, WaitsOverLate, WaitsForItself, Asked
<1>4. ASSUME NEW a \in Addrs, Expire(a)
      PROVE  QueuedAsked' /\ SendersAsked' /\ SysAsked' /\ WaitsOverLate'
  <2>1. /\ UNCHANGED <<pc, to, irqSendingQueue>> /\ a \in Late
        /\ arpCache' = [arpCache EXCEPT ![a] = "stale"]
    BY <1>4 DEF Expire
  <2>2. \A b \in AllAddrs : Asked(b) => Asked(b)'
    BY <1>1, <2>1 DEF Asked
  <2>3. QueuedAsked' /\ SysAsked'
    BY <1>1, <2>1, <2>2, AskedKept
  <2>4. SendersAsked' /\ WaitsOverLate'
    <3>1. \A p \in Actors : to[p] \in AllAddrs
      BY <1>1
    <3> QED
      BY <1>1, <2>1, <2>2, <3>1 DEF AskedInv, SendersAsked, WaitsOverLate, WaitsForItself, Asked
  <2> QED
    BY <2>3, <2>4
<1> QED
  BY <1>2, <1>3, <1>4

\* So does every step, when the programs' targets are known.
LEMMA AskedNext == ~UnknownTargets /\ AskedInv /\ [Next]_vars => AskedInv'
<1> SUFFICES ASSUME ~UnknownTargets, AskedInv, [Next]_vars
             PROVE  QueuedAsked' /\ SendersAsked' /\ SysAsked' /\ WaitsOverLate'
  BY NextInv DEF AskedInv
<1>1. CASE UNCHANGED vars
  BY <1>1 DEF vars, AskedInv, QueuedAsked, SendersAsked, SysAsked, WaitsOverLate, WaitsForItself, Asked
<1>2. ASSUME NEW p \in Actors, Sending(p)
      PROVE  QueuedAsked' /\ SendersAsked' /\ SysAsked' /\ WaitsOverLate'
  BY <1>2, AskedSending
<1> QED
  BY <1>1, <1>2, AskedHandler, AskedOthers DEF Next, Handler, Logger, Others, Actors

\* At the boot nothing is queued.
LEMMA AskedInit == Init => AskedInv
<1> SUFFICES ASSUME Init PROVE AskedInv
  OBVIOUS
<1>1. Asked(Bcast)
  BY DEF Init, Asked, AllAddrs
<1>2. \A p \in Actors : to[p] = Bcast
  BY DEF Init
<1> QED
  BY <1>1, <1>2, InitInv
  DEF Init, AskedInv, QueuedAsked, SendersAsked, SysAsked, WaitsOverLate, WaitsForItself, Actors

(* If programs write only to machines that have been asked for, then every    *)
(* queued packet's address has been asked for too, and the handler waits for   *)
(* itself over no machine but one that left a query unanswered for a minute.  *)
THEOREM AskedCorrect == ~UnknownTargets => (Spec => []QueuedAddressesAsked)
<1> SUFFICES ASSUME ~UnknownTargets PROVE Spec => []QueuedAddressesAsked
  OBVIOUS
<1>1. AskedInv /\ [Next]_vars => AskedInv'
  BY AskedNext
<1>2. AskedInv => QueuedAddressesAsked
  BY DEF AskedInv, QueuedAsked, WaitsOverLate, QueuedAddressesAsked
<1> QED
  BY <1>1, <1>2, AskedInit, PTL DEF Spec
=============================================================================
