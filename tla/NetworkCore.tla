----------------------------- MODULE NetworkCore -----------------------------
(***************************************************************************)
(* The network side of the kernel: the packet handler (networkCore.cpp),    *)
(* the logger (logger.cpp), the system call that sends UDP packets, and the *)
(* ARP cache (arp.cpp) they share.                                          *)
(*                                                                         *)
(* The handler and the logger are processes, pre-empted anywhere.  Spin     *)
(* locks are taken with a compare-and-swap system call.  A section that     *)
(* only updates a queue under its lock is one action, enabled while the     *)
(* lock is free; the sections that call something else hold the lock        *)
(* explicitly.  Packets keep their kind, their destination and the number   *)
(* of times they were tried; the device sends or fails as it likes.         *)
(***************************************************************************)
EXTENDS Naturals, Sequences, SequencesExt

CONSTANTS
  Addrs,            \* IPv4 addresses of other machines
  Bcast,            \* the broadcast address
  MaxTries,         \* PACKET_TRIES_TIMEOUT
  MaxQueue,         \* bound: no new work while so many packets are queued
  UnknownTargets,   \* do programs udp_write() to addresses never asked for?
  Late              \* machines that may leave a query unanswered for a minute

ASSUME NetworkAssumption ==
  /\ Bcast \notin Addrs
  /\ MaxTries \in Nat
  /\ MaxQueue \in Nat \ {0}
  /\ UnknownTargets \in BOOLEAN
  /\ Late \subseteq Addrs

VARIABLES
  pc,           \* where the handler and the logger are
  to,           \* the address each is sending to
  mac,          \* local to sendQueuedPacket(): is the front's address known?
  queueMutex,   \* who holds queue_mutex: an actor or "free"
  destMutex,    \* who holds logDestMutex
  sendingQueue, irqSendingQueue,
  arpCache,     \* "none", "sent", "stale" (sent too long ago) or "known"
  logDest,      \* addresses of the listeners
  dest,         \* index of the listener the logger sends to
  logQueue      \* number of entries in the log queue

queues == <<queueMutex, sendingQueue>>
logs == <<destMutex, logDest, dest, logQueue>>
vars == <<pc, to, mac, queueMutex, destMutex, sendingQueue, irqSendingQueue,
          arpCache, logDest, dest, logQueue>>

Actors == {"handler", "logger"}
AllAddrs == Addrs \cup {Bcast}
Kinds == {"data", "query", "reply"}     \* queries and replies are ready frames

Packet(k, a) == [kind |-> k, to |-> a, tries |-> 0]
FrontPacket == Head(sendingQueue)

Goto(p, l) == pc' = [pc EXCEPT ![p] = l]
-----------------------------------------------------------------------------
(* cachedHwAddr(), queryArp(), sendPacket() and sendFrame(), for any actor p *)

SendPacket_NoLookup(p, a) ==
  /\ to' = [to EXCEPT ![p] = a]
  /\ Goto(p, "enqueue")

\* sendPacket(packet, a) begins by asking for the hardware address of a.
SendPacket(p, a) ==
  /\ to' = [to EXCEPT ![p] = a]
  /\ Goto(p, "lookup")

\* cachedHwAddr() is called by sendPacket(), which enqueues the packet next, and
\* by the handler for the front of the queue, while it holds queue_mutex.
AfterLookup(p) == IF queueMutex = p THEN "front" ELSE "enqueue"

Lookup_Waits(p) ==
  /\ pc[p] = "lookup"
  /\ mac' = IF AfterLookup(p) = "front" THEN arpCache[to[p]] = "known" ELSE mac
  /\ Goto(p, IF arpCache[to[p]] \in {"none", "stale"} THEN "insert"
             ELSE IF AfterLookup(p) = "enqueue" /\ arpCache[to[p]] = "sent"
             THEN "lookup" ELSE AfterLookup(p))
  /\ UNCHANGED <<to, queues, irqSendingQueue, arpCache, logs>>

Lookup(p) ==
  /\ pc[p] = "lookup"
  /\ mac' = IF AfterLookup(p) = "front" THEN arpCache[to[p]] = "known" ELSE mac
  /\ Goto(p, IF arpCache[to[p]] \in {"none", "stale"} THEN "insert"
                                                      ELSE AfterLookup(p))
  /\ UNCHANGED <<to, queues, irqSendingQueue, arpCache, logs>>

\* queryArp(): the cache entry is written, whatever it has become meanwhile ...
Insert(p) ==
  /\ pc[p] = "insert"
  /\ arpCache' = [arpCache EXCEPT ![to[p]] = "sent"]
  /\ Goto(p, "query")
  /\ UNCHANGED <<to, mac, queues, irqSendingQueue, logs>>

\* ... and the query is put at the front of the queue, which takes the lock.
Query(p) ==
  /\ pc[p] = "query"
  /\ queueMutex = "free"
  /\ sendingQueue' = <<Packet("query", to[p])>> \o sendingQueue
  /\ Goto(p, AfterLookup(p))
  /\ UNCHANGED <<to, mac, queueMutex, irqSendingQueue, arpCache, logs>>

\* sendPacket() returns to the handler's poll, to the logger's loop over the
\* listeners, or, for the opening packet, to the logger's main loop.
AfterSend(p) ==
  CASE p = "handler"                           -> "poll"
    [] p = "logger" /\ destMutex = "logger"    -> "dest"
    [] OTHER                                   -> "idle"

Enqueue(p) ==
  /\ pc[p] = "enqueue"
  /\ queueMutex = "free"
  /\ sendingQueue' = Append(sendingQueue, Packet("data", to[p]))
  /\ dest' = IF AfterSend(p) = "dest" THEN dest + 1 ELSE dest
  /\ Goto(p, AfterSend(p))
  /\ UNCHANGED <<to, mac, queueMutex, irqSendingQueue, arpCache, destMutex,
                 logDest, logQueue>>
-----------------------------------------------------------------------------
(* The packet handler: polling and processPacket() *)

Polling == pc["handler"] = "poll"
Room == Len(sendingQueue) < MaxQueue

\* No frame is waiting.
PollNothing ==
  /\ Polling
  /\ Goto("handler", "svc_queue")
  /\ UNCHANGED <<to, mac, queues, irqSendingQueue, arpCache, logs>>

\* An ARP packet from a is learnt; a request for our address is answered.
ReadArp(a, isRequest) ==
  /\ Polling /\ Room
  /\ arpCache' = [arpCache EXCEPT ![a] = "known"]
  /\ to' = [to EXCEPT !["handler"] = a]
  /\ Goto("handler", IF isRequest THEN "reply" ELSE "poll")
  /\ UNCHANGED <<mac, queues, irqSendingQueue, logs>>

SendReply_First ==
  /\ pc["handler"] = "reply"
  /\ queueMutex = "free"
  /\ sendingQueue' = <<Packet("reply", to["handler"])>> \o sendingQueue
  /\ Goto("handler", "poll")
  /\ UNCHANGED <<to, mac, queueMutex, irqSendingQueue, arpCache, logs>>

\* sendFrame(repl)
SendReply ==
  /\ pc["handler"] = "reply"
  /\ queueMutex = "free"
  /\ sendingQueue' = Append(sendingQueue, Packet("reply", to["handler"]))
  /\ Goto("handler", "poll")
  /\ UNCHANGED <<to, mac, queueMutex, irqSendingQueue, arpCache, logs>>

RespondToPing(a) ==
  /\ Polling /\ Room
  /\ SendPacket("handler", a)
  /\ UNCHANGED <<mac, queues, irqSendingQueue, arpCache, logs>>

\* A UDP packet of a to port 2: the handler calls addListener(a) ...
ReadSubscription(a) ==
  /\ Polling
  /\ to' = [to EXCEPT !["handler"] = a]
  /\ Goto("handler", "listen")
  /\ UNCHANGED <<mac, queues, irqSendingQueue, arpCache, logs>>

\* ... which waits for logDestMutex, hence for the logger.
AddListener ==
  /\ pc["handler"] = "listen"
  /\ destMutex = "free"
  /\ LET a == to["handler"]
     IN  logDest' = IF a \in ToSet(logDest) THEN logDest ELSE Append(logDest, a)
  /\ Goto("handler", "poll")
  /\ UNCHANGED <<to, mac, queues, irqSendingQueue, arpCache, destMutex, dest, logQueue>>
-----------------------------------------------------------------------------
(* The packet handler: sending *)

\* processSvcQueue(), if there is anything in the queue of the system calls.
ProcessSvcQueue ==
  /\ pc["handler"] = "svc_queue"
  /\ irqSendingQueue # <<>> => queueMutex = "free"
  /\ sendingQueue' = sendingQueue \o irqSendingQueue
  /\ irqSendingQueue' = <<>>
  /\ Goto("handler", "take")
  /\ UNCHANGED <<to, mac, queueMutex, arpCache, logs>>

TakeQueue_NoLock ==
  /\ pc["handler"] = "take"
  /\ queueMutex = "free"
  /\ Goto("handler", "loop")
  /\ UNCHANGED <<to, mac, queues, irqSendingQueue, arpCache, logs>>

TakeQueue ==
  /\ pc["handler"] = "take"
  /\ queueMutex = "free"
  /\ queueMutex' = "handler"
  /\ Goto("handler", "loop")
  /\ UNCHANGED <<to, mac, sendingQueue, irqSendingQueue, arpCache, logs>>

\* The loop ends: the lock is released and the handler sleeps, then polls.
LeaveLoop ==
  /\ queueMutex' = "free"
  /\ Goto("handler", "poll")

\* sendQueuedPacket(front) looks for the address of a packet that is no frame.
Loop ==
  /\ pc["handler"] = "loop"
  /\ \/ /\ sendingQueue = <<>>
        /\ LeaveLoop
        /\ UNCHANGED <<to, mac>>
     \/ /\ sendingQueue # <<>> /\ FrontPacket.kind = "data"
        /\ SendPacket("handler", FrontPacket.to)
        /\ UNCHANGED <<mac, queueMutex>>
     \/ /\ sendingQueue # <<>> /\ FrontPacket.kind # "data"
        /\ mac' = TRUE
        /\ Goto("handler", "front")
        /\ UNCHANGED <<to, queueMutex>>
  /\ UNCHANGED <<sendingQueue, irqSendingQueue, arpCache, logs>>

\* The device takes the front packet.
SendFront ==
  /\ pc["handler"] = "front" /\ mac
  /\ Goto("handler", "pop")
  /\ UNCHANGED <<to, mac, queues, irqSendingQueue, arpCache, logs>>

FailFront_NotCounted ==
  /\ pc["handler"] = "front"
  /\ IF FrontPacket.tries > MaxTries
     THEN Goto("handler", "pop") /\ UNCHANGED queueMutex
     ELSE LeaveLoop
  /\ UNCHANGED <<to, mac, sendingQueue, irqSendingQueue, arpCache, logs>>

FailFront_NeverGivesUp ==
  /\ pc["handler"] = "front"
  /\ LET tries == FrontPacket.tries + (IF mac THEN 0 ELSE 1)
     IN  sendingQueue' = [sendingQueue EXCEPT ![1].tries = tries]
  /\ LeaveLoop
  /\ UNCHANGED <<to, mac, irqSendingQueue, arpCache, logs>>

\* It cannot be sent, because of the device or for want of an address; only the
\* latter counts as a try.  It is given up after too many tries, else it stays.
FailFront ==
  /\ pc["handler"] = "front"
  /\ LET tries == FrontPacket.tries + (IF mac THEN 0 ELSE 1)
     IN  /\ sendingQueue' = [sendingQueue EXCEPT ![1].tries = tries]
         /\ IF tries > MaxTries THEN Goto("handler", "pop") /\ UNCHANGED queueMutex
                                ELSE LeaveLoop
  /\ UNCHANGED <<to, mac, irqSendingQueue, arpCache, logs>>

Pop_Keep ==
  /\ pc["handler"] = "pop"
  /\ Goto("handler", "loop")
  /\ UNCHANGED <<to, mac, queues, irqSendingQueue, arpCache, logs>>

Pop ==
  /\ pc["handler"] = "pop"
  /\ sendingQueue' = Tail(sendingQueue)
  /\ Goto("handler", "loop")
  /\ UNCHANGED <<to, mac, queueMutex, irqSendingQueue, arpCache, logs>>
-----------------------------------------------------------------------------
(* The logger *)

\* mainLoop() takes an entry from the log queue if somebody listens.
TakeLog ==
  /\ pc["logger"] = "idle"
  /\ logDest # <<>> /\ logQueue > 0 /\ Room
  /\ logQueue' = logQueue - 1
  /\ Goto("logger", "lock_dest")
  /\ UNCHANGED <<to, mac, queues, irqSendingQueue, arpCache, destMutex, logDest, dest>>

\* sendLog() sends the entry to each listener in turn.
LockDest ==
  /\ pc["logger"] = "lock_dest"
  /\ destMutex = "free"
  /\ destMutex' = "logger"
  /\ dest' = 1
  /\ Goto("logger", "dest")
  /\ UNCHANGED <<to, mac, queues, irqSendingQueue, arpCache, logDest, logQueue>>

NextDest ==
  /\ pc["logger"] = "dest"
  /\ IF dest <= Len(logDest)
     THEN SendPacket("logger", logDest[dest]) /\ UNCHANGED destMutex
     ELSE Goto("logger", "idle") /\ destMutex' = "free" /\ UNCHANGED to
  /\ UNCHANGED <<mac, queues, irqSendingQueue, arpCache, logDest, dest, logQueue>>
-----------------------------------------------------------------------------
(* Programs and the world *)

\* udp_write(): a system call only appends to a queue of its own.
SendSysPacket(a) ==
  /\ Len(irqSendingQueue) < MaxQueue /\ Room
  /\ arpCache[a] = "none" => UnknownTargets
  /\ irqSendingQueue' = Append(irqSendingQueue, Packet("data", a))
  /\ UNCHANGED <<pc, to, mac, queues, arpCache, logs>>

\* appendLog() by any process.
EnqueueLog ==
  /\ logQueue = 0       \* bound: one entry at a time
  /\ logQueue' = 1
  /\ UNCHANGED <<pc, to, mac, queues, irqSendingQueue, arpCache, destMutex,
                 logDest, dest>>

\* ARP_TIMEOUT, a minute, has passed since the query, and no answer has come.
\* Packets to that machine may be queued or on their way, the oldest and the newest.
Expire(a) ==
  /\ a \in Late
  /\ arpCache[a] = "sent"
  /\ arpCache' = [arpCache EXCEPT ![a] = "stale"]
  /\ UNCHANGED <<pc, to, mac, queues, irqSendingQueue, logs>>
-----------------------------------------------------------------------------
\* The logger's first act is to send the opening packet.
Init ==
  /\ pc = [p \in Actors |-> IF p = "handler" THEN "poll" ELSE "lookup"]
  /\ to = [p \in Actors |-> Bcast]
  /\ mac = FALSE
  /\ queueMutex = "free" /\ destMutex = "free"
  /\ sendingQueue = <<>> /\ irqSendingQueue = <<>>
  /\ arpCache = [a \in AllAddrs |-> IF a = Bcast THEN "known" ELSE "none"]
  /\ logDest = <<>> /\ dest = 1 /\ logQueue = 0

Sending(p) == Lookup(p) \/ Insert(p) \/ Query(p) \/ Enqueue(p)

Handler ==
  \/ Sending("handler")
  \/ PollNothing
  \/ SendReply \/ AddListener
  \/ ProcessSvcQueue \/ TakeQueue \/ Loop \/ SendFront \/ FailFront \/ Pop

Logger == Sending("logger") \/ LockDest \/ NextDest

Frames ==
  \E a \in Addrs :
    \/ \E isRequest \in BOOLEAN : ReadArp(a, isRequest)
    \/ RespondToPing(a)
    \/ ReadSubscription(a)

Others ==
  \/ Frames
  \/ TakeLog
  \/ EnqueueLog
  \/ \E a \in Addrs : SendSysPacket(a) \/ Expire(a)

Next == Handler \/ Logger \/ Others

Spec == Init /\ [][Next]_vars

\* Both actors are scheduled again and again.  A spinning actor gets the lock if
\* it is free again and again: the handler sleeps after each release, and the
\* logger holds only logDestMutex across its steps.  There are moments without
\* incoming frames, and the device does not fail for ever.
Fairness ==
  /\ SF_vars(Handler) /\ SF_vars(Logger)
  /\ SF_vars(PollNothing)
  /\ SF_vars(SendFront)

FairSpec == Spec /\ Fairness
-----------------------------------------------------------------------------
(* Properties *)

Packets == [kind : Kinds, to : AllAddrs, tries : 0 .. MaxTries + 1]

TypeOK ==
  /\ pc["handler"] \in {"poll", "reply", "listen", "svc_queue", "take", "loop", "front", "pop",
                        "lookup", "insert", "query", "enqueue"}
  /\ pc["logger"] \in {"idle", "lock_dest", "dest",
                       "lookup", "insert", "query", "enqueue"}
  /\ to \in [Actors -> AllAddrs]
  /\ mac \in BOOLEAN
  /\ queueMutex \in {"free", "handler"}
  /\ destMutex \in {"free", "logger"}
  /\ sendingQueue \in Seq(Packets)
  /\ irqSendingQueue \in Seq(Packets)
  /\ arpCache \in [AllAddrs -> {"none", "sent", "stale", "known"}]
  /\ logDest \in Seq(Addrs)
  /\ dest \in Nat /\ logQueue \in {0, 1}

\* The handler has to query for the front of the queue, which takes the lock it
\* holds: it spins for ever.
WaitsForItself == queueMutex = "handler" /\ pc["handler"] \in {"insert", "query"}

(* If programs write only to machines that have been asked for, then so are   *)
(* the addresses of all queued packets, whoever queued them; and the handler  *)
(* waits for itself over no machine but one that left a query unanswered for  *)
(* a minute (cachedHwAddr() under queue_mutex).                               *)
QueuedAddressesAsked ==
  /\ \A k \in 1 .. Len(sendingQueue) :
       sendingQueue[k].kind = "data" => arpCache[sendingQueue[k].to] # "none"
  /\ WaitsForItself => to["handler"] \in Late

\* The packets of a queue, without their numbers of tries.
Contents(q) == [k \in 1 .. Len(q) |-> <<q[k].kind, q[k].to>>]

InSend(locations) == locations["handler"] \in {"front", "pop"}

(* Between looking at the front packet and popping it the handler is the only *)
(* one to touch the queue: what it pops is what it has just sent or given up.  *)
PopsItsFront ==
  [][InSend(pc) /\ InSend(pc') =>
       Contents(sendingQueue') = Contents(sendingQueue)]_vars

\* The packets before and after a step: some join at the end, the front leaves,
\* or an ARP query is put at the front.
InTurn(old, new) ==
  \/ IsPrefix(old, new)
  \/ old # <<>> /\ new = Tail(old)
  \/ \E a \in AllAddrs : new = <<<<"query", a>>>> \o old

(* Nothing but an ARP query overtakes: all other packets join at the end of   *)
(* the queue, and only its front leaves.                                      *)
FirstInFirstOut ==
  [][InTurn(Contents(sendingQueue), Contents(sendingQueue'))]_vars

(* The handler always returns to polling the network.                         *)
HandlerKeepsPolling == []<>Polling

(* Nothing but its own lock stops it: neither the logger, nor the device, nor *)
(* a long queue, nor a machine that does not answer.                          *)
OnlyItselfStopsIt == []<>(Polling \/ WaitsForItself)

(* The packet at the front is sent or given up in the end, unless the handler *)
(* has come to wait for itself.                                               *)
FrontLeaves == sendingQueue # <<>> ~> (pc["handler"] = "pop" \/ WaitsForItself)

(* The logger is done with an entry in the end, unless the handler has.       *)
LoggerReturns == pc["logger"] # "idle" ~> (pc["logger"] = "idle" \/ WaitsForItself)

(* Once a machine's address is known it stays known.                          *)
KnownStaysKnown ==
  [][\A a \in Addrs : arpCache[a] = "known" => arpCache'[a] = "known"]_vars
=============================================================================
