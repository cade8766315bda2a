-------------------------------- MODULE Ushd ---------------------------------
(***************************************************************************)
(* The shell daemon (src/kernel/programs/ushd/ushd.cpp) and its clients    *)
(* (src/tools/ushCli.py): sessions over datagrams.  The first datagram of  *)
(* a channel, a greeting, starts a shell with two sockets; later ones are  *)
(* its input.  The network loses datagrams and sockets are small.          *)
(* Assumption: udp_read() names the sender of what it returns.  It does as *)
(* long as the daemon does not read while the packet handler is inside     *)
(* write() (see UdpSocket), which nothing in the code ensures.             *)
(***************************************************************************)
EXTENDS Integers, Sequences, Functions

CONSTANTS Addrs, Ports,  \* a channel is an address and a port
          SocketSize,    \* bytes a socket holds
          MaxLen,        \* bytes of a datagram
          MaxSends       \* bound on the datagrams of all clients
ASSUME DaemonAssumption == SocketSize \in Nat /\ MaxLen \in Nat
VARIABLES client,        \* channel |-> [pc, sends, heard]
          inbox,         \* datagrams for port 22: [from, hello, bytes]
          daemon,        \* ushd's place, and the datagram it handles
          table,         \* ushCliTable: the shells by channel
          shells         \* their owners and sockets
vars == <<client, inbox, daemon, table, shells>>

Channels == Addrs \X Ports
\* A byte is known by its sender, the datagram it came in and its place.
Byte(c, d, k) == [from |-> c, sent |-> d, place |-> k]
Newline(c) == Byte(c, 0, 1)

Init ==
  /\ client = [c \in Channels |-> [pc |-> "off", sends |-> 0, heard |-> <<>>]]
  /\ inbox = <<>> /\ table = [c \in {} |-> 0] /\ shells = <<>>
  /\ daemon = [pc |-> "read", from |-> <<>>, rest |-> <<>>, visit |-> {}]
-----------------------------------------------------------------------------
(* A client greets, waits half a second for the daemon's greeting, and     *)
(* then sends a line at a time.  When it gives up it may be started again  *)
(* on the same port.                                                       *)
CanSend == FoldFunction(LAMBDA c, n : c.sends + n, 0, client) < MaxSends
Sends(c, dgram) ==
  /\ client' = [client EXCEPT ![c].sends = @ + 1, ![c].pc = IF dgram.hello THEN "greeting" ELSE @]
  /\ inbox' \in {inbox, Append(inbox, dgram)}
  /\ UNCHANGED <<daemon, table, shells>>
Greet(c) ==
  /\ client[c].pc = "off" /\ CanSend
  /\ Sends(c, [from |-> c, hello |-> TRUE, bytes |-> <<>>])
SendLine(c, n) ==
  /\ client[c].pc = "open" /\ CanSend
  /\ Sends(c, [from |-> c, hello |-> FALSE, bytes |-> [k \in 1..n |-> Byte(c, client[c].sends + 1, k)]])
TimeOut(c) ==
  /\ client[c].pc = "greeting" /\ client' = [client EXCEPT ![c].pc = "off"]
  /\ UNCHANGED <<inbox, daemon, table, shells>>
\* A client that is not waiting any more leaves the greeting unread.
Motd(c) == client' \in {client, [client EXCEPT ![c].pc = IF @ = "greeting" THEN "open" ELSE @]}
-----------------------------------------------------------------------------
At(pc) == daemon.pc = pc
Goto(pc) == daemon' = [daemon EXCEPT !.pc = pc]
Stdin(c) == shells[table[c]].stdin
Known(c) == {d \in DOMAIN table : d = c}

\* udp_read(): a greeting from a known client becomes a newline; a line from
\* an unknown one is dropped.
Read ==
  /\ At("read") /\ inbox # <<>> /\ inbox' = Tail(inbox)
  /\ LET g == Head(inbox)
         known == Known(g.from)
     IN IF known # {}
        THEN LET c == CHOOSE d \in known : TRUE
                 input == IF g.hello THEN <<Newline(g.from)>> ELSE g.bytes
             IN /\ daemon' = [daemon EXCEPT !.pc = "write", !.from = c, !.rest = input]
                /\ IF g.hello THEN Motd(g.from) ELSE UNCHANGED client
        ELSE /\ daemon' = [daemon EXCEPT !.pc = IF g.hello THEN "spawn" ELSE "read",
                                         !.from = g.from, !.rest = <<>>]
             /\ UNCHANGED client
  /\ UNCHANGED <<table, shells>>

\* An unknown client gets a shell, an entry and the greeting.
Spawn ==
  /\ At("spawn") /\ Goto("insert")
  /\ shells' = Append(shells, [owner |-> daemon.from, stdin |-> <<>>, read |-> <<>>, stdout |-> <<>>])
  /\ UNCHANGED <<client, inbox, table>>
Insert_Lost ==
  /\ At("insert") /\ Goto("greet") /\ UNCHANGED <<client, inbox, shells, table>>
Insert ==
  /\ At("insert") /\ Goto("greet")
  /\ table' = [d \in DOMAIN table \cup {daemon.from} |->
                 IF d = daemon.from THEN Len(shells) ELSE table[d]]
  /\ UNCHANGED <<client, inbox, shells>>
SendGreeting ==
  /\ At("greet") /\ Goto("read") /\ Motd(daemon.from) /\ UNCHANGED <<inbox, table, shells>>

\* write() takes what fits.  What does not is tried once more, after a sleep,
\* unless the socket is full; then it is dropped.
Fitting(c) == LET n == SocketSize - Len(Stdin(c)) IN
              SubSeq(daemon.rest, 1, IF Len(daemon.rest) < n THEN Len(daemon.rest) ELSE n)
Remaining(rest, some) == SubSeq(rest, Len(some) + 1, Len(rest))
Write ==
  /\ At("write")
  /\ LET some == Fitting(daemon.from)
         rest == Remaining(daemon.rest, some)
         again == some # <<>> /\ Len(some) < Len(daemon.rest)
     IN /\ shells' = [shells EXCEPT ![table[daemon.from]].stdin = @ \o some]
        /\ daemon' = [daemon EXCEPT !.pc = IF again THEN "retry" ELSE "read",
                                    !.rest = IF again THEN rest ELSE <<>>]
  /\ UNCHANGED <<client, inbox, table>>
Retry ==
  /\ At("retry")
  /\ shells' = [shells EXCEPT ![table[daemon.from]].stdin = @ \o Fitting(daemon.from)]
  /\ daemon' = [daemon EXCEPT !.pc = "read", !.rest = <<>>]
  /\ UNCHANGED <<client, inbox, table>>

\* With nothing to read, the output of each shell is sent to its client.
Outbound ==
  /\ At("read") /\ inbox = <<>> /\ DOMAIN table # {}
  /\ daemon' = [daemon EXCEPT !.pc = "out", !.visit = DOMAIN table]
  /\ UNCHANGED <<client, inbox, table, shells>>
Forward(c) ==
  /\ At("out") /\ c \in daemon.visit
  /\ LET out == shells[table[c]].stdout
     IN /\ shells' = [shells EXCEPT ![table[c]].stdout = <<>>]
        /\ client' \in {client, [client EXCEPT ![c].heard = @ \o out]}
  /\ daemon' = [daemon EXCEPT !.visit = @ \ {c}, !.pc = IF daemon.visit = {c} THEN "read" ELSE "out"]
  /\ UNCHANGED <<inbox, table>>

\* The shell (ush.cpp), or the command that reads its input: it takes a byte by
\* getchar(), and has something to print because of it, if its output has room.
\* What it prints is known by that byte; what it really says is left to Ush.
Echo(i) ==
  /\ shells[i].stdin # <<>> /\ Len(shells[i].stdout) < SocketSize
  /\ shells' = [shells EXCEPT ![i].stdin = Tail(@), ![i].read = Append(@, Head(shells[i].stdin)),
                              ![i].stdout = Append(@, Head(shells[i].stdin))]
  /\ UNCHANGED <<client, inbox, daemon, table>>

Next ==
  \/ \E c \in Channels : Greet(c) \/ TimeOut(c) \/ Forward(c) \/ \E n \in 1..MaxLen : SendLine(c, n)
  \/ Read \/ Spawn \/ Insert \/ SendGreeting \/ Write \/ Retry \/ Outbound
  \/ \E i \in DOMAIN shells : Echo(i)

Spec == Init /\ [][Next]_vars
-----------------------------------------------------------------------------
Before(a, b) == a.sent < b.sent \/ (a.sent = b.sent /\ a.place < b.place)
Input(i) == shells[i].read \o shells[i].stdin
\* What was typed, the newlines of greetings left aside, is in the order of typing.
Ordered(s) ==
  \A j, k \in 1..Len(s) : j < k /\ s[j].sent # 0 /\ s[k].sent # 0 => Before(s[j], s[k])
\* Nothing stands behind a gap in its own datagram.
NoGap(s) ==
  \A k \in 1..Len(s) : s[k].place > 1 => k > 1 /\ s[k - 1].place = s[k].place - 1

(* A shell reads nothing but what its own client has typed, in its order,  *)
(* and never the end of a datagram whose beginning is missing.             *)
InputIsTheClients ==
  \A i \in DOMAIN shells :
    /\ \A k \in 1..Len(Input(i)) : Input(i)[k].from = shells[i].owner
    /\ Ordered(Input(i)) /\ NoGap(Input(i))

(* A client hears its own shell only, and everything in order.             *)
OutputIsTheShells ==
  \A c \in Channels :
    /\ \A k \in 1..Len(client[c].heard) : client[c].heard[k].from = c
    /\ Ordered(client[c].heard)

(* A client has one shell, however often it greets.                        *)
OneShellEach ==
  \A i, j \in DOMAIN shells : shells[i].owner = shells[j].owner => i = j

(* A client that has been greeted has its session: what it types next is   *)
(* not dropped as a stranger's.                                            *)
GreetedAreKnown == \A c \in Channels : client[c].pc = "open" => c \in DOMAIN table

(* Sessions are apart: a client has its own shell and nothing of another's, *)
(* in both directions.                                                     *)
SessionsApart == InputIsTheClients /\ OutputIsTheShells /\ OneShellEach /\ GreetedAreKnown
=============================================================================
