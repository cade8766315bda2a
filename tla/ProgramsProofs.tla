--------------------------- MODULE ProgramsProofs ---------------------------
(***************************************************************************)
(* Proofs about two programs that run on the kernel.                       *)
(* Ushd.tla, for every number of clients, any length of their lines and    *)
(* any size of the sockets: the sessions of the shell daemon are kept      *)
(* apart.  The invariant follows a byte from the datagram it came in       *)
(* through the daemon's hands and the shell to the client that hears it.   *)
(* Snake.tla, for every board, length of new snakes, number of apples and  *)
(* of players: snakes never overlap and grow as they should.  The          *)
(* invariant adds to the property what keeps a step right: every snake     *)
(* with cells has a direction, and the scores run along with the tables.   *)
(***************************************************************************)
EXTENDS Ushd, Snake, SequenceTheorems, FiniteSetTheorems, TLAPS

Bytes == [from : Channels, sent : Nat, place : Nat]
Datagrams == [from : Channels, hello : BOOLEAN, bytes : Seq(Bytes)]
Clients == [pc : {"off", "greeting", "open"}, sends : Nat, heard : Seq(Bytes)]
Shells == [owner : Channels, stdin : Seq(Bytes), read : Seq(Bytes), stdout : Seq(Bytes)]
Daemons == [pc : {"read", "spawn", "insert", "greet", "write", "retry", "out"},
            from : Channels \cup {<<>>}, rest : Seq(Bytes), visit : SUBSET Channels]

SessionsTyped ==
  /\ client \in [Channels -> Clients]
  /\ inbox \in Seq(Datagrams)
  /\ daemon \in Daemons
  /\ DOMAIN table \subseteq Channels
  /\ shells \in Seq(Shells)
  /\ \A i \in 1 .. Len(shells) : Len(shells[i].stdin) <= SocketSize

\* The table leads to one's own shell, and every shell is entered.
Entered ==
  /\ \A c \in DOMAIN table :
       table[c] \in 1 .. Len(shells) /\ shells[table[c]].owner = c
  /\ \A i \in 1 .. Len(shells) :
       \/ shells[i].owner \in DOMAIN table /\ table[shells[i].owner] = i
       \/ daemon.pc = "insert" /\ i = Len(shells)

\* Whom the daemon deals with at each of its places.
DealsWith ==
  /\ daemon.pc \in {"spawn", "insert"} => daemon.from \in Channels \ DOMAIN table
  /\ daemon.pc = "insert" =>
       /\ Len(shells) > 0
       /\ shells[Len(shells)] = [owner |-> daemon.from, stdin |-> <<>>, read |-> <<>>, stdout |-> <<>>]
  /\ daemon.pc \in {"greet", "write", "retry"} => daemon.from \in DOMAIN table
  /\ daemon.pc = "out" => daemon.visit \subseteq DOMAIN table

\* Whoever is open or has heard something has a session.
Sessions ==
  \A c \in Channels : client[c].pc = "open" \/ client[c].heard # <<>> => c \in DOMAIN table

\* A line consists of bytes of one datagram, which are numbered; lines arrive in order.
Number(g) == g.bytes[1].sent
Whole(g, m) ==
  IF g.hello THEN g.bytes = <<>>
  ELSE /\ g.bytes # <<>> /\ Number(g) \in 1 .. m
       /\ \A k \in 1 .. Len(g.bytes) : g.bytes[k] = Byte(g.from, Number(g), k)
InTurn(box) ==
  \A j, k \in 1 .. Len(box) :
    j < k /\ box[j].from = box[k].from /\ ~box[j].hello /\ ~box[k].hello
      => Number(box[j]) < Number(box[k])
InboxRight ==
  /\ \A j \in 1 .. Len(inbox) : Whole(inbox[j], client[inbox[j].from].sends)
  /\ InTurn(inbox)

\* s may be what client c typed up to its datagram m, before the lines that wait in box.
Good(s, c, m, box) ==
  /\ \A k \in 1 .. Len(s) : s[k].from = c /\ s[k].sent <= m
  /\ Ordered(s) /\ NoGap(s)
  /\ \A k \in 1 .. Len(s), j \in 1 .. Len(box) :
       box[j].from = c /\ ~box[j].hello => s[k].sent < Number(box[j])

InputRight ==
  \A i \in 1 .. Len(shells) :
    Good(Input(i), shells[i].owner, client[shells[i].owner].sends, inbox)

\* What the daemon holds continues what the shell has been given.
PendingRight ==
  daemon.pc \in {"write", "retry"} =>
    Good(Input(table[daemon.from]) \o daemon.rest, daemon.from, client[daemon.from].sends, inbox)

\* What a client has heard, and what waits for it, was read by its shell before.
Output(c) == client[c].heard \o shells[table[c]].stdout
WasRead(s, read) ==
  Ordered(s) /\ \A k \in 1 .. Len(s) : \E j \in 1 .. Len(read) : s[k] = read[j]
OutputRight == \A c \in DOMAIN table : WasRead(Output(c), shells[table[c]].read)

IInv == /\ SessionsTyped /\ Entered /\ DealsWith /\ Sessions
        /\ InboxRight /\ InputRight /\ PendingRight /\ OutputRight
-----------------------------------------------------------------------------
\* What the bytes of a sequence consist of.
LEMMA Typed ==
  ASSUME NEW s \in Seq(Bytes)
  PROVE  \A k \in 1 .. Len(s) :
           s[k].from \in Channels /\ s[k].sent \in Nat /\ s[k].place \in Nat
<1>1. \A k \in 1 .. Len(s) : s[k] \in Bytes
  OBVIOUS
<1> QED
  BY <1>1 DEF Bytes

\* The beginning of a good input is good.
LEMMA GoodPrefix ==
  ASSUME NEW c \in Channels, NEW m \in Nat, NEW box, NEW s \in Seq(Bytes), Good(s, c, m, box),
         NEW t \in Seq(Bytes), Len(t) <= Len(s), \A k \in 1 .. Len(t) : t[k] = s[k]
  PROVE  Good(t, c, m, box)
<1>1. Len(s) \in Nat /\ Len(t) \in Nat /\ \A k \in 1 .. Len(t) : k \in 1 .. Len(s)
  OBVIOUS
<1>2. Ordered(t)
  BY <1>1 DEF Good, Ordered
<1>3. NoGap(t)
  <2> SUFFICES ASSUME NEW k \in 1 .. Len(t), t[k].place > 1
               PROVE  k > 1 /\ t[k - 1].place = t[k].place - 1
    BY DEF NoGap
  <2>1. k > 1 /\ s[k - 1].place = s[k].place - 1
    BY <1>1 DEF Good, NoGap
  <2>2. k - 1 \in 1 .. Len(t)
    BY <1>1, <2>1
  <2> QED
    BY <2>1, <2>2
<1> QED
  BY <1>1, <1>2, <1>3 DEF Good

\* A good input stays good while datagrams are taken, or sent with later numbers.
LEMMA GoodLater ==
  ASSUME NEW c \in Channels, NEW m \in Nat, NEW n \in Nat, m <= n,
         NEW box \in Seq(Datagrams), NEW later \in Seq(Datagrams),
         NEW s \in Seq(Bytes), Good(s, c, m, box),
         \A j \in 1 .. Len(later) :
           \/ \E k \in 1 .. Len(box) : later[j] = box[k]
           \/ later[j].from = c /\ ~later[j].hello => Number(later[j]) \in Nat /\ m < Number(later[j])
  PROVE  Good(s, c, n, later)
<1>1. \A k \in 1 .. Len(s) : s[k].sent \in Nat /\ s[k].from = c /\ s[k].sent <= m
  <2>1. \A k \in 1 .. Len(s) : s[k].sent \in Nat
    BY Typed
  <2>2. \A k \in 1 .. Len(s) : s[k].from = c /\ s[k].sent <= m
    BY DEF Good
  <2> QED
    BY <2>1, <2>2
<1>2. ASSUME NEW k \in 1 .. Len(s), NEW j \in 1 .. Len(later), later[j].from = c, ~later[j].hello
      PROVE  s[k].sent < Number(later[j])
  <2>1. CASE \E i \in 1 .. Len(box) : later[j] = box[i]
    BY <1>2, <2>1 DEF Good
  <2>2. CASE Number(later[j]) \in Nat /\ m < Number(later[j])
    BY <1>1, <2>2
  <2> QED
    BY <1>2, <2>1, <2>2
<1> QED
  BY <1>1, <1>2 DEF Good

\* A good input is continued by the next datagram of its client, or by a newline.
LEMMA GoodMore ==
  ASSUME NEW c \in Channels, NEW m \in Nat, NEW box \in Seq(Datagrams),
         NEW s \in Seq(Bytes), Good(s, c, m, box),
         NEW t \in Seq(Bytes), NEW d \in 0 .. m,
         \A k \in 1 .. Len(t) : t[k] = Byte(c, d, k),
         d = 0 => Len(t) = 1,
         d # 0 => \A k \in 1 .. Len(s) : s[k].sent < d,
         \A j \in 1 .. Len(box) : box[j].from = c /\ ~box[j].hello =>
                                    Number(box[j]) \in Nat /\ d < Number(box[j])
  PROVE  Good(s \o t, c, m, box)
<1>1. PICK l \in Nat, n \in Nat : l = Len(s) /\ n = Len(t)
  OBVIOUS
<1>2. PICK u \in Seq(Bytes) : u = s \o t
  BY ConcatProperties
<1>3. /\ Len(u) = l + n
      /\ \A k \in 1 .. l : u[k] = s[k]
      /\ \A k \in l + 1 .. l + n : k - l \in 1 .. n /\ u[k] = t[k - l]
  BY <1>1, <1>2, ConcatProperties
<1>4. \A k \in 1 .. l : s[k].from = c /\ s[k].sent \in Nat /\ s[k].sent <= m
  <2>1. \A k \in 1 .. l : s[k].sent \in Nat
    BY <1>1, Typed
  <2>2. \A k \in 1 .. l : s[k].from = c /\ s[k].sent <= m
    BY <1>1 DEF Good
  <2> QED
    BY <2>1, <2>2
<1>5. \A k \in l + 1 .. l + n : u[k].from = c /\ u[k].sent = d /\ u[k].place = k - l
  <2>1. \A k \in 1 .. n : t[k].from = c /\ t[k].sent = d /\ t[k].place = k
    <3>1. \A k \in 1 .. n : Byte(c, d, k).from = c /\ Byte(c, d, k).sent = d /\ Byte(c, d, k).place = k
      BY DEF Byte
    <3> QED
      BY <1>1, <3>1
  <2>2. \A k \in l + 1 .. l + n : k - l \in 1 .. n /\ u[k] = t[k - l]
    BY <1>3
  <2>3. SUFFICES ASSUME NEW k \in l + 1 .. l + n
                 PROVE  u[k].from = c /\ u[k].sent = d /\ u[k].place = k - l
    OBVIOUS
  <2>4. PICK i \in 1 .. n : i = k - l
    BY <2>2
  <2> QED
    BY <2>1, <2>2, <2>4
<1>6. \A k \in 1 .. l + n : k \in 1 .. l \/ k \in l + 1 .. l + n
  OBVIOUS
<1>7. \A k \in 1 .. Len(u) : u[k].from = c /\ u[k].sent <= m
  <2>1. d <= m
    OBVIOUS
  <2> QED
    BY <1>3, <1>4, <1>5, <1>6, <2>1
<1>8. Ordered(u)
  <2> SUFFICES ASSUME NEW j \in 1 .. l + n, NEW k \in 1 .. l + n, j < k, u[j].sent # 0, u[k].sent # 0
               PROVE  Before(u[j], u[k])
    BY <1>3 DEF Ordered
  <2>1. CASE k \in 1 .. l
    <3>1. j \in 1 .. l
      BY <2>1
    <3> QED
      BY <1>1, <1>3, <2>1, <3>1 DEF Good, Ordered
  <2>2. CASE j \in 1 .. l /\ k \in l + 1 .. l + n
    BY <1>1, <1>3, <1>5, <2>2 DEF Before
  <2>3. CASE j \in l + 1 .. l + n /\ k \in l + 1 .. l + n
    BY <1>5, <2>3 DEF Before
  <2> QED
    BY <1>6, <2>1, <2>2, <2>3
<1>9. NoGap(u)
  <2> SUFFICES ASSUME NEW k \in 1 .. l + n, u[k].place > 1
               PROVE  k > 1 /\ u[k - 1].place = u[k].place - 1
    BY <1>3 DEF NoGap
  <2>1. CASE k \in 1 .. l
    <3>1. k > 1 /\ s[k - 1].place = s[k].place - 1
      BY <1>1, <1>3, <2>1 DEF Good, NoGap
    <3>2. k - 1 \in 1 .. l
      BY <2>1, <3>1
    <3> QED
      BY <1>3, <2>1, <3>1, <3>2
  <2>2. CASE k \in l + 1 .. l + n
    <3>1. k - l > 1
      BY <1>5, <2>2
    <3>2. k - 1 \in l + 1 .. l + n /\ k > 1
      BY <2>2, <3>1
    <3> QED
      BY <1>5, <2>2, <3>2
  <2> QED
    BY <1>6, <2>1, <2>2
<1>10. ASSUME NEW k \in 1 .. Len(u), NEW j \in 1 .. Len(box), box[j].from = c, ~box[j].hello
       PROVE  u[k].sent < Number(box[j])
  <2>1. CASE k \in 1 .. l
    BY <1>1, <1>3, <1>10, <2>1 DEF Good
  <2>2. CASE k \in l + 1 .. l + n
    BY <1>5, <1>10, <2>2
  <2> QED
    BY <1>3, <1>6, <2>1, <2>2
<1>11. Good(u, c, m, box)
  BY <1>7, <1>8, <1>9, <1>10 DEF Good
<1> QED
  BY <1>2, <1>11
-----------------------------------------------------------------------------
\* The type of every field of the state.
LEMMA Fields ==
  ASSUME SessionsTyped
  PROVE  /\ \A c \in Channels : /\ client[c] \in Clients /\ client[c].pc \in {"off", "greeting", "open"}
                                /\ client[c].sends \in Nat /\ client[c].heard \in Seq(Bytes)
         /\ Len(inbox) \in Nat
         /\ \A j \in 1 .. Len(inbox) :
              /\ inbox[j] \in Datagrams /\ inbox[j].from \in Channels /\ inbox[j].hello \in BOOLEAN
              /\ inbox[j].bytes \in Seq(Bytes)
         /\ daemon.pc \in {"read", "spawn", "insert", "greet", "write", "retry", "out"}
         /\ daemon.from \in Channels \cup {<<>>} /\ daemon.rest \in Seq(Bytes)
         /\ daemon.visit \subseteq Channels
         /\ Len(shells) \in Nat
         /\ \A i \in 1 .. Len(shells) :
              /\ shells[i] \in Shells /\ shells[i].owner \in Channels
              /\ shells[i].stdin \in Seq(Bytes) /\ shells[i].read \in Seq(Bytes)
              /\ shells[i].stdout \in Seq(Bytes) /\ Input(i) \in Seq(Bytes)
<1>1. \A c \in Channels : client[c] \in Clients
  BY DEF SessionsTyped
<1>2. \A c \in Channels : /\ client[c].pc \in {"off", "greeting", "open"}
                          /\ client[c].sends \in Nat /\ client[c].heard \in Seq(Bytes)
  BY <1>1 DEF Clients
<1>3. Len(inbox) \in Nat /\ \A j \in 1 .. Len(inbox) : inbox[j] \in Datagrams
  BY DEF SessionsTyped
<1>4. \A j \in 1 .. Len(inbox) : /\ inbox[j].from \in Channels /\ inbox[j].hello \in BOOLEAN
                                 /\ inbox[j].bytes \in Seq(Bytes)
  BY <1>3 DEF Datagrams
<1>5. /\ daemon.pc \in {"read", "spawn", "insert", "greet", "write", "retry", "out"}
      /\ daemon.from \in Channels \cup {<<>>} /\ daemon.rest \in Seq(Bytes)
      /\ daemon.visit \subseteq Channels
  BY DEF SessionsTyped, Daemons
<1>6. Len(shells) \in Nat /\ \A i \in 1 .. Len(shells) : shells[i] \in Shells
  BY DEF SessionsTyped
<1>7. \A i \in 1 .. Len(shells) :
        /\ shells[i].owner \in Channels
        /\ shells[i].stdin \in Seq(Bytes) /\ shells[i].read \in Seq(Bytes)
        /\ shells[i].stdout \in Seq(Bytes)
  BY <1>6 DEF Shells
<1>8. \A i \in 1 .. Len(shells) : Input(i) \in Seq(Bytes)
  BY <1>7, ConcatProperties DEF Input
<1> QED
  BY <1>1, <1>2, <1>3, <1>4, <1>5, <1>6, <1>7, <1>8

\* The clients after one of them has changed.
LEMMA ClientsAfter ==
  ASSUME SessionsTyped, NEW c \in Channels, NEW r \in Clients, client' = [client EXCEPT ![c] = r]
  PROVE  /\ client' \in [Channels -> Clients] /\ client'[c] = r
         /\ \A d \in Channels \ {c} : client'[d] = client[d]
  BY DEF SessionsTyped

\* The shells after one of them has changed.
LEMMA ShellsAfter ==
  ASSUME SessionsTyped, NEW i \in 1 .. Len(shells), NEW r \in Shells, shells' = [shells EXCEPT ![i] = r]
  PROVE  /\ shells' \in Seq(Shells) /\ Len(shells') = Len(shells) /\ shells'[i] = r
         /\ \A j \in 1 .. Len(shells) : j # i => shells'[j] = shells[j]
  BY DEF SessionsTyped

\* What does not touch inputs, datagrams and the numbers of sent ones.
LEMMA SameData ==
  ASSUME IInv, UNCHANGED <<inbox, shells>>,
         \A c \in Channels : client'[c].sends = client[c].sends
  PROVE  InboxRight' /\ InputRight'
<1>1. /\ \A j \in 1 .. Len(inbox) : inbox[j].from \in Channels
      /\ \A i \in 1 .. Len(shells) : shells[i].owner \in Channels
  BY Fields DEF IInv
<1>2. InboxRight'
  BY <1>1 DEF IInv, InboxRight
<1>3. InputRight'
  BY <1>1 DEF IInv, InputRight, Input
<1> QED
  BY <1>2, <1>3

\* Nobody hears anything, and no shell reads or prints.
LEMMA SameOutput ==
  ASSUME IInv, UNCHANGED <<table, shells>>,
         \A c \in Channels : client'[c].heard = client[c].heard
  PROVE  OutputRight'
<1>1. \A c \in DOMAIN table : c \in Channels
  BY DEF IInv, SessionsTyped
<1>2. \A c \in DOMAIN table : Output(c)' = Output(c) /\ shells'[table'[c]].read = shells[table[c]].read
  BY <1>1 DEF Output
<1> QED
  BY <1>2 DEF IInv, OutputRight

\* A datagram is sent, with the next number of its client, and may be lost.
LEMMA SendsStep ==
  ASSUME IInv, NEW c \in Channels, NEW g \in Datagrams, Sends(c, g), g.from = c,
         g.hello => g.bytes = <<>>,
         ~g.hello => /\ g.bytes # <<>> /\ Number(g) = client[c].sends + 1
                     /\ \A k \in 1 .. Len(g.bytes) : g.bytes[k] = Byte(c, Number(g), k)
  PROVE  IInv'
<1> DEFINE r == [client[c] EXCEPT !.sends = @ + 1, !.pc = IF g.hello THEN "greeting" ELSE @]
<1>1. SessionsTyped
  BY DEF IInv
<1>2. /\ client[c].pc \in {"off", "greeting", "open"} /\ client[c].sends \in Nat
      /\ client[c].heard \in Seq(Bytes) /\ client[c] \in Clients /\ g.hello \in BOOLEAN
  BY <1>1, Fields DEF Datagrams
<1>3. /\ r \in Clients /\ r.sends = client[c].sends + 1 /\ r.heard = client[c].heard
      /\ r.pc \in {"greeting", client[c].pc}
  <2>1. PICK n \in Nat, p \in {"greeting", client[c].pc} :
          n = client[c].sends + 1 /\ p = IF g.hello THEN "greeting" ELSE client[c].pc
    BY <1>2
  <2>2. r = [client[c] EXCEPT !.sends = n, !.pc = p]
    BY <2>1
  <2> QED
    BY <1>2, <2>1, <2>2 DEF Clients
<1>4. client' = [client EXCEPT ![c] = r]
  BY DEF Sends
<1>5. /\ client' \in [Channels -> Clients] /\ client'[c] = r
      /\ \A d \in Channels \ {c} : client'[d] = client[d]
  BY <1>1, <1>3, <1>4, ClientsAfter
<1> HIDE DEF r
<1>6. UNCHANGED <<daemon, table, shells>> /\ inbox' \in {inbox, Append(inbox, g)}
  BY DEF Sends
<1>7. /\ inbox' \in Seq(Datagrams) /\ Len(inbox) \in Nat /\ Len(inbox') \in Nat
      /\ \A j \in 1 .. Len(inbox') :
           \/ j \in 1 .. Len(inbox) /\ inbox'[j] = inbox[j]
           \/ j = Len(inbox) + 1 /\ inbox'[j] = g
  <2>1. inbox \in Seq(Datagrams) /\ Len(inbox) \in Nat
    BY <1>1 DEF SessionsTyped
  <2>2. CASE inbox' = inbox
    BY <2>1, <2>2
  <2>3. CASE inbox' = Append(inbox, g)
    BY <2>1, <2>3, AppendProperties
  <2> QED
    BY <1>6, <2>2, <2>3
<1>8. \A d \in Channels : /\ client'[d].sends \in Nat /\ client[d].sends \in Nat
                          /\ client[d].sends <= client'[d].sends
                          /\ client'[d].heard = client[d].heard
                          /\ client'[d].pc = "open" => client[d].pc = "open"
  <2>1. \A d \in Channels : client[d].sends \in Nat
    BY <1>1, Fields
  <2>2. client'[c].sends \in Nat /\ client[c].sends <= client'[c].sends
        /\ client'[c].heard = client[c].heard /\ (client'[c].pc = "open" => client[c].pc = "open")
    BY <1>2, <1>3, <1>5
  <2>3. SUFFICES ASSUME NEW d \in Channels
                 PROVE  /\ client'[d].sends \in Nat /\ client[d].sends \in Nat
                        /\ client[d].sends <= client'[d].sends
                        /\ client'[d].heard = client[d].heard
                        /\ client'[d].pc = "open" => client[d].pc = "open"
    OBVIOUS
  <2>4. CASE d = c
    BY <1>2, <2>2, <2>4
  <2>5. CASE d # c
    BY <1>5, <2>1, <2>5
  <2> QED
    BY <2>4, <2>5
<1>9. SessionsTyped'
  BY <1>1, <1>5, <1>6, <1>7 DEF SessionsTyped
<1>10. Entered' /\ DealsWith'
  BY <1>6 DEF IInv, Entered, DealsWith
<1>11. Sessions'
  BY <1>6, <1>8 DEF IInv, Sessions
<1>12. OutputRight'
  BY <1>6, <1>8, SameOutput
<1>13. ASSUME NEW j \in 1 .. Len(inbox), ~inbox[j].hello
       PROVE  /\ inbox[j].from \in Channels
              /\ Number(inbox[j]) \in 1 .. client[inbox[j].from].sends
  <2>1. Whole(inbox[j], client[inbox[j].from].sends)
    BY DEF IInv, InboxRight
  <2> QED
    BY <1>1, <1>13, <2>1, Fields DEF Whole
<1>14. ~g.hello => Number(g) \in 1 .. client'[c].sends /\ Number(g) \in Nat
  BY <1>2, <1>3, <1>5
<1>15. InboxRight'
  <2>1. ASSUME NEW j \in 1 .. Len(inbox') PROVE Whole(inbox'[j], client'[inbox'[j].from].sends)
    <3>1. CASE j \in 1 .. Len(inbox) /\ inbox'[j] = inbox[j]
      <4>1. Whole(inbox[j], client[inbox[j].from].sends) /\ inbox[j].from \in Channels
        BY <1>1, <3>1, Fields DEF IInv, InboxRight
      <4>2. PICK m \in Nat, n \in Nat :
              m = client[inbox[j].from].sends /\ n = client'[inbox[j].from].sends /\ m <= n
        BY <1>8, <4>1
      <4>3. Whole(inbox[j], n)
        BY <4>1, <4>2 DEF Whole
      <4> QED
        BY <3>1, <4>2, <4>3
    <3>2. CASE inbox'[j] = g
      <4>1. Whole(g, client'[c].sends)
        BY <1>14 DEF Whole
      <4> QED
        BY <3>2, <4>1
    <3> QED
      BY <1>7, <3>1, <3>2
  <2>2. ASSUME NEW j \in 1 .. Len(inbox'), NEW k \in 1 .. Len(inbox'), j < k,
               inbox'[j].from = inbox'[k].from, ~inbox'[j].hello, ~inbox'[k].hello
        PROVE  Number(inbox'[j]) < Number(inbox'[k])
    <3>1. CASE k \in 1 .. Len(inbox) /\ inbox'[k] = inbox[k]
      <4>1. j \in 1 .. Len(inbox) /\ inbox'[j] = inbox[j]
        BY <1>7, <2>2, <3>1
      <4> QED
        BY <2>2, <3>1, <4>1 DEF IInv, InboxRight, InTurn
    <3>2. CASE k = Len(inbox) + 1 /\ inbox'[k] = g
      <4>1. j \in 1 .. Len(inbox) /\ inbox'[j] = inbox[j]
        BY <1>7, <2>2, <3>2
      <4>2. inbox[j].from = c /\ ~inbox[j].hello /\ ~g.hello
        BY <2>2, <3>2, <4>1
      <4>3. Number(inbox[j]) \in 1 .. client[c].sends
        BY <1>13, <4>1, <4>2
      <4>4. Number(inbox[j]) < Number(g)
        BY <1>2, <4>2, <4>3
      <4> QED
        BY <3>2, <4>1, <4>4
    <3> QED
      BY <1>7, <3>1, <3>2
  <2> QED
    BY <2>1, <2>2 DEF InboxRight, InTurn
<1>16. ASSUME NEW d \in Channels, NEW s \in Seq(Bytes), Good(s, d, client[d].sends, inbox)
       PROVE  Good(s, d, client'[d].sends, inbox')
  <2>1. \A j \in 1 .. Len(inbox') :
          \/ \E k \in 1 .. Len(inbox) : inbox'[j] = inbox[k]
          \/ inbox'[j].from = d /\ ~inbox'[j].hello =>
               Number(inbox'[j]) \in Nat /\ client[d].sends < Number(inbox'[j])
    <3> SUFFICES ASSUME NEW j \in 1 .. Len(inbox'), inbox'[j] = g, g.from = d, ~g.hello
                 PROVE  Number(g) \in Nat /\ client[d].sends < Number(g)
      BY <1>7
    <3> QED
      BY <1>2, <1>14
  <2>2. inbox \in Seq(Datagrams)
    BY <1>1 DEF SessionsTyped
  <2>3. client[d].sends \in Nat /\ client'[d].sends \in Nat /\ client[d].sends <= client'[d].sends
    BY <1>8
  <2>4. PICK m \in Nat, n \in Nat, later \in Seq(Datagrams) :
          m = client[d].sends /\ n = client'[d].sends /\ later = inbox'
    BY <1>7, <2>3
  <2>5. m <= n /\ Good(s, d, m, inbox)
    BY <1>16, <2>3, <2>4
  <2>6. \A j \in 1 .. Len(later) :
          \/ \E k \in 1 .. Len(inbox) : later[j] = inbox[k]
          \/ later[j].from = d /\ ~later[j].hello => Number(later[j]) \in Nat /\ m < Number(later[j])
    BY <2>1, <2>4
  <2>7. Good(s, d, n, later)
    BY <2>2, <2>5, <2>6, GoodLater
  <2> QED
    BY <2>4, <2>7
<1>17. InputRight'
  BY <1>1, <1>6, <1>16, Fields DEF IInv, InputRight, Input
<1>18. PendingRight'
  <2> SUFFICES ASSUME daemon.pc \in {"write", "retry"}
               PROVE  Good(Input(table[daemon.from]) \o daemon.rest, daemon.from,
                           client'[daemon.from].sends, inbox')
    BY <1>6 DEF PendingRight, Input
  <2>1. daemon.from \in Channels /\ table[daemon.from] \in 1 .. Len(shells)
    BY DEF IInv, DealsWith, Entered, SessionsTyped
  <2>2. Input(table[daemon.from]) \o daemon.rest \in Seq(Bytes)
    BY <1>1, <2>1, Fields, ConcatProperties
  <2> QED
    BY <1>16, <2>1, <2>2 DEF IInv, PendingRight
<1> QED
  BY <1>9, <1>10, <1>11, <1>12, <1>15, <1>17, <1>18 DEF IInv

\* A client greets.
LEMMA GreetStep ==
  ASSUME IInv, NEW c \in Channels, Greet(c)
  PROVE  IInv'
<1>1. PICK g : g = [from |-> c, hello |-> TRUE, bytes |-> <<>>]
  OBVIOUS
<1>2. g \in Datagrams /\ g.from = c /\ g.hello /\ g.bytes = <<>>
  BY <1>1 DEF Datagrams
<1>3. Sends(c, g)
  BY <1>1 DEF Greet
<1> QED
  BY <1>2, <1>3, SendsStep

\* A client sends a line.
LEMMA SendLineStep ==
  ASSUME IInv, NEW c \in Channels, NEW n \in 1 .. MaxLen, SendLine(c, n)
  PROVE  IInv'
<1>1. PICK d \in Nat : d = client[c].sends + 1
  BY Fields DEF IInv
<1>2. PICK b : b = [k \in 1 .. n |-> Byte(c, d, k)]
  OBVIOUS
<1>3. PICK g : g = [from |-> c, hello |-> FALSE, bytes |-> b]
  OBVIOUS
<1>4. n \in Nat /\ 1 <= n
  BY DaemonAssumption
<1>5. \A k \in 1 .. n : Byte(c, d, k) \in Bytes
  BY <1>4 DEF Byte, Bytes
<1>6. b \in Seq(Bytes) /\ Len(b) = n /\ \A k \in 1 .. n : b[k] = Byte(c, d, k)
  BY <1>2, <1>4, <1>5
<1>7. b # <<>> /\ b[1].sent = d
  BY <1>4, <1>6 DEF Byte
<1>8. g \in Datagrams /\ g.from = c /\ ~g.hello /\ g.bytes = b
  BY <1>3, <1>6 DEF Datagrams
<1>9. Sends(c, g)
  BY <1>1, <1>2, <1>3 DEF SendLine
<1>10. /\ g.bytes # <<>> /\ Number(g) = client[c].sends + 1
       /\ \A k \in 1 .. Len(g.bytes) : g.bytes[k] = Byte(c, Number(g), k)
  BY <1>1, <1>6, <1>7, <1>8 DEF Number
<1> QED
  BY <1>8, <1>9, <1>10, SendsStep

\* What only changes where a client is, or nothing of it.
LEMMA ClientMoves ==
  ASSUME IInv, NEW c \in Channels, NEW p \in {"off", "greeting", "open"},
         client' \in {client, [client EXCEPT ![c].pc = p]}
  PROVE  /\ client' \in [Channels -> Clients]
         /\ \A d \in Channels : client'[d].sends = client[d].sends /\ client'[d].heard = client[d].heard
         /\ \A d \in Channels : client'[d].pc = client[d].pc \/ (d = c /\ client'[d].pc = p)
<1>1. SessionsTyped /\ client[c] \in Clients
  BY Fields DEF IInv
<1>2. PICK r : r = [client[c] EXCEPT !.pc = p]
  OBVIOUS
<1>3. r \in Clients /\ r.sends = client[c].sends /\ r.heard = client[c].heard /\ r.pc = p
  BY <1>1, <1>2 DEF Clients
<1>4. CASE client' = client
  BY <1>1, <1>4 DEF SessionsTyped
<1>5. CASE client' = [client EXCEPT ![c].pc = p]
  <2>1. client' = [client EXCEPT ![c] = r]
    BY <1>2, <1>5
  <2>2. /\ client' \in [Channels -> Clients] /\ client'[c] = r
        /\ \A d \in Channels \ {c} : client'[d] = client[d]
    BY <1>1, <1>3, <2>1, ClientsAfter
  <2> QED
    BY <1>3, <2>2
<1> QED
  BY <1>4, <1>5

\* A greeting moves its client, if it is still waiting.
LEMMA MotdMoves ==
  ASSUME IInv, NEW c \in Channels, Motd(c)
  PROVE  /\ client' \in [Channels -> Clients]
         /\ \A d \in Channels : client'[d].sends = client[d].sends /\ client'[d].heard = client[d].heard
         /\ \A d \in Channels : client'[d].pc = client[d].pc \/ d = c
<1>1. client[c].pc \in {"off", "greeting", "open"}
  BY Fields DEF IInv
<1>2. PICK p \in {"off", "greeting", "open"} :
        p = IF client[c].pc = "greeting" THEN "open" ELSE client[c].pc
  BY <1>1
<1>3. client' \in {client, [client EXCEPT ![c].pc = p]}
  BY <1>2 DEF Motd
<1> QED
  BY <1>2, <1>3, ClientMoves

\* A client gives up waiting.
LEMMA TimeOutStep ==
  ASSUME IInv, NEW c \in Channels, TimeOut(c)
  PROVE  IInv'
<1>1. client' \in {client, [client EXCEPT ![c].pc = "off"]} /\ UNCHANGED <<inbox, daemon, table, shells>>
  BY DEF TimeOut
<1>2. /\ client' \in [Channels -> Clients]
      /\ \A d \in Channels : client'[d].sends = client[d].sends /\ client'[d].heard = client[d].heard
      /\ \A d \in Channels : client'[d].pc = client[d].pc \/ (d = c /\ client'[d].pc = "off")
  BY <1>1, ClientMoves
<1>3. SessionsTyped' /\ Entered' /\ DealsWith'
  BY <1>1, <1>2 DEF IInv, SessionsTyped, Entered, DealsWith
<1>4. Sessions'
  BY <1>1, <1>2 DEF IInv, Sessions
<1>5. InboxRight' /\ InputRight' /\ OutputRight'
  BY <1>1, <1>2, SameData, SameOutput
<1>6. PendingRight'
  <2>1. daemon.pc \in {"write", "retry"} => daemon.from \in Channels
    BY DEF IInv, DealsWith, SessionsTyped
  <2> QED
    BY <1>1, <1>2, <2>1 DEF IInv, PendingRight, Input
<1> QED
  BY <1>3, <1>4, <1>5, <1>6 DEF IInv

\* The new shell has its owner, and is not in the table yet.
LEMMA SpawnStep ==
  ASSUME IInv, Spawn
  PROVE  IInv'
<1> DEFINE c == daemon.from
           r == [owner |-> c, stdin |-> <<>>, read |-> <<>>, stdout |-> <<>>]
<1>1. /\ SessionsTyped /\ c \in Channels \ DOMAIN table /\ daemon.pc = "spawn"
  BY DEF IInv, DealsWith, Spawn, At
<1>2. /\ daemon' = [daemon EXCEPT !.pc = "insert"]
      /\ shells' = Append(shells, r) /\ UNCHANGED <<client, inbox, table>>
  BY DEF Spawn, Goto
<1>3. r \in Shells /\ r.owner = c /\ r.stdin = <<>> /\ r.read = <<>> /\ r.stdout = <<>>
  BY <1>1 DEF Shells
<1>4. PICK n \in Nat : n = Len(shells)
  BY <1>1, Fields
<1>5. /\ shells' \in Seq(Shells) /\ Len(shells') = n + 1 /\ shells'[n + 1] = r
      /\ \A i \in 1 .. n : shells'[i] = shells[i]
  BY <1>1, <1>2, <1>3, <1>4, AppendProperties DEF SessionsTyped
<1>6. daemon'.pc = "insert" /\ daemon'.from = c /\ daemon'.rest = daemon.rest
      /\ daemon'.visit = daemon.visit
  BY <1>1, <1>2 DEF SessionsTyped, Daemons
<1>7. daemon' \in Daemons
  BY <1>1, <1>2 DEF SessionsTyped, Daemons
<1>8. \A i \in 1 .. n + 1 : i \in 1 .. n \/ i = n + 1
  BY <1>4
<1>9. SessionsTyped'
  <2>1. \A i \in 1 .. Len(shells') : Len(shells'[i].stdin) <= SocketSize
    BY <1>1, <1>3, <1>4, <1>5, <1>8, DaemonAssumption DEF SessionsTyped
  <2> QED
    BY <1>1, <1>2, <1>5, <1>7, <2>1 DEF SessionsTyped
<1>10. \A d \in DOMAIN table : d # c /\ d \in Channels /\ table[d] \in 1 .. n /\ shells'[table[d]] = shells[table[d]]
  BY <1>1, <1>4, <1>5 DEF IInv, Entered, SessionsTyped
<1>11. Entered'
  <2>1. \A d \in DOMAIN table : table[d] \in 1 .. Len(shells') /\ shells'[table[d]].owner = d
    BY <1>4, <1>5, <1>10 DEF IInv, Entered
  <2>2. \A i \in 1 .. n : shells'[i].owner \in DOMAIN table /\ table[shells'[i].owner] = i
    BY <1>1, <1>4, <1>5 DEF IInv, Entered
  <2> QED
    BY <1>2, <1>5, <1>6, <1>8, <2>1, <2>2 DEF Entered
<1>12. DealsWith'
  BY <1>1, <1>2, <1>4, <1>5, <1>6 DEF DealsWith
<1>13. Sessions'
  BY <1>2 DEF IInv, Sessions
<1>14. InboxRight'
  BY <1>2 DEF IInv, InboxRight
<1>15. InputRight'
  <2>1. ASSUME NEW i \in 1 .. n
        PROVE  Good(Input(i)', shells'[i].owner, client'[shells'[i].owner].sends, inbox')
    BY <1>2, <1>4, <1>5 DEF IInv, InputRight, Input
  <2>2. Input(n + 1)' = <<>>
    BY <1>3, <1>5 DEF Input
  <2>3. \A d, m, box : Good(<<>>, d, m, box)
    BY DEF Good, Ordered, NoGap
  <2> QED
    BY <1>5, <1>8, <2>1, <2>2, <2>3 DEF InputRight
<1>16. PendingRight'
  BY <1>6 DEF PendingRight
<1>17. OutputRight'
  <2>1. \A d \in DOMAIN table : Output(d)' = Output(d) /\ shells'[table[d]].read = shells[table[d]].read
    BY <1>2, <1>10 DEF Output
  <2> QED
    BY <1>2, <2>1 DEF IInv, OutputRight
<1> QED
  BY <1>9, <1>11, <1>12, <1>13, <1>14, <1>15, <1>16, <1>17 DEF IInv

\* The new shell is entered for its owner, who has heard nothing before.
LEMMA InsertStep ==
  ASSUME IInv, Insert
  PROVE  IInv'
<1>0. PICK c : c = daemon.from
  OBVIOUS
<1>1. /\ SessionsTyped /\ c \in Channels \ DOMAIN table /\ daemon.pc = "insert"
      /\ Len(shells) > 0
      /\ shells[Len(shells)] = [owner |-> c, stdin |-> <<>>, read |-> <<>>, stdout |-> <<>>]
  BY <1>0 DEF IInv, DealsWith, Insert, At
<1>2. /\ daemon' = [daemon EXCEPT !.pc = "greet"]
      /\ table' = [d \in DOMAIN table \cup {c} |-> IF d = c THEN Len(shells) ELSE table[d]]
      /\ UNCHANGED <<client, inbox, shells>>
  BY <1>0 DEF Insert, Goto
<1>3. PICK n \in Nat : n = Len(shells)
  BY <1>1, Fields
<1>4. /\ DOMAIN table' = DOMAIN table \cup {c} /\ table'[c] = n
      /\ \A d \in DOMAIN table : table'[d] = table[d]
  BY <1>1, <1>2, <1>3
<1>5. daemon'.pc = "greet" /\ daemon'.from = c /\ daemon'.rest = daemon.rest
      /\ daemon'.visit = daemon.visit
  BY <1>0, <1>1, <1>2 DEF SessionsTyped, Daemons
<1>6. daemon' \in Daemons
  BY <1>1, <1>2 DEF SessionsTyped, Daemons
<1>7. /\ shells[n].owner = c /\ shells[n].stdin = <<>> /\ shells[n].read = <<>>
      /\ shells[n].stdout = <<>> /\ n \in 1 .. Len(shells)
  BY <1>1, <1>3
<1>8. SessionsTyped'
  BY <1>1, <1>2, <1>4, <1>6 DEF SessionsTyped
<1>9. Entered'
  <2>1. \A d \in DOMAIN table' : table'[d] \in 1 .. Len(shells') /\ shells'[table'[d]].owner = d
    BY <1>2, <1>4, <1>7 DEF IInv, Entered
  <2>2. \A i \in 1 .. Len(shells) : shells[i].owner \in DOMAIN table' /\ table'[shells[i].owner] = i
    BY <1>3, <1>4, <1>7 DEF IInv, Entered
  <2> QED
    BY <1>2, <2>1, <2>2 DEF Entered
<1>10. DealsWith'
  BY <1>4, <1>5 DEF DealsWith
<1>11. Sessions'
  BY <1>2, <1>4 DEF IInv, Sessions
<1>12. InboxRight' /\ InputRight'
  BY <1>2, SameData
<1>13. PendingRight'
  BY <1>5 DEF PendingRight
<1>14. OutputRight'
  <2>1. \A d \in DOMAIN table : Output(d)' = Output(d) /\ shells'[table'[d]].read = shells[table[d]].read
    BY <1>2, <1>4 DEF Output
  <2>2. Output(c)' = <<>>
    <3>1. client[c].heard = <<>>
      BY <1>1 DEF IInv, Sessions
    <3> QED
      BY <1>2, <1>4, <1>7, <3>1 DEF Output
  <2>3. \A read : WasRead(<<>>, read)
    BY DEF WasRead, Ordered
  <2>4. \A d \in DOMAIN table' : d \in DOMAIN table \/ d = c
    BY <1>4
  <2>5. \A d \in DOMAIN table : WasRead(Output(d)', shells'[table'[d]].read)
    BY <2>1 DEF IInv, OutputRight
  <2>6. WasRead(Output(c)', shells'[table'[c]].read)
    BY <2>2, <2>3
  <2>7. \A d \in DOMAIN table' : WasRead(Output(d)', shells'[table'[d]].read)
    BY <2>4, <2>5, <2>6
  <2> QED
    BY <2>7 DEF OutputRight
<1> QED
  BY <1>8, <1>9, <1>10, <1>11, <1>12, <1>13, <1>14 DEF IInv

\* The client is greeted when it is in the table.
LEMMA SendGreetingStep ==
  ASSUME IInv, SendGreeting
  PROVE  IInv'
<1>1. SessionsTyped /\ daemon.pc = "greet" /\ daemon.from \in DOMAIN table /\ daemon.from \in Channels
  BY DEF IInv, DealsWith, SendGreeting, At, SessionsTyped
<1>2. /\ daemon' = [daemon EXCEPT !.pc = "read"] /\ Motd(daemon.from)
      /\ UNCHANGED <<inbox, table, shells>>
  BY DEF SendGreeting, Goto
<1>3. /\ client' \in [Channels -> Clients]
      /\ \A d \in Channels : client'[d].sends = client[d].sends /\ client'[d].heard = client[d].heard
      /\ \A d \in Channels : client'[d].pc = client[d].pc \/ d = daemon.from
  BY <1>1, <1>2, MotdMoves
<1>4. daemon'.pc = "read"
  BY <1>1, <1>2 DEF SessionsTyped, Daemons
<1>5. daemon' \in Daemons
  BY <1>1, <1>2 DEF SessionsTyped, Daemons
<1>6. SessionsTyped'
  BY <1>1, <1>2, <1>3, <1>5 DEF SessionsTyped, Daemons
<1>7. Entered' /\ DealsWith' /\ PendingRight'
  BY <1>1, <1>2, <1>4 DEF IInv, Entered, DealsWith, PendingRight
<1>8. Sessions'
  BY <1>1, <1>2, <1>3 DEF IInv, Sessions
<1>9. InboxRight' /\ InputRight' /\ OutputRight'
  BY <1>2, <1>3, SameData, SameOutput
<1> QED
  BY <1>6, <1>7, <1>8, <1>9 DEF IInv

\* The daemon turns to the clients that are in the table.
LEMMA OutboundStep ==
  ASSUME IInv, Outbound
  PROVE  IInv'
<1>1. SessionsTyped /\ daemon.pc = "read"
  BY DEF IInv, Outbound, At
<1>2. /\ daemon' = [daemon EXCEPT !.pc = "out", !.visit = DOMAIN table]
      /\ UNCHANGED <<client, inbox, table, shells>>
  BY DEF Outbound
<1>3. daemon'.pc = "out" /\ daemon'.visit = DOMAIN table
  BY <1>1, <1>2 DEF SessionsTyped, Daemons
<1>4. daemon' \in Daemons
  BY <1>1, <1>2 DEF SessionsTyped, Daemons
<1>5. SessionsTyped'
  BY <1>1, <1>2, <1>4 DEF SessionsTyped, Daemons
<1>6. Entered' /\ DealsWith' /\ PendingRight'
  BY <1>1, <1>2, <1>3 DEF IInv, Entered, DealsWith, PendingRight
<1>7. Sessions'
  BY <1>2 DEF IInv, Sessions
<1>8. InboxRight' /\ InputRight' /\ OutputRight'
  BY <1>2, SameData, SameOutput
<1> QED
  BY <1>5, <1>6, <1>7, <1>8 DEF IInv
-----------------------------------------------------------------------------
\* What the daemon writes is the beginning of what it holds.
LEMMA FittingIsPrefix ==
  ASSUME SessionsTyped, NEW c \in DOMAIN table, table[c] \in 1 .. Len(shells)
  PROVE  \E m \in 0 .. Len(daemon.rest) :
           Fitting(c) = SubSeq(daemon.rest, 1, m) /\ Len(Stdin(c)) + m <= SocketSize
<1>1. PICK n \in Nat, l \in Nat : n = SocketSize - Len(Stdin(c)) /\ l = Len(daemon.rest)
  <2>1. Len(Stdin(c)) \in Nat /\ Len(Stdin(c)) <= SocketSize /\ SocketSize \in Nat
    BY Fields, DaemonAssumption DEF SessionsTyped, Stdin
  <2>2. Len(daemon.rest) \in Nat /\ SocketSize - Len(Stdin(c)) \in Nat
    BY <2>1, Fields
  <2> QED
    BY <2>2
<1>2. PICK m : m = IF l < n THEN l ELSE n
  OBVIOUS
<1>3. m \in 0 .. l /\ m <= n
  BY <1>2
<1>4. Fitting(c) = SubSeq(daemon.rest, 1, m)
  BY <1>1, <1>2 DEF Fitting
<1>5. Len(Stdin(c)) + m <= SocketSize
  <2>1. Len(Stdin(c)) \in Nat /\ SocketSize \in Nat
    BY Fields, DaemonAssumption DEF Stdin
  <2> QED
    BY <1>1, <1>3, <2>1
<1> QED
  BY <1>1, <1>3, <1>4, <1>5

\* What is written and what remains make up what the daemon held.
LEMMA Pieces ==
  ASSUME NEW rest \in Seq(Bytes), NEW m \in 0 .. Len(rest)
  PROVE  \E some, more \in Seq(Bytes) :
           /\ some = SubSeq(rest, 1, m) /\ Len(some) = m
           /\ more = Remaining(rest, some) /\ some \o more = rest
<1>1. PICK l \in Nat : l = Len(rest)
  OBVIOUS
<1>2. PICK some : some = SubSeq(rest, 1, m)
  OBVIOUS
<1>3. some \in Seq(Bytes) /\ Len(some) = m
  <2>1. \A i \in 1 .. m : rest[i] \in Bytes
    BY <1>1
  <2> QED
    BY <1>1, <1>2, <2>1, SubSeqProperties
<1>4. PICK more : more = SubSeq(rest, m + 1, l)
  OBVIOUS
<1>5. more \in Seq(Bytes)
  <2>1. m + 1 \in Int /\ l \in Int /\ \A i \in m + 1 .. l : rest[i] \in Bytes
    BY <1>1
  <2>2. PICK j \in Int : j = m + 1
    BY <2>1
  <2>3. SubSeq(rest, j, l) \in Seq(Bytes)
    BY <2>1, <2>2, SubSeqProperties
  <2> QED
    BY <1>4, <2>2, <2>3
<1>6. Remaining(rest, some) = more
  BY <1>1, <1>3, <1>4 DEF Remaining
<1>7. some \o more = rest
  <2>1. 1 \in 1 .. Len(rest) + 1 /\ m \in 1 - 1 .. Len(rest) /\ l \in m .. Len(rest)
    BY <1>1
  <2>2. SubSeq(rest, 1, m) \o SubSeq(rest, m + 1, l) = SubSeq(rest, 1, l)
    BY <2>1, ConcatAdjacentSubSeq
  <2>3. SubSeq(rest, 1, l) = rest
    BY <1>1, SubSeqFull
  <2> QED
    BY <1>2, <1>4, <2>2, <2>3
<1> QED
  BY <1>2, <1>3, <1>5, <1>6, <1>7

\* Concatenation is associative (stated for our bytes, to be cited without instances).
LEMMA Assoc == \A s, t, u \in Seq(Bytes) : (s \o t) \o u = s \o (t \o u)
<1> SUFFICES ASSUME NEW s \in Seq(Bytes), NEW t \in Seq(Bytes), NEW u \in Seq(Bytes)
             PROVE  (s \o t) \o u = s \o (t \o u)
  OBVIOUS
<1> QED
  BY ConcatAssociative

\* The beginning of what continues in.
LEMMA Given ==
  \A in, some, more \in Seq(Bytes) :
    /\ in \o some \in Seq(Bytes) /\ Len(in \o some) = Len(in) + Len(some)
    /\ in \o (some \o more) \in Seq(Bytes)
    /\ Len(in \o some) <= Len(in \o (some \o more))
    /\ \A k \in 1 .. Len(in \o some) : (in \o some)[k] = (in \o (some \o more))[k]
<1> SUFFICES ASSUME NEW in \in Seq(Bytes), NEW some \in Seq(Bytes), NEW more \in Seq(Bytes)
             PROVE  /\ in \o some \in Seq(Bytes) /\ Len(in \o some) = Len(in) + Len(some)
                    /\ in \o (some \o more) \in Seq(Bytes)
                    /\ Len(in \o some) <= Len(in \o (some \o more))
                    /\ \A k \in 1 .. Len(in \o some) : (in \o some)[k] = (in \o (some \o more))[k]
  OBVIOUS
<1>1. PICK t \in Seq(Bytes) : t = in \o some
  BY ConcatProperties
<1>2. PICK u \in Seq(Bytes) : u = t \o more
  BY ConcatProperties
<1>3. in \o (some \o more) = u
  BY <1>1, <1>2, Assoc
<1>4. Len(u) = Len(t) + Len(more) /\ \A k \in 1 .. Len(t) : u[k] = t[k]
  BY <1>2, ConcatProperties
<1>5. Len(t) \in Nat /\ Len(more) \in Nat /\ Len(t) = Len(in) + Len(some)
  BY <1>1, ConcatProperties
<1>6. Len(t) <= Len(u)
  BY <1>4, <1>5
<1> QED
  BY <1>1, <1>3, <1>4, <1>5, <1>6

\* Input and output of the shells when a single shell's entry changes to r.
LEMMA OtherShells ==
  ASSUME IInv, NEW i \in 1 .. Len(shells), NEW r \in Shells, shells' = [shells EXCEPT ![i] = r],
         r.owner = shells[i].owner, Len(r.stdin) <= SocketSize, UNCHANGED <<table, inbox>>,
         client' \in [Channels -> Clients], \A d \in Channels : client'[d].sends = client[d].sends,
         daemon' \in Daemons,
         daemon'.pc # "insert" \/ (daemon.pc = "insert" /\ i # Len(shells) /\ daemon' = daemon),
         daemon.pc # "insert" \/ daemon'.pc = "insert",
         Good(r.read \o r.stdin, r.owner, client[r.owner].sends, inbox)
  PROVE  SessionsTyped' /\ Entered' /\ InboxRight' /\ InputRight'
<1>1. SessionsTyped /\ shells \in Seq(Shells)
  BY DEF IInv, SessionsTyped
<1>2. /\ shells' \in Seq(Shells) /\ Len(shells') = Len(shells) /\ shells'[i] = r
      /\ \A j \in 1 .. Len(shells) : j # i => shells'[j] = shells[j]
  BY <1>1, ShellsAfter
<1>3. \A j \in 1 .. Len(shells) : shells'[j].owner = shells[j].owner
  BY <1>2
<1>4. SessionsTyped'
  <2>1. \A j \in 1 .. Len(shells') : Len(shells'[j].stdin) <= SocketSize
    BY <1>1, <1>2 DEF SessionsTyped
  <2> QED
    BY <1>1, <1>2, <2>1 DEF SessionsTyped
<1>5. Entered'
  <2>1. \A c \in DOMAIN table : table[c] \in 1 .. Len(shells) /\ shells'[table[c]].owner = c
    BY <1>3 DEF IInv, Entered
  <2>2. \A j \in 1 .. Len(shells) :
          \/ shells'[j].owner \in DOMAIN table /\ table[shells'[j].owner] = j
          \/ daemon'.pc = "insert" /\ j = Len(shells)
    BY <1>3 DEF IInv, Entered
  <2> QED
    BY <1>2, <2>1, <2>2 DEF Entered
<1>6. InboxRight'
  <2>1. \A j \in 1 .. Len(inbox) : inbox[j].from \in Channels
    BY <1>1, Fields
  <2> QED
    BY <2>1 DEF IInv, InboxRight
<1>7. InputRight'
  <2>1. \A j \in 1 .. Len(shells) : shells[j].owner \in Channels
    BY <1>1, Fields
  <2>2. ASSUME NEW j \in 1 .. Len(shells)
        PROVE  Good(Input(j)', shells'[j].owner, client'[shells'[j].owner].sends, inbox')
    <3>1. CASE j = i
      <4>1. Input(j)' = r.read \o r.stdin
        BY <1>2, <3>1 DEF Input
      <4>2. PICK c \in Channels : c = r.owner
        BY <2>1
      <4>3. shells'[j].owner = c /\ client'[c].sends = client[c].sends
        BY <1>2, <3>1, <4>2
      <4> QED
        BY <4>1, <4>2, <4>3
    <3>2. CASE j # i
      <4>1. Input(j)' = Input(j) /\ shells'[j].owner = shells[j].owner
        BY <1>2, <3>2 DEF Input
      <4> QED
        BY <2>1, <4>1 DEF IInv, InputRight
    <3> QED
      BY <3>1, <3>2
  <2> QED
    BY <1>2, <2>2 DEF InputRight
<1> QED
  BY <1>4, <1>5, <1>6, <1>7

\* The output of sessions whose shells keep what they read and print.
LEMMA OtherOutput ==
  ASSUME IInv, NEW i \in 1 .. Len(shells), NEW r \in Shells, shells' = [shells EXCEPT ![i] = r],
         UNCHANGED table,
         NEW c \in DOMAIN table, table[c] # i, client'[c].heard = client[c].heard
  PROVE  WasRead(Output(c)', shells'[table'[c]].read)
<1>1. SessionsTyped /\ table[c] \in 1 .. Len(shells)
  BY DEF IInv, Entered
<1>2. shells'[table[c]] = shells[table[c]]
  BY <1>1, ShellsAfter
<1>3. Output(c)' = Output(c)
  BY <1>2 DEF Output
<1> QED
  BY <1>2, <1>3 DEF IInv, OutputRight

\* Write and Retry: the shell is given what fits.
LEMMA GiveStep ==
  ASSUME IInv, daemon.pc \in {"write", "retry"}, UNCHANGED <<client, inbox, table>>,
         shells' = [shells EXCEPT ![table[daemon.from]].stdin = @ \o Fitting(daemon.from)],
         daemon' \in Daemons,
         \/ daemon'.pc = "read"
         \/ /\ daemon'.pc = "retry" /\ daemon'.from = daemon.from
            /\ daemon'.rest = Remaining(daemon.rest, Fitting(daemon.from))
  PROVE  IInv'
<1>1. PICK c : c = daemon.from
  OBVIOUS
<1>2. /\ SessionsTyped /\ c \in DOMAIN table /\ c \in Channels
      /\ table[c] \in 1 .. Len(shells) /\ shells[table[c]].owner = c
  BY <1>1 DEF IInv, DealsWith, Entered, SessionsTyped
<1>3. PICK i \in 1 .. Len(shells) : i = table[c]
  BY <1>2
<1>4. /\ shells[i] \in Shells /\ shells[i].owner = c /\ shells[i].stdin \in Seq(Bytes)
      /\ shells[i].read \in Seq(Bytes) /\ shells[i].stdout \in Seq(Bytes)
      /\ Input(i) \in Seq(Bytes) /\ daemon.rest \in Seq(Bytes)
  BY <1>2, <1>3, Fields
<1>5. PICK m \in 0 .. Len(daemon.rest) :
        Fitting(c) = SubSeq(daemon.rest, 1, m) /\ Len(shells[i].stdin) + m <= SocketSize
  BY <1>2, <1>3, FittingIsPrefix DEF Stdin
<1>6. PICK rest \in Seq(Bytes), read \in Seq(Bytes), stdin \in Seq(Bytes) :
        rest = daemon.rest /\ read = shells[i].read /\ stdin = shells[i].stdin
  BY <1>4
<1>7. PICK some, more \in Seq(Bytes) :
        /\ some = SubSeq(rest, 1, m) /\ Len(some) = m
        /\ more = Remaining(rest, some) /\ some \o more = rest
  <2>1. m \in 0 .. Len(rest)
    BY <1>6
  <2> QED
    BY <2>1, Pieces
<1>8. some = Fitting(c) /\ Input(i) = read \o stdin
  BY <1>5, <1>6, <1>7 DEF Input
<1>0. PICK r : r = [shells[i] EXCEPT !.stdin = stdin \o some]
  OBVIOUS
<1>9. shells' = [shells EXCEPT ![i] = r]
  BY <1>1, <1>3, <1>6, <1>8, <1>0
<1>10. stdin \o some \in Seq(Bytes) /\ Len(stdin \o some) <= SocketSize
  <2>1. stdin \o some \in Seq(Bytes) /\ Len(stdin \o some) = Len(stdin) + Len(some)
    BY Given
  <2> QED
    BY <1>5, <1>6, <1>7, <2>1
<1>11. /\ r \in Shells /\ r.owner = c /\ r.stdin = stdin \o some
       /\ r.read = shells[i].read /\ r.stdout = shells[i].stdout
  BY <1>4, <1>0, <1>10 DEF Shells
<1>12. r.read \o r.stdin = Input(i) \o some
  <2>1. read \o (stdin \o some) = (read \o stdin) \o some
    BY Assoc
  <2> QED
    BY <1>6, <1>8, <1>11, <2>1
<1>13. Good(Input(i) \o daemon.rest, c, client[c].sends, inbox)
  BY <1>1, <1>3 DEF IInv, PendingRight
<1>14. Good(Input(i) \o some, c, client[c].sends, inbox)
  <2>1. PICK n \in Nat : n = client[c].sends
    BY <1>2, Fields
  <2>2. PICK in \in Seq(Bytes) : in = Input(i)
    BY <1>4
  <2>5. /\ in \o (some \o more) \in Seq(Bytes) /\ in \o some \in Seq(Bytes)
        /\ Len(in \o some) <= Len(in \o (some \o more))
        /\ \A k \in 1 .. Len(in \o some) : (in \o some)[k] = (in \o (some \o more))[k]
    BY Given
  <2>6. PICK s, t \in Seq(Bytes) :
          /\ s = in \o rest /\ t = in \o some
          /\ Len(t) <= Len(s) /\ \A k \in 1 .. Len(t) : t[k] = s[k]
    BY <1>7, <2>5
  <2>3. Good(s, c, n, inbox)
    BY <1>6, <1>13, <2>1, <2>2, <2>6
  <2>4. Good(t, c, n, inbox)
    BY <1>2, <2>6, <2>3, GoodPrefix
  <2> QED
    BY <2>1, <2>2, <2>4, <2>6
<1>15. client' \in [Channels -> Clients]
  BY <1>2 DEF SessionsTyped
<1>16. SessionsTyped' /\ Entered' /\ InboxRight' /\ InputRight'
  <2>1. /\ r \in Shells /\ r.owner = shells[i].owner /\ Len(r.stdin) <= SocketSize
        /\ Good(r.read \o r.stdin, r.owner, client[r.owner].sends, inbox)
    BY <1>4, <1>10, <1>11, <1>12, <1>14
  <2>2. /\ UNCHANGED <<table, inbox>> /\ \A d \in Channels : client'[d].sends = client[d].sends
        /\ daemon.pc # "insert" /\ daemon'.pc # "insert"
    OBVIOUS
  <2> QED
    BY <1>9, <1>15, <2>1, <2>2, OtherShells
<1>17. /\ shells'[i] = r /\ Len(shells') = Len(shells)
  BY <1>2, <1>9, <1>11, ShellsAfter
<1>18. DealsWith'
  BY <1>1, <1>2 DEF DealsWith
<1>19. Sessions'
  BY DEF IInv, Sessions
<1>20. PendingRight'
  <2> SUFFICES ASSUME daemon'.pc = "retry"
               PROVE  Good(Input(table[daemon.from])' \o daemon'.rest, daemon'.from,
                           client'[daemon'.from].sends, inbox')
    BY DEF PendingRight
  <2>1. daemon'.from = c /\ daemon'.rest = more
    BY <1>1, <1>6, <1>7, <1>8
  <2>2. Input(i)' = Input(i) \o some
    BY <1>12, <1>17 DEF Input
  <2>3. table'[daemon'.from] = i
    BY <1>3, <2>1
  <2>4. Input(table[daemon.from])' = Input(i)'
    BY <2>3 DEF Input
  <2>5. (Input(i) \o some) \o more = Input(i) \o daemon.rest
    <3>1. PICK in \in Seq(Bytes) : in = Input(i)
      BY <1>4
    <3>2. (in \o some) \o more = in \o (some \o more)
      BY Assoc
    <3> QED
      BY <1>6, <1>7, <3>1, <3>2
  <2> QED
    BY <1>13, <2>1, <2>2, <2>4, <2>5
<1>21. OutputRight'
  <2> SUFFICES ASSUME NEW d \in DOMAIN table PROVE WasRead(Output(d)', shells'[table'[d]].read)
    BY DEF OutputRight
  <2>1. CASE table[d] # i
    BY <1>9, <1>11, <2>1, OtherOutput
  <2>2. CASE table[d] = i
    <3>1. Output(d)' = Output(d) /\ shells'[table'[d]].read = shells[table[d]].read
      BY <1>11, <1>17, <2>2 DEF Output
    <3> QED
      BY <3>1 DEF IInv, OutputRight
  <2> QED
    BY <2>1, <2>2
<1> QED
  BY <1>16, <1>18, <1>19, <1>20, <1>21 DEF IInv

\* The daemon writes what fits and may keep the rest.
LEMMA WriteStep ==
  ASSUME IInv, Write
  PROVE  IInv'
<1>1. SessionsTyped /\ daemon.pc = "write" /\ daemon.from \in DOMAIN table
      /\ table[daemon.from] \in 1 .. Len(shells) /\ daemon.rest \in Seq(Bytes)
  BY Fields DEF IInv, DealsWith, Entered, Write, At
<1>2. PICK some, more : some = Fitting(daemon.from) /\ more = Remaining(daemon.rest, some)
  OBVIOUS
<1>3. PICK m \in 0 .. Len(daemon.rest) : some = SubSeq(daemon.rest, 1, m)
  BY <1>1, <1>2, FittingIsPrefix
<1>4. more \in Seq(Bytes)
  BY <1>1, <1>2, <1>3, Pieces
<1>5. /\ shells' = [shells EXCEPT ![table[daemon.from]].stdin = @ \o Fitting(daemon.from)]
      /\ UNCHANGED <<client, inbox, table>>
      /\ daemon' \in {[daemon EXCEPT !.pc = "retry", !.rest = more], [daemon EXCEPT !.pc = "read", !.rest = <<>>]}
  BY <1>2 DEF Write
<1>6. /\ daemon' \in Daemons
      /\ \/ daemon'.pc = "read"
         \/ daemon'.pc = "retry" /\ daemon'.from = daemon.from /\ daemon'.rest = more
  <2>1. <<>> \in Seq(Bytes)
    OBVIOUS
  <2>2. CASE daemon' = [daemon EXCEPT !.pc = "retry", !.rest = more]
    BY <1>1, <1>4, <2>2 DEF SessionsTyped, Daemons
  <2>3. CASE daemon' = [daemon EXCEPT !.pc = "read", !.rest = <<>>]
    BY <1>1, <2>1, <2>3 DEF SessionsTyped, Daemons
  <2> QED
    BY <1>5, <2>2, <2>3
<1> QED
  BY <1>1, <1>2, <1>5, <1>6, GiveStep

\* The daemon writes what fits of the rest and drops what does not.
LEMMA RetryStep ==
  ASSUME IInv, Retry
  PROVE  IInv'
<1>1. SessionsTyped /\ daemon.pc = "retry"
  BY DEF IInv, Retry, At
<1>2. /\ shells' = [shells EXCEPT ![table[daemon.from]].stdin = @ \o Fitting(daemon.from)]
      /\ UNCHANGED <<client, inbox, table>>
      /\ daemon' = [daemon EXCEPT !.pc = "read", !.rest = <<>>]
  BY DEF Retry
<1>3. /\ daemon' \in Daemons
      /\ daemon'.pc = "read"
  <2>1. <<>> \in Seq(Bytes)
    OBVIOUS
  <2> QED
    BY <1>1, <1>2, <2>1 DEF SessionsTyped, Daemons
<1> QED
  BY <1>1, <1>2, <1>3, GiveStep
-----------------------------------------------------------------------------
\* The beginning of what was read was read.
LEMMA WasReadPrefix ==
  ASSUME NEW s \in Seq(Bytes), NEW t \in Seq(Bytes), NEW read, WasRead(s \o t, read)
  PROVE  WasRead(s, read)
<1>1. PICK u \in Seq(Bytes) : u = s \o t
  BY ConcatProperties
<1>2. Len(u) = Len(s) + Len(t) /\ \A k \in 1 .. Len(s) : u[k] = s[k]
  BY <1>1, ConcatProperties
<1>3. Len(s) \in Nat /\ Len(t) \in Nat /\ \A k \in 1 .. Len(s) : k \in 1 .. Len(u)
  BY <1>2
<1>4. WasRead(u, read)
  BY <1>1
<1> QED
  BY <1>2, <1>3, <1>4 DEF WasRead, Ordered

\* The output of a shell goes to its own client, or is lost.
LEMMA ForwardStep ==
  ASSUME IInv, NEW c \in Channels, Forward(c)
  PROVE  IInv'
<1>1. SessionsTyped /\ daemon.pc = "out" /\ c \in daemon.visit /\ daemon.visit \subseteq DOMAIN table
  BY DEF IInv, DealsWith, Forward, At
<1>2. PICK i \in 1 .. Len(shells) : i = table[c] /\ shells[i].owner = c
  BY <1>1 DEF IInv, Entered
<1>3. /\ shells[i] \in Shells /\ shells[i].stdin \in Seq(Bytes) /\ shells[i].read \in Seq(Bytes)
      /\ shells[i].stdout \in Seq(Bytes) /\ Len(shells[i].stdin) <= SocketSize
      /\ client[c] \in Clients /\ client[c].heard \in Seq(Bytes)
  BY <1>1, Fields DEF SessionsTyped
<1>4. PICK out \in Seq(Bytes), heard \in Seq(Bytes) : out = shells[i].stdout /\ heard = client[c].heard
  BY <1>3
<1>5. PICK r : r = [shells[i] EXCEPT !.stdout = <<>>]
  OBVIOUS
<1>6. /\ r \in Shells /\ r.owner = c /\ r.stdin = shells[i].stdin /\ r.read = shells[i].read
      /\ r.stdout = <<>>
  <2>1. <<>> \in Seq(Bytes)
    OBVIOUS
  <2> QED
    BY <1>2, <1>3, <1>5, <2>1 DEF Shells
<1>7. /\ shells' = [shells EXCEPT ![i] = r] /\ UNCHANGED <<inbox, table>>
      /\ client' \in {client, [client EXCEPT ![c].heard = heard \o out]}
      /\ daemon' = [daemon EXCEPT !.visit = daemon.visit \ {c},
                                  !.pc = IF daemon.visit = {c} THEN "read" ELSE "out"]
  BY <1>2, <1>4, <1>5 DEF Forward
<1>8. /\ daemon' \in Daemons /\ daemon'.pc \in {"read", "out"}
      /\ daemon'.visit = daemon.visit \ {c}
  <2>1. PICK p \in {"read", "out"} : p = IF daemon.visit = {c} THEN "read" ELSE "out"
    OBVIOUS
  <2>2. daemon' = [daemon EXCEPT !.visit = daemon.visit \ {c}, !.pc = p]
    BY <1>7, <2>1
  <2> QED
    BY <1>1, <2>2 DEF SessionsTyped, Daemons
<1>9. heard \o out \in Seq(Bytes)
  BY ConcatProperties
<1>10. /\ client' \in [Channels -> Clients]
       /\ \A d \in Channels : client'[d].sends = client[d].sends /\ client'[d].pc = client[d].pc
       /\ \A d \in Channels \ {c} : client'[d] = client[d]
       /\ client'[c].heard \in {heard, heard \o out}
  <2>1. CASE client' = client
    BY <1>1, <1>4, <2>1 DEF SessionsTyped
  <2>2. CASE client' = [client EXCEPT ![c].heard = heard \o out]
    <3>1. PICK q : q = [client[c] EXCEPT !.heard = heard \o out]
      OBVIOUS
    <3>2. q \in Clients /\ q.sends = client[c].sends /\ q.pc = client[c].pc /\ q.heard = heard \o out
      BY <1>3, <1>9, <3>1 DEF Clients
    <3>3. client' = [client EXCEPT ![c] = q]
      BY <2>2, <3>1
    <3>4. /\ client' \in [Channels -> Clients] /\ client'[c] = q
          /\ \A d \in Channels \ {c} : client'[d] = client[d]
      BY <1>1, <3>2, <3>3, ClientsAfter
    <3> QED
      BY <3>2, <3>4
  <2> QED
    BY <1>7, <2>1, <2>2
<1>11. SessionsTyped' /\ Entered' /\ InboxRight' /\ InputRight'
  <2>1. Good(r.read \o r.stdin, r.owner, client[r.owner].sends, inbox)
    BY <1>2, <1>6 DEF IInv, InputRight, Input
  <2>2. /\ r.owner = shells[i].owner /\ Len(r.stdin) <= SocketSize
        /\ daemon.pc # "insert" /\ daemon'.pc # "insert"
    BY <1>1, <1>2, <1>3, <1>6, <1>8
  <2> QED
    BY <1>6, <1>7, <1>8, <1>10, <2>1, <2>2, OtherShells
<1>12. DealsWith' /\ PendingRight'
  BY <1>1, <1>7, <1>8 DEF DealsWith, PendingRight
<1>13. Sessions'
  BY <1>1, <1>7, <1>10 DEF IInv, Sessions
<1>14. shells'[i] = r
  BY <1>1, <1>6, <1>7, ShellsAfter
<1>15. OutputRight'
  <2> SUFFICES ASSUME NEW d \in DOMAIN table PROVE WasRead(Output(d)', shells'[table'[d]].read)
    BY <1>7 DEF OutputRight
  <2>1. CASE d # c
    <3>1. d \in Channels /\ table[d] # i
      BY <1>1, <1>2, <2>1 DEF IInv, Entered, SessionsTyped
    <3> QED
      BY <1>6, <1>7, <1>10, <2>1, <3>1, OtherOutput
  <2>2. CASE d = c
    <3>1. Output(d) = heard \o out /\ WasRead(heard \o out, shells[i].read)
      BY <1>2, <1>4, <2>2 DEF IInv, OutputRight, Output
    <3>2. WasRead(heard, shells[i].read)
      BY <3>1, WasReadPrefix
    <3>3. Output(d)' = client'[c].heard
      <4>1. PICK h \in Seq(Bytes) : h = client'[c].heard
        BY <1>9, <1>10
      <4>2. h \o <<>> = h
        BY ConcatEmptySeq
      <4>3. Output(d)' = h \o <<>>
        BY <1>2, <1>6, <1>7, <1>14, <2>2, <4>1 DEF Output
      <4> QED
        BY <4>1, <4>2, <4>3
    <3>4. shells'[table'[d]].read = shells[i].read
      BY <1>2, <1>6, <1>7, <1>14, <2>2
    <3> QED
      BY <1>10, <3>1, <3>2, <3>3, <3>4
  <2> QED
    BY <2>1, <2>2
<1> QED
  BY <1>11, <1>12, <1>13, <1>15 DEF IInv
-----------------------------------------------------------------------------
\* A byte on its own is a sequence.
LEMMA Single ==
  ASSUME NEW h \in Bytes
  PROVE  <<h>> \in Seq(Bytes)
OBVIOUS

\* A byte at the end of what follows is at the end of the whole.
LEMMA AppendOut ==
  ASSUME NEW s \in Seq(Bytes), NEW t \in Seq(Bytes), NEW h \in Bytes
  PROVE  Append(s \o t, h) = s \o Append(t, h)
<1>1. PICK u \in Seq(Bytes) : u = <<h>>
  BY Single
<1>2. PICK v \in Seq(Bytes) : v = s \o t
  BY ConcatProperties
<1>3. Append(v, h) = v \o u /\ Append(t, h) = t \o u
  BY <1>1, AppendIsConcat
<1>4. (s \o t) \o u = s \o (t \o u)
  BY Assoc
<1> QED
  BY <1>2, <1>3, <1>4

\* A shell that takes the byte h from its input and prints it.
LEMMA Echoed ==
  ASSUME NEW read \in Seq(Bytes), NEW stdin \in Seq(Bytes), stdin # <<>>
  PROVE  /\ Head(stdin) \in Bytes /\ Tail(stdin) \in Seq(Bytes)
         /\ Append(read, Head(stdin)) \o Tail(stdin) = read \o stdin
<1>1. PICK h \in Bytes, t \in Seq(Bytes) : h = Head(stdin) /\ t = Tail(stdin)
  BY HeadTailProperties
<1>2. PICK u \in Seq(Bytes) : u = <<h>>
  BY Single
<1>3. u \o t = stdin
  BY <1>1, <1>2
<1>4. Append(read, h) = read \o u
  BY <1>2, AppendIsConcat
<1>5. (read \o u) \o t = read \o (u \o t)
  BY Assoc
<1> QED
  BY <1>1, <1>3, <1>4, <1>5

\* What was printed after the byte h was read is in the order of reading.
LEMMA EchoHeard ==
  ASSUME NEW s \in Seq(Bytes), NEW read \in Seq(Bytes), NEW t \in Seq(Bytes), NEW h \in Bytes,
         WasRead(s, read), Ordered(Append(read, h) \o t)
  PROVE  WasRead(Append(s, h), Append(read, h))
<1>1. PICK q \in Seq(Bytes) : q = Append(read, h)
  BY AppendProperties
<1>2. PICK p \in Seq(Bytes) : p = Append(s, h)
  BY AppendProperties
<1>3. PICK l \in Nat, n \in Nat : l = Len(read) /\ n = Len(s)
  OBVIOUS
<1>4. Len(q) = l + 1 /\ q[l + 1] = h /\ \A j \in 1 .. l : q[j] = read[j]
  BY <1>1, <1>3, AppendProperties
<1>5. Len(p) = n + 1 /\ p[n + 1] = h /\ \A k \in 1 .. n : p[k] = s[k]
  BY <1>2, <1>3, AppendProperties
<1>6. Ordered(q)
  <2>1. PICK u \in Seq(Bytes) : u = q \o t
    BY ConcatProperties
  <2>2. Len(u) = Len(q) + Len(t) /\ \A k \in 1 .. Len(q) : u[k] = q[k]
    BY <2>1, ConcatProperties
  <2>3. Len(q) \in Nat /\ Len(t) \in Nat /\ \A k \in 1 .. Len(q) : k \in 1 .. Len(u)
    BY <2>2
  <2>4. Ordered(u)
    BY <1>1, <2>1
  <2> QED
    BY <2>2, <2>3, <2>4 DEF Ordered
<1>7. \A k \in 1 .. n : \E j \in 1 .. l : s[k] = q[j]
  BY <1>3, <1>4 DEF WasRead
<1>8. \A k \in 1 .. n + 1 : k \in 1 .. n \/ k = n + 1
  OBVIOUS
<1>9. \A k \in 1 .. n + 1 : \E j \in 1 .. l + 1 : p[k] = q[j]
  <2>1. \A k \in 1 .. n : \E j \in 1 .. l + 1 : p[k] = q[j]
    BY <1>5, <1>7
  <2>2. \E j \in 1 .. l + 1 : p[n + 1] = q[j]
    BY <1>4, <1>5
  <2> QED
    BY <1>8, <2>1, <2>2
<1>10. Ordered(p)
  <2> SUFFICES ASSUME NEW j \in 1 .. n + 1, NEW k \in 1 .. n + 1, j < k, p[j].sent # 0, p[k].sent # 0
               PROVE  Before(p[j], p[k])
    BY <1>5 DEF Ordered
  <2>1. j \in 1 .. n
    OBVIOUS
  <2>2. CASE k \in 1 .. n
    BY <1>3, <1>5, <2>1, <2>2 DEF WasRead, Ordered
  <2>3. CASE k = n + 1
    <3>1. PICK i \in 1 .. l : p[j] = q[i]
      BY <1>5, <1>7, <2>1
    <3>2. i \in 1 .. Len(q) /\ l + 1 \in 1 .. Len(q) /\ i < l + 1
      BY <1>4
    <3>3. p[k] = q[l + 1]
      BY <1>4, <1>5, <2>3
    <3>4. q[i].sent # 0 /\ q[l + 1].sent # 0
      BY <3>1, <3>3
    <3>5. Before(q[i], q[l + 1])
      BY <1>6, <3>2, <3>4 DEF Ordered
    <3> QED
      BY <3>1, <3>3, <3>5
  <2> QED
    BY <1>8, <2>2, <2>3
<1> QED
  BY <1>1, <1>2, <1>4, <1>5, <1>9, <1>10 DEF WasRead

\* A shell reads a byte and prints it.
LEMMA EchoStep ==
  ASSUME IInv, NEW i \in 1 .. Len(shells), Echo(i)
  PROVE  IInv'
<1>1. SessionsTyped /\ shells[i].stdin # <<>>
  BY DEF IInv, Echo
<1>2. /\ shells[i] \in Shells /\ shells[i].stdin \in Seq(Bytes) /\ shells[i].read \in Seq(Bytes)
      /\ shells[i].stdout \in Seq(Bytes) /\ Len(shells[i].stdin) <= SocketSize
      /\ shells[i].owner \in Channels
  BY <1>1, Fields DEF SessionsTyped
<1>3. PICK read, stdin, stdout \in Seq(Bytes) :
        read = shells[i].read /\ stdin = shells[i].stdin /\ stdout = shells[i].stdout
  BY <1>2
<1>4. PICK h \in Bytes, t \in Seq(Bytes) : h = Head(stdin) /\ t = Tail(stdin)
  BY <1>1, <1>3, HeadTailProperties
<1>5. Append(read, h) \o t = read \o stdin
  BY <1>1, <1>3, <1>4, Echoed
<1>6. Append(read, h) \in Seq(Bytes) /\ Append(stdout, h) \in Seq(Bytes)
  BY AppendProperties
<1>7. PICK r : r = [shells[i] EXCEPT !.stdin = t, !.read = Append(read, h), !.stdout = Append(stdout, h)]
  OBVIOUS
<1>8. /\ r \in Shells /\ r.owner = shells[i].owner /\ r.stdin = t
      /\ r.read = Append(read, h) /\ r.stdout = Append(stdout, h)
  BY <1>2, <1>6, <1>7 DEF Shells
<1>9. shells' = [shells EXCEPT ![i] = r] /\ UNCHANGED <<client, inbox, daemon, table>>
  BY <1>3, <1>4, <1>7 DEF Echo
<1>10. Len(t) <= SocketSize
  <2>1. Len(t) = Len(stdin) - 1 /\ Len(stdin) \in Nat
    BY <1>1, <1>3, <1>4, HeadTailProperties
  <2> QED
    BY <1>2, <1>3, <2>1, DaemonAssumption
<1>11. Good(r.read \o r.stdin, r.owner, client[r.owner].sends, inbox)
  <2>1. r.read \o r.stdin = Input(i)
    BY <1>3, <1>5, <1>8 DEF Input
  <2> QED
    BY <1>8, <2>1 DEF IInv, InputRight
<1>12. daemon.pc = "insert" => i # Len(shells)
  BY <1>1 DEF IInv, DealsWith
<1>13. SessionsTyped' /\ Entered' /\ InboxRight' /\ InputRight'
  <2>1. client' \in [Channels -> Clients] /\ daemon' \in Daemons
    BY <1>1, <1>9 DEF SessionsTyped
  <2>2. /\ Len(r.stdin) <= SocketSize
        /\ daemon'.pc # "insert" \/ (daemon.pc = "insert" /\ i # Len(shells) /\ daemon' = daemon)
        /\ daemon.pc # "insert" \/ daemon'.pc = "insert"
        /\ \A d \in Channels : client'[d].sends = client[d].sends
    BY <1>8, <1>9, <1>10, <1>12
  <2> QED
    BY <1>8, <1>9, <1>11, <2>1, <2>2, OtherShells
<1>14. /\ shells'[i] = r /\ Len(shells') = Len(shells)
       /\ \A j \in 1 .. Len(shells) : j # i => shells'[j] = shells[j]
  BY <1>1, <1>8, <1>9, ShellsAfter
<1>15. DealsWith'
  <2>1. daemon.pc = "insert" => Len(shells) \in 1 .. Len(shells) /\ shells'[Len(shells)] = shells[Len(shells)]
    BY <1>12, <1>14
  <2> QED
    BY <1>9, <1>14, <2>1 DEF IInv, DealsWith
<1>16. Sessions'
  BY <1>9 DEF IInv, Sessions
<1>17. \A j \in 1 .. Len(shells) : Input(j)' = Input(j)
  <2>1. Input(i)' = Input(i)
    BY <1>3, <1>5, <1>8, <1>14 DEF Input
  <2>2. \A j \in 1 .. Len(shells) : j # i => Input(j)' = Input(j)
    BY <1>14 DEF Input
  <2> QED
    BY <2>1, <2>2
<1>18. PendingRight'
  <2> SUFFICES ASSUME daemon.pc \in {"write", "retry"}
               PROVE  Good(Input(table[daemon.from])' \o daemon.rest, daemon.from,
                           client[daemon.from].sends, inbox)
    BY <1>9 DEF PendingRight
  <2>1. table[daemon.from] \in 1 .. Len(shells)
    BY DEF IInv, DealsWith, Entered
  <2>2. Input(table[daemon.from])' = Input(table[daemon.from])
    <3>1. PICK j \in 1 .. Len(shells) : j = table[daemon.from]
      BY <2>1
    <3>2. Input(j)' = Input(j)
      BY <1>17
    <3> QED
      BY <1>9, <3>1, <3>2 DEF Input
  <2> QED
    BY <2>2 DEF IInv, PendingRight
<1>19. OutputRight'
  <2> SUFFICES ASSUME NEW d \in DOMAIN table PROVE WasRead(Output(d)', shells'[table'[d]].read)
    BY <1>9 DEF OutputRight
  <2>1. CASE table[d] # i
    BY <1>8, <1>9, <2>1, OtherOutput
  <2>2. CASE table[d] = i
    <3>1. PICK heard \in Seq(Bytes) : heard = client[d].heard
      BY <1>1, Fields DEF SessionsTyped
    <3>2. PICK s \in Seq(Bytes) : s = heard \o stdout
      BY ConcatProperties
    <3>3. WasRead(s, read)
      BY <1>3, <2>2, <3>1, <3>2 DEF IInv, OutputRight, Output
    <3>4. Ordered(Append(read, h) \o t)
      BY <1>8, <1>11 DEF Good
    <3>5. WasRead(Append(s, h), Append(read, h))
      BY <3>3, <3>4, EchoHeard
    <3>6. Append(s, h) = heard \o Append(stdout, h)
      BY <3>2, AppendOut
    <3>7. Output(d)' = heard \o Append(stdout, h) /\ shells'[table'[d]].read = Append(read, h)
      BY <1>8, <1>9, <1>14, <2>2, <3>1 DEF Output
    <3> QED
      BY <3>5, <3>6, <3>7
  <2> QED
    BY <2>1, <2>2
<1> QED
  BY <1>13, <1>15, <1>16, <1>18, <1>19 DEF IInv
-----------------------------------------------------------------------------
\* What stays true of the inputs when the first datagram is taken.
LEMMA TakenBy ==
  ASSUME IInv, inbox # <<>>, inbox' = Tail(inbox), UNCHANGED <<table, shells>>,
         client' \in [Channels -> Clients],
         \A c \in Channels : client'[c].sends = client[c].sends /\ client'[c].heard = client[c].heard
  PROVE  /\ Head(inbox) = inbox[1] /\ 1 \in 1 .. Len(inbox)
         /\ inbox' \in Seq(Datagrams) /\ Len(inbox') \in Nat
         /\ \A j \in 1 .. Len(inbox') : j + 1 \in 1 .. Len(inbox) /\ inbox'[j] = inbox[j + 1]
         /\ \A c \in Channels, s \in Seq(Bytes) :
              Good(s, c, client[c].sends, inbox) => Good(s, c, client'[c].sends, inbox')
         /\ InboxRight' /\ InputRight' /\ OutputRight'
<1>1. SessionsTyped /\ inbox \in Seq(Datagrams)
  BY DEF IInv, SessionsTyped
<1>2. /\ inbox' \in Seq(Datagrams) /\ Len(inbox') = Len(inbox) - 1 /\ Len(inbox) \in Nat
      /\ \A j \in 1 .. Len(inbox') : inbox'[j] = inbox[j + 1]
  BY <1>1, HeadTailProperties
<1>3. Head(inbox) = inbox[1] /\ Len(inbox) > 0
  BY <1>1
<1>4. Len(inbox') \in Nat /\ \A j \in 1 .. Len(inbox') : j + 1 \in 1 .. Len(inbox)
  BY <1>2, <1>3
<1>5. ASSUME NEW c \in Channels, NEW s \in Seq(Bytes), Good(s, c, client[c].sends, inbox)
      PROVE  Good(s, c, client'[c].sends, inbox')
  <2>1. PICK m \in Nat : m = client[c].sends
    BY <1>1, Fields
  <2>2. PICK later \in Seq(Datagrams) : later = inbox'
    BY <1>2
  <2>3. \A j \in 1 .. Len(later) : \E k \in 1 .. Len(inbox) : later[j] = inbox[k]
    BY <1>2, <1>4, <2>2
  <2>4. m <= m /\ Good(s, c, m, inbox)
    BY <1>5, <2>1
  <2>5. Good(s, c, m, later)
    BY <1>1, <2>3, <2>4, GoodLater
  <2> QED
    BY <2>1, <2>2, <2>5
<1>6. InboxRight'
  <2>1. \A j \in 1 .. Len(inbox) : inbox[j].from \in Channels
    BY <1>1, Fields
  <2>2. ASSUME NEW j \in 1 .. Len(inbox')
        PROVE  Whole(inbox'[j], client'[inbox'[j].from].sends)
    <3>1. PICK k \in 1 .. Len(inbox) : k = j + 1 /\ inbox'[j] = inbox[k]
      BY <1>2, <1>4
    <3> QED
      BY <2>1, <3>1 DEF IInv, InboxRight
  <2>3. ASSUME NEW j \in 1 .. Len(inbox'), NEW k \in 1 .. Len(inbox'), j < k,
               inbox'[j].from = inbox'[k].from, ~inbox'[j].hello, ~inbox'[k].hello
        PROVE  Number(inbox'[j]) < Number(inbox'[k])
    <3>1. PICK a \in 1 .. Len(inbox), b \in 1 .. Len(inbox) :
            a = j + 1 /\ b = k + 1 /\ inbox'[j] = inbox[a] /\ inbox'[k] = inbox[b]
      BY <1>2, <1>4
    <3>2. a < b
      BY <1>4, <2>3, <3>1
    <3> QED
      BY <2>3, <3>1, <3>2 DEF IInv, InboxRight, InTurn
  <2> QED
    BY <2>2, <2>3 DEF InboxRight, InTurn
<1>7. InputRight'
  BY <1>1, <1>5, Fields DEF IInv, InputRight, Input
<1>8. OutputRight'
  BY SameOutput
<1> QED
  BY <1>2, <1>3, <1>4, <1>5, <1>6, <1>7, <1>8

\* A greeting or a line of a client with a session continues the input of its shell.
LEMMA Continues ==
  ASSUME IInv, inbox # <<>>, inbox' = Tail(inbox), UNCHANGED <<table, shells>>,
         client' \in [Channels -> Clients],
         \A d \in Channels : client'[d].sends = client[d].sends /\ client'[d].heard = client[d].heard,
         NEW c \in DOMAIN table, NEW g, g = Head(inbox), g.from = c
  PROVE  LET input == IF g.hello THEN <<Newline(c)>> ELSE g.bytes
         IN  /\ input \in Seq(Bytes)
             /\ Good(Input(table[c]) \o input, c, client'[c].sends, inbox')
<1>1. /\ SessionsTyped /\ c \in Channels /\ table[c] \in 1 .. Len(shells) /\ shells[table[c]].owner = c
  BY DEF IInv, Entered, SessionsTyped
<1>2. PICK i \in 1 .. Len(shells) : i = table[c]
  BY <1>1
<1>3. PICK m \in Nat, s \in Seq(Bytes) : m = client[c].sends /\ s = Input(i)
  BY <1>1, Fields
<1>4. /\ g = inbox[1] /\ 1 \in 1 .. Len(inbox)
      /\ inbox' \in Seq(Datagrams) /\ Len(inbox') \in Nat
      /\ \A j \in 1 .. Len(inbox') : j + 1 \in 1 .. Len(inbox) /\ inbox'[j] = inbox[j + 1]
      /\ \A u \in Seq(Bytes) : Good(u, c, m, inbox) => Good(u, c, m, inbox')
  BY <1>1, <1>3, TakenBy
<1>5. g.hello \in BOOLEAN /\ g.bytes \in Seq(Bytes) /\ Whole(g, m)
  BY <1>1, <1>3, <1>4, Fields DEF IInv, InboxRight
<1>6. Good(s, c, m, inbox)
  BY <1>1, <1>2, <1>3 DEF IInv, InputRight
<1>7. PICK box \in Seq(Datagrams) : box = inbox'
  BY <1>4
<1>8. ASSUME NEW j \in 1 .. Len(box), box[j].from = c, ~box[j].hello
      PROVE  /\ Number(box[j]) \in Nat /\ 0 < Number(box[j])
             /\ ~g.hello => Number(g) < Number(box[j])
  <2>1. PICK k \in 1 .. Len(inbox) : k = j + 1 /\ box[j] = inbox[k]
    BY <1>4, <1>7
  <2>2. Whole(inbox[k], m)
    BY <1>3, <1>8, <2>1 DEF IInv, InboxRight
  <2>3. Number(inbox[k]) \in 1 .. m
    BY <1>8, <2>1, <2>2 DEF Whole
  <2>4. 1 < k
    BY <1>4, <1>7, <2>1
  <2>5. ~g.hello => Number(g) < Number(inbox[k])
    BY <1>4, <1>8, <2>1, <2>4 DEF IInv, InboxRight, InTurn
  <2> QED
    BY <1>3, <2>1, <2>3, <2>5
<1>9. PICK input : input = IF g.hello THEN <<Newline(c)>> ELSE g.bytes
  OBVIOUS
<1>10. CASE g.hello
  <2>1. PICK t \in Seq(Bytes) : t = <<Byte(c, 0, 1)>>
    <3>1. Byte(c, 0, 1) \in Bytes
      BY <1>1 DEF Byte, Bytes
    <3> QED
      BY <3>1, Single
  <2>2. Len(t) = 1 /\ \A k \in 1 .. Len(t) : t[k] = Byte(c, 0, k)
    BY <2>1
  <2>3. Good(s, c, m, box) /\ 0 \in 0 .. m
    BY <1>4, <1>6, <1>7
  <2>4. Good(s \o t, c, m, box)
    BY <1>1, <1>8, <2>2, <2>3, GoodMore
  <2>5. input = t
    BY <1>9, <1>10, <2>1 DEF Newline
  <2> QED
    BY <1>1, <1>2, <1>3, <1>7, <1>9, <2>4, <2>5
<1>11. CASE ~g.hello
  <2>1. PICK t \in Seq(Bytes), d \in 1 .. m :
          t = g.bytes /\ d = Number(g) /\ \A k \in 1 .. Len(t) : t[k] = Byte(c, d, k)
    BY <1>5, <1>11 DEF Whole
  <2>2. \A k \in 1 .. Len(s) : s[k].sent < d
    BY <1>4, <1>6, <1>11, <2>1 DEF Good
  <2>3. Good(s, c, m, box) /\ d \in 0 .. m /\ d # 0
    BY <1>4, <1>6, <1>7
  <2>4. \A j \in 1 .. Len(box) : box[j].from = c /\ ~box[j].hello =>
                                   Number(box[j]) \in Nat /\ d < Number(box[j])
    BY <1>8, <1>11, <2>1
  <2>5. Good(s \o t, c, m, box)
    BY <1>1, <2>1, <2>2, <2>3, <2>4, GoodMore
  <2>6. input = t
    BY <1>9, <1>11, <2>1
  <2> QED
    BY <1>1, <1>2, <1>3, <1>7, <1>9, <2>5, <2>6
<1> QED
  BY <1>5, <1>10, <1>11

\* The daemon takes a datagram: the input of a session, a new client or a stranger.
LEMMA ReadStep ==
  ASSUME IInv, Read
  PROVE  IInv'
<1>1. SessionsTyped /\ daemon.pc = "read" /\ inbox # <<>> /\ inbox' = Tail(inbox) /\ UNCHANGED <<table, shells>>
  BY DEF IInv, Read, At
<1>2. PICK g : g = Head(inbox)
  OBVIOUS
<1>3. g = inbox[1] /\ 1 \in 1 .. Len(inbox)
  BY <1>1, <1>2 DEF SessionsTyped
<1>4. g.from \in Channels /\ g.hello \in BOOLEAN
  BY <1>1, <1>3, Fields
<1>5. PICK c \in Channels : c = g.from
  BY <1>4
<1>6. \/ /\ c \in DOMAIN table
         /\ daemon' = [daemon EXCEPT !.pc = "write", !.from = c,
                                     !.rest = IF g.hello THEN <<Newline(c)>> ELSE g.bytes]
         /\ Motd(c) \/ UNCHANGED client
      \/ /\ c \notin DOMAIN table
         /\ daemon' = [daemon EXCEPT !.pc = IF g.hello THEN "spawn" ELSE "read",
                                     !.from = c, !.rest = <<>>]
         /\ UNCHANGED client
  <2>1. CASE c \in DOMAIN table
    <3>1. Known(c) # {} /\ (CHOOSE d \in Known(c) : TRUE) = c
      BY <2>1 DEF Known
    <3> QED
      BY <1>2, <1>5, <2>1, <3>1 DEF Read
  <2>2. CASE c \notin DOMAIN table
    <3>1. Known(c) = {}
      BY <2>2 DEF Known
    <3> QED
      BY <1>2, <1>5, <2>2, <3>1 DEF Read
  <2> QED
    BY <2>1, <2>2
<1>7. /\ client' \in [Channels -> Clients]
      /\ \A d \in Channels : client'[d].sends = client[d].sends /\ client'[d].heard = client[d].heard
      /\ \A d \in Channels : client'[d].pc = client[d].pc \/ (d = c /\ c \in DOMAIN table)
  <2>1. CASE UNCHANGED client
    BY <1>1, <2>1 DEF SessionsTyped
  <2>2. CASE Motd(c) /\ c \in DOMAIN table
    BY <2>2, MotdMoves
  <2> QED
    BY <1>6, <2>1, <2>2
<1>8. InboxRight' /\ InputRight' /\ OutputRight' /\ inbox' \in Seq(Datagrams)
  BY <1>1, <1>7, TakenBy
<1>9. Sessions'
  BY <1>1, <1>7 DEF IInv, Sessions
<1>10. Entered'
  <2>1. daemon.pc # "insert"
    BY <1>1
  <2> QED
    BY <1>1, <2>1 DEF IInv, Entered
<1>11. daemon' \in Daemons /\ DealsWith' /\ PendingRight'
  <2>1. CASE c \in DOMAIN table
    <3>1. PICK input : input = IF g.hello THEN <<Newline(c)>> ELSE g.bytes
      OBVIOUS
    <3>2. input \in Seq(Bytes) /\ Good(Input(table[c]) \o input, c, client'[c].sends, inbox')
      BY <1>1, <1>2, <1>5, <1>7, <2>1, <3>1, Continues
    <3>3. daemon' = [daemon EXCEPT !.pc = "write", !.from = c, !.rest = input]
      BY <1>6, <2>1, <3>1
    <3>4. daemon' \in Daemons /\ daemon'.pc = "write" /\ daemon'.from = c /\ daemon'.rest = input
      BY <1>1, <3>2, <3>3 DEF SessionsTyped, Daemons
    <3>5. DealsWith'
      BY <1>1, <2>1, <3>4 DEF DealsWith
    <3>6. PendingRight'
      <4>1. Input(table[daemon.from])' = Input(table[c])
        BY <1>1, <3>4 DEF Input
      <4> QED
        BY <3>2, <3>4, <4>1 DEF PendingRight
    <3> QED
      BY <3>4, <3>5, <3>6
  <2>2. CASE c \notin DOMAIN table
    <3>1. PICK p \in {"spawn", "read"} : p = IF g.hello THEN "spawn" ELSE "read"
      OBVIOUS
    <3>2. daemon' = [daemon EXCEPT !.pc = p, !.from = c, !.rest = <<>>]
      BY <1>6, <2>2, <3>1
    <3>3. <<>> \in Seq(Bytes)
      OBVIOUS
    <3>4. daemon' \in Daemons /\ daemon'.pc = p /\ daemon'.from = c
      BY <1>1, <3>2, <3>3 DEF SessionsTyped, Daemons
    <3> QED
      BY <1>1, <2>2, <3>4 DEF DealsWith, PendingRight
  <2> QED
    BY <2>1, <2>2
<1>12. SessionsTyped'
  BY <1>1, <1>7, <1>8, <1>11 DEF SessionsTyped
<1> QED
  BY <1>8, <1>9, <1>10, <1>11, <1>12 DEF IInv
-----------------------------------------------------------------------------
\* Before the first datagram.
LEMMA InitIsRight == Init => IInv
<1> SUFFICES ASSUME Init PROVE IInv
  OBVIOUS
<1>1. /\ client = [c \in Channels |-> [pc |-> "off", sends |-> 0, heard |-> <<>>]]
      /\ inbox = <<>> /\ table = [c \in {} |-> 0] /\ shells = <<>>
      /\ daemon = [pc |-> "read", from |-> <<>>, rest |-> <<>>, visit |-> {}]
  BY DEF Init
<1>2. Len(shells) = 0 /\ Len(inbox) = 0 /\ DOMAIN table = {}
  BY <1>1
<1>3. /\ client \in [Channels -> Clients] /\ daemon \in Daemons
      /\ inbox \in Seq(Datagrams) /\ shells \in Seq(Shells)
  <2>1. <<>> \in Seq(Bytes)
    OBVIOUS
  <2>2. [pc |-> "off", sends |-> 0, heard |-> <<>>] \in Clients
    BY <2>1 DEF Clients
  <2>3. client \in [Channels -> Clients]
    BY <1>1, <2>2
  <2> QED
    BY <1>1, <2>1, <2>3 DEF Daemons
<1>4. SessionsTyped
  BY <1>2, <1>3 DEF SessionsTyped
<1>5. Entered /\ DealsWith /\ Sessions
  BY <1>1, <1>2 DEF Entered, DealsWith, Sessions
<1>6. InboxRight /\ InputRight /\ PendingRight /\ OutputRight
  BY <1>1, <1>2 DEF InboxRight, InTurn, InputRight, PendingRight, OutputRight
<1> QED
  BY <1>4, <1>5, <1>6 DEF IInv

\* Every step of the clients, the daemon and the shells preserves the invariant.
LEMMA NextIsRight ==
  ASSUME IInv, [Next]_vars
  PROVE  IInv'
<1>1. CASE UNCHANGED vars
  <2>1. UNCHANGED <<client, inbox, daemon, table, shells>>
    BY <1>1 DEF vars
  <2>2. SessionsTyped' /\ Entered' /\ DealsWith' /\ Sessions' /\ InboxRight'
    BY <2>1 DEF IInv, SessionsTyped, Entered, DealsWith, Sessions, InboxRight
  <2>3. InputRight' /\ PendingRight' /\ OutputRight'
    BY <2>1 DEF IInv, InputRight, PendingRight, OutputRight, Input, Output
  <2> QED
    BY <2>2, <2>3 DEF IInv
<1>2. CASE \E c \in Channels : Greet(c) \/ TimeOut(c) \/ Forward(c) \/ \E n \in 1..MaxLen : SendLine(c, n)
  BY <1>2, GreetStep, TimeOutStep, ForwardStep, SendLineStep
<1>3. CASE Read \/ Spawn \/ Insert \/ SendGreeting \/ Write \/ Retry \/ Outbound
  BY <1>3, ReadStep, SpawnStep, InsertStep, SendGreetingStep, WriteStep, RetryStep, OutboundStep
<1>4. CASE \E i \in DOMAIN shells : Echo(i)
  <2>1. DOMAIN shells = 1 .. Len(shells)
    BY DEF IInv, SessionsTyped
  <2> QED
    BY <1>4, <2>1, EchoStep
<1> QED
  BY <1>1, <1>2, <1>3, <1>4 DEF Next

\* Each shell's input comes from its owner.
LEMMA InputsFollow == IInv => InputIsTheClients
<1>1. IInv => DOMAIN shells = 1 .. Len(shells)
  BY DEF IInv, SessionsTyped
<1> QED
  BY <1>1 DEF IInv, InputRight, Good, InputIsTheClients

\* What a client hears was read by its own shell, whose input comes from the client.
LEMMA OutputsFollow == IInv => OutputIsTheShells
<1> SUFFICES ASSUME IInv, NEW c \in Channels
             PROVE  /\ \A k \in 1..Len(client[c].heard) : client[c].heard[k].from = c
                    /\ Ordered(client[c].heard)
  BY DEF OutputIsTheShells
<1>1. CASE c \notin DOMAIN table
  <2>1. client[c].heard = <<>>
    BY <1>1 DEF IInv, Sessions
  <2> QED
    BY <2>1 DEF Ordered
<1>2. CASE c \in DOMAIN table
  <2>1. PICK i \in 1 .. Len(shells) : i = table[c] /\ shells[i].owner = c
    BY <1>2 DEF IInv, Entered
  <2>2. PICK heard, stdout, read, stdin \in Seq(Bytes) :
          /\ heard = client[c].heard /\ stdout = shells[i].stdout
          /\ read = shells[i].read /\ stdin = shells[i].stdin
    BY Fields DEF IInv
  <2>3. WasRead(heard, read)
    <3>1. WasRead(heard \o stdout, read)
      BY <1>2, <2>1, <2>2 DEF IInv, OutputRight, Output
    <3> QED
      BY <3>1, WasReadPrefix
  <2>4. \A j \in 1 .. Len(read) : read[j].from = c
    <3>1. PICK in \in Seq(Bytes) : in = read \o stdin
      BY ConcatProperties
    <3>2. /\ Len(in) = Len(read) + Len(stdin) /\ Len(read) \in Nat /\ Len(stdin) \in Nat
          /\ \A j \in 1 .. Len(read) : in[j] = read[j]
      BY <3>1, ConcatProperties
    <3>3. \A j \in 1 .. Len(in) : in[j].from = c
      BY <2>1, <2>2, <3>1 DEF IInv, InputRight, Input, Good
    <3>4. \A j \in 1 .. Len(read) : j \in 1 .. Len(in)
      BY <3>2
    <3> QED
      BY <3>2, <3>3, <3>4
  <2>5. \A k \in 1 .. Len(heard) : heard[k].from = c
    BY <2>3, <2>4 DEF WasRead
  <2>6. Ordered(heard)
    BY <2>3 DEF WasRead
  <2>7. heard = client[c].heard
    BY <2>2
  <2> QED
    BY ONLY <2>5, <2>6, <2>7, Zenon
<1> QED
  BY <1>1, <1>2

\* The shell that is not entered yet belongs to a client that has none.
LEMMA ShellsFollow == IInv => OneShellEach
<1> SUFFICES ASSUME IInv, NEW i \in 1 .. Len(shells), NEW j \in 1 .. Len(shells),
                    shells[i].owner = shells[j].owner
             PROVE  i = j
  BY DEF IInv, SessionsTyped, OneShellEach
<1>1. daemon.pc = "insert" => shells[Len(shells)].owner \notin DOMAIN table
  BY DEF IInv, DealsWith
<1> QED
  BY <1>1 DEF IInv, Entered

\* The sessions of the shell daemon are apart: a shell is given nothing but what its
\* own client typed, in order and without gaps, the client hears its own shell only,
\* has one shell, and is known once it has been greeted.
THEOREM SessionsCorrect == Spec => []SessionsApart
<1>1. Init => IInv
  BY InitIsRight
<1>2. IInv /\ [Next]_vars => IInv'
  BY NextIsRight
<1>3. IInv => SessionsApart
  <2>1. IInv => GreetedAreKnown
    BY DEF IInv, Sessions, GreetedAreKnown
  <2> QED
    BY <2>1, InputsFollow, OutputsFollow, ShellsFollow DEF SessionsApart
<1> QED
  BY <1>1, <1>2, <1>3, PTL DEF Spec
-----------------------------------------------------------------------------
(* The snake server. *)

Records == [body : Seq(Cells), direction : Int \X Int, extend_size : Nat]

GameTyped ==
  /\ apples \subseteq Cells
  /\ channelTable \in Seq(Players) /\ snakes \in Seq(Records) /\ eaten \in Seq(Nat)
  /\ turn \in Nat \ {0}
  /\ pc \in {"incoming", "move", "send", "reset", "dead"}

\* The tables lead to each other, and everyone has a snake and a score.
TablesAgree ==
  /\ Len(snakes) = Len(channelTable) /\ Len(eaten) = Len(channelTable)
  /\ DOMAIN clientTable = {channelTable[i] : i \in 1 .. Len(channelTable)}
  /\ \A i \in 1 .. Len(channelTable) : clientTable[channelTable[i]] = i

\* A snake that has cells: it has the length it should have and, if its channel
\* is steady, it is steered and in one piece.
Straight(s) ==
  /\ \E d \in 1 .. 4 : s.direction = DIRS[d]
  /\ \A a \in 1 .. (Len(s.body) - 1) : \E d \in 1 .. 4 : s.body[a + 1] = Plus(s.body[a], DIRS[d])
Right(s, e, ch) ==
  s.body # <<>> =>
    /\ Len(s.body) + s.extend_size = NewLength + 2 * e
    /\ ch \in Steady => Straight(s)
SnakesRight == \A i \in 1 .. Len(snakes) : Right(snakes[i], eaten[i], channelTable[i])

\* No cell is twice in a body, or in two.
Once(s) == \A a, b \in 1 .. Len(s.body) : s.body[a] = s.body[b] => a = b
Disjoint(s, t) == \A a \in 1 .. Len(s.body), b \in 1 .. Len(t.body) : s.body[a] # t.body[b]
Apart(ss) ==
  \A i, j \in 1 .. Len(ss) : Once(ss[i]) /\ (i # j => Disjoint(ss[i], ss[j]))
Clear(ss, as) ==
  \A i \in 1 .. Len(ss) : \A a \in 1 .. Len(ss[i].body) : ss[i].body[a] \notin as

Counted == Cardinality(apples) = IF pc = "reset" THEN 0 ELSE NB_APPLES

GameInv == /\ GameTyped /\ TablesAgree /\ SnakesRight /\ Counted
           /\ Apart(snakes) /\ Clear(snakes, apples)
-----------------------------------------------------------------------------
\* What the fields of snakes are.
LEMMA RecordFields ==
  ASSUME NEW s \in Records
  PROVE  /\ s.body \in Seq(Cells) /\ s.direction \in Int \X Int /\ s.extend_size \in Nat
         /\ Len(s.body) \in Nat /\ DOMAIN s.body = 1 .. Len(s.body)
         /\ \A a \in 1 .. Len(s.body) : s.body[a] \in Cells
<1>1. s.body \in Seq(Cells) /\ s.direction \in Int \X Int /\ s.extend_size \in Nat
  BY DEF Records
<1> QED
  BY <1>1

\* The snakes that are there.
LEMMA SnakeFields ==
  ASSUME NEW ss \in Seq(Records)
  PROVE  Len(ss) \in Nat /\ DOMAIN ss = 1 .. Len(ss) /\ \A i \in 1 .. Len(ss) : ss[i] \in Records
OBVIOUS

\* The cells that are taken, by places in bodies.
LEMMA TakenCells ==
  ASSUME NEW ss \in Seq(Records), NEW c
  PROVE  c \in Taken(ss) <=> \E i \in 1 .. Len(ss) : \E a \in 1 .. Len(ss[i].body) : c = ss[i].body[a]
<1>1. DOMAIN ss = 1 .. Len(ss) /\ \A i \in 1 .. Len(ss) : DOMAIN ss[i].body = 1 .. Len(ss[i].body)
  BY SnakeFields, RecordFields
<1>2. c \in Taken(ss) <=> \E i \in 1 .. Len(ss) : c \in Body(ss[i])
  BY <1>1 DEF Taken
<1>3. \A i \in 1 .. Len(ss) : c \in Body(ss[i]) <=> \E a \in 1 .. Len(ss[i].body) : c = ss[i].body[a]
  BY <1>1 DEF Body
<1> QED
  BY <1>2, <1>3

\* One snake is replaced by r, whose cells are its own.
Put(ss, i, r) == [ss EXCEPT ![i] = r]
LEMMA Replaced ==
  ASSUME NEW ss \in Seq(Records), Apart(ss), NEW i \in 1 .. Len(ss), NEW r \in Records, Once(r),
         \A j \in 1 .. Len(ss) : j # i => Disjoint(r, ss[j])
  PROVE  /\ Put(ss, i, r) \in Seq(Records) /\ Len(Put(ss, i, r)) = Len(ss) /\ Put(ss, i, r)[i] = r
         /\ \A j \in 1 .. Len(ss) : j # i => Put(ss, i, r)[j] = ss[j]
         /\ Apart(Put(ss, i, r))
<1>0. PICK tt : tt = Put(ss, i, r)
  OBVIOUS
<1>1. /\ tt \in Seq(Records) /\ Len(tt) = Len(ss) /\ tt[i] = r
      /\ \A j \in 1 .. Len(ss) : j # i => tt[j] = ss[j]
  BY <1>0 DEF Put
<1>2. ASSUME NEW j \in 1 .. Len(ss), NEW k \in 1 .. Len(ss)
      PROVE  Once(tt[j]) /\ (j # k => Disjoint(tt[j], tt[k]))
  <2>1. CASE j = i
    BY <1>1, <2>1
  <2>2. CASE j # i /\ k = i
    <3>1. Once(ss[j]) /\ Disjoint(r, ss[j])
      BY <2>2 DEF Apart
    <3> QED
      BY <1>1, <2>2, <3>1 DEF Disjoint
  <2>3. CASE j # i /\ k # i
    BY <1>1, <2>3 DEF Apart
  <2> QED
    BY <2>1, <2>2, <2>3
<1> QED
  BY <1>0, <1>1, <1>2 DEF Apart

LEMMA CellsAreFinite == IsFiniteSet(Cells)
<1>1. WIDTH - 1 \in Int /\ HEIGHT - 1 \in Int
  BY GameAssumption
<1>2. IsFiniteSet(0 .. (WIDTH - 1)) /\ IsFiniteSet(0 .. (HEIGHT - 1))
  BY <1>1, FS_Interval
<1> QED
  BY <1>2, FS_Product DEF Cells

\* The apples that add_apple() adds are on free cells, and as many as they should be.
LEMMA ApplesAdded ==
  ASSUME NEW ss \in Seq(Records), NEW as, as \subseteq Cells, Clear(ss, as), NEW n \in Nat,
         NEW bs \in WithApples(ss, as, n)
  PROVE  bs \subseteq Cells /\ Cardinality(bs) = Cardinality(as) + n /\ Clear(ss, bs)
<1>1. PICK a \in SUBSET (Cells \ (Taken(ss) \cup as)) : Cardinality(a) = n /\ bs = as \cup a
  BY DEF WithApples
<1>2. IsFiniteSet(as) /\ IsFiniteSet(a)
  BY <1>1, CellsAreFinite, FS_Subset
<1>3. as \cap a = {}
  BY <1>1
<1>4. Cardinality(as \cup a) = Cardinality(as) + Cardinality(a)
  <2>1. Cardinality(as \cup a) = Cardinality(as) + Cardinality(a) - Cardinality(as \cap a)
    BY <1>2, FS_Union
  <2>2. Cardinality(as \cap a) = 0
    BY <1>3, FS_EmptySet
  <2> QED
    BY <1>1, <1>2, <2>1, <2>2, FS_CardinalityType
<1>5. ASSUME NEW i \in 1 .. Len(ss), NEW k \in 1 .. Len(ss[i].body)
      PROVE  ss[i].body[k] \notin bs
  <2>1. ss[i].body[k] \in Taken(ss)
    BY TakenCells
  <2>2. ss[i].body[k] \notin as
    BY DEF Clear
  <2> QED
    BY <1>1, <2>1, <2>2
<1> QED
  BY <1>1, <1>4, <1>5 DEF Clear
-----------------------------------------------------------------------------
\* A snake without cells.
LEMMA ClearedIsRight ==
  ASSUME NEW s \in Records
  PROVE  LET r == [s EXCEPT !.body = <<>>]
         IN  /\ r \in Records /\ r.body = <<>> /\ Once(r) /\ \A e, ch : Right(r, e, ch)
             /\ \A t : Disjoint(r, t)
<1>1. PICK r : r = [s EXCEPT !.body = <<>>]
  OBVIOUS
<1>2. <<>> \in Seq(Cells)
  OBVIOUS
<1>3. r \in Records /\ r.body = <<>>
  BY <1>1, <1>2 DEF Records
<1>4. Len(r.body) = 0
  BY <1>3
<1> QED
  BY <1>1, <1>3, <1>4 DEF Once, Right, Disjoint

\* A new snake lies in a row of the board.
LEMMA RowIsRight ==
  ASSUME NEW x \in 0 .. (WIDTH - NewLength - 1), NEW y \in 0 .. (HEIGHT - 1), NEW r,
         r = [body |-> Row(x, y), direction |-> DIRS[2], extend_size |-> 0]
  PROVE  /\ r \in Records /\ r.body = Row(x, y) /\ Len(r.body) = NewLength
         /\ Once(r) /\ \A ch : Right(r, 0, ch)
<1>1. x \in Nat /\ y \in Nat /\ y < HEIGHT /\ x + NewLength < WIDTH /\ NewLength \in Nat
  BY GameAssumption
<1>2. PICK q : q = Row(x, y)
  OBVIOUS
<1>3. \A i \in 1 .. NewLength : <<x + i - 1, y>> \in Cells
  <2> SUFFICES ASSUME NEW i \in 1 .. NewLength PROVE <<x + i - 1, y>> \in Cells
    OBVIOUS
  <2>1. x + i - 1 \in 0 .. (WIDTH - 1) /\ y \in 0 .. (HEIGHT - 1)
    BY <1>1, GameAssumption
  <2> QED
    BY <2>1 DEF Cells
<1>4. q \in Seq(Cells) /\ Len(q) = NewLength /\ \A i \in 1 .. NewLength : q[i] = <<x + i - 1, y>>
  <2>1. q = [i \in 1 .. NewLength |-> <<x + i - 1, y>>]
    BY <1>2 DEF Row
  <2>2. \A i \in 1 .. NewLength : q[i] = <<x + i - 1, y>>
    BY <2>1
  <2>3. q \in [1 .. NewLength -> Cells]
    BY <1>3, <2>1
  <2>4. q \in Seq(Cells) /\ Len(q) = NewLength
    BY <1>1, <2>3
  <2> QED
    BY <2>2, <2>4
<1>5. r.body = q /\ r.direction = DIRS[2] /\ r.extend_size = 0
  BY <1>2
<1>6. r \in Records
  <2>1. DIRS[2] \in Int \X Int /\ 0 \in Nat
    BY DEF DIRS
  <2> QED
    BY <1>2, <1>4, <2>1 DEF Records
<1>7. Once(r)
  <2> SUFFICES ASSUME NEW a \in 1 .. NewLength, NEW b \in 1 .. NewLength, q[a] = q[b] PROVE a = b
    BY <1>4, <1>5 DEF Once
  <2>1. <<x + a - 1, y>> = <<x + b - 1, y>>
    BY <1>4
  <2>2. x + a - 1 = x + b - 1
    BY <2>1
  <2> QED
    BY <1>1, <2>2
<1>8. ASSUME NEW ch PROVE Right(r, 0, ch)
  <2>1. DIRS[2] = <<1, 0>>
    BY DEF DIRS
  <2>2. ASSUME NEW a \in 1 .. (NewLength - 1) PROVE q[a + 1] = Plus(q[a], DIRS[2])
    <3>1. a \in 1 .. NewLength /\ a + 1 \in 1 .. NewLength
      BY <1>1
    <3>2. q[a] = <<x + a - 1, y>> /\ q[a + 1] = <<x + a, y>>
      BY <1>1, <1>4, <3>1
    <3>3. Plus(q[a], DIRS[2]) = <<x + a - 1 + 1, y + 0>>
      BY <2>1, <3>2 DEF Plus
    <3> QED
      BY <1>1, <3>2, <3>3
  <2>3. NewLength + 0 = NewLength + 2 * 0
    BY <1>1
  <2> QED
    BY <1>4, <1>5, <2>2, <2>3 DEF Right, Straight
<1> QED
  BY <1>2, <1>4, <1>5, <1>6, <1>7, <1>8

\* new_snake() changes a single snake, into a right one or into none.
LEMMA Renewed ==
  ASSUME NEW ss \in Seq(Records), Apart(ss), NEW as, Clear(ss, as), NEW id \in 1 .. Len(ss),
         NEW tt \in NewSnakes(ss, as, id)
  PROVE  /\ tt \in Seq(Records) /\ Len(tt) = Len(ss)
         /\ \A j \in 1 .. Len(ss) : j # id => tt[j] = ss[j]
         /\ (\A ch : Right(tt[id], 0, ch)) /\ Apart(tt) /\ Clear(tt, as)
<1>1. PICK q : q = [ss[id] EXCEPT !.body = <<>>]
  OBVIOUS
<1>2. /\ q \in Records /\ q.body = <<>> /\ Once(q) /\ (\A ch : Right(q, 0, ch))
      /\ \A t : Disjoint(q, t)
  BY <1>1, SnakeFields, ClearedIsRight
<1>3. PICK cl : cl = Cleared(ss, id)
  OBVIOUS
<1>4. cl = Put(ss, id, q)
  BY <1>1, <1>3 DEF Cleared, Put
<1>5. /\ cl \in Seq(Records) /\ Len(cl) = Len(ss) /\ cl[id] = q
      /\ \A j \in 1 .. Len(ss) : j # id => cl[j] = ss[j]
      /\ Apart(cl)
  BY <1>2, <1>4, Replaced
<1>6. CASE tt = cl
  <2>1. Clear(cl, as)
    <3>1. Len(q.body) = 0
      BY <1>2
    <3> SUFFICES ASSUME NEW j \in 1 .. Len(ss), NEW a \in 1 .. Len(cl[j].body)
                 PROVE  cl[j].body[a] \notin as
      BY <1>5 DEF Clear
    <3>2. j # id
      <4> SUFFICES ASSUME j = id PROVE FALSE
        OBVIOUS
      <4>1. Len(cl[j].body) = 0
        BY <1>5, <3>1
      <4> QED
        BY <4>1
    <3> QED
      BY <1>5, <3>2 DEF Clear
  <2> QED
    BY <1>2, <1>5, <1>6, <2>1
<1>7. CASE \E w \in Rows(cl, as) :
             tt = [ss EXCEPT ![id] = [body |-> w, direction |-> DIRS[2], extend_size |-> 0]]
  <2>0. PICK w \in Rows(cl, as) :
          tt = [ss EXCEPT ![id] = [body |-> w, direction |-> DIRS[2], extend_size |-> 0]]
    BY <1>7
  <2>1. PICK x \in 0 .. (WIDTH - NewLength - 1), y \in 0 .. (HEIGHT - 1) :
          /\ tt = [ss EXCEPT ![id] = [body |-> Row(x, y), direction |-> DIRS[2], extend_size |-> 0]]
          /\ \A i \in 1 .. NewLength : Row(x, y)[i] \notin Taken(cl) \cup as
    <3>1. PICK x \in 0 .. (WIDTH - NewLength - 1), y \in 0 .. (HEIGHT - 1) : w = Row(x, y)
      BY DEF Rows, AllRows
    <3>2. \A i \in 1 .. NewLength : w[i] \notin Taken(cl) \cup as
      BY DEF Rows
    <3> QED
      BY <2>0, <3>1, <3>2
  <2>2. PICK r : r = [body |-> Row(x, y), direction |-> DIRS[2], extend_size |-> 0]
    OBVIOUS
  <2>3. r \in Records /\ r.body = Row(x, y) /\ Len(r.body) = NewLength /\ Once(r)
        /\ \A ch : Right(r, 0, ch)
    BY <2>2, RowIsRight
  <2>4. \A a \in 1 .. Len(r.body) : r.body[a] \notin Taken(cl) /\ r.body[a] \notin as
    BY <2>1, <2>3
  <2>5. ASSUME NEW j \in 1 .. Len(ss), j # id PROVE Disjoint(r, ss[j])
    <3>1. \A b \in 1 .. Len(ss[j].body) : ss[j].body[b] \in Taken(cl)
      <4>1. cl[j] = ss[j] /\ j \in 1 .. Len(cl)
        BY <1>5, <2>5
      <4> QED
        BY <1>5, <4>1, TakenCells
    <3> QED
      BY <2>4, <3>1 DEF Disjoint
  <2>6. /\ tt \in Seq(Records) /\ Len(tt) = Len(ss) /\ tt[id] = r
        /\ \A j \in 1 .. Len(ss) : j # id => tt[j] = ss[j]
        /\ Apart(tt)
    <3>1. tt = Put(ss, id, r)
      BY <2>1, <2>2 DEF Put
    <3> QED
      BY <2>3, <2>5, <3>1, Replaced
  <2>7. Clear(tt, as)
    BY <2>4, <2>6 DEF Clear
  <2> QED
    BY <2>3, <2>6, <2>7
<1> QED
  BY <1>3, <1>6, <1>7 DEF NewSnakes

\* A datagram changes where a snake goes, not where it is.
LEMMA Steered ==
  ASSUME NEW ss \in Seq(Records), Apart(ss), NEW as, Clear(ss, as), NEW id \in 1 .. Len(ss),
         NEW ch, NEW d \in {<<>>} \cup Directions(ch)
  PROVE  /\ SetDirection(ss, id, d) \in Seq(Records) /\ Len(SetDirection(ss, id, d)) = Len(ss)
         /\ \A j \in 1 .. Len(ss) : j # id => SetDirection(ss, id, d)[j] = ss[j]
         /\ \A e : Right(ss[id], e, ch) => Right(SetDirection(ss, id, d)[id], e, ch)
         /\ Apart(SetDirection(ss, id, d)) /\ Clear(SetDirection(ss, id, d), as)
<1>0. PICK tt : tt = SetDirection(ss, id, d)
  OBVIOUS
<1> DEFINE SameSnakes == /\ tt \in Seq(Records) /\ Len(tt) = Len(ss)
                         /\ \A j \in 1 .. Len(ss) : j # id => tt[j] = ss[j]
                         /\ \A e : Right(ss[id], e, ch) => Right(tt[id], e, ch)
                         /\ Apart(tt) /\ Clear(tt, as)
<1> SUFFICES SameSnakes
  BY <1>0
<1>1. CASE d = <<>>
  BY <1>0, <1>1 DEF SetDirection
<1>2. CASE d # <<>>
  <2>1. PICK r : r = [ss[id] EXCEPT !.direction = d]
    OBVIOUS
  <2>2. d \in Directions(ch) /\ ss[id] \in Records
    BY <1>2
  <2>3. /\ r \in Records /\ r.body = ss[id].body /\ r.direction = d
        /\ r.extend_size = ss[id].extend_size
    <3>1. d \in Int \X Int
      BY <2>2, GameAssumption DEF Directions, Valid, DIRS
    <3> QED
      BY <2>1, <2>2, <3>1 DEF Records
  <2>4. Once(r) /\ \A j \in 1 .. Len(ss) : j # id => Disjoint(r, ss[j])
    BY <2>3 DEF Apart, Once, Disjoint
  <2>5. tt = Put(ss, id, r)
    BY <1>0, <1>2, <2>1 DEF SetDirection, Put
  <2>6. /\ tt \in Seq(Records) /\ Len(tt) = Len(ss) /\ tt[id] = r
        /\ \A j \in 1 .. Len(ss) : j # id => tt[j] = ss[j]
        /\ Apart(tt)
    BY <2>3, <2>4, <2>5, Replaced
  <2>7. ASSUME NEW e, Right(ss[id], e, ch) PROVE Right(r, e, ch)
    <3>1. ch \in Steady => \E g \in 1 .. 4 : r.direction = DIRS[g]
      BY <2>2, <2>3 DEF Directions, Valid
    <3> QED
      BY <2>3, <2>7, <3>1 DEF Right, Straight
  <2>8. Clear(tt, as)
    BY <2>3, <2>6 DEF Clear
  <2> QED
    BY <2>6, <2>7, <2>8
<1> QED
  BY <1>1, <1>2

\* A newcomer has no cells at first.
LEMMA Joined ==
  ASSUME NEW ss \in Seq(Records), Apart(ss), NEW as, Clear(ss, as)
  PROVE  LET tt == Append(ss, Blank)
         IN  /\ tt \in Seq(Records) /\ Len(tt) = Len(ss) + 1 /\ Len(ss) + 1 \in 1 .. Len(tt)
             /\ \A j \in 1 .. Len(ss) : tt[j] = ss[j] /\ j # Len(ss) + 1 /\ j \in 1 .. Len(tt)
             /\ \A j \in 1 .. Len(tt) : j \in 1 .. Len(ss) \/ j = Len(ss) + 1
             /\ Apart(tt) /\ Clear(tt, as)
<1>0. PICK tt : tt = Append(ss, Blank)
  OBVIOUS
<1>1. PICK n \in Nat : n = Len(ss)
  OBVIOUS
<1>2. Blank \in Records /\ Blank.body = <<>>
  <2>1. <<>> \in Seq(Cells) /\ <<0, 0>> \in Int \X Int /\ 0 \in Nat
    OBVIOUS
  <2> QED
    BY <2>1 DEF Blank, Records
<1>3. /\ tt \in Seq(Records) /\ Len(tt) = n + 1 /\ tt[n + 1] = Blank
      /\ \A j \in 1 .. n : tt[j] = ss[j]
  BY <1>0, <1>1, <1>2, AppendProperties
<1>4. \A j \in 1 .. n + 1 : j \in 1 .. n \/ j = n + 1
  BY <1>1
<1>5. Len(tt[n + 1].body) = 0
  BY <1>2, <1>3
<1>6. Apart(tt)
  <2> SUFFICES ASSUME NEW j \in 1 .. n + 1, NEW k \in 1 .. n + 1
               PROVE  Once(tt[j]) /\ (j # k => Disjoint(tt[j], tt[k]))
    BY <1>3 DEF Apart
  <2>1. CASE j \in 1 .. n /\ k \in 1 .. n
    BY <1>1, <1>3, <2>1 DEF Apart
  <2>2. CASE j = n + 1
    <3>1. Len(tt[j].body) = 0
      BY <1>5, <2>2
    <3> QED
      BY <3>1 DEF Once, Disjoint
  <2>3. CASE j \in 1 .. n /\ k = n + 1
    <3>1. Once(ss[j])
      BY <1>1, <2>3 DEF Apart
    <3> QED
      BY <1>3, <1>5, <2>3, <3>1 DEF Disjoint
  <2> QED
    BY <1>4, <2>1, <2>2, <2>3
<1>7. Clear(tt, as)
  <2> SUFFICES ASSUME NEW j \in 1 .. n + 1, NEW a \in 1 .. Len(tt[j].body) PROVE tt[j].body[a] \notin as
    BY <1>3 DEF Clear
  <2>1. j \in 1 .. n
    <3>1. j # n + 1
      <4> SUFFICES ASSUME j = n + 1 PROVE FALSE
        OBVIOUS
      <4>1. Len(tt[j].body) = 0
        BY <1>5
      <4> QED
        BY <4>1
    <3> QED
      BY <1>4, <3>1
  <2> QED
    BY <1>1, <1>3, <2>1 DEF Clear
<1>8. \A j \in 1 .. n : j # n + 1 /\ j \in 1 .. n + 1
  BY <1>1
<1>9. n + 1 \in 1 .. n + 1
  BY <1>1
<1> QED
  BY <1>0, <1>1, <1>3, <1>4, <1>6, <1>7, <1>8, <1>9

\* What Append adds and keeps.
LEMMA Appended ==
  ASSUME NEW T, NEW s \in Seq(T), NEW e \in T
  PROVE  /\ Append(s, e) \in Seq(T) /\ Len(Append(s, e)) = Len(s) + 1
         /\ Append(s, e)[Len(s) + 1] = e
         /\ \A i \in 1 .. Len(s) : Append(s, e)[i] = s[i]
BY AppendProperties
-----------------------------------------------------------------------------
\* A datagram steers the snake of its channel; an unknown channel gets one first.
LEMMA ReceiveStep ==
  ASSUME GameInv, NEW ch \in Players, NEW d \in {<<>>} \cup Directions(ch), Receive(ch, d)
  PROVE  GameInv'
<1>1. /\ snakes \in Seq(Records) /\ Apart(snakes) /\ Clear(snakes, apples)
      /\ UNCHANGED <<apples, stopped, pc, turn>> /\ pc = "incoming"
  BY DEF GameInv, GameTyped, Receive
<1>2. PICK n \in Nat : n = Len(channelTable) /\ n = Len(snakes) /\ n = Len(eaten)
  BY DEF GameInv, GameTyped, TablesAgree
<1>3. CASE ch \in DOMAIN clientTable
  <2>1. PICK id \in 1 .. Len(snakes) : id = clientTable[ch] /\ channelTable[id] = ch
    BY <1>2, <1>3 DEF GameInv, TablesAgree
  <2>2. snakes' = SetDirection(snakes, id, d) /\ UNCHANGED <<clientTable, channelTable, eaten>>
    BY <1>3, <2>1 DEF Receive
  <2>3. /\ snakes' \in Seq(Records) /\ Len(snakes') = Len(snakes)
        /\ \A j \in 1 .. Len(snakes) : j # id => snakes'[j] = snakes[j]
        /\ \A e : Right(snakes[id], e, ch) => Right(snakes'[id], e, ch)
        /\ Apart(snakes') /\ Clear(snakes', apples)
    BY <1>1, <2>2, Steered
  <2>4. SnakesRight'
    BY <2>1, <2>2, <2>3 DEF GameInv, SnakesRight
  <2> QED
    BY <1>1, <2>2, <2>3, <2>4 DEF GameInv, GameTyped, TablesAgree, Counted
<1>4. CASE ch \notin DOMAIN clientTable
  <2>1. PICK tt : tt = Append(snakes, Blank)
    OBVIOUS
  <2>2. PICK ss \in NewSnakes(tt, apples, n + 1) : snakes' = SetDirection(ss, n + 1, d)
    BY <1>2, <1>4, <2>1 DEF Receive
  <2>3. /\ clientTable' = Registered(ch, n + 1) /\ channelTable' = Append(channelTable, ch)
        /\ eaten' = Append(eaten, 0)
    BY <1>2, <1>4 DEF Receive
  <2>4. /\ tt \in Seq(Records) /\ Len(tt) = n + 1 /\ n + 1 \in 1 .. Len(tt)
        /\ \A j \in 1 .. n : tt[j] = snakes[j] /\ j # n + 1 /\ j \in 1 .. Len(tt)
        /\ \A j \in 1 .. Len(tt) : j \in 1 .. n \/ j = n + 1
        /\ Apart(tt) /\ Clear(tt, apples)
    BY <1>1, <1>2, <2>1, Joined
  <2>5. PICK id \in 1 .. Len(tt) : id = n + 1
    BY <2>4
  <2>6. /\ ss \in Seq(Records) /\ Len(ss) = n + 1
        /\ \A j \in 1 .. Len(tt) : j # id => ss[j] = tt[j]
        /\ Right(ss[id], 0, ch) /\ Apart(ss) /\ Clear(ss, apples)
    BY <2>2, <2>4, <2>5, Renewed
  <2>7. PICK uu : uu = SetDirection(ss, id, d)
    OBVIOUS
  <2>8. /\ uu \in Seq(Records) /\ Len(uu) = n + 1
        /\ \A j \in 1 .. Len(ss) : j # id => uu[j] = ss[j]
        /\ \A e : Right(ss[id], e, ch) => Right(uu[id], e, ch)
        /\ Apart(uu) /\ Clear(uu, apples)
    <3>1. id \in 1 .. Len(ss)
      BY <2>4, <2>5, <2>6
    <3> QED
      BY <2>6, <2>7, <3>1, Steered
  <2>9. snakes' = uu
    BY <2>2, <2>5, <2>7
  <2>10. /\ channelTable' \in Seq(Players) /\ Len(channelTable') = n + 1 /\ channelTable'[n + 1] = ch
         /\ \A i \in 1 .. n : channelTable'[i] = channelTable[i]
    <3>1. PICK s \in Seq(Players) : s = channelTable
      BY DEF GameInv, GameTyped
    <3>2. PICK r : r = Append(s, ch)
      OBVIOUS
    <3>3. r \in Seq(Players) /\ Len(r) = n + 1 /\ r[n + 1] = ch /\ \A i \in 1 .. n : r[i] = s[i]
      <4>1. Len(s) = n
        BY <1>2, <3>1
      <4>2. ch \in Players
        OBVIOUS
      <4>3. /\ Append(s, ch) \in Seq(Players) /\ Len(Append(s, ch)) = Len(s) + 1
            /\ Append(s, ch)[Len(s) + 1] = ch
            /\ \A i \in 1 .. Len(s) : Append(s, ch)[i] = s[i]
        BY <3>1, <4>2, Appended
      <4> QED
        BY <3>2, <4>1, <4>3
    <3> QED
      BY <2>3, <3>1, <3>2, <3>3
  <2>11. /\ eaten' \in Seq(Nat) /\ Len(eaten') = n + 1 /\ eaten'[n + 1] = 0
         /\ \A i \in 1 .. n : eaten'[i] = eaten[i]
    <3>1. 0 \in Nat
      OBVIOUS
    <3>2. PICK s \in Seq(Nat) : s = eaten
      BY DEF GameInv, GameTyped
    <3> QED
      BY <1>2, <2>3, <3>1, <3>2, AppendProperties
  <2>12. \A j \in 1 .. n + 1 : j \in 1 .. n \/ j = n + 1
    BY <2>4
  <2>13. SnakesRight'
    <3> SUFFICES ASSUME NEW j \in 1 .. n + 1 PROVE Right(snakes'[j], eaten'[j], channelTable'[j])
      BY <2>8, <2>9 DEF SnakesRight
    <3>1. CASE j = n + 1
      <4>1. Right(uu[id], 0, ch)
        BY <2>6, <2>8
      <4> QED
        BY <2>5, <2>9, <2>10, <2>11, <3>1, <4>1
    <3>2. CASE j \in 1 .. n
      <4>1. Right(snakes[j], eaten[j], channelTable[j])
        BY <1>2, <3>2 DEF GameInv, SnakesRight
      <4>2. uu[j] = snakes[j]
        BY <2>4, <2>5, <2>6, <2>8, <3>2
      <4> QED
        BY <2>9, <2>10, <2>11, <3>2, <4>1, <4>2
    <3> QED
      BY <2>12, <3>1, <3>2
  <2>14. TablesAgree'
    <3>1. /\ DOMAIN clientTable' = DOMAIN clientTable \cup {ch} /\ clientTable'[ch] = n + 1
          /\ \A c \in DOMAIN clientTable : clientTable'[c] = clientTable[c]
      BY <1>4, <2>3 DEF Registered
    <3>2. /\ DOMAIN clientTable = {channelTable[i] : i \in 1 .. n}
          /\ \A i \in 1 .. n : clientTable[channelTable[i]] = i
      BY <1>2 DEF GameInv, TablesAgree
    <3>3. DOMAIN clientTable' = {channelTable'[i] : i \in 1 .. n + 1}
      <4>1. {channelTable'[i] : i \in 1 .. n + 1} = {channelTable[i] : i \in 1 .. n} \cup {ch}
        BY <2>10, <2>12
      <4> QED
        BY <3>1, <3>2, <4>1
    <3>4. \A i \in 1 .. n + 1 : clientTable'[channelTable'[i]] = i
      <4>1. \A i \in 1 .. n : clientTable'[channelTable'[i]] = i
        BY <2>10, <3>1, <3>2
      <4> QED
        BY <2>10, <2>12, <3>1, <4>1
    <3> QED
      BY <2>8, <2>9, <2>10, <2>11, <3>3, <3>4 DEF TablesAgree
  <2>15. GameTyped'
    BY <1>1, <2>8, <2>9, <2>10, <2>11 DEF GameInv, GameTyped
  <2> QED
    BY <1>1, <2>8, <2>9, <2>13, <2>14, <2>15 DEF GameInv, Counted
<1> QED
  BY <1>3, <1>4

\* A snake is made anew.
LEMMA ResetStep ==
  ASSUME GameInv, Reset
  PROVE  GameInv'
<1>1. /\ snakes \in Seq(Records) /\ Apart(snakes) /\ Clear(snakes, apples)
      /\ turn \in 1 .. Len(snakes) /\ turn \in Nat \ {0} /\ Len(snakes) \in Nat
      /\ Len(eaten) = Len(snakes) /\ eaten \in Seq(Nat)
  BY DEF GameInv, GameTyped, TablesAgree, Reset
<1>2. /\ snakes' \in NewSnakes(snakes, apples, turn) /\ eaten' = [eaten EXCEPT ![turn] = 0]
      /\ turn' = turn + 1 /\ UNCHANGED <<clientTable, channelTable, apples, stopped, pc>>
  BY DEF Reset
<1>3. PICK tt \in NewSnakes(snakes, apples, turn) : tt = snakes'
  BY <1>2
<1>4. /\ tt \in Seq(Records) /\ Len(tt) = Len(snakes)
      /\ \A j \in 1 .. Len(snakes) : j # turn => tt[j] = snakes[j]
      /\ (\A ch : Right(tt[turn], 0, ch)) /\ Apart(tt) /\ Clear(tt, apples)
  BY <1>1, Renewed
<1>5. /\ eaten' \in Seq(Nat) /\ Len(eaten') = Len(eaten) /\ eaten'[turn] = 0
      /\ \A j \in 1 .. Len(snakes) : j # turn => eaten'[j] = eaten[j]
  BY <1>1, <1>2
<1>6. SnakesRight'
  BY <1>2, <1>3, <1>4, <1>5 DEF GameInv, SnakesRight
<1>7. GameTyped' /\ TablesAgree' /\ Counted'
  BY <1>1, <1>2, <1>3, <1>4, <1>5 DEF GameInv, GameTyped, TablesAgree, Counted
<1> QED
  BY <1>2, <1>3, <1>4, <1>6, <1>7 DEF GameInv

\* When every snake is new, the apples are laid.
LEMMA AddApplesStep ==
  ASSUME GameInv, AddApples
  PROVE  GameInv'
<1>1. /\ snakes \in Seq(Records) /\ Clear(snakes, apples) /\ apples \subseteq Cells
      /\ Cardinality(apples) = 0 /\ NB_APPLES \in Nat
  BY GameAssumption DEF GameInv, GameTyped, Counted, AddApples
<1>2. /\ apples' \in WithApples(snakes, apples, NB_APPLES) /\ pc' = "incoming" /\ turn' = 1
      /\ UNCHANGED <<clientTable, channelTable, snakes, stopped, eaten>>
  BY DEF AddApples
<1>3. PICK bs \in WithApples(snakes, apples, NB_APPLES) : bs = apples'
  BY <1>2
<1>4. bs \subseteq Cells /\ Cardinality(bs) = Cardinality(apples) + NB_APPLES /\ Clear(snakes, bs)
  BY <1>1, ApplesAdded
<1>5. Counted'
  BY <1>1, <1>2, <1>3, <1>4 DEF Counted
<1>6. GameTyped' /\ TablesAgree' /\ SnakesRight'
  BY <1>2, <1>3, <1>4 DEF GameInv, GameTyped, TablesAgree, SnakesRight
<1> QED
  BY <1>2, <1>3, <1>4, <1>5, <1>6 DEF GameInv

\* The game is sent; after a collision the apples are taken away.
LEMMA SendStep ==
  ASSUME GameInv, Send
  PROVE  GameInv'
<1>1. UNCHANGED <<clientTable, channelTable, snakes, eaten>> /\ turn' = 1 /\ pc = "send"
  BY DEF Send
<1>2. \/ pc' = "reset" /\ apples' = {}
      \/ pc' = "incoming" /\ UNCHANGED apples
  BY DEF Send
<1>3. GameTyped' /\ TablesAgree' /\ SnakesRight'
  <2>1. apples' \subseteq Cells /\ pc' \in {"incoming", "reset"} /\ turn' \in Nat \ {0}
    BY <1>1, <1>2 DEF GameInv, GameTyped
  <2> QED
    BY <1>1, <2>1 DEF GameInv, GameTyped, TablesAgree, SnakesRight
<1>4. Apart(snakes') /\ Clear(snakes', apples')
  BY <1>1, <1>2 DEF GameInv, Clear
<1>5. Counted'
  BY <1>1, <1>2, FS_EmptySet DEF GameInv, Counted
<1> QED
  BY <1>3, <1>4, <1>5 DEF GameInv
-----------------------------------------------------------------------------
\* The body a snake has after a step: np in front, and the last k cells gone.
Steps(s, np, k) == IF k = 0 THEN Append(s.body, np) ELSE Tail(Append(s.body, np))
LEMMA StepCells ==
  ASSUME NEW s \in Records, NEW np \in Cells, NEW k \in {0, 1}
  PROVE  /\ Steps(s, np, k) \in Seq(Cells) /\ Len(Steps(s, np, k)) = Len(s.body) + 1 - k
         /\ \A a \in 1 .. Len(s.body) + 1 - k :
              Steps(s, np, k)[a] = IF a + k = Len(s.body) + 1 THEN np ELSE s.body[a + k]
<1>1. PICK b \in Seq(Cells) : b = s.body
  BY RecordFields
<1>2. PICK w : w = Append(b, np)
  OBVIOUS
<1>3. /\ w \in Seq(Cells) /\ Len(w) = Len(b) + 1 /\ w[Len(b) + 1] = np
      /\ \A i \in 1 .. Len(b) : w[i] = b[i]
  BY <1>2, Appended
<1>4. \A i \in 1 .. Len(b) + 1 : w[i] = IF i = Len(b) + 1 THEN np ELSE b[i]
  BY <1>1, <1>3
<1>5. CASE k = 0
  <2>1. Steps(s, np, k) = w /\ Len(b) + 1 - k = Len(b) + 1 /\ \A a \in 1 .. Len(b) + 1 : a + k = a
    BY <1>1, <1>2, <1>5 DEF Steps
  <2> QED
    BY <1>1, <1>3, <1>4, <2>1
<1>6. CASE k = 1
  <2>1. Steps(s, np, k) = Tail(w)
    BY <1>1, <1>2, <1>6 DEF Steps
  <2>2. w # <<>>
    BY <1>1, <1>3
  <2>3. PICK t : t = Tail(w)
    OBVIOUS
  <2>4. t \in Seq(Cells) /\ Len(t) = Len(w) - 1 /\ \A i \in 1 .. Len(t) : t[i] = w[i + 1]
    BY <1>3, <2>2, <2>3, HeadTailProperties
  <2>5. Len(b) + 1 - k = Len(t) /\ Len(b) \in Nat
    BY <1>1, <1>3, <1>6, <2>4
  <2>6. ASSUME NEW a \in 1 .. Len(t) PROVE t[a] = IF a + k = Len(b) + 1 THEN np ELSE b[a + k]
    <3>1. a + 1 \in 1 .. Len(b) + 1 /\ a + k = a + 1
      BY <1>6, <2>5
    <3> QED
      BY <1>4, <2>4, <3>1
  <2> QED
    BY <1>1, <2>1, <2>3, <2>4, <2>5, <2>6
<1> QED
  BY <1>5, <1>6

\* A snake that steps on a free cell keeps its length and, steered, its one piece.
LEMMA StepIsRight ==
  ASSUME NEW s \in Records, Once(s), s.body # <<>>, NEW e \in Nat, NEW ch, Right(s, e, ch),
         NEW np \in Cells, np = Plus(Head1(s), s.direction),
         \A a \in 1 .. Len(s.body) : s.body[a] # np,
         NEW k \in {0, 1}, NEW x \in Nat, NEW f,
         Len(s.body) + 1 - k + x = NewLength + 2 * f,
         NEW r, r = [body |-> Steps(s, np, k), direction |-> s.direction, extend_size |-> x]
  PROVE  r \in Records /\ Once(r) /\ Right(r, f, ch)
<1>1. PICK b \in Seq(Cells) : b = s.body
  BY RecordFields
<1>2. PICK n \in Nat : n = Len(b)
  OBVIOUS
<1>3. PICK w \in Seq(Cells) : w = r.body
  BY StepCells
<1>4. /\ Len(w) = n + 1 - k
      /\ \A a \in 1 .. n + 1 - k : w[a] = IF a + k = n + 1 THEN np ELSE b[a + k]
  <2>1. w = Steps(s, np, k)
    BY <1>3
  <2>2. /\ Len(Steps(s, np, k)) = Len(s.body) + 1 - k
        /\ \A a \in 1 .. Len(s.body) + 1 - k :
             Steps(s, np, k)[a] = IF a + k = Len(s.body) + 1 THEN np ELSE s.body[a + k]
    BY StepCells
  <2>3. Len(s.body) = n
    BY <1>1, <1>2
  <2> QED
    BY ONLY <1>1, <2>1, <2>2, <2>3
<1>5. r \in Records /\ r.direction = s.direction /\ r.extend_size = x
  <2>1. s.direction \in Int \X Int
    BY RecordFields
  <2>2. r = [body |-> w, direction |-> s.direction, extend_size |-> x]
    BY <1>3
  <2> QED
    BY <2>1, <2>2 DEF Records
<1>6. \A a \in 1 .. n + 1 - k : a + k \in 1 .. n + 1 /\ (a + k # n + 1 => a + k \in 1 .. n)
  BY <1>2
<1>7. \A a \in 1 .. n : b[a] # np
  BY <1>1, <1>2
<1>8. Once(r)
  <2> SUFFICES ASSUME NEW a \in 1 .. n + 1 - k, NEW c \in 1 .. n + 1 - k, w[a] = w[c]
               PROVE  a = c
    BY <1>3, <1>4 DEF Once
  <2>1. \A i, j \in 1 .. n : b[i] = b[j] => i = j
    BY <1>1, <1>2 DEF Once
  <2>2. CASE a + k = n + 1 /\ c + k = n + 1
    BY <1>2, <2>2
  <2>3. CASE a + k # n + 1 /\ c + k # n + 1
    <3>1. a + k = c + k
      BY <1>4, <1>6, <2>1, <2>3
    <3> QED
      BY <3>1
  <2>4. CASE a + k = n + 1 /\ c + k # n + 1
    BY <1>4, <1>6, <1>7, <2>4
  <2>5. CASE a + k # n + 1 /\ c + k = n + 1
    BY <1>4, <1>6, <1>7, <2>5
  <2> QED
    BY <2>2, <2>3, <2>4, <2>5
<1>9. ASSUME ch \in Steady PROVE Straight(r)
  <2>1. PICK d \in 1 .. 4 : s.direction = DIRS[d]
    BY <1>9 DEF Right, Straight
  <2>2. \A a \in 1 .. n - 1 : \E g \in 1 .. 4 : b[a + 1] = Plus(b[a], DIRS[g])
    BY <1>1, <1>2, <1>9 DEF Right, Straight
  <2>3. np = Plus(b[n], DIRS[d])
    BY <1>1, <1>2, <2>1 DEF Head1
  <2>4. n # 0
    BY <1>1, <1>2
  <2>5. ASSUME NEW a \in 1 .. n - k PROVE \E g \in 1 .. 4 : w[a + 1] = Plus(w[a], DIRS[g])
    <3>1. /\ a \in 1 .. n + 1 - k /\ a + 1 \in 1 .. n + 1 - k /\ a + k \in 1 .. n
          /\ (a + 1) + k = (a + k) + 1
      BY <1>2
    <3>2. w[a] = b[a + k]
      <4>1. a + k # n + 1
        BY <1>2, <3>1
      <4> QED
        BY <1>4, <3>1, <4>1
    <3>3. CASE a + k = n
      BY <1>2, <1>4, <2>3, <3>1, <3>2, <3>3
    <3>4. CASE a + k # n
      <4>1. a + k \in 1 .. n - 1 /\ (a + 1) + k # n + 1
        BY <1>2, <3>1, <3>4
      <4>2. w[a + 1] = b[(a + k) + 1]
        BY <1>4, <3>1, <4>1
      <4> QED
        BY <2>2, <3>2, <4>1, <4>2
    <3> QED
      BY <3>3, <3>4
  <2>6. Len(w) - 1 = n - k
    BY <1>2, <1>4
  <2> QED
    BY <1>3, <1>5, <2>1, <2>5, <2>6 DEF Straight
<1>10. Len(r.body) + r.extend_size = NewLength + 2 * f
  BY <1>1, <1>2, <1>3, <1>4, <1>5
<1> QED
  BY <1>5, <1>8, <1>9, <1>10 DEF Right

\* The snake s after a step on np: the last k cells gone and y still to grow.
Walker(s, np, k, y) == [body |-> Steps(s, np, k), direction |-> s.direction, extend_size |-> y]

\* What move() makes of the snakes: x is the growth left when the head has moved.
Outcome(ss, as, i, np, m, x, y, k) ==
  /\ (np \in as /\ x = ss[i].extend_size + 2) \/ (np \notin as /\ x = ss[i].extend_size)
  /\ (k = 0 /\ x = y + 1) \/ (k = 1 /\ x = 0 /\ y = 0)
  /\ m.snakes = Put(ss, i, Walker(ss[i], np, k, y))
  /\ \/ /\ np \in as
        /\ m.apples \in WithApples(Put(ss, i, Walker(ss[i], np, 0, x)), as \ {np}, 1)
     \/ np \notin as /\ m.apples = as
LEMMA MovedForm ==
  ASSUME NEW ss \in Seq(Records), NEW as, NEW i \in 1 .. Len(ss), NEW np \in Cells,
         NEW m \in Moved(ss, as, i, np)
  PROVE  \E x \in Nat, y \in Nat, k \in {0, 1} : Outcome(ss, as, i, np, m, x, y, k)
<1>1. PICK s \in Records : s = ss[i]
  BY SnakeFields
<1>2. PICK g \in {0, 2} : g = IF np \in as THEN 2 ELSE 0
  OBVIOUS
<1>3. s.extend_size \in Nat
  BY RecordFields
<1>4. PICK x \in Nat : x = s.extend_size + g
  BY <1>3
<1>5. PICK l : l = Longer(s, np, g)
  OBVIOUS
<1>6. l = Walker(s, np, 0, x)
  BY <1>4, <1>5 DEF Longer, Walker, Steps, Records
<1>7. PICK a \in IF np \in as THEN WithApples(Put(ss, i, l), as \ {np}, 1) ELSE {as} :
         m = [snakes |-> Put(ss, i, Followed(l)), apples |-> a]
  BY <1>1, <1>2, <1>5 DEF Moved, Put
<1>8. /\ m.snakes = Put(ss, i, Followed(l)) /\ m.apples = a
      /\ np \in as => a \in WithApples(Put(ss, i, l), as \ {np}, 1)
      /\ np \notin as => a = as
  BY <1>7
<1>9. (np \in as /\ x = s.extend_size + 2) \/ (np \notin as /\ x = s.extend_size)
  <2>1. CASE np \in as
    BY <1>2, <1>4, <2>1
  <2>2. CASE np \notin as
    <3>1. PICK h \in Nat : h = s.extend_size
      BY <1>3
    <3>2. g = 0 /\ x = h + g
      BY <1>2, <1>4, <2>2, <3>1
    <3>3. x = h
      BY <3>2
    <3> QED
      BY <2>2, <3>1, <3>3
  <2> QED
    BY <2>1, <2>2
<1>10. l.extend_size = x /\ l.body = Steps(s, np, 0)
  BY <1>6 DEF Walker
<1>11. PICK y \in Nat, k \in {0, 1} :
          /\ (k = 0 /\ x = y + 1) \/ (k = 1 /\ x = 0 /\ y = 0)
          /\ Followed(l) = Walker(s, np, k, y)
  <2>1. CASE x > 0
    <3>1. PICK y \in Nat : y = x - 1
      BY <2>1
    <3>2. Followed(l) = [l EXCEPT !.extend_size = @ - 1]
      BY <1>10, <2>1 DEF Followed
    <3>3. [l EXCEPT !.extend_size = @ - 1] = Walker(s, np, 0, y)
      BY <1>6, <1>10, <3>1 DEF Walker
    <3>4. x = y + 1
      BY <3>1
    <3> QED
      BY <3>2, <3>3, <3>4
  <2>2. CASE x = 0
    <3>1. Followed(l) = [l EXCEPT !.body = Tail(@)]
      BY <1>10, <2>2 DEF Followed
    <3>2. Steps(s, np, 1) = Tail(Steps(s, np, 0))
      BY DEF Steps
    <3>3. [l EXCEPT !.body = Tail(@)] = Walker(s, np, 1, 0)
      <4>1. PICK w, t : w = Steps(s, np, 0) /\ t = Tail(w)
        OBVIOUS
      <4>2. l = [body |-> w, direction |-> s.direction, extend_size |-> 0]
        BY <1>6, <2>2, <4>1 DEF Walker
      <4>3. [l EXCEPT !.body = t] = [body |-> t, direction |-> s.direction, extend_size |-> 0]
        BY <4>2
      <4> QED
        BY <1>10, <3>2, <4>1, <4>3 DEF Walker
    <3> QED
      BY <2>2, <3>1, <3>3
  <2> QED
    BY <2>1, <2>2
<1>12. \/ /\ np \in as
          /\ m.apples \in WithApples(Put(ss, i, Walker(s, np, 0, x)), as \ {np}, 1)
       \/ np \notin as /\ m.apples = as
  BY <1>6, <1>8
<1>13. m.snakes = Put(ss, i, Walker(s, np, k, y))
  BY <1>8, <1>11
<1> QED
  BY <1>1, <1>9, <1>11, <1>12, <1>13 DEF Outcome

\* The cells of a snake after a step are its own from before and the new one.
LEMMA WalkerCells ==
  ASSUME NEW s \in Records, NEW np \in Cells, NEW k \in {0, 1}, NEW y \in Nat,
         NEW a \in 1 .. Len(Walker(s, np, k, y).body)
  PROVE  \/ Walker(s, np, k, y).body[a] = np
         \/ \E c \in 1 .. Len(s.body) : Walker(s, np, k, y).body[a] = s.body[c]
<1>1. PICK n \in Nat : n = Len(s.body)
  BY RecordFields
<1>2. Walker(s, np, k, y).body = Steps(s, np, k)
  BY DEF Walker
<1>3. PICK w \in Seq(Cells) : w = Steps(s, np, k)
  BY StepCells
<1>4. /\ Len(w) = n + 1 - k
      /\ \A c \in 1 .. n + 1 - k : w[c] = IF c + k = n + 1 THEN np ELSE s.body[c + k]
  <2>1. /\ Len(Steps(s, np, k)) = Len(s.body) + 1 - k
        /\ \A c \in 1 .. Len(s.body) + 1 - k :
             Steps(s, np, k)[c] = IF c + k = Len(s.body) + 1 THEN np ELSE s.body[c + k]
    BY StepCells
  <2> QED
    BY <1>1, <1>3, <2>1
<1>5. a \in 1 .. n + 1 - k
  BY <1>2, <1>3, <1>4
<1>6. a + k # n + 1 => a + k \in 1 .. n
  BY <1>1, <1>5
<1>7. CASE a + k = n + 1
  BY <1>2, <1>3, <1>4, <1>5, <1>7
<1>8. CASE a + k # n + 1
  <2>1. w[a] = s.body[a + k]
    BY <1>4, <1>5, <1>8
  <2> QED
    BY <1>1, <1>2, <1>3, <1>6, <1>8, <2>1
<1> QED
  BY <1>7, <1>8

\* A snake that has taken its step holds its new cell, and, while its tail is
\* still there, all its old ones.
LEMMA WalkerHolds ==
  ASSUME NEW s \in Records, NEW np \in Cells, NEW x \in Nat
  PROVE  Walker(s, np, 0, x) \in Records /\ {np} \cup Body(s) \subseteq Body(Walker(s, np, 0, x))
<1>1. PICK b \in Seq(Cells) : b = s.body
  BY RecordFields
<1>2. PICK w : w = Append(b, np)
  OBVIOUS
<1>3. Walker(s, np, 0, x) = [body |-> w, direction |-> s.direction, extend_size |-> x]
  BY <1>1, <1>2 DEF Walker, Steps
<1>4. /\ w \in Seq(Cells) /\ Len(w) = Len(b) + 1 /\ w[Len(b) + 1] = np
      /\ \A i \in 1 .. Len(b) : w[i] = b[i]
  BY <1>2, Appended
<1>5. Len(b) + 1 \in 1 .. Len(w) /\ \A c \in 1 .. Len(b) : c \in 1 .. Len(w)
  BY <1>4
<1>6. Walker(s, np, 0, x) \in Records
  <2>1. s.direction \in Int \X Int
    BY RecordFields
  <2> QED
    BY <1>3, <1>4, <2>1 DEF Records
<1>7. Walker(s, np, 0, x).body = w
  BY <1>3
<1> QED
  BY <1>1, <1>4, <1>5, <1>6, <1>7 DEF Body

\* A snake that steps on a free cell stays apart from the others, and the
\* apple it eats comes back on a free cell.
Kept(ss, as, i, f, ch, m) ==
  /\ m.snakes \in Seq(Records) /\ Len(m.snakes) = Len(ss)
  /\ \A j \in 1 .. Len(ss) : j # i => m.snakes[j] = ss[j]
  /\ Right(m.snakes[i], f, ch) /\ Apart(m.snakes)
  /\ m.apples \subseteq Cells /\ Cardinality(m.apples) = Cardinality(as)
  /\ Clear(m.snakes, m.apples)
LEMMA MovedIsRight ==
  ASSUME NEW ss \in Seq(Records), Apart(ss), NEW as, as \subseteq Cells, Clear(ss, as),
         NEW i \in 1 .. Len(ss), ss[i].body # <<>>, NEW e \in Nat, NEW ch, Right(ss[i], e, ch),
         NEW np \in Cells, np = Plus(Head1(ss[i]), ss[i].direction), np \notin Taken(ss),
         NEW m \in Moved(ss, as, i, np), NEW f \in Nat,
         (np \in as /\ f = e + 1) \/ (np \notin as /\ f = e)
  PROVE  Kept(ss, as, i, f, ch, m)
<1>1. PICK s \in Records : s = ss[i]
  BY SnakeFields
<1>2. PICK x \in Nat, y \in Nat, k \in {0, 1} : Outcome(ss, as, i, np, m, x, y, k)
  BY MovedForm
<1>12. /\ (np \in as /\ x = s.extend_size + 2) \/ (np \notin as /\ x = s.extend_size)
       /\ (k = 0 /\ x = y + 1) \/ (k = 1 /\ x = 0 /\ y = 0)
       /\ m.snakes = Put(ss, i, Walker(s, np, k, y))
       /\ \/ /\ np \in as
             /\ m.apples \in WithApples(Put(ss, i, Walker(s, np, 0, x)), as \ {np}, 1)
          \/ np \notin as /\ m.apples = as
  BY <1>1, <1>2 DEF Outcome
<1>3. PICK r : r = Walker(s, np, k, y)
  OBVIOUS
<1>4. \A j \in 1 .. Len(ss) : \A a \in 1 .. Len(ss[j].body) : ss[j].body[a] # np
  BY TakenCells
<1>5. r \in Records /\ Once(r) /\ Right(r, f, ch)
  <2>1. PICK n \in Nat, h \in Nat : n = Len(s.body) /\ h = s.extend_size
    BY RecordFields
  <2>2. n + h = NewLength + 2 * e
    BY <1>1, <2>1 DEF Right
  <2>3. (x = h + 2 /\ f = e + 1) \/ (x = h /\ f = e)
    BY <1>12, <2>1
  <2>4. NewLength \in Nat
    BY GameAssumption
  <2>5. n + x = NewLength + 2 * f
    BY <2>2, <2>3, <2>4
  <2>6. n + 1 - k + y = NewLength + 2 * f
    BY <1>12, <2>4, <2>5
  <2>7. Once(s) /\ s.body # <<>> /\ Right(s, e, ch) /\ np = Plus(Head1(s), s.direction)
    BY <1>1 DEF Apart
  <2>8. \A a \in 1 .. Len(s.body) : s.body[a] # np
    BY <1>1, <1>4
  <2> QED
    BY <1>3, <2>1, <2>6, <2>7, <2>8, StepIsRight DEF Walker
<1>6. ASSUME NEW j \in 1 .. Len(ss), j # i PROVE Disjoint(r, ss[j])
  <2>1. Disjoint(s, ss[j])
    BY <1>1, <1>6 DEF Apart
  <2>2. \A a \in 1 .. Len(r.body) : r.body[a] = np \/ \E c \in 1 .. Len(s.body) : r.body[a] = s.body[c]
    BY <1>3, WalkerCells
  <2> QED
    BY <1>4, <2>1, <2>2 DEF Disjoint
<1>7. PICK tt : tt = m.snakes
  OBVIOUS
<1>8. /\ tt \in Seq(Records) /\ Len(tt) = Len(ss) /\ tt[i] = r
      /\ \A j \in 1 .. Len(ss) : j # i => tt[j] = ss[j]
      /\ Apart(tt)
  <2>1. r \in Records /\ Once(r)
    BY <1>5
  <2>2. tt = Put(ss, i, r)
    BY <1>12, <1>3, <1>7
  <2>3. \A j \in 1 .. Len(ss) : j # i => Disjoint(r, ss[j])
    BY <1>6
  <2>4. ss \in Seq(Records) /\ Apart(ss) /\ i \in 1 .. Len(ss)
    OBVIOUS
  <2> QED
    BY <2>1, <2>2, <2>3, <2>4, Replaced
<1>9. ASSUME NEW q \in {0, 1}, NEW z \in Nat, NEW cs, np \notin cs, NEW uu,
             uu = Put(ss, i, Walker(s, np, q, z)),
             \A j \in 1 .. Len(ss) : \A a \in 1 .. Len(ss[j].body) : ss[j].body[a] \notin cs
      PROVE  Clear(uu, cs)
  <2>1. /\ Len(uu) = Len(ss) /\ uu[i] = Walker(s, np, q, z)
        /\ \A j \in 1 .. Len(ss) : j # i => uu[j] = ss[j]
    BY <1>9 DEF Put
  <2> SUFFICES ASSUME NEW j \in 1 .. Len(ss), NEW a \in 1 .. Len(uu[j].body)
               PROVE  uu[j].body[a] \notin cs
    BY <2>1 DEF Clear
  <2>2. CASE j # i
    BY <1>9, <2>1, <2>2
  <2>3. CASE j = i
    <3>1. uu[j].body[a] = np \/ \E c \in 1 .. Len(s.body) : uu[j].body[a] = s.body[c]
      BY <2>1, <2>3, WalkerCells
    <3>2. \A c \in 1 .. Len(s.body) : s.body[c] \notin cs
      BY <1>1, <1>9
    <3> QED
      BY <1>9, <3>1, <3>2
  <2> QED
    BY <2>2, <2>3
<1>10. PICK bs : bs = m.apples
  OBVIOUS
<1>11. bs \subseteq Cells /\ Cardinality(bs) = Cardinality(as) /\ Clear(tt, bs)
  <2>1. CASE np \notin as
    <3>1. bs = as
      BY <1>12, <1>10, <2>1
    <3>2. Clear(tt, as)
      BY <1>12, <1>7, <1>9, <2>1 DEF Clear
    <3> QED
      BY <3>1, <3>2
  <2>2. CASE np \in as
    <3>1. PICK cs : cs = as \ {np}
      OBVIOUS
    <3>2. PICK uu : uu = Put(ss, i, Walker(s, np, 0, x))
      OBVIOUS
    <3>3. bs \in WithApples(uu, cs, 1)
      BY <1>12, <1>10, <2>2, <3>1, <3>2
    <3>4. cs \subseteq Cells /\ Clear(uu, cs)
      <4>1. \A j \in 1 .. Len(ss) : \A a \in 1 .. Len(ss[j].body) : ss[j].body[a] \notin cs
        BY <3>1 DEF Clear
      <4> QED
        BY <1>9, <3>1, <3>2, <4>1
    <3>5. /\ uu \in Seq(Records) /\ Len(uu) = Len(ss) /\ uu[i] = Walker(s, np, 0, x)
          /\ \A j \in 1 .. Len(ss) : j # i => uu[j] = ss[j]
      <4>1. Walker(s, np, 0, x) \in Records
        BY WalkerHolds
      <4> QED
        BY <3>2, <4>1 DEF Put
    <3>6. bs \subseteq Cells /\ Cardinality(bs) = Cardinality(cs) + 1 /\ Clear(uu, bs)
      BY <3>3, <3>4, <3>5, ApplesAdded
    <3>7. Cardinality(cs) + 1 = Cardinality(as)
      <4>1. IsFiniteSet(as)
        BY CellsAreFinite, FS_Subset
      <4>2. PICK n \in Nat : n = Cardinality(as)
        BY <4>1, FS_CardinalityType
      <4>3. Cardinality(cs) = n - 1
        BY <2>2, <3>1, <4>1, <4>2, FS_RemoveElement
      <4>4. n - 1 + 1 = n
        OBVIOUS
      <4> QED
        BY <4>2, <4>3, <4>4
    <3>8. \A c \in Body(Walker(s, np, 0, x)) : c \notin bs
      <4>1. PICK w \in Records : w = Walker(s, np, 0, x)
        BY WalkerHolds
      <4>2. \A a \in 1 .. Len(w.body) : w.body[a] \notin bs
        BY <3>5, <3>6, <4>1 DEF Clear
      <4> QED
        BY <4>1, <4>2, RecordFields DEF Body
    <3>9. np \notin bs /\ \A c \in 1 .. Len(s.body) : s.body[c] \notin bs
      <4>1. {np} \cup Body(s) \subseteq Body(Walker(s, np, 0, x))
        BY WalkerHolds
      <4>2. \A c \in 1 .. Len(s.body) : s.body[c] \in Body(s)
        BY RecordFields DEF Body
      <4> QED
        BY <3>8, <4>1, <4>2
    <3>10. \A j \in 1 .. Len(ss) : \A a \in 1 .. Len(ss[j].body) : ss[j].body[a] \notin bs
      <4> SUFFICES ASSUME NEW j \in 1 .. Len(ss), NEW a \in 1 .. Len(ss[j].body)
                   PROVE  ss[j].body[a] \notin bs
        OBVIOUS
      <4>1. CASE j # i
        BY <3>5, <3>6, <4>1 DEF Clear
      <4>2. CASE j = i
        BY <1>1, <3>9, <4>2
      <4> QED
        BY <4>1, <4>2
    <3>11. Clear(tt, bs)
      BY <1>12, <1>7, <1>9, <3>9, <3>10
    <3> QED
      BY <3>6, <3>7, <3>11
  <2> QED
    BY <2>1, <2>2
<1> QED
  BY <1>5, <1>7, <1>8, <1>10, <1>11 DEF Kept

\* A snake moves, hits something, or has no cells.
LEMMA MoveStep ==
  ASSUME GameInv, Move
  PROVE  GameInv'
<1>1. /\ snakes \in Seq(Records) /\ Apart(snakes) /\ Clear(snakes, apples) /\ apples \subseteq Cells
      /\ Len(snakes) \in Nat /\ turn \in Nat \ {0} /\ turn <= Len(snakes) /\ pc = "move"
      /\ eaten \in Seq(Nat) /\ Len(eaten) = Len(snakes)
      /\ UNCHANGED <<clientTable, channelTable>>
  BY DEF GameInv, GameTyped, TablesAgree, Move
<1>2. PICK i \in 1 .. Len(snakes) : i = turn
  BY <1>1
<1>3. PICK np : np = Plus(Head1(snakes[i]), snakes[i].direction)
  OBVIOUS
<1>4. \/ pc' = "dead" /\ UNCHANGED <<turn, snakes, apples, stopped, eaten>>
      \/ pc' = "send" /\ UNCHANGED <<turn, snakes, apples, eaten>>
      \/ /\ snakes[i].body # <<>> /\ np \notin Taken(snakes) /\ np \in Cells
         /\ \E m \in Moved(snakes, apples, i, np) : snakes' = m.snakes /\ apples' = m.apples
         /\ eaten' = IF np \in apples THEN [eaten EXCEPT ![i] = @ + 1] ELSE eaten
         /\ turn' = turn + 1 /\ UNCHANGED pc
  BY <1>2, <1>3 DEF Move
<1>5. CASE pc' \in {"dead", "send"} /\ UNCHANGED <<turn, snakes, apples, eaten>>
  <2>1. SnakesRight' /\ TablesAgree' /\ Apart(snakes') /\ Clear(snakes', apples')
    BY <1>1, <1>5 DEF GameInv, TablesAgree, SnakesRight
  <2>2. GameTyped' /\ Counted'
    BY <1>1, <1>5 DEF GameInv, GameTyped, Counted
  <2> QED
    BY <2>1, <2>2 DEF GameInv
<1>6. CASE /\ snakes[i].body # <<>> /\ np \notin Taken(snakes) /\ np \in Cells
           /\ \E m \in Moved(snakes, apples, i, np) : snakes' = m.snakes /\ apples' = m.apples
           /\ eaten' = IF np \in apples THEN [eaten EXCEPT ![i] = @ + 1] ELSE eaten
           /\ turn' = turn + 1 /\ UNCHANGED pc
  <2>1. PICK m \in Moved(snakes, apples, i, np) : snakes' = m.snakes /\ apples' = m.apples
    BY <1>6
  <2>2. PICK e \in Nat : e = eaten[i]
    BY <1>1
  <2>3. PICK f \in Nat : (np \in apples /\ f = e + 1) \/ (np \notin apples /\ f = e)
    BY <2>2
  <2>10. PICK ch : ch = channelTable[i]
    OBVIOUS
  <2>4. Right(snakes[i], e, ch)
    BY <2>2, <2>10 DEF GameInv, SnakesRight
  <2>5. /\ m.snakes \in Seq(Records) /\ Len(m.snakes) = Len(snakes)
        /\ \A j \in 1 .. Len(snakes) : j # i => m.snakes[j] = snakes[j]
        /\ Right(m.snakes[i], f, ch) /\ Apart(m.snakes)
        /\ m.apples \subseteq Cells /\ Cardinality(m.apples) = Cardinality(apples)
        /\ Clear(m.snakes, m.apples)
    <3>1. PICK ss \in Seq(Records), as \in {apples} : ss = snakes
      BY <1>1
    <3>2. /\ Apart(ss) /\ as \subseteq Cells /\ Clear(ss, as) /\ i \in 1 .. Len(ss)
          /\ ss[i].body # <<>> /\ Right(ss[i], e, ch) /\ np \in Cells
          /\ np = Plus(Head1(ss[i]), ss[i].direction) /\ np \notin Taken(ss)
          /\ m \in Moved(ss, as, i, np) /\ e \in Nat /\ f \in Nat
          /\ (np \in as /\ f = e + 1) \/ (np \notin as /\ f = e)
      BY <1>1, <1>2, <1>3, <1>6, <2>1, <2>2, <2>3, <2>4, <3>1
    <3>3. Kept(ss, as, i, f, ch, m)
      BY <3>1, <3>2, MovedIsRight
    <3> QED
      BY <3>1, <3>3 DEF Kept
  <2>6. /\ eaten' \in Seq(Nat) /\ Len(eaten') = Len(eaten) /\ eaten'[i] = f
        /\ \A j \in 1 .. Len(snakes) : j # i => eaten'[j] = eaten[j]
    <3>1. eaten' = [eaten EXCEPT ![i] = f]
      <4>1. CASE np \in apples
        BY <1>2, <1>6, <2>2, <2>3, <4>1
      <4>2. CASE np \notin apples
        <5>1. eaten' = eaten /\ f = eaten[i]
          BY <1>6, <2>2, <2>3, <4>2
        <5> QED
          BY <1>1, <1>2, <5>1
      <4> QED
        BY <4>1, <4>2
    <3> QED
      BY <1>1, <1>2, <3>1
  <2>7. SnakesRight'
    BY <1>1, <2>1, <2>5, <2>6, <2>10 DEF GameInv, SnakesRight
  <2>8. GameTyped' /\ TablesAgree' /\ Counted'
    BY <1>1, <1>6, <2>1, <2>5, <2>6 DEF GameInv, GameTyped, TablesAgree, Counted
  <2> QED
    BY <2>1, <2>5, <2>7, <2>8 DEF GameInv
<1> QED
  BY <1>4, <1>5, <1>6

\* The rounds begin, go on and end; the next snake is waited for.
LEMMA RoundStep ==
  ASSUME GameInv, NoMore \/ AllMoved
  PROVE  GameInv'
<1>1. /\ UNCHANGED <<clientTable, channelTable, snakes, apples, eaten>> /\ turn' \in Nat \ {0}
      /\ pc # "reset" /\ pc' \in {"move", "send"}
  BY DEF GameInv, GameTyped, NoMore, AllMoved
<1>2. GameTyped' /\ Counted'
  BY <1>1 DEF GameInv, GameTyped, Counted
<1>3. TablesAgree' /\ SnakesRight'
  BY <1>1 DEF GameInv, TablesAgree, SnakesRight
<1> QED
  BY <1>1, <1>2, <1>3 DEF GameInv

\* The game begins without snakes.
LEMMA NewGameIsRight == NewGame => GameInv
<1> SUFFICES ASSUME NewGame PROVE GameInv
  OBVIOUS
<1>1. PICK ss \in Seq(Records) : ss = <<>>
  <2>1. <<>> \in Seq(Records)
    OBVIOUS
  <2> QED
    BY <2>1
<1>2. Len(ss) = 0 /\ snakes = ss /\ Len(snakes) = 0
  BY <1>1 DEF NewGame
<1>3. apples \in WithApples(ss, {}, NB_APPLES) /\ NB_APPLES \in Nat
  BY <1>1, GameAssumption DEF NewGame
<1>4. apples \subseteq Cells /\ Cardinality(apples) = Cardinality({}) + NB_APPLES /\ Clear(ss, apples)
  <2>1. Clear(ss, {})
    BY DEF Clear
  <2> QED
    BY <1>3, <2>1, ApplesAdded
<1>5. Counted
  BY <1>3, <1>4, FS_EmptySet DEF NewGame, Counted
<1>6. GameTyped /\ TablesAgree /\ SnakesRight /\ Apart(snakes)
  BY <1>2, <1>4 DEF NewGame, GameTyped, TablesAgree, SnakesRight, Apart
<1> QED
  BY <1>2, <1>4, <1>5, <1>6 DEF GameInv

\* What GameInv says of a state is what SnakesGrowRight says, and more.
LEMMA GameInvSays == GameInv => SnakesGrowRight
<1> SUFFICES ASSUME GameInv PROVE SnakesGrowRight
  OBVIOUS
<1>1. /\ snakes \in Seq(Records) /\ Apart(snakes) /\ Clear(snakes, apples) /\ apples \subseteq Cells
      /\ DOMAIN snakes = 1 .. Len(snakes)
      /\ \A i \in 1 .. Len(snakes) : DOMAIN snakes[i].body = 1 .. Len(snakes[i].body)
  BY SnakeFields, RecordFields DEF GameInv, GameTyped
<1>2. TypeOK
  <2>1. ASSUME NEW i \in 1 .. Len(snakes) PROVE Body(snakes[i]) \subseteq Cells
    BY <1>1, SnakeFields, RecordFields DEF Body
  <2> QED
    BY <1>1, <2>1 DEF TypeOK, GameInv, Counted
<1>3. BodiesApart
  <2>1. apples \cap Taken(snakes) = {}
    BY <1>1, TakenCells DEF Clear
  <2>2. ASSUME NEW i \in 1 .. Len(snakes), NEW j \in 1 .. Len(snakes),
               NEW a \in 1 .. Len(snakes[i].body), NEW b \in 1 .. Len(snakes[j].body),
               snakes[i].body[a] = snakes[j].body[b]
        PROVE  i = j /\ a = b
    BY <1>1, <2>2 DEF Apart, Once, Disjoint
  <2>3. ASSUME NEW i \in DOMAIN snakes, NEW j \in DOMAIN snakes,
               NEW a \in DOMAIN snakes[i].body, NEW b \in DOMAIN snakes[j].body,
               snakes[i].body[a] = snakes[j].body[b]
        PROVE  i = j /\ a = b
    <3>1. i \in 1 .. Len(snakes) /\ j \in 1 .. Len(snakes)
      BY <1>1
    <3>2. a \in 1 .. Len(snakes[i].body) /\ b \in 1 .. Len(snakes[j].body)
      BY <1>1, <3>1
    <3> QED
      BY <2>2, <2>3, <3>1, <3>2
  <2> QED
    BY <2>1, <2>3 DEF BodiesApart
<1>4. OnePiece
  BY <1>1 DEF OnePiece, GameInv, SnakesRight, Right, Straight
<1>5. ClientsAgree
  <2>1. DOMAIN channelTable = 1 .. Len(channelTable)
    BY DEF GameInv, GameTyped
  <2> QED
    BY <2>1 DEF ClientsAgree, GameInv, TablesAgree
<1> QED
  BY <1>2, <1>3, <1>4, <1>5 DEF SnakesGrowRight

\* Whatever the players send, bytes that are no directions too, the snakes of
\* the server never overlap, have the length their apples make and belong to the
\* channels that steer them, on every board: move(), new_snake() and
\* process_incoming() keep it so.  The snake of a player in Steady, who sends
\* valid directions only, is in one piece as well.
THEOREM SnakesCorrect == Game => []SnakesGrowRight
<1>1. NewGame => GameInv
  BY NewGameIsRight
<1>2. GameInv /\ [Play]_game => GameInv'
  <2> SUFFICES ASSUME GameInv, [Play]_game PROVE GameInv'
    OBVIOUS
  <2>1. CASE \E ch \in Players : \E d \in {<<>>} \cup Directions(ch) : Receive(ch, d)
    BY <2>1, ReceiveStep
  <2>2. CASE NoMore \/ AllMoved
    BY <2>2, RoundStep
  <2>3. CASE Move
    BY <2>3, MoveStep
  <2>4. CASE Send
    BY <2>4, SendStep
  <2>5. CASE Reset
    BY <2>5, ResetStep
  <2>6. CASE AddApples
    BY <2>6, AddApplesStep
  <2>7. CASE UNCHANGED game
    BY <2>7 DEF game, GameInv, GameTyped, TablesAgree, SnakesRight, Counted
  <2> QED
    BY <2>1, <2>2, <2>3, <2>4, <2>5, <2>6, <2>7 DEF Play
<1>3. GameInv => SnakesGrowRight
  BY GameInvSays
<1> QED
  BY <1>1, <1>2, <1>3, PTL DEF Game
=============================================================================
