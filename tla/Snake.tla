------------------------------- MODULE Snake -------------------------------
(***************************************************************************)
(* The snake server, a program of its own on the kernel: it takes all the  *)
(* datagrams that wait at its UDP port, moves every snake by a cell, sends *)
(* the game to all clients and sleeps.  A datagram from a new channel, an  *)
(* address and a port, makes a client with a snake.                        *)
(* The board and the length of a new snake are parameters; of the bytes of *)
(* a datagram the model has what they steer by, colours are left out.      *)
(* Names are chosen so that a module can extend both Snake and Ushd.       *)
(***************************************************************************)
EXTENDS Integers, Sequences, FiniteSets

CONSTANTS WIDTH, HEIGHT,   \* the board: 30 and 30
          NewLength,       \* w, the cells a new snake is given: 8
          NB_APPLES,       \* 3
          Players,         \* the channels datagrams come from
          Steady,          \* those that only send the directions 0 to 3
          Behind,          \* what can be read as a direction behind the four
          MaxEaten         \* a bound on the apples eaten between two resets
ASSUME GameAssumption ==
  WIDTH \in Nat /\ HEIGHT \in Nat /\ NewLength \in Nat /\ NB_APPLES \in Nat
  /\ Behind \subseteq Int \X Int

VARIABLES clientTable,     \* the numbers of the clients by channel, a hash table
          channelTable,    \* the channels by number
          snakes,          \* by number: [body, direction, extend_size], head last
          apples,
          stopped,
          pc,              \* where run() is; "dead" after an exception
          turn,            \* the snake the loop of move() is at
          eaten            \* apples eaten by each snake since it was made

game == <<clientTable, channelTable, snakes, apples, stopped, pc, turn, eaten>>

DIRS == <<<<0, 1>>, <<1, 0>>, <<-1, 0>>, <<0, -1>>>>
Valid == {DIRS[d] : d \in 1..4}
Cells == (0..(WIDTH - 1)) \X (0..(HEIGHT - 1))
Body(s) == {s.body[i] : i \in DOMAIN s.body}
Taken(ss) == UNION {Body(ss[i]) : i \in DOMAIN ss}
Head1_Tail(s) == s.body[1]                            \* mutant: the snake moves at its tail
Head1(s) == s.body[Len(s.body)]
Plus(p, d) == <<p[1] + d[1], p[2] + d[2]>>

(* new_snake(): a free row of cells, by a hundred random tries, which may    *)
(* all fail: then the snake stays without cells.                            *)
Row(x, y) == [i \in 1..NewLength |-> <<x + i - 1, y>>]
AllRows == {Row(x, y) : x \in 0..(WIDTH - NewLength - 1), y \in 0..(HEIGHT - 1)}
Rows(ss, as) == {r \in AllRows : \A i \in 1..NewLength : r[i] \notin Taken(ss) \cup as}
Cleared(ss, id) == [ss EXCEPT ![id].body = <<>>]
NewSnakes(ss, as, id) ==
  {Cleared(ss, id)} \cup
  {[ss EXCEPT ![id] = [body |-> r, direction |-> DIRS[2], extend_size |-> 0]] :
     r \in Rows(Cleared(ss, id), as)}

(* add_apple() tries until it finds a free cell. *)
WithApples(ss, as, n) ==
  {as \cup a : a \in {b \in SUBSET (Cells \ (Taken(ss) \cup as)) : Cardinality(b) = n}}

(* move() for snake i: the head moves on, an apple that it eats comes back   *)
(* elsewhere, and the tail follows unless the snake has to grow.            *)
Longer(s, np, growth) == [s EXCEPT !.body = Append(@, np), !.extend_size = @ + growth]
Followed(s) == IF s.extend_size > 0 THEN [s EXCEPT !.extend_size = @ - 1]
               ELSE [s EXCEPT !.body = Tail(@)]
Moved(ss, as, i, np) ==
  LET longer == Longer(ss[i], np, IF np \in as THEN 2 ELSE 0)
  IN {[snakes |-> [ss EXCEPT ![i] = Followed(longer)], apples |-> a] :
        a \in IF np \in as THEN WithApples([ss EXCEPT ![i] = longer], as \ {np}, 1) ELSE {as}}

-----------------------------------------------------------------------------
NewGame ==
  /\ clientTable = [c \in {} |-> 0] /\ channelTable = <<>> /\ snakes = <<>>
  /\ stopped = FALSE /\ pc = "incoming" /\ turn = 1 /\ eaten = <<>>
  /\ apples \in WithApples(<<>>, {}, NB_APPLES)

Blank == [body |-> <<>>, direction |-> <<0, 0>>, extend_size |-> 0]

(* The direction is a byte of the datagram, or what is left in the buffer    *)
(* behind a short one, and no bound is tested: from 4 on it reads what lies  *)
(* behind DIRS.                                                              *)
Directions(ch) == IF ch \in Steady THEN Valid ELSE Valid \cup Behind

(* process_incoming(), one datagram: the first of a channel makes its client *)
(* and is then processed like any other.  It steers, or not (d = <<>>).      *)
Registered(ch, id) ==
  [c \in DOMAIN clientTable \cup {ch} |-> IF c = ch THEN id ELSE clientTable[c]]
SetDirection(ss, id, d) == IF d = <<>> THEN ss ELSE [ss EXCEPT ![id].direction = d]
Receive(ch, d) ==
  /\ pc = "incoming"
  /\ IF ch \in DOMAIN clientTable
     THEN /\ snakes' = SetDirection(snakes, clientTable[ch], d)
          /\ UNCHANGED <<clientTable, channelTable, eaten>>
     ELSE LET id == Len(channelTable) + 1 IN
          /\ clientTable' = Registered(ch, id)
          /\ channelTable' = Append(channelTable, ch)
          /\ eaten' = Append(eaten, 0)
          /\ \E ss \in NewSnakes(Append(snakes, Blank), apples, id) : snakes' = SetDirection(ss, id, d)
  /\ UNCHANGED <<apples, stopped, pc, turn>>
NoMore == /\ pc = "incoming" /\ pc' = "move" /\ turn' = 1
          /\ UNCHANGED <<clientTable, channelTable, snakes, apples, stopped, eaten>>

(* move(): one snake.  The first that cannot move ends the loop; one without *)
(* cells makes operator[] of its body throw.                                *)
Move ==
  /\ pc = "move" /\ turn <= Len(snakes)
  /\ LET i == turn
         s == snakes[i]
         np == Plus(Head1(s), s.direction)
     IN IF s.body = <<>> THEN pc' = "dead" /\ UNCHANGED <<turn, snakes, apples, stopped, eaten>>
        ELSE IF np \in Taken(snakes) \/ np \notin Cells
        THEN stopped' = TRUE /\ pc' = "send" /\ UNCHANGED <<turn, snakes, apples, eaten>>
        ELSE /\ np \in apples => eaten[i] < MaxEaten
             /\ \E m \in Moved(snakes, apples, i, np) : snakes' = m.snakes /\ apples' = m.apples
             /\ eaten' = IF np \in apples THEN [eaten EXCEPT ![i] = @ + 1] ELSE eaten
             /\ turn' = i + 1 /\ UNCHANGED <<pc, stopped>>
  /\ UNCHANGED <<clientTable, channelTable>>
AllMoved == /\ pc = "move" /\ turn > Len(snakes) /\ pc' = "send"
            /\ UNCHANGED <<turn, clientTable, channelTable, snakes, apples, stopped, eaten>>

(* send_data(), then reset() after a collision: every snake is made anew,   *)
(* the old ones of the clients behind it still on the board, then the apples. *)
Send ==
  /\ pc = "send" /\ turn' = 1 /\ stopped' = FALSE
  /\ IF stopped THEN pc' = "reset" /\ apples' = {} ELSE pc' = "incoming" /\ UNCHANGED apples
  /\ UNCHANGED <<clientTable, channelTable, snakes, eaten>>
Reset ==
  /\ pc = "reset" /\ turn <= Len(snakes) /\ turn' = turn + 1
  /\ snakes' \in NewSnakes(snakes, apples, turn) /\ eaten' = [eaten EXCEPT ![turn] = 0]
  /\ UNCHANGED <<clientTable, channelTable, apples, stopped, pc>>
AddApples ==
  /\ pc = "reset" /\ turn > Len(snakes) /\ pc' = "incoming" /\ turn' = 1
  /\ apples' \in WithApples(snakes, apples, NB_APPLES)
  /\ UNCHANGED <<clientTable, channelTable, snakes, stopped, eaten>>

Play == \/ \E ch \in Players : \E d \in {<<>>} \cup Directions(ch) : Receive(ch, d)
        \/ NoMore \/ Move \/ AllMoved \/ Send \/ Reset \/ AddApples
Game == NewGame /\ [][Play]_game

-----------------------------------------------------------------------------
TypeOK == /\ apples \subseteq Cells
          /\ Cardinality(apples) = IF pc = "reset" THEN 0 ELSE NB_APPLES
          /\ \A i \in DOMAIN snakes : Body(snakes[i]) \subseteq Cells

(* No two cells of snakes are the same, be they of one snake or two, and no *)
(* apple lies on a snake: the collisions move() tests are all there are,    *)
(* wherever a head jumps.                                                   *)
BodiesApart ==
  /\ \A i, j \in DOMAIN snakes : \A a \in DOMAIN snakes[i].body, b \in DOMAIN snakes[j].body :
       snakes[i].body[a] = snakes[j].body[b] => i = j /\ a = b
  /\ apples \cap Taken(snakes) = {}

(* A snake is as long as it was made and what it has eaten, once the growth *)
(* it still has to do is counted; one whose player sends directions only is *)
(* in one piece.                                                            *)
OnePiece ==
  \A i \in DOMAIN snakes : snakes[i].body # <<>> =>
    /\ Len(snakes[i].body) + snakes[i].extend_size = NewLength + 2 * eaten[i]
    /\ channelTable[i] \in Steady =>
         \A a \in 1..(Len(snakes[i].body) - 1) :
           \E d \in 1..4 : snakes[i].body[a + 1] = Plus(snakes[i].body[a], DIRS[d])

(* A datagram steers the snake of the channel it came from: the two tables  *)
(* are inverse to each other and there is a snake for each client.          *)
ClientsAgree ==
  /\ DOMAIN clientTable = {channelTable[i] : i \in DOMAIN channelTable}
  /\ \A i \in DOMAIN channelTable : clientTable[channelTable[i]] = i
  /\ Len(snakes) = Len(channelTable)

(* The snakes and the tables of the server are as they should be, in a game *)
(* and while a new one is made.                                             *)
SnakesGrowRight == TypeOK /\ BodiesApart /\ OnePiece /\ ClientsAgree

(* The game goes on for the others when there is no room for a player.      *)
ServerLives == pc # "dead"
=============================================================================
