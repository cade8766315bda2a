------------------------------ MODULE ZTokens ------------------------------
(***************************************************************************)
(* The read and tokenise instructions of the Z-machine: a line is read     *)
(* into the text buffer, behind what the story left there, and the         *)
(* Dictionary class cuts it into words and writes, for each, its entry in  *)
(* a dictionary or 0, its length and its place into the parse buffer.      *)
(* Words are parted by spaces; a separator is a word of its own.           *)
(* Every word of the instances fits the nine Z-characters of an entry.     *)
(***************************************************************************)
EXTENDS Integers, Sequences, SequencesExt

CONSTANTS Typed,         \* the characters a player types before the end of a line
          Separators,
          Dictionaries,  \* a sequence of dictionaries, each a sequence of words
          MaxChars,      \* byte 0 of the text buffer
          MaxWords       \* byte 0 of the parse buffer

VARIABLES text,          \* the text buffer: its characters, byte 1 being their number
          parse,         \* the parse buffer: MaxWords entries
          words,         \* its byte 1: the entries written
          reading,       \* inside the loop of the read instruction
          used           \* the dictionaries used since the line was read

vars == <<text, parse, words, reading, used>>

Z == INSTANCE ZText WITH Chars <- {}, Abbreviations <- <<>>, MaxLen <- 0, text <- text

(* search(): the address of the first entry that is the encoded word, or 0; *)
(* addresses here are 100 times the dictionary and the place in it.         *)
SearchIn(d, word) ==
  LET hits == {j \in DOMAIN Dictionaries[d] : Z!Encode(Dictionaries[d][j], 9) = Z!Encode(word, 9)}
  IN IF hits = {} THEN 0 ELSE 100 * d + CHOOSE j \in hits : \A k \in hits : j <= k

Part(start, length) == SubSeq(text, start + 1, start + length)

(* add_to_parse_buffer(), on p: the parse buffer, word_num and word_start. *)
Added(p, d, length, flag) ==
  LET w == SearchIn(d, Part(p.start, length))
  IN [num |-> p.num + 1, start |-> p.start + length,
      parse |-> IF w # 0 \/ ~ flag
                THEN [p.parse EXCEPT ![p.num + 1] = [word |-> w, length |-> length, at |-> p.start + 2]]
                ELSE p.parse]

(* tokenize(): one turn of its loop, at character i, then the last word. *)
Turn_NoRecheck(p, i, d, flag) ==    \* mutant: a separator needs no room of its own
  LET before == IF p.start < i THEN Added(p, d, i - p.start, flag) ELSE p IN
  IF text[i + 1] = 32 THEN [before EXCEPT !.start = i + 1]
  ELSE IF text[i + 1] \in Separators THEN
    [before EXCEPT !.num = @ + 1, !.start = i + 1]
  ELSE p
Turn(p, i, d, flag) ==
  LET before == IF p.start < i THEN Added(p, d, i - p.start, flag) ELSE p IN
  IF text[i + 1] = 32 THEN [before EXCEPT !.start = i + 1]
  ELSE IF text[i + 1] \in Separators THEN
    IF before.num >= MaxWords THEN before ELSE Added([before EXCEPT !.start = i], d, 1, flag)
  ELSE p
RECURSIVE Tokens(_, _, _, _)
Tokens(p, i, d, flag) ==
  IF i < Len(text) /\ p.num < MaxWords THEN Tokens(Turn(p, i, d, flag), i + 1, d, flag)
  ELSE IF p.num < MaxWords /\ p.start < Len(text) THEN Added(p, d, Len(text) - p.start, flag)
  ELSE p
Tokenize(d, flag) ==
  LET p == Tokens([num |-> 0, start |-> 0, parse |-> parse], 0, d, flag)
  IN parse' = p.parse /\ words' = p.num

Lower(c) == IF c \in 65..90 THEN c + 32 ELSE c

-----------------------------------------------------------------------------
Blank == [word |-> 0, length |-> 0, at |-> 0]
Init == /\ text = <<>> /\ parse = [k \in 1..MaxWords |-> Blank] /\ words = 0
        /\ reading = TRUE /\ used = <<>>

(* The loop of read goes on until the line ends, or the buffer is full: then *)
(* the rest of the line is left for the next read.                           *)
ReadChar(c) ==
  /\ reading /\ Len(text) < MaxChars
  /\ text' = Append(text, Lower(c))
  /\ UNCHANGED <<parse, words, reading, used>>
EndRead ==
  /\ reading
  /\ Tokenize(1, FALSE)
  /\ reading' = FALSE /\ used' = <<1>> /\ UNCHANGED text
(* The tokenise instruction, with another dictionary and its flag. *)
Tokenise(d) ==
  /\ ~ reading /\ Len(used) < 2
  /\ Tokenize(d, TRUE)
  /\ used' = Append(used, d) /\ UNCHANGED <<text, reading>>
(* The story clears the parse buffer, empties the text buffer or not, and reads again. *)
ReadAgain(left) ==
  /\ ~ reading
  /\ text' = left /\ parse' = [k \in 1..MaxWords |-> Blank] /\ words' = 0
  /\ reading' = TRUE /\ used' = <<>>

Next == \/ \E c \in Typed : ReadChar(c)
        \/ EndRead
        \/ \E d \in DOMAIN Dictionaries : Tokenise(d)
        \/ \E left \in {<<>>, text} : ReadAgain(left)
Spec == Init /\ [][Next]_vars

-----------------------------------------------------------------------------
TypeOK == words \in 0..MaxWords /\ DOMAIN parse = 1..MaxWords /\ Len(text) <= MaxChars

IsSeparator(i) == text[i] \in Separators
Starts == {i \in DOMAIN text : /\ text[i] # 32
                               /\ \/ IsSeparator(i) \/ i = 1
                                  \/ text[i - 1] = 32 \/ IsSeparator(i - 1)}
Ends(i) == {j \in (i + 1)..(Len(text) + 1) :
              j = Len(text) + 1 \/ IsSeparator(i) \/ text[j] = 32 \/ IsSeparator(j)}
LengthAt(i) == (CHOOSE j \in Ends(i) : \A k \in Ends(i) : j <= k) - i
InOrder == SetToSortSeq(Starts, LAMBDA a, b : a < b)
InDictionary(d, word) == \E j \in DOMAIN Dictionaries[d] : Dictionaries[d][j] = word

(* After a line is read, the parse buffer holds the words of the text in    *)
(* order, as many as it has room for, each with its place and its length:   *)
(* no word is dropped, split, or reported with the space beside it.         *)
WordsFound ==
  ~ reading =>
    /\ words = (IF Len(InOrder) < MaxWords THEN Len(InOrder) ELSE MaxWords)
    /\ \A k \in 1..words : /\ parse[k].at = InOrder[k] + 1
                           /\ parse[k].length = LengthAt(InOrder[k])

(* Each word has the entry of the last dictionary used that knows it, and 0 *)
(* if none does: tokenise with its flag only fills in what it recognises.   *)
EntriesRight ==
  ~ reading =>
    \A k \in 1..words :
      LET word == SubSeq(text, parse[k].at - 1, parse[k].at + parse[k].length - 2)
          know == {n \in DOMAIN used : InDictionary(used[n], word)}
          last == CHOOSE n \in know : \A m \in know : m <= n
      IN IF know = {} THEN parse[k].word = 0
         ELSE /\ parse[k].word \div 100 = used[last]
              /\ Dictionaries[used[last]][parse[k].word % 100] = word
=============================================================================
