------------------------------- MODULE ZText -------------------------------
(***************************************************************************)
(* Text in the Z-machine: ZState::encode() packs a typed word into 16-bit  *)
(* words of three 5-bit Z-characters to look it up in the dictionary, and  *)
(* ZString::print(), with the iterator ZChars, unpacks the strings of a    *)
(* story.  Z-characters 6 to 31 are letters of one of three alphabets, 4   *)
(* and 5 shift the next one to the second and third; 1 to 3 begin an       *)
(* abbreviation, and 6 of the third alphabet begins a character written    *)
(* in full.  A state is one text, and the text grows item by item.         *)
(***************************************************************************)
EXTENDS Integers, Sequences

CONSTANTS Chars,         \* the characters texts are made of
          Abbreviations, \* the strings of the story's abbreviations, by number
          MaxLen         \* a bound on the items of a text

VARIABLE text            \* items: characters, or 256 + n for abbreviation n

(* The default alphabets: 26 letters each. *)
Third == <<32, 10, 48, 49, 50, 51, 52, 53, 54, 55, 56, 57, 46, 44, 33, 63, 95, 35, 39, 34, 47, 92,
           45, 58, 40, 41>>
Letter(i) == IF i < 26 THEN 97 + i ELSE IF i < 52 THEN 65 + i - 26 ELSE Third[i - 51]

(* init_encoding_table(): the first letter of the third alphabet is no      *)
(* letter but the escape.  The entries are the Z-characters of a character; *)
(* in the table they are packed into one number.                            *)
EncodingTable(c) ==
  LET at(a) == {i \in (IF a = 2 THEN 1 ELSE 0)..25 : Letter(26 * a + i) = c}
      code(a) == 6 + CHOOSE i \in at(a) : TRUE
  IN IF c = 32 THEN <<0>>
     ELSE IF at(0) # {} THEN <<code(0)>>
     ELSE IF at(1) # {} THEN <<4, code(1)>>
     ELSE IF at(2) # {} THEN <<5, code(2)>>
     ELSE <<5, 6, c \div 32, c % 32>>

RECURSIVE AllChars(_)
AllChars(word) == IF word = <<>> THEN <<>> ELSE EncodingTable(Head(word)) \o AllChars(Tail(word))

(* encode(): cut or padded with 5 to size Z-characters; the last word of    *)
(* the result has its highest bit set.                                      *)
Pack(zs) == [i \in 1..(Len(zs) \div 3) |->
               1024 * zs[3 * i - 2] + 32 * zs[3 * i - 1] + zs[3 * i]
               + (IF i = Len(zs) \div 3 THEN 32768 ELSE 0)]
Encode(word, size) ==
  LET zs == AllChars(word) IN Pack([k \in 1..size |-> IF k <= Len(zs) THEN zs[k] ELSE 5])

(* ZChars: three to a word, up to the first word with the highest bit set. *)
RECURSIVE Unpack(_)
Unpack(words) ==
  LET w == Head(words)
      three == <<(w \div 1024) % 32, (w \div 32) % 32, w % 32>>
  IN IF w >= 32768 THEN three ELSE three \o Unpack(Tail(words))

(* print(): what appears on the screen from Z-character i on. *)
RECURSIVE PrintFrom(_, _, _)
PrintFrom(zs, i, alphabet) ==
  IF i > Len(zs) THEN <<>>
  ELSE LET c == zs[i] IN
    CASE alphabet = 2 /\ c = 7 -> <<10>> \o PrintFrom(zs, i + 1, 0)
      [] alphabet = 2 /\ c = 6 ->
           IF i + 2 > Len(zs) THEN <<>>
           ELSE <<(32 * zs[i + 1] + zs[i + 2]) % 256>> \o PrintFrom(zs, i + 3, 0)
      [] c = 0 -> <<32>> \o PrintFrom(zs, i + 1, 0)
      [] c \in {4, 5} -> PrintFrom(zs, i + 1, c - 3)
      [] c \in 1..3 ->
           IF i + 1 > Len(zs) THEN <<>>
           ELSE PrintFrom(Unpack(Abbreviations[32 * (c - 1) + zs[i + 1]]), 1, 0)
                \o PrintFrom(zs, i + 2, 0)
      [] OTHER -> <<Letter(26 * alphabet + c - 6)>> \o PrintFrom(zs, i + 1, 0)
Shown(words) == PrintFrom(Unpack(words), 1, 0)

(* A string of the story as its compiler writes it, and what it says. *)
RECURSIVE Compile(_), Meaning(_)
Compile(t) ==
  IF t = <<>> THEN <<>>
  ELSE (IF Head(t) < 256 THEN EncodingTable(Head(t))
        ELSE LET n == Head(t) - 256 IN <<1 + n \div 32, n % 32>>) \o Compile(Tail(t))
Padded(zs) == [k \in 1..(3 * (Len(zs) \div 3 + 1)) |-> IF k <= Len(zs) THEN zs[k] ELSE 5]
Meaning(t) == IF t = <<>> THEN <<>>
              ELSE (IF Head(t) < 256 THEN <<Head(t)>> ELSE Shown(Abbreviations[Head(t) - 256]))
                   \o Meaning(Tail(t))

Init == text = <<>>
Grow(c) == Len(text) < MaxLen /\ text' = Append(text, c)
Again == Len(text) = MaxLen /\ text' = <<>>
Next == (\E c \in Chars \cup {256 + n : n \in DOMAIN Abbreviations} : Grow(c)) \/ Again
Spec == Init /\ [][Next]_text

-----------------------------------------------------------------------------
IsWord == \A i \in DOMAIN text : text[i] < 256

TypeOK == LET e == Encode(text, 9) IN IsWord => Len(e) = 3 /\ \A i \in 1..3 : e[i] \in 0..65535

(* A word that fits nine Z-characters is recovered from its encoding, so    *)
(* that no two of them are taken for one another; a longer one is cut, be   *)
(* it in the middle of a character, and never turned into something else.   *)
WordsSurvive ==
  LET p == Shown(Encode(text, 9)) IN
  IsWord => /\ Len(p) <= Len(text) /\ p = SubSeq(text, 1, Len(p))
            /\ Len(AllChars(text)) <= 9 => p = text

(* A string of the story is printed as it was meant, through shifts,        *)
(* characters in full and abbreviations, wherever they fall in its words.   *)
StringsPrinted == Shown(Pack(Padded(Compile(text)))) = Meaning(text)
=============================================================================
