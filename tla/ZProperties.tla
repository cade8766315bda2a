---------------------------- MODULE ZProperties ----------------------------
(***************************************************************************)
(* The property table of a Z-machine object, bytes in memory: the classes  *)
(* Property and PropertyTable and the instructions get_prop,               *)
(* get_prop_addr, get_next_prop, get_prop_len and put_prop.  A table is    *)
(* the length of the short name in words, the name, then an entry per      *)
(* property in descending order of its number, and a byte 0.  The header   *)
(* of an entry is one byte for one or two bytes of data, or two bytes.     *)
(* The story asks for the value of a property of one or two bytes only,    *)
(* and for the length of one that exists: the code asserts the first and   *)
(* reads beside the table for the second.                                  *)
(***************************************************************************)
EXTENDS Integers, Sequences, FiniteSets

CONSTANTS Tables,     \* the tables the story may have: sequences of [number, length]
          NameLength, \* of the short name, in words
          Start,      \* the address of the table
          Given       \* the values put_prop is given, any 16-bit words

VARIABLES z,          \* the bytes of the table: z[a] is zstate[a]
          table,      \* its properties as the story's author wrote them
          stored      \* the value each property was last given

vars == <<z, table, stored>>

(* The bytes of an entry, as a compiler writes them. *)
Entry(p) == (IF p.length <= 2 THEN <<p.number + 64 * (p.length - 1)>>
             ELSE <<128 + p.number, 128 + (p.length % 64)>>) \o [i \in 1..p.length |-> 0]
RECURSIVE Entries(_)
Entries(t) == IF t = <<>> THEN <<0>> ELSE Entry(Head(t)) \o Entries(Tail(t))
Compiled(t) ==
  LET bytes == <<NameLength>> \o [i \in 1..(2 * NameLength) |-> 255] \o Entries(t)
  IN [a \in Start..(Start + Len(bytes) - 1) |-> bytes[a - Start + 1]]

(* Property *)
Number(a) == z[a] % 64
Length(a) ==
  IF z[a] >= 128 THEN LET r == z[a + 1] % 64 IN IF r = 0 THEN 64 ELSE r ELSE (z[a] \div 64) + 1
DataAt(a) == a + (z[a] \div 128) + 1
NextAt(a) == DataAt(a) + Length(a)

(* PropertyTable: find_prop() stops at the first number that is not greater. *)
FirstAt == Start + 2 * z[Start] + 1
RECURSIVE FindFrom(_, _)
FindFrom(a, n) == IF Number(a) > n THEN FindFrom(NextAt(a), n) ELSE a
Find(n) == FindFrom(FirstAt, n)

U16(a) == 256 * z[a] + z[a + 1]
Default(n) == 1000 + n       \* the word of property n in the table of default values

(* The instructions. *)
GetProp(n) == LET p == Find(n) IN
  IF Number(p) # n THEN Default(n) ELSE IF Length(p) = 1 THEN z[DataAt(p)] ELSE U16(DataAt(p))
GetPropAddr(n) == IF Number(Find(n)) = n THEN DataAt(Find(n)) ELSE 0
GetNextProp(n) == IF n = 0 THEN Number(FirstAt) ELSE Number(NextAt(Find(n)))
GetPropLen_Zero(addr) ==                            \* mutant: 64 is not told from 0
  LET x == z[addr - 1] IN IF x >= 128 THEN x % 64 ELSE (x \div 64) + 1
GetPropLen(addr) ==
  LET x == z[addr - 1] IN
  IF x >= 128 THEN (IF x % 64 = 0 THEN 64 ELSE x % 64) ELSE (x \div 64) + 1

Numbers == {table[i].number : i \in DOMAIN table}
Lengths(n) == (CHOOSE p \in {table[i] : i \in DOMAIN table} : p.number = n).length

Init == \E t \in Tables : /\ table = t /\ z = Compiled(t)
                          /\ stored = [n \in {t[i].number : i \in DOMAIN t} |-> 0]

PutProp(n, value) ==
  LET p == Find(n) IN
  /\ n \in Numbers /\ Lengths(n) <= 2
  /\ z' = IF Length(p) = 1 THEN [z EXCEPT ![DataAt(p)] = value % 256]
          ELSE [z EXCEPT ![DataAt(p)] = value \div 256, ![DataAt(p) + 1] = value % 256]
  /\ stored' = [stored EXCEPT ![n] = IF Lengths(n) = 1 THEN value % 256 ELSE value]
  /\ UNCHANGED table

Next == \E n \in 1..63, value \in Given : PutProp(n, value)
Spec == Init /\ [][Next]_vars

-----------------------------------------------------------------------------
TypeOK == \A a \in DOMAIN z : z[a] \in 0..255

(* get_prop gives what put_prop last stored, and the default value of a     *)
(* property the object does not have, whatever is stored in the others.     *)
ReadsBack == \A n \in 1..63 :
  IF n \notin Numbers THEN GetProp(n) = Default(n) /\ GetPropAddr(n) = 0
  ELSE Lengths(n) <= 2 => GetProp(n) = stored[n]

(* The length found backwards from the data is that of the property: a      *)
(* story reads arrays of up to 64 bytes by it.                              *)
LengthsAgree == \A n \in Numbers : GetPropLen(GetPropAddr(n)) = Lengths(n)

(* From 0, get_next_prop goes through all properties once and ends at 0.    *)
WalksAll ==
  LET at(k) == IF k = 0 THEN 0 ELSE table[k].number
  IN \A k \in 0..Len(table) : GetNextProp(at(k)) = (IF k = Len(table) THEN 0 ELSE at(k + 1))
=============================================================================
