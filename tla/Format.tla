------------------------------- MODULE Format --------------------------------
(***************************************************************************)
(* Numbers and formats as the logger and the programs print them:          *)
(* src/kernel/src/format.cpp, the hexadecimal dumps of Bytes.cpp and the   *)
(* numbers of programs/__libprog/io.cpp.                                   *)
(***************************************************************************)
EXTENDS Integers, SequencesExt

CONSTANTS Word,        \* 2^32, scaled down
          Bases, Pads,
          Items,       \* pieces of format strings: [text, args, shows]
          MaxItems,    \* bound on the pieces of a format
          MaxDump      \* bound on the bytes of a dump
VARIABLES call,        \* the call: [op, num, pad, zero, base, items]
          dest         \* what it has printed, as characters
vars == <<call, dest>>

DIGITS == <<"0", "1", "2", "3", "4", "5", "6", "7", "8", "9", "A", "B", "C", "D", "E", "F">>
Digit(d) == DIGITS[d + 1]
Value(c) == (CHOOSE i \in DOMAIN DIGITS : DIGITS[i] = c) - 1

\* The digits of a number, the last one first, at least one.
Digits(v, b) ==
  LET digits[n \in Nat] == IF n < b THEN <<Digit(n)>> ELSE <<Digit(n % b)>> \o digits[n \div b]
  IN digits[v]
ToBase(v, pad, padder, b) ==
  LET d == Digits(v, b)
      n == IF pad > Len(d) THEN pad - Len(d) ELSE 0
  IN [i \in 1..n |-> padder] \o Reverse(d)
\* The sign comes before the padding; -v of the least number is that number,
\* read without a sign.
ToSignedDecimal(v, pad, padder) ==
  IF v < 0 THEN <<"-">> \o ToBase((-v) % Word, pad, padder, 10) ELSE ToBase(v, pad, padder, 10)
PutInt(v, b) == (IF v < 0 THEN <<"-">> ELSE <<>>) \o ToBase(IF v < 0 THEN (-v) % Word ELSE v, 0, " ", b)
\* Four bytes with dots, in decimal; six with colons, in hexadecimal.
ToIpv4Addr(a) == ToBase(a[1], 0, " ", 10) \o <<".">> \o ToBase(a[2], 0, " ", 10) \o <<".">>
                 \o ToBase(a[3], 0, " ", 10) \o <<".">> \o ToBase(a[4], 0, " ", 10)
ToMacAddr(a) ==
  FoldLeft(LAMBDA s, i : s \o ToBase(a[i], 2, "0", 16) \o (IF i < 6 THEN <<":">> ELSE <<>>),
           <<>>, <<1, 2, 3, 4, 5, 6>>)
\* hexdump(): a blank after four bytes, a newline after 32 and at the end.
HexByte(v) == <<Digit(v \div 16), Digit(v % 16)>>
Hexdump(b) ==
  FoldLeft(LAMBDA s, i : s \o HexByte(b[i]) \o (IF i % 32 = 0 THEN <<"\n">> ELSE IF i % 4 = 0 THEN <<" ">> ELSE <<>>),
           <<>>, [i \in DOMAIN b |-> i]) \o (IF Len(b) % 32 # 0 THEN <<"\n">> ELSE <<>>)

\* readNumber(): the number at pos, maybe without a digit, and the place after it.
ReadNumber(fmt, pos) ==
  LET read[p \in Nat, n \in Nat] ==
        IF p <= Len(fmt) /\ fmt[p] \in {DIGITS[i] : i \in 1..10} THEN read[p + 1, (10 * n) + Value(fmt[p])]
        ELSE [num |-> n, pos |-> p]
  IN read[pos, 0]
Conversion(letter, arg, pad, padder) ==
  CASE letter = "u" -> ToBase(arg, pad, padder, 10)
    [] letter = "d" -> ToSignedDecimal(arg, pad, padder)
    [] letter = "X" -> ToBase(arg, pad, padder, 16)
    [] letter \in {"s", "c"} -> arg
    [] letter = "M" -> ToMacAddr(arg)
    [] letter = "I" -> ToIpv4Addr(arg)
\* formatToBytes() from pos on: a directive takes the next argument.
FormatToBytes(fmt, args) ==
  LET print[pos \in Nat, arg \in Nat] ==
        IF pos > Len(fmt) THEN <<>>
        ELSE IF fmt[pos] # "%" THEN <<fmt[pos]>> \o print[pos + 1, arg]
        ELSE IF fmt[pos + 1] = "%" THEN <<"%">> \o print[pos + 2, arg]
        ELSE LET zero == fmt[pos + 1] = "0"
                 w == ReadNumber(fmt, IF zero THEN pos + 2 ELSE pos + 1)
             IN Conversion(fmt[w.pos], args[arg], w.num, IF zero THEN "0" ELSE " ")
                \o print[w.pos + 1, arg + 1]
  IN print[1, 1]
-----------------------------------------------------------------------------
Idle == [op |-> "none", num |-> 0, pad |-> 0, zero |-> FALSE, base |-> 10, items |-> <<>>]
Init == call = Idle /\ dest = <<>>

Padder(zero) == IF zero THEN "0" ELSE " "
PrintUnsigned(v, pad, zero, b) ==
  /\ call = Idle /\ dest' = ToBase(v, pad, Padder(zero), b)
  /\ call' = [Idle EXCEPT !.op = "unsigned", !.num = v, !.pad = pad, !.zero = zero, !.base = b]
PrintSigned(v, b) ==
  /\ call = Idle /\ dest' = PutInt(v, b)
  /\ call' = [Idle EXCEPT !.op = "signed", !.num = v, !.base = b]
Dump(n) ==
  /\ call = Idle /\ dest' = Hexdump([i \in 1..n |-> (17 * i) % 256])
  /\ call' = [Idle EXCEPT !.op = "dump", !.num = n]
Format(is) ==
  /\ call = Idle /\ call' = [Idle EXCEPT !.op = "format", !.items = is]
  /\ dest' = FormatToBytes(FlattenSeq([k \in DOMAIN is |-> Items[is[k]].text]),
                           FlattenSeq([k \in DOMAIN is |-> Items[is[k]].args]))
Flush == call # Idle /\ call' = Idle /\ dest' = <<>>

Next ==
  \/ \E b \in Bases : \/ \E v \in 0..(Word - 1), pad \in Pads, zero \in BOOLEAN : PrintUnsigned(v, pad, zero, b)
                      \/ \E v \in (-(Word \div 2))..((Word \div 2) - 1) : PrintSigned(v, b)
  \/ \E n \in 0..MaxDump : Dump(n)
  \/ \E k \in 0..MaxItems : \E is \in [1..k -> DOMAIN Items] : Format(is)
  \/ Flush

Spec == Init /\ [][Next]_vars
-----------------------------------------------------------------------------
ValueOf(s, b) == FoldLeft(LAMBDA n, c : (b * n) + Value(c), 0, s)

(* A printed number reads back as the same number in its base, with its    *)
(* sign, one digit at least, and no less than the width it was asked for.  *)
NumbersReadBack ==
  /\ call.op = "unsigned" =>
       LET s == SelectSeq(dest, LAMBDA c : c # " ")
       IN s # <<>> /\ ValueOf(s, call.base) = call.num /\ Len(dest) >= call.pad
          /\ (Len(dest) > call.pad => s[1] # "0" \/ Len(s) = 1)
  /\ call.op = "signed" =>
       LET minus == dest[1] = "-"
           s == IF minus THEN Tail(dest) ELSE dest
       IN s # <<>> /\ call.num = (IF minus THEN -1 ELSE 1) * ValueOf(s, call.base)

(* A format shows its pieces one after the other, each directive with its  *)
(* own argument: nothing of a piece is read as part of its neighbour.      *)
PiecesShown ==
  call.op = "format" =>
    dest = FlattenSeq([k \in DOMAIN call.items |-> Items[call.items[k]].shows])

(* A dump shows two digits for each byte in lines of 32 at most, each      *)
(* ended by one newline.                                                   *)
LinesEnded ==
  call.op = "dump" =>
    LET ends == {i \in DOMAIN dest : dest[i] = "\n"} IN
    /\ Len(SelectSeq(dest, LAMBDA c : c \notin {" ", "\n"})) = 2 * call.num
    /\ Cardinality(ends) = (call.num + 31) \div 32
    /\ dest # <<>> => dest[Len(dest)] = "\n"
=============================================================================
