--------------------------- MODULE ZInstructions ---------------------------
(***************************************************************************)
(* ZState::run_step(): the operands of an instruction are decoded from the *)
(* bytes at pc, in the long form (an opcode with one bit for the type of   *)
(* each of two operands), or in the variable form (a byte with two bits    *)
(* for the type of each of up to four), and the arithmetic, comparison and *)
(* memory instructions computed on 16-bit words.  A step is an instruction *)
(* that a story's compiler wrote; the story divides by no zero and shifts  *)
(* by at most 15, which the code asserts.                                  *)
(***************************************************************************)
EXTENDS Integers, Sequences, Bitwise

CONSTANTS Vals,        \* the operands of the story, 16-bit words
          Array,       \* the address of an array and
          Indices,     \* the indices it is used with, as words
          MaxStack

VARIABLES mem,         \* the bytes around Array
          stack,       \* the evaluation stack
          last         \* the last instruction: what was meant, what was read, the result

vars == <<mem, stack, last>>
W == 65536
Signed(w) == IF w >= 32768 THEN w - W ELSE w

-----------------------------------------------------------------------------
(* Decoding.  m is the state of the fetch: pc in code, the stack and the    *)
(* operands read so far.                                                    *)

U8(code, m) == code[m.pc]
U16(code, m) == 256 * code[m.pc] + code[m.pc + 1]
Read(m, value, bytes) == [m EXCEPT !.args = Append(@, value), !.pc = @ + bytes]

(* pc_read_arg(), for variable 0, the stack: local and global variables are *)
(* in ZCalls.                                                               *)
ReadArg(code, m, type) ==
  CASE type = 0 -> Read(m, U16(code, m), 2)
    [] type = 1 -> Read(m, U8(code, m), 1)
    [] type = 2 -> [Read(m, m.stack[Len(m.stack)], 1) EXCEPT !.stack = SubSeq(@, 1, Len(@) - 1)]
    [] type = 3 -> Read(m, 0, 0)
ReadTwo(code, m, t1, t2) == ReadArg(code, ReadArg(code, m, t1), t2)

(* OP2_READ_ARGS and VAR_READ_ARGS, from the opcode on; 190 announces an    *)
(* extended opcode.                                                         *)
Bits(n, at) == (n \div at) % 4
Types(byte) == <<Bits(byte, 64), Bits(byte, 16), Bits(byte, 4), Bits(byte, 1)>>
TypesAt(code) == IF code[1] = 190 THEN 3 ELSE 2
LongTypes(op) == <<1 + ((op \div 64) % 2), 1 + ((op \div 32) % 2)>>
Fetch(code) ==
  LET at(pc) == [pc |-> pc, stack |-> stack, args |-> <<>>]
      l == LongTypes(code[1])
      t == Types(code[TypesAt(code)])
  IN IF code[1] < 128 THEN ReadTwo(code, at(2), l[1], l[2])
     ELSE ReadTwo(code, ReadTwo(code, at(TypesAt(code) + 1), t[1], t[2]), t[3], t[4])
NumArgs(code) == IF code[1] < 128 THEN 2
                 ELSE Len(SelectSeq(Types(code[TypesAt(code)]), LAMBDA t : t # 3))

-----------------------------------------------------------------------------
(* Execution. *)

Truth(b) == IF b THEN 1 ELSE 0
Abs(n) == IF n < 0 THEN - n ELSE n
(* Division of C: towards 0, the remainder with the sign of the dividend. *)
Quotient_Floor(a, b) == IF b < 0 THEN (- a) \div (- b) ELSE a \div b    \* mutant
Quotient(a, b) == (IF (a < 0) # (b < 0) THEN -1 ELSE 1) * (Abs(a) \div Abs(b))
Remainder(a, b) == a - b * Quotient(a, b)

Compare(op, n, a) ==                    \* je takes up to four operands
  CASE op = "je" -> Truth(\E i \in 2..n : a[i] = a[1])
    [] op = "jl" -> Truth(Signed(a[1]) < Signed(a[2]))
    [] op = "jg" -> Truth(Signed(a[1]) > Signed(a[2]))
BitOp(op, x, y) ==
  CASE op = "test" -> Truth((x & y) = y) [] op = "or" -> x | y [] op = "and" -> x & y
Arithmetic(op, x, y) ==
  CASE op = "add" -> (x + y) % W
    [] op = "sub" -> (x - y) % W
    [] op = "mul" -> ((256 * ((x * (y \div 256)) % 256)) + x * (y % 256)) % W
    [] op = "div" -> Quotient(Signed(x), Signed(y)) % W
    [] op = "mod" -> Remainder(Signed(x), Signed(y)) % W
Shifted(op, n, places) ==
  IF places >= 0 THEN ((n % 2^(16 - places)) * 2^places) % W
  ELSE ((IF op = "art_shift" THEN Signed(n) ELSE n) \div 2^(- places)) % W

LoadW(a, index) == LET p == a + 2 * Signed(index) IN 256 * mem[p] + mem[p + 1]
LoadB(a, index) == mem[a + Signed(index)]
StoreW(a, index, value) ==
  LET p == a + 2 * Signed(index) IN [mem EXCEPT ![p] = value \div 256, ![p + 1] = value % 256]
StoreB(a, index, value) == [mem EXCEPT ![a + Signed(index)] = value % 256]

Compute(op, n, a) ==
  CASE op \in {"je", "jl", "jg"} -> Compare(op, n, a)
    [] op \in {"test", "or", "and"} -> BitOp(op, a[1], a[2])
    [] op \in {"log_shift", "art_shift"} -> Shifted(op, a[1], Signed(a[2]))
    [] OTHER -> Arithmetic(op, a[1], a[2])

-----------------------------------------------------------------------------
(* The compiler of the story.  An operand is [type, value]; a value on the  *)
(* stack is there already.                                                  *)

Arith == {"je", "jl", "jg", "test", "or", "and", "add", "sub", "mul", "div", "mod"}
Shifts == {"log_shift", "art_shift"}
Opcode(op) ==
  CASE op = "je" -> 1 [] op = "jl" -> 2 [] op = "jg" -> 3 [] op = "test" -> 7 [] op = "or" -> 8
    [] op = "and" -> 9 [] op = "add" -> 20 [] op = "sub" -> 21 [] op = "mul" -> 22
    [] op = "div" -> 23 [] op = "mod" -> 24 [] op = "log_shift" -> 2 [] op = "art_shift" -> 3

OperandBytes(o) == CASE o.type = 0 -> <<o.value \div 256, o.value % 256>>
                     [] o.type = 1 -> <<o.value>>
                     [] o.type = 2 -> <<0>>
Concat(ss) == LET f[k \in 0..Len(ss)] == IF k = 0 THEN <<>> ELSE f[k - 1] \o ss[k] IN f[Len(ss)]
TypeAt(os, i) == IF i <= Len(os) THEN os[i].type ELSE 3
Assembled(op, os, long) ==
  LET bytes == Concat([i \in DOMAIN os |-> OperandBytes(os[i])]) IN
  IF long THEN <<Opcode(op) + 64 * (os[1].type - 1) + 32 * (os[2].type - 1)>> \o bytes
  ELSE (IF op \in Shifts THEN <<190, Opcode(op)>> ELSE <<192 + Opcode(op)>>)
       \o <<64 * TypeAt(os, 1) + 16 * TypeAt(os, 2) + 4 * TypeAt(os, 3) + TypeAt(os, 4)>> \o bytes

(* The values the operands stand for: the first on the stack is its top. *)
Meant(os) ==
  [i \in DOMAIN os |->
     IF os[i].type # 2 THEN os[i].value
     ELSE stack[Len(stack) - Len(SelectSeq(SubSeq(os, 1, i - 1), LAMBDA o : o.type = 2))]]

Operands == {[type |-> 0, value |-> v] : v \in Vals}
            \cup {[type |-> 1, value |-> v] : v \in Vals \cap (0..255)} \cup {[type |-> 2, value |-> 0]}
Poppable(os) == Len(SelectSeq(os, LAMBDA o : o.type = 2)) <= Len(stack)
Longs(op, os) == IF op \notin Shifts /\ Len(os) = 2 /\ os[1].type # 0 /\ os[2].type # 0 THEN BOOLEAN ELSE {FALSE}
Allowed(op, a) == CASE op \in {"div", "mod"} -> a[2] # 0
                    [] op \in Shifts -> Signed(a[2]) \in -15..15
                    [] OTHER -> TRUE

None == [op |-> "none", meant |-> <<0, 0>>, read |-> <<0, 0>>, rest |-> 0, result |-> 0]
Init == /\ mem = [p \in (Array - 2)..(Array + 3) |-> 0] /\ stack = <<>>
        /\ last = None

(* Bounds: one instruction on operands, or several on memory, then all over again. *)
Fresh == last = None
Again == /\ ~ Fresh /\ last' = None /\ stack' = <<>> /\ mem' = [p \in DOMAIN mem |-> 0]
Push(v) == Len(stack) < MaxStack /\ Fresh /\ stack' = Append(stack, v) /\ UNCHANGED <<mem, last>>

Step(op, os) ==
  /\ Fresh /\ Poppable(os) /\ Allowed(op, Meant(os))
  /\ \E long \in Longs(op, os) :
       LET code == Assembled(op, os, long)
           m == Fetch(code)
           n == NumArgs(code)
       IN /\ stack' = m.stack
          /\ last' = [op |-> op, meant |-> Meant(os), read |-> SubSeq(m.args, 1, n),
                      rest |-> Len(code) + 1 - m.pc, result |-> Compute(op, n, m.args)]
  /\ UNCHANGED mem

(* Operands of the memory instructions are constants here. *)
Load(op, index) ==
  /\ stack = <<>> /\ last.op \in {"none", "loadw", "loadb", "storew", "storeb"}
  /\ last' = [op |-> op, meant |-> <<Array, index>>, read |-> <<Array, index>>, rest |-> 0,
              result |-> IF op = "loadw" THEN LoadW(Array, index) ELSE LoadB(Array, index)]
  /\ UNCHANGED <<mem, stack>>
Store(op, index, v) ==
  /\ stack = <<>> /\ last.op \in {"none", "loadw", "loadb", "storew", "storeb"}
  /\ mem' = IF op = "storew" THEN StoreW(Array, index, v) ELSE StoreB(Array, index, v)
  /\ last' = [op |-> op, meant |-> <<index, v>>, read |-> <<index, v>>, rest |-> 0, result |-> v]
  /\ UNCHANGED stack

Next == \/ Again
        \/ \E v \in Vals : Push(v)
        \/ \E op \in Arith \cup Shifts, os \in Operands \X Operands : Step(op, os)
        \/ \E os \in Operands \X Operands \X Operands : Step("je", os)
        \/ \E op \in {"loadw", "loadb"}, index \in Indices : Load(op, index)
        \/ \E op \in {"storew", "storeb"}, index \in Indices, v \in Vals : Store(op, index, v)
Spec == Init /\ [][Next]_vars

-----------------------------------------------------------------------------
TypeOK == /\ \A p \in DOMAIN mem : mem[p] \in 0..255
          /\ last.result \in 0..(W - 1)

(* Whatever form an instruction is written in, its operands are the ones    *)
(* meant, taken from the stack in their order, and pc is at its end.        *)
OperandsRead == last.read = last.meant /\ last.rest = 0

(* The results are those of arithmetic on signed words: sums are right up   *)
(* to a multiple of 2^16, quotient and remainder fit together and are       *)
(* rounded towards 0, right shifts keep or drop the sign.                   *)
ResultsRight ==
  LET a == last.read[1]   b == last.read[2]   r == last.result   sr == Signed(r)
      sa == Signed(a)     sb == Signed(b)
  IN CASE last.op = "add" -> (sr - sa - sb) % W = 0
       [] last.op = "sub" -> (sr - sa + sb) % W = 0
       [] last.op = "div" -> \/ <<sa, sb>> = <<-32768, -1>> /\ sr = -32768
                             \/ /\ Abs(sr) * Abs(sb) <= Abs(sa) /\ Abs(sa) < (Abs(sr) + 1) * Abs(sb)
                                /\ sr # 0 => ((sr < 0) <=> ((sa < 0) # (sb < 0)))
       [] last.op = "mod" -> /\ (sa - sr) % Abs(sb) = 0 /\ Abs(sr) < Abs(sb)
                             /\ sr # 0 => ((sr < 0) <=> (sa < 0))
       [] last.op = "art_shift" /\ sb < 0 -> sr * 2^(- sb) <= sa /\ sa < (sr + 1) * 2^(- sb)
       [] last.op = "log_shift" /\ sb < 0 -> r * 2^(- sb) <= a /\ a < (r + 1) * 2^(- sb)
       [] last.op = "test" -> (r = 1) <=> \A k \in 0..15 : (b \div 2^k) % 2 = 1 => (a \div 2^k) % 2 = 1
       [] OTHER -> TRUE

(* A word is loaded as it was stored, at negative indices too, and a store  *)
(* touches no byte beside its own.                                          *)
StoresApart ==
  \A index \in Indices, v \in Vals :
    LET own == IF last'.op = "storew" THEN {Array + 2 * Signed(index), Array + 2 * Signed(index) + 1}
               ELSE {Array + Signed(index)}
    IN last'.op \in {"storew", "storeb"} /\ last'.meant = <<index, v>> =>
       /\ \A p \in DOMAIN mem \ own : mem'[p] = mem[p]
       /\ last'.op = "storew" => LoadW(Array, index)' = v
       /\ last'.op = "storeb" => LoadB(Array, index)' = v % 256
=============================================================================
