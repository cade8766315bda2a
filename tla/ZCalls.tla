------------------------------- MODULE ZCalls -------------------------------
(***************************************************************************)
(* The routines and variables of the Z-machine interpreter: a ZState keeps *)
(* the activations of all routines in one flat array of 16-bit words,      *)
(* routine_stack, and all their evaluation stacks in another, stack.  A    *)
(* call pushes the upper and lower half of pc, where the result goes, the  *)
(* size of stack, the local variables from the last to the first, and one  *)
(* word that packs the number of arguments and of local variables.         *)
(*                                                                         *)
(* The story is well behaved, as the interpreter checks nothing: it names  *)
(* the local variables it has, does not pop what its caller pushed, does   *)
(* not return from the main program and stays within STACK_SIZE words.     *)
(***************************************************************************)
EXTENDS Integers, Sequences, SequencesExt

CONSTANTS NumLocals, Sites, Vals, Vars, Branches, ArgLists, Discard,
          MaxWords, MaxStack   \* bounds on routine_stack and on the values of one routine

VARIABLE z     \* the ZState: pc, stack, routine_stack and the global variables of zstate

W == 65536
Top(s) == s[Len(s)]
NLocals(m) == IF m.routine_stack = <<>> THEN 0 ELSE Top(m.routine_stack) % 16
NArgs(m) == Top(m.routine_stack) \div 16

(* stack_size as the running routine found it: where its own values begin. *)
Base(m) == IF m.routine_stack = <<>> THEN 0
           ELSE m.routine_stack[Len(m.routine_stack) - NLocals(m) - 1]
Values == Len(z.stack) - Base(z)

(* Reading: pop() takes the value off the stack, top() leaves it there. *)
GetVarInd(m, var) ==
  CASE var = 0 -> Top(m.stack)
    [] var \in 1..15 -> m.routine_stack[Len(m.routine_stack) - var]
    [] OTHER -> m.globals[var]
Popped(m, var) == IF var = 0 THEN [m EXCEPT !.stack = SubSeq(@, 1, Len(@) - 1)] ELSE m

SetVar(m, var, value) ==
  CASE var = 0 -> [m EXCEPT !.stack = Append(@, value)]
    [] var \in 1..15 -> [m EXCEPT !.routine_stack[Len(m.routine_stack) - var] = value]
    [] OTHER -> [m EXCEPT !.globals[var] = value]
SetVarInd(m, var, value) ==
  IF var = 0 THEN [m EXCEPT !.stack[Len(m.stack)] = value] ELSE SetVar(m, var, value)

CallRoutine(m, addr, result, args) ==
  IF addr = 0 THEN IF result < 256 THEN SetVar(m, result, 0) ELSE m
  ELSE LET n == NumLocals[addr] IN
       [m EXCEPT !.routine_stack =
                   @ \o <<m.pc \div W, m.pc % W, result, Len(m.stack)>>
                     \o [j \in 1..n |-> IF n - j < Len(args) THEN args[n - j + 1] ELSE 0]
                     \o <<Len(args) * 16 + n>>,
                 !.pc = addr + 1]

(* Mutant: the values the routine left on the stack stay there. *)
RoutineReturn_KeepsStack(m, value) ==
  LET rs == m.routine_stack
      k == Len(rs) - 1 - NLocals(m)
      caller == [m EXCEPT !.pc = rs[k - 3] * W + rs[k - 2], !.routine_stack = SubSeq(@, 1, k - 4)]
  IN IF rs[k - 1] < 256 THEN SetVar(caller, rs[k - 1], value) ELSE caller
RoutineReturn(m, value) ==
  LET rs == m.routine_stack
      k == Len(rs) - 1 - NLocals(m)
      caller == [m EXCEPT !.stack = SubSeq(@, 1, rs[k]), !.pc = rs[k - 3] * W + rs[k - 2],
                          !.routine_stack = SubSeq(@, 1, k - 4)]
  IN IF rs[k - 1] < 256 THEN SetVar(caller, rs[k - 1], value) ELSE caller

Jump(m, offs) == IF offs \in {0, 1} THEN RoutineReturn(m, offs) ELSE [m EXCEPT !.pc = @ + offs - 2]

(* The offset in the one or two bytes of a branch: six bits, or fourteen with a sign. *)
Offset(x, y) ==
  IF (x \div 64) % 2 = 1 THEN x % 64
  ELSE LET jp == ((x * 1024) + (y * 4)) % W IN (IF jp >= W \div 2 THEN jp - W ELSE jp) \div 4
BranchOn(m, x, y, test) == IF (x >= 128) = test THEN Jump(m, Offset(x, y)) ELSE m

(* How an assembler writes branch b, in one byte when it may choose to. *)
Bytes(b, short) ==
  LET o == b.offset % 16384 IN
  IF short THEN <<(IF b.on THEN 128 ELSE 0) + 64 + o, 0>>
  ELSE <<(IF b.on THEN 128 ELSE 0) + o \div 256, o % 256>>

-----------------------------------------------------------------------------
(* The instructions; At(s) is the state once one that ends at s is fetched. *)

At(s) == [z EXCEPT !.pc = s]
Has(var) == (var \in 1..15 => var <= NLocals(z)) /\ (var = 0 => Values > 0)
Room(var) == (var \in 1..15 => var <= NLocals(z)) /\ (var = 0 => Values < MaxStack)

(* The activations on the routine stack, from the frame that ends at word n *)
(* and whose values end at value e of the stack.                            *)
Frames[p \in Nat \X Nat] ==
  LET rs == z.routine_stack
      n == p[1]
      k == n - 1 - (rs[n] % 16)
      own(b) == SubSeq(z.stack, b + 1, p[2])
  IN IF n = 0 THEN <<[ret |-> 0, result |-> Discard, nargs |-> 0, locals |-> <<>>, stack |-> own(0)]>>
     ELSE Append(Frames[<<k - 4, rs[k]>>],
            [ret |-> rs[k - 3] * W + rs[k - 2], result |-> rs[k - 1], nargs |-> rs[n] \div 16,
             locals |-> [i \in 1..(rs[n] % 16) |-> rs[n - i]], stack |-> own(rs[k])])
Activations == Frames[<<Len(z.routine_stack), Len(z.stack)>>]

Init == z = [pc |-> CHOOSE s \in Sites : TRUE, stack |-> <<>>, routine_stack |-> <<>>,
             globals |-> [v \in {u \in Vars : u \in 16..255} |-> 0]]

Call(s, r, result, args) ==
  /\ Len(z.routine_stack) + 5 + NumLocals[r] <= MaxWords /\ (result = Discard \/ Room(result))
  /\ z' = CallRoutine(At(s), r, result, args)
CallZero(s, result) ==
  (result = Discard \/ Room(result)) /\ z' = CallRoutine(At(s), 0, result, <<>>)
Return(x) == z.routine_stack # <<>> /\ z' = RoutineReturn(z, x)
RetPopped ==
  z.routine_stack # <<>> /\ Values > 0 /\ z' = RoutineReturn(Popped(z, 0), GetVarInd(z, 0))
Store(s, var, x) == Has(var) /\ z' = SetVarInd(At(s), var, x)
Load(s, var, result) ==
  Has(var) /\ Room(result) /\ z' = SetVar(At(s), result, GetVarInd(z, var))
(* inc and dec, and the first half of inc_chk and dec_chk *)
Add(s, var, d) ==
  LET x == (GetVarInd(z, var) + d) % W IN
  Has(var) /\ x \in Vals /\ z' = SetVar(Popped(At(s), var), var, x)
Push(s, x) == Room(0) /\ z' = SetVar(At(s), 0, x)
Pull(s, var) ==
  /\ Values > 0 /\ Has(var) /\ (var = 0 => Values > 1)
  /\ z' = SetVarInd(Popped(At(s), 0), var, GetVarInd(z, 0))
Branch(s, b, test, short) ==
  LET c == Bytes(b, short) IN
  /\ short => b.offset \in 0..63
  /\ (test = b.on /\ b.offset \in {0, 1}) => z.routine_stack # <<>>
  /\ z' = BranchOn(At(s), c[1], c[2], test)

Next ==
  \/ \E s \in Sites, r \in DOMAIN NumLocals, result \in Vars \cup {Discard}, args \in ArgLists :
       Call(s, r, result, args)
  \/ \E s \in Sites, result \in Vars \cup {Discard} : CallZero(s, result)
  \/ \E x \in Vals : Return(x)
  \/ RetPopped
  \/ \E s \in Sites, var \in Vars, x \in Vals : Store(s, var, x)
  \/ \E s \in Sites, var \in Vars, result \in Vars : Load(s, var, result)
  \/ \E s \in Sites, var \in Vars, d \in {-1, 1} : Add(s, var, d)
  \/ \E s \in Sites, x \in Vals : Push(s, x)
  \/ \E s \in Sites, var \in Vars : Pull(s, var)
  \/ \E s \in Sites, b \in Branches, test, short \in BOOLEAN : Branch(s, b, test, short)

Spec == Init /\ [][Next]_z

-----------------------------------------------------------------------------
(* Every word of both stacks and every global variable is a 16-bit word:    *)
(* nothing wider is ever pushed by a call or left by an increment.          *)
TypeOK == /\ \A i \in DOMAIN z.stack : z.stack[i] \in 0..(W - 1)
          /\ \A i \in DOMAIN z.routine_stack : z.routine_stack[i] \in 0..(W - 1)
          /\ \A v \in DOMAIN z.globals : z.globals[v] \in 0..(W - 1)
          /\ z.pc \div W \in 0..(W - 1)

(* The two flat arrays behave as a stack of frames: a call, a return and    *)
(* every access of a variable find the words of their own activation, and a *)
(* return gives the caller back its pc, its variables and its values.       *)
ZF == INSTANCE ZFrames WITH frames <- Activations, globals <- z.globals, pc <- z.pc
=============================================================================
