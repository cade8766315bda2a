------------------------------- MODULE ZFrames -------------------------------
(***************************************************************************)
(* What the Z-machine promises a story about its routines, whatever the    *)
(* interpreter keeps in memory: an activation has local variables and an   *)
(* evaluation stack of its own, sees neither those of its caller, and on   *)
(* its return the caller goes on where it was, its variables untouched     *)
(* but for the one that takes the result.  The first frame is the main     *)
(* program, which has no local variables and never returns.                *)
(***************************************************************************)
EXTENDS Integers, Sequences

CONSTANTS NumLocals,    \* the number of local variables of the routine at an address
          Sites,        \* where an instruction may end
          Vals,         \* the values a story computes with
          Vars,         \* the variables an instruction may name: 0 is the stack, 1-15 are local
          Branches,     \* the branches of the story: [on, offset]
          ArgLists,     \* the arguments of its calls
          Discard       \* the result location of a call made for its effects

VARIABLES frames,       \* the activations, the running one last
          globals,      \* the global variables, from 16 on
          pc

vars == <<frames, globals, pc>>

W == 65536
Depth == Len(frames)
Top == frames[Depth]
Main == [ret |-> 0, result |-> Discard, nargs |-> 0, locals |-> <<>>, stack |-> <<>>]

(* The variables the running activation can name now; 0 needs a value to be read. *)
Named(v) == v \in 1..15 => v <= Len(Top.locals)
Readable(v) == Named(v) /\ (v = 0 => Top.stack # <<>>)
Value(v) == IF v = 0 THEN Top.stack[Len(Top.stack)]
            ELSE IF v < 16 THEN Top.locals[v] ELSE globals[v]

(* fs and gs after x is stored in variable v: pushed, when v is the stack. *)
Put(fs, v, x) ==
  LET d == Len(fs) IN
  CASE v = 0 -> [fs EXCEPT ![d].stack = Append(@, x)]
    [] v \in 1..15 -> [fs EXCEPT ![d].locals[v] = x]
    [] OTHER -> fs
Globals(v, x) == IF v \in DOMAIN globals THEN [globals EXCEPT ![v] = x] ELSE globals
(* The same in place of the top of the stack. *)
Replace(fs, v, x) ==
  IF v = 0 THEN [fs EXCEPT ![Len(fs)].stack[Len(fs[Len(fs)].stack)] = x] ELSE Put(fs, v, x)

Init == /\ frames = <<Main>>
        /\ globals = [v \in {u \in Vars : u \in 16..255} |-> 0]
        /\ pc = CHOOSE s \in Sites : TRUE

Call(s, r, result, args) ==
  /\ pc' = r + 1 /\ (result = Discard \/ Named(result)) /\ UNCHANGED globals
  /\ frames' = Append(frames,
        [ret |-> s, result |-> result, nargs |-> Len(args), stack |-> <<>>,
         locals |-> [i \in 1..NumLocals[r] |-> IF i <= Len(args) THEN args[i] ELSE 0]])

(* A call of address 0 does nothing and has the result 0. *)
CallZero(s, result) ==
  /\ pc' = s /\ (result = Discard \/ Named(result))
  /\ globals' = Globals(result, 0) /\ frames' = Put(frames, result, 0)

Return(x) ==
  /\ Depth > 1 /\ pc' = Top.ret /\ globals' = Globals(Top.result, x)
  /\ frames' = Put(SubSeq(frames, 1, Depth - 1), Top.result, x)

Store(s, v, x) ==
  /\ pc' = s /\ Readable(v)
  /\ globals' = Globals(v, x) /\ frames' = Replace(frames, v, x)

Load(s, v, result) ==
  /\ pc' = s /\ Readable(v) /\ Named(result)
  /\ globals' = Globals(result, Value(v)) /\ frames' = Put(frames, result, Value(v))

Add(s, v, d) ==
  LET x == (Value(v) + d) % W IN
  /\ pc' = s /\ Readable(v) /\ x \in Vals
  /\ globals' = Globals(v, x) /\ frames' = Replace(frames, v, x)

Push(s, x) == pc' = s /\ UNCHANGED globals /\ frames' = Put(frames, 0, x)

(* Pulled into the stack, a value replaces the one under it. *)
Pull(s, v) ==
  LET x == Value(0)
      rest == [frames EXCEPT ![Depth].stack = SubSeq(@, 1, Len(@) - 1)] IN
  /\ pc' = s /\ Readable(0) /\ Named(v) /\ (v = 0 => Len(Top.stack) > 1)
  /\ globals' = Globals(v, x) /\ frames' = Replace(rest, v, x)

(* A branch of offset 0 or 1 returns that value. *)
Branch(s, b, test) ==
  IF test # b.on THEN pc' = s /\ UNCHANGED <<frames, globals>>
  ELSE IF b.offset \in {0, 1} THEN Return(b.offset)
  ELSE pc' = s + b.offset - 2 /\ UNCHANGED <<frames, globals>>

Next ==
  \/ \E s \in Sites, r \in DOMAIN NumLocals, result \in Vars \cup {Discard}, args \in ArgLists :
       Call(s, r, result, args)
  \/ \E s \in Sites, result \in Vars \cup {Discard} : CallZero(s, result)
  \/ \E x \in Vals : Return(x)
  \/ \E s \in Sites, v \in Vars, x \in Vals : Store(s, v, x)
  \/ \E s \in Sites, v \in Vars, result \in Vars : Load(s, v, result)
  \/ \E s \in Sites, v \in Vars, d \in {-1, 1} : Add(s, v, d)
  \/ \E s \in Sites, x \in Vals : Push(s, x)
  \/ \E s \in Sites, v \in Vars : Pull(s, v)
  \/ \E s \in Sites, b \in Branches, test \in BOOLEAN : Branch(s, b, test)

Spec == Init /\ [][Next]_vars
=============================================================================
