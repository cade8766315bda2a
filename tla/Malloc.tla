------------------------------- MODULE Malloc --------------------------------
(***************************************************************************)
(* src/kernel/src/malloc.cpp: a break that only grows, in machine words    *)
(* that wrap.  free() does nothing.                                        *)
(***************************************************************************)
EXTENDS Integers, Sequences

CONSTANTS Word,        \* 2^32, scaled down
          Start, End,  \* MEMORY_START and MEMORY_END
          Align,       \* 16
          MaxBlocks    \* bound on the allocations of a behaviour
VARIABLES brk, blocks, \* the break; the blocks handed out, [from, size] each
          wrapped,     \* a size beyond every memory has wrapped the break
          crashed
vars == <<brk, blocks, wrapped, crashed>>

Init == brk = Start /\ blocks = <<>> /\ wrapped = FALSE /\ crashed = FALSE

\* The limit is tested on the break as it is, before it is rounded up.
Fits(size) == (brk + size) % Word <= End
Rounded == (brk + ((Word - brk) % Align)) % Word
NextBreak_Unrounded(size) == (brk + size) % Word
NextBreak(size) == (Rounded + size) % Word
Malloc(size) ==
  /\ ~crashed /\ Len(blocks) < MaxBlocks
  /\ IF Fits(size)
     THEN /\ blocks' = Append(blocks, [from |-> Rounded, size |-> size])
          /\ brk' = NextBreak(size)
          /\ wrapped' = (wrapped \/ Rounded + size >= Word)
          /\ UNCHANGED crashed
     ELSE crashed' = TRUE /\ UNCHANGED <<brk, blocks, wrapped>>

Next == \E size \in 0..(Word - 1) : Malloc(size)

Spec == Init /\ [][Next]_vars
-----------------------------------------------------------------------------
TypeOK == brk \in 0..(Word - 1) /\ blocks \in Seq([from : 0..(Word - 1), size : 0..(Word - 1)])

(* Unless a size wraps the word, which malloc() accepts, the blocks are    *)
(* aligned and apart, and the last one passes the end of the memory by     *)
(* less than the rounding.                                                 *)
BlocksApart ==
  ~wrapped =>
    \A i \in DOMAIN blocks :
      /\ blocks[i].from % Align = 0
      /\ blocks[i].from + blocks[i].size < End + Align
      /\ \A j \in 1..(i - 1) : blocks[j].from + blocks[j].size <= blocks[i].from
-----------------------------------------------------------------------------
\* The inductive invariant: every block ends before the break.
IInv ==
  /\ TypeOK /\ wrapped \in BOOLEAN
  /\ BlocksApart
  /\ ~wrapped =>
       /\ brk < End + Align
       /\ \A i \in DOMAIN blocks : blocks[i].from + blocks[i].size <= brk
=============================================================================
