----------------------------- MODULE KernelProofs -----------------------------
(***************************************************************************)
(* Proofs about the kernel's services.                                     *)
(***************************************************************************)
EXTENDS Kernel, SequenceTheorems, FiniteSetTheorems, WellFoundedInduction, TLAPS

\* A step is one of the part that runs, or does nothing.
LEMMA SamePart == [Next]_vars => part' = part
BY DEF Next, Stopped, vars, Rest3, Rest4, Rest5, Rest7, Rest8, Rest9, Rest11
-----------------------------------------------------------------------------
(* The lock of the log queue *)

LockInv == part = "lock" => X!IInv

(* Steps of the lock part keep the mutex's invariant (Mutex); no other part *)
(* touches it.                                                              *)
LEMMA LockNext == LockInv /\ [Next]_vars => LockInv'
<1> SUFFICES ASSUME LockInv, [Next]_vars, part' = "lock" PROVE X!IInv'
  BY DEF LockInv
<1>1. part = "lock" /\ X!IInv
  BY SamePart DEF LockInv
<1>2. [X!Next]_(X!vars)
  BY <1>1 DEF Next, Stopped, vars, X!vars
<1> QED
  BY <1>1, <1>2, X!NextInv

(* At most one process is in the log queue's critical section (mutex.h), for*)
(* any number of processes.                                                 *)
THEOREM LockCorrect == Spec => []MutualExclusion
<1>1. Init => LockInv
  BY X!InitInv DEF Init, LockInv
<1>2. LockInv => MutualExclusion
  BY DEF LockInv, MutualExclusion, X!IInv
<1> QED
  BY <1>1, <1>2, LockNext, PTL DEF Spec
-----------------------------------------------------------------------------
(* The queues *)

QueueInv == part = "queue" => Q!IInv

\* While the queue part runs, a step is one of Queue or none.
LEMMA QueueStep ==
  ASSUME QueueInv, [Next]_vars, part = "queue" \/ part' = "queue"
  PROVE  /\ part = "queue" /\ Q!IInv
         /\ Q!Next \/ UNCHANGED vars
BY SamePart DEF QueueInv, Next, Stopped

\* Steps of the queue part keep the ring's invariant (QueueProofs).
LEMMA QueueNext == QueueInv /\ [Next]_vars => QueueInv'
<1> SUFFICES ASSUME QueueInv, [Next]_vars, part' = "queue" PROVE Q!IInv'
  BY DEF QueueInv
<1>1. CASE Q!Next
  BY <1>1, QueueStep, Q!StepInvariant
<1>2. CASE UNCHANGED vars
  BY <1>2, QueueStep DEF Q!IInv, vars
<1> QED
  BY <1>1, <1>2, QueueStep

(* The ring buffer (queue.h) does what a deque does, and never grows and    *)
(* shrinks again for one push or pop, for any values.                       *)
THEOREM QueueCorrect == Spec => ImplementsDeque
<1>1. Init => QueueInv /\ (part = "queue" => Q!Abstract!Init)
  BY Q!InitInvariant, Q!InitAbstract DEF Init, QueueInv
<1>2. QueueInv => (part = "queue" => Q!TypeOK)
  BY Q!InvTyped DEF QueueInv
<1>3. QueueInv /\ [Next]_vars =>
        [part = "queue" => Q!NoThrashing /\ (Q!Abstract!Next \/ UNCHANGED Q!Abstract!vars)]_vars
  <2> SUFFICES ASSUME QueueInv, [Next]_vars, part = "queue", ~UNCHANGED vars
               PROVE  Q!NoThrashing /\ Q!Abstract!Next
    OBVIOUS
  <2> QED
    BY QueueStep, Q!StepInvariant, Q!StepApart
<1> QED
  BY <1>1, <1>2, <1>3, QueueNext, PTL DEF Spec, ImplementsDeque
-----------------------------------------------------------------------------
(* The process table *)

TableInv == part = "scheduler" => R!IInv

\* Steps of the scheduler part keep the table's invariant (SchedulerProofs).
LEMMA TableNext == R!TameKills /\ TableInv /\ [Next]_vars => TableInv'
<1> SUFFICES ASSUME R!TameKills, TableInv, [Next]_vars, part' = "scheduler" PROVE R!IInv'
  BY DEF TableInv
<1>1. part = "scheduler" /\ R!IInv
  BY SamePart DEF TableInv
<1>2. [R!Next]_(R!vars)
  BY <1>1 DEF Next, Stopped, vars, R!vars
<1> QED
  BY <1>1, <1>2, TableAssumption, R!NextInv

(* The process table and the two rings survive whatever is created, blocked,*)
(* killed and reaped (process.cpp), as long as only processes that exist are*)
(* killed.                                                                  *)
THEOREM TableCorrect == R!TameKills => (Spec => []TableSurvives)
<1> SUFFICES ASSUME R!TameKills PROVE Spec => []TableSurvives
  OBVIOUS
<1>1. Init => TableInv
  BY TableAssumption, R!InitInv DEF Init, TableInv
<1>2. TableInv => TableSurvives
  BY DEF TableInv, TableSurvives, R!IInv
<1>3. TableInv /\ [Next]_vars => TableInv'
  BY TableNext
<1> QED
  BY <1>1, <1>2, <1>3, PTL DEF Spec
-----------------------------------------------------------------------------
(* Interrupt lines *)

LinesInv == part = "lines" => I!IInv

\* The lines a disabling store names are one line.
LEMMA BitsApart ==
  ASSUME NEW n \in Lines, NEW m \in Lines, I!Bit(n) = I!Bit(m)
  PROVE  n = m
<1>1. n \in Nat /\ m \in Nat /\ Width \in Nat \ {0}
  BY LinesAssumption
<1>2. n \div Width = m \div Width /\ n % Width = m % Width
  BY DEF I!Bit
<1>3. n = Width * (n \div Width) + (n % Width)
  BY <1>1
<1>4. m = Width * (m \div Width) + (m % Width)
  BY <1>1
<1> QED
  BY <1>2, <1>3, <1>4

\* After init_interrupts() no line stays pending for nobody.
LEMMA LinesInit ==
  ASSUME FirmwareLines \subseteq Lines \ DOMAIN Drivers, I!Init
  PROVE  I!IInv
<1>1. I!TypeOK
  BY LinesAssumption DEF I!Init, I!TypeOK
<1> QED
  BY <1>1, LinesAssumption DEF I!Init, I!IInv, I!OwnParameter, I!NoStorm

(* A device's step, and each step of the dispatcher, keeps the lines'       *)
(* invariant.                                                               *)
LEMMA LinesStep ==
  ASSUME I!IInv, I!Next
  PROVE  I!IInv'
<1> USE LinesAssumption DEF I!IInv, I!TypeOK, I!OwnParameter, I!NoStorm
<1>1. ASSUME NEW n \in Lines, I!Raise(n) PROVE I!IInv'
  BY <1>1 DEF I!Raise
<1>2. ASSUME NEW n \in DOMAIN Drivers, I!SetHandler(n) PROVE I!IInv'
  BY <1>2 DEF I!SetHandler
<1>3. ASSUME NEW n \in DOMAIN Drivers, I!SetParam(n) PROVE I!IInv'
  BY <1>3 DEF I!SetParam
<1>4. ASSUME NEW n \in DOMAIN Drivers, I!Enable(n) PROVE I!IInv'
  BY <1>4 DEF I!Enable
<1>5. CASE I!OnIrq
  BY <1>5 DEF I!OnIrq
<1>6. CASE I!Serve
  <2>1. CASE s6 \in s4 \cap s3 /\ s1[s6] # NULL
    <3>1. s6 \in DOMAIN Drivers /\ s5[s6] = "done" /\ s2[s6] = Drivers[s6]
      BY <2>1
    <3>2. /\ s7' = <<s6, s2[s6]>> /\ s4' = s4 \ {s6}
          /\ UNCHANGED <<s1, s2, s3, s5, s8>>
      BY <1>6, <2>1 DEF I!Serve, I!Call
    <3>3. I!OwnParameter'
      BY <3>1, <3>2
    <3> QED
      BY <3>2, <3>3
  <2>2. CASE s6 \in s4 \cap s3 /\ s1[s6] = NULL
    <3>1. s6 \in Lines /\ s6 \notin DOMAIN Drivers /\ s8[s6] = 0
      BY <2>2
    <3>2. /\ s3' = {n \in s3 : I!Bit(n) # I!Bit(s6)} /\ s8' = [s8 EXCEPT ![s6] = @ + 1]
          /\ UNCHANGED <<s1, s2, s4, s5, s7>>
      BY <1>6, <2>2 DEF I!Serve, I!Disable
    <3>3. s3' = s3 \ {s6}
      <4>1. \A n \in s3 : I!Bit(n) = I!Bit(s6) => n = s6
        BY <3>1, BitsApart
      <4> QED
        BY <3>2, <4>1
    <3>4. s8' \in [Lines -> Nat] /\ s8'[s6] = 1 /\ \A n \in Lines \ {s6} : s8'[n] = s8[n]
      BY <3>1, <3>2
    <3>5. I!TypeOK'
      BY <3>2, <3>3, <3>4
    <3>6. \A n \in Lines : s8'[n] > 0 => n \notin s3' /\ n \notin DOMAIN Drivers
      BY <3>1, <3>3, <3>4
    <3>7. I!NoStorm' /\ I!OwnParameter'
      BY <3>1, <3>2, <3>4
    <3> QED
      BY <3>1, <3>2, <3>3, <3>5, <3>6, <3>7
  <2>3. CASE s6 \notin s4 \cap s3
    BY <1>6, <2>3 DEF I!Serve
  <2> QED
    BY <2>1, <2>2, <2>3
<1> QED
  BY <1>1, <1>2, <1>3, <1>4, <1>5, <1>6 DEF I!Next

\* Steps of the lines part keep the lines' invariant.
LEMMA LinesNext == LinesInv /\ [Next]_vars => LinesInv'
<1> SUFFICES ASSUME LinesInv, [Next]_vars, part' = "lines" PROVE I!IInv'
  BY DEF LinesInv
<1>1. part = "lines" /\ I!IInv
  BY SamePart DEF LinesInv
<1>2. I!Next \/ UNCHANGED vars
  BY <1>1 DEF Next, Stopped
<1>3. CASE UNCHANGED vars
  BY <1>1, <1>3 DEF vars, I!IInv, I!TypeOK, I!OwnParameter, I!NoStorm
<1> QED
  BY <1>1, <1>2, <1>3, LinesStep

\* Each handler runs with its own parameter, a connected line stays on and no
\* line storms (interrupts.cpp), for any set of lines, if the lines the
\* firmware left on have no driver.
THEOREM LinesCorrect == FirmwareLines \subseteq Lines \ DOMAIN Drivers => (Spec => []DevicesApart)
<1> SUFFICES ASSUME FirmwareLines \subseteq Lines \ DOMAIN Drivers PROVE Spec => []DevicesApart
  OBVIOUS
<1>1. Init => LinesInv
  BY LinesInit DEF Init, LinesInv
<1>2. LinesInv => DevicesApart
  BY DEF LinesInv, DevicesApart, I!IInv, I!ConnectedStaysOn
<1>3. LinesInv /\ [Next]_vars => LinesInv'
  BY LinesNext
<1> QED
  BY <1>1, <1>2, <1>3, PTL DEF Spec
-----------------------------------------------------------------------------
(* The heap *)

HeapInv == part = "heap" => B!IInv

\* The solver does not find this by itself.
LEMMA Distributes ==
  ASSUME NEW a \in Int, NEW b \in Int, NEW c \in Int
  PROVE  a * (b - c) = (a * b) - (a * c)
OBVIOUS

\* A multiple of the alignment leaves no remainder.
LEMMA MultipleOf ==
  ASSUME NEW a \in Nat \ {0}, NEW m \in Int
  PROVE  (a * m) % a = 0
<1>1. PICK x \in Int : x = a * m
  OBVIOUS
<1>2. PICK q \in Int, r \in 0 .. a - 1 : x = a * q + r /\ r = x % a
  <2>1. x \div a \in Int /\ x % a \in 0 .. a - 1 /\ x = a * (x \div a) + (x % a)
    OBVIOUS
  <2> QED
    BY <2>1
<1>3. PICK e \in Int : e = m - q
  OBVIOUS
<1>4. a * e = r
  <2>1. PICK y \in Int : y = a * q
    OBVIOUS
  <2>2. a * (m - q) = (a * m) - (a * q)
    BY Distributes
  <2>3. a * e = x - y
    BY <1>1, <1>3, <2>1, <2>2
  <2> QED
    BY <1>2, <2>1, <2>3
<1>5. e > 0 => a * e >= a
  OBVIOUS
<1>6. e < 0 => a * e < 0
  OBVIOUS
<1>7. r = 0
  BY <1>4, <1>5, <1>6
<1> QED
  BY <1>1, <1>2, <1>7

\* malloc() rounds the break up, by less than the alignment.
LEMMA RoundsUp ==
  ASSUME NEW w \in Nat, NEW a \in Nat \ {0}, w % a = 0,
         NEW b \in Nat, b + a <= w
  PROVE  /\ (b + ((w - b) % a)) % w \in b .. b + a - 1
         /\ ((b + ((w - b) % a)) % w) % a = 0
<1>1. PICK r \in 0 .. a - 1 : r = (w - b) % a
  OBVIOUS
<1>2. PICK q \in Int : w - b = a * q + r
  <2>1. PICK x \in Int : x = w - b
    OBVIOUS
  <2>2. x \div a \in Int /\ x = a * (x \div a) + (x % a)
    OBVIOUS
  <2>3. r = x % a
    BY <1>1, <2>1
  <2> QED
    BY <2>1, <2>2, <2>3
<1>3. PICK k \in Int : w = a * k
  <2>1. w \div a \in Int /\ w = a * (w \div a) + (w % a)
    OBVIOUS
  <2> QED
    BY <2>1
<1>4. PICK x \in Nat : x = b + r
  OBVIOUS
<1>5. x = a * (k - q)
  <2>1. a * (k - q) = (a * k) - (a * q)
    BY Distributes
  <2>2. x = (a * k) - (a * q)
    BY <1>2, <1>3, <1>4
  <2> QED
    BY <2>1, <2>2
<1>6. x % a = 0
  <2>1. PICK m \in Int : m = k - q
    OBVIOUS
  <2> QED
    BY <1>5, <2>1, MultipleOf
<1>7. x < w
  BY <1>1, <1>4
<1>8. x % w = x
  BY <1>7
<1> QED
  BY <1>1, <1>4, <1>6, <1>8

\* One malloc() (malloc.cpp) keeps the heap's invariant.
LEMMA HeapStep ==
  ASSUME B!IInv, NEW size \in 0 .. HeapWord - 1, B!Malloc(size)
  PROVE  B!IInv'
<1> DEFINE S == [from : 0 .. HeapWord - 1, size : 0 .. HeapWord - 1]
<1> HIDE DEF S
<1>1. /\ s1 \in 0 .. HeapWord - 1 /\ s3 \in BOOLEAN /\ s1 \in Nat /\ size \in Nat
      /\ HeapWord \in Nat \ {0} /\ Align \in Nat \ {0} /\ HeapEnd \in Nat
  BY HeapAssumption DEF B!IInv, B!TypeOK
<1>2. s2 \in Seq(S)
  BY DEF B!IInv, B!TypeOK, S
<1>3. /\ DOMAIN s2 = 1 .. Len(s2) /\ Len(s2) \in Nat
      /\ \A i \in 1 .. Len(s2) : s2[i] \in S
  BY <1>2
<1>4. \A x \in S : x.from \in Nat /\ x.size \in Nat
  BY <1>1 DEF S
<1>5. PICK from : from = (s1 + ((HeapWord - s1) % Align)) % HeapWord
  OBVIOUS
<1>6. from \in 0 .. HeapWord - 1 /\ from \in Nat
  <2>1. PICK x \in Int : x = s1 + ((HeapWord - s1) % Align)
    BY <1>1
  <2>2. x % HeapWord \in 0 .. HeapWord - 1
    BY <1>1
  <2> QED
    BY <1>5, <2>1, <2>2
<1>7. CASE ~B!Fits(size)
  <2>1. UNCHANGED <<s1, s2, s3>>
    BY <1>7 DEF B!Malloc
  <2> QED
    BY <2>1 DEF B!IInv, B!TypeOK, B!BlocksApart
<1>8. CASE B!Fits(size)
  <2>1. PICK new : new = [from |-> from, size |-> size]
    OBVIOUS
  <2>2. /\ s2' = Append(s2, new) /\ s1' = (from + size) % HeapWord
        /\ s3' = (s3 \/ (from + size >= HeapWord))
    BY <1>5, <1>8, <2>1 DEF B!Malloc, B!Rounded, B!NextBreak
  <2>3. new \in S /\ new.from = from /\ new.size = size
    BY <1>1, <1>6, <2>1 DEF S
  <2>4. /\ s2' \in Seq(S)
        /\ Len(s2') = Len(s2) + 1
        /\ \A i \in 1 .. Len(s2) : s2'[i] = s2[i]
        /\ s2'[Len(s2) + 1] = new
    BY <1>2, <2>2, <2>3
  <2>5. DOMAIN s2' = 1 .. Len(s2) + 1
    BY <2>4
  <2>6. s1' \in 0 .. HeapWord - 1
    BY <1>1, <1>6, <2>2
  <2>7. B!TypeOK' /\ s3' \in BOOLEAN
    BY <1>1, <2>2, <2>4, <2>6 DEF B!TypeOK, S
  <2>8. ASSUME ~s3'
        PROVE  /\ s1' = from + size /\ s1 <= from
               /\ from % Align = 0 /\ from + size < HeapEnd + Align
    <3>1. ~s3 /\ from + size < HeapWord
      <4>1. ~s3 /\ ~(from + size >= HeapWord)
        BY <2>2, <2>8
      <4> QED
        BY <1>1, <1>6, <4>1
    <3>2. s1 < HeapEnd + Align
      BY <3>1 DEF B!IInv
    <3>3. s1 + Align <= HeapWord
      BY <1>1, <3>2, HeapAssumption
    <3>4. from \in s1 .. s1 + Align - 1 /\ from % Align = 0
      BY <1>1, <1>5, <3>3, HeapAssumption, RoundsUp
    <3>5. (from + size) % HeapWord = from + size /\ (s1 + size) % HeapWord = s1 + size
      BY <1>1, <1>6, <3>1, <3>4
    <3>6. s1 + size <= HeapEnd
      BY <1>8, <3>5 DEF B!Fits
    <3> QED
      BY <1>1, <1>6, <2>2, <3>4, <3>5, <3>6
  <2>9. ASSUME ~s3', NEW i \in 1 .. Len(s2) + 1
        PROVE  /\ s2'[i].from % Align = 0
               /\ s2'[i].from + s2'[i].size < HeapEnd + Align
               /\ s2'[i].from + s2'[i].size <= s1'
               /\ \A j \in 1 .. i - 1 : s2'[j].from + s2'[j].size <= s2'[i].from
    <3>1. ~s3 /\ s1 <= s1' /\ s1 <= from /\ s1' \in Nat
      BY <1>1, <1>6, <2>2, <2>6, <2>8, <2>9
    <3>2. \A j \in 1 .. Len(s2) :
            s2[j].from + s2[j].size \in Nat /\ s2[j].from + s2[j].size <= s1
      BY <1>3, <1>4, <3>1 DEF B!IInv
    <3>3. CASE i = Len(s2) + 1
      <4>1. s2'[i].from = from /\ s2'[i].size = size
        BY <2>3, <2>4, <3>3
      <4>2. ASSUME NEW j \in 1 .. i - 1
            PROVE  s2'[j].from + s2'[j].size <= from
        <5>1. j \in 1 .. Len(s2)
          BY <1>3, <3>3
        <5>2. PICK e \in Nat : e = s2[j].from + s2[j].size /\ e <= s1
          BY <3>2, <5>1
        <5>3. e <= from
          BY <1>1, <1>6, <3>1, <5>2
        <5> QED
          BY <2>4, <5>1, <5>2, <5>3
      <4> QED
        BY <1>1, <1>6, <2>8, <2>9, <4>1, <4>2
    <3>4. CASE i \in 1 .. Len(s2)
      <4>1. /\ s2[i].from % Align = 0
            /\ s2[i].from + s2[i].size < HeapEnd + Align
            /\ \A j \in 1 .. i - 1 : s2[j].from + s2[j].size <= s2[i].from
        BY <1>3, <3>1, <3>4 DEF B!IInv, B!BlocksApart
      <4>2. s2[i].from + s2[i].size <= s1'
        <5>1. PICK e \in Nat : e = s2[i].from + s2[i].size /\ e <= s1
          BY <3>2, <3>4
        <5>2. e <= s1'
          BY <1>1, <3>1, <5>1
        <5> QED
          BY <5>1, <5>2
      <4>3. \A j \in 1 .. i - 1 : j \in 1 .. Len(s2)
        BY <1>3, <3>4
      <4>4. \A j \in 1 .. i - 1 : s2'[j] = s2[j]
        BY <2>4, <4>3
      <4> QED
        BY <2>4, <3>4, <4>1, <4>2, <4>4
    <3>5. i = Len(s2) + 1 \/ i \in 1 .. Len(s2)
      BY <1>3
    <3> QED
      BY <3>3, <3>4, <3>5
  <2>10. B!BlocksApart'
    BY <2>5, <2>9 DEF B!BlocksApart
  <2>11. ~s3' => s1' < HeapEnd + Align
    BY <2>8
  <2> QED
    BY <2>5, <2>7, <2>9, <2>10, <2>11 DEF B!IInv
<1> QED
  BY <1>7, <1>8

\* Steps of the heap part keep the heap's invariant.
LEMMA HeapNext == HeapInv /\ [Next]_vars => HeapInv'
<1> SUFFICES ASSUME HeapInv, [Next]_vars, part' = "heap" PROVE B!IInv'
  BY DEF HeapInv
<1>1. part = "heap" /\ B!IInv
  BY SamePart DEF HeapInv
<1>2. B!Next \/ UNCHANGED vars
  BY <1>1 DEF Next, Stopped
<1>3. CASE UNCHANGED vars
  BY <1>1, <1>3 DEF vars, B!IInv, B!TypeOK, B!BlocksApart
<1> QED
  BY <1>1, <1>2, <1>3, HeapStep DEF B!Next

\* Until a request makes the break wrap around, the blocks malloc() gives are
\* aligned, apart from each other and past the end by less than the rounding,
\* for any sizes and bounds that leave two alignments above the heap's end.
THEOREM HeapCorrect == Spec => []BlocksApart
<1>1. Init => HeapInv
  <2> SUFFICES ASSUME Init, part = "heap" PROVE B!IInv
    BY DEF HeapInv
  <2>1. s1 = HeapStart /\ s2 = <<>> /\ s3 = FALSE
    BY DEF Init, B!Init
  <2>2. HeapStart \in 0 .. HeapWord - 1 /\ HeapStart < HeapEnd + Align
    BY HeapAssumption
  <2>3. s2 \in Seq([from : 0 .. HeapWord - 1, size : 0 .. HeapWord - 1]) /\ DOMAIN s2 = {}
    BY <2>1
  <2> QED
    BY <2>1, <2>2, <2>3 DEF B!IInv, B!TypeOK, B!BlocksApart
<1>2. HeapInv => BlocksApart
  BY DEF HeapInv, BlocksApart, B!IInv
<1> QED
  BY <1>1, <1>2, HeapNext, PTL DEF Spec
-----------------------------------------------------------------------------
(* The clock *)

ClockInv == part = "clock" => T!IInv

\* The distance of two readings of the lower half is at most the time between.
LEMMA LowerHalves ==
  ASSUME NEW w \in Nat \ {0}, NEW a \in Nat, NEW c \in Nat, a <= c
  PROVE  ((c % w) + w - (a % w)) % w <= c - a
<1>1. PICK q \in Nat, r \in 0 .. w - 1 : c = w * q + r /\ r = c % w
  <2>1. c \div w \in Nat /\ c % w \in 0 .. w - 1 /\ c = w * (c \div w) + (c % w)
    OBVIOUS
  <2> QED
    BY <2>1
<1>2. PICK p \in Nat, s \in 0 .. w - 1 : a = w * p + s /\ s = a % w
  <2>1. a \div w \in Nat /\ a % w \in 0 .. w - 1 /\ a = w * (a \div w) + (a % w)
    OBVIOUS
  <2> QED
    BY <2>1
<1>3. PICK e \in Int : e = q - p
  OBVIOUS
<1>4. PICK y \in Int : y = w * e
  OBVIOUS
<1>5. c - a = y + (r - s)
  <2>1. PICK u \in Int, v \in Int : u = w * q /\ v = w * p
    OBVIOUS
  <2>2. w * (q - p) = (w * q) - (w * p)
    OBVIOUS
  <2>3. y = u - v
    BY <1>3, <1>4, <2>1, <2>2
  <2>4. c = u + r /\ a = v + s
    BY <1>1, <1>2, <2>1
  <2> QED
    BY <2>3, <2>4
<1>6. e < 0 => y <= -w
  BY <1>4
<1>7. e > 0 => y >= w
  BY <1>4
<1>8. e = 0 => y = 0
  BY <1>4
<1>9. CASE r >= s
  <2>1. PICK x \in 0 .. w - 1 : x = r - s
    BY <1>9
  <2>2. r + w - s = x + w
    BY <2>1
  <2>3. (x + w) % w = x
    OBVIOUS
  <2>4. y >= 0
    BY <1>5, <1>6, <1>7, <1>8
  <2> QED
    BY <1>1, <1>2, <1>5, <2>1, <2>2, <2>3, <2>4
<1>10. CASE r < s
  <2>1. PICK x \in 1 .. w - 1 : x = r + w - s
    BY <1>10
  <2>2. x % w = x
    OBVIOUS
  <2>3. y >= w
    BY <1>5, <1>6, <1>7, <1>8, <1>10
  <2> QED
    BY <1>1, <1>2, <1>5, <2>1, <2>2, <2>3
<1> QED
  BY <1>9, <1>10

(* Each step of a reader of the two words of the clock keeps the clock's    *)
(* invariant, and ends no sleep early.                                      *)
LEMMA ClockStep ==
  ASSUME T!IInv, T!Next
  PROVE  T!IInv' /\ T!SleepsLongEnough
<1> USE TimeAssumption DEF T!IInv, T!WrongOnlyAtCarry
<1>1. CASE T!Tick
  BY <1>1 DEF T!Tick, T!SleepsLongEnough
<1>2. CASE T!ReadHigh
  BY <1>2 DEF T!ReadHigh, T!SleepsLongEnough
<1>3. CASE T!ReadLow
  <2>1. /\ s2.pc = "low" /\ s2'.pc = "done" /\ s2'.called = s2.called /\ s2'.now = s1
        /\ s2'.val = s2.hi * CounterWord + (s1 % CounterWord)
        /\ s2'.carry = ((s1 \div CounterWord) # s2.hi)
        /\ UNCHANGED <<s1, s3>>
    BY <1>3 DEF T!ReadLow, T!Low, T!High
  <2>2. s1 = (s1 \div CounterWord) * CounterWord + (s1 % CounterWord)
    OBVIOUS
  <2>3. ~s2'.carry => s2'.val = s1
    <3>1. ~s2'.carry => s2.hi = s1 \div CounterWord
      BY <2>1
    <3> QED
      BY <2>1, <2>2, <3>1
  <2>4. T!WrongOnlyAtCarry'
    BY <2>1, <2>3
  <2> QED
    BY <2>1, <2>4 DEF T!SleepsLongEnough
<1>4. CASE T!Wake
  <2>1. /\ s3.pc = "polling" /\ ((s1 % CounterWord) + CounterWord - s3.init) % CounterWord >= s3.us
        /\ s3' = [s3 EXCEPT !.pc = "woken"] /\ UNCHANGED <<s1, s2>>
    BY <1>4 DEF T!Wake, T!Low
  <2>2. PICK a \in Nat, u \in Nat : a = s3.called /\ u = s3.us /\ a <= s1 /\ s3.init = a % CounterWord
    BY <2>1
  <2>3. ((s1 % CounterWord) + CounterWord - (a % CounterWord)) % CounterWord <= s1 - a
    BY <2>2, LowerHalves
  <2>4. PICK m \in Int : m = ((s1 % CounterWord) + CounterWord - (a % CounterWord)) % CounterWord
    OBVIOUS
  <2>5. m >= u /\ m <= s1 - a
    BY <2>1, <2>2, <2>3, <2>4
  <2>6. s1 - a >= u
    BY <2>5
  <2>7. T!SleepsLongEnough
    BY <2>2, <2>6 DEF T!SleepsLongEnough
  <2>8. s3'.pc # "polling"
    BY <2>1
  <2> QED
    BY <2>1, <2>7, <2>8
<1>5. ASSUME NEW us \in Delays, T!StartSleep(us) PROVE T!IInv' /\ T!SleepsLongEnough
  BY <1>5 DEF T!StartSleep, T!SleepsLongEnough, T!Low
<1> QED
  BY <1>1, <1>2, <1>3, <1>4, <1>5 DEF T!Next

\* Steps of the clock part keep its invariant and end no sleep early.
LEMMA ClockNext == ClockInv /\ [Next]_vars => ClockInv' /\ [part = "clock" => T!SleepsLongEnough]_vars
<1> SUFFICES ASSUME ClockInv, [Next]_vars, part = "clock"
             PROVE  T!IInv' /\ (T!SleepsLongEnough \/ UNCHANGED vars)
  BY SamePart DEF ClockInv
<1>1. T!IInv /\ (T!Next \/ UNCHANGED vars)
  BY DEF ClockInv, Next, Stopped
<1>2. CASE UNCHANGED vars
  BY <1>1, <1>2 DEF vars, T!IInv, T!WrongOnlyAtCarry
<1> QED
  BY <1>1, <1>2, ClockStep
-----------------------------------------------------------------------------
(* The kernel's timers *)

TimersInv == part = "timers" => KT!IInv

\* There is a first of the free slots.
LEMMA FirstFree ==
  ASSUME NEW s \in KT!Slots, s2[s].handler = NULL
  PROVE  KT!FreeSlot \in KT!Slots /\ s2[KT!FreeSlot].handler = NULL
<1> DEFINE free == {r \in KT!Slots : s2[r].handler = NULL}
<1>1. free \subseteq Nat /\ free # {}
  BY TimeAssumption DEF KT!Slots
<1>2. PICK r \in free : \A x \in free : ~(<<x, r>> \in OpToRel(<, Nat))
  BY <1>1, NatLessThanWellFounded, WFMin
<1>3. \A x \in KT!Slots : x < r => s2[x].handler # NULL
  BY <1>1, <1>2 DEF OpToRel
<1>4. \E x \in KT!Slots : s2[x].handler = NULL /\ \A y \in KT!Slots : y < x => s2[y].handler # NULL
  BY <1>2, <1>3
<1> QED
  BY <1>4 DEF KT!FreeSlot

(* Setting, starting, firing and freeing kernel timers keeps the timers'    *)
(* invariant.                                                               *)
LEMMA TimersStep ==
  ASSUME KT!IInv, KT!Next
  PROVE  KT!IInv'
<1> USE TimeAssumption DEF KT!IInv, KT!SlotsOwned, KT!TypeOK, KT!Timer
<1>1. CASE KT!Pass
  BY <1>1 DEF KT!Pass
<1>2. CASE KT!Tick
  <2>1. s1 < s3
    BY DEF KT!Never
  <2> QED
    BY <1>2, <2>1 DEF KT!Tick, KT!vars
<1>3. CASE KT!SetHandler
  BY <1>3 DEF KT!SetHandler
<1>4. CASE KT!SetTime
  BY <1>4 DEF KT!SetTime, KT!Idle
<1>5. ASSUME NEW h \in TimerHandlers, NEW d \in TimerDelays, KT!StartKernelTimer(h, d)
      PROVE  KT!IInv'
  BY <1>5, FirstFree DEF KT!StartKernelTimer, KT!Idle
<1>6. ASSUME NEW s \in KT!Slots, KT!CancelKernelTimer(s)
      PROVE  KT!IInv'
  BY <1>6 DEF KT!CancelKernelTimer
<1> QED
  BY <1>1, <1>2, <1>3, <1>4, <1>5, <1>6 DEF KT!Next

\* Steps of the timers part keep the timers' invariant.
LEMMA TimersNext == TimersInv /\ [Next]_vars => TimersInv'
<1> SUFFICES ASSUME TimersInv, [Next]_vars, part' = "timers" PROVE KT!IInv'
  BY DEF TimersInv
<1>1. KT!IInv /\ (KT!Next \/ UNCHANGED vars)
  BY SamePart DEF TimersInv, Next, Stopped
<1>2. CASE UNCHANGED vars
  BY <1>1, <1>2 DEF vars, KT!IInv, KT!TypeOK, KT!SlotsOwned
<1> QED
  BY <1>1, <1>2, TimersStep

(* No sleep ends early, a time read wrong is read across a carry, and no    *)
(* timer slot has two owners (timer.cpp, process.cpp).                      *)
THEOREM TimeCorrect == Spec => TimeKept
<1>1. Init => ClockInv
  BY DEF Init, ClockInv, T!Init, T!Idle, T!IInv, T!WrongOnlyAtCarry
<1>2. Init => TimersInv
  <2> SUFFICES ASSUME Init, part = "timers" PROVE KT!IInv
    BY DEF TimersInv
  <2>1. KT!Init
    BY DEF Init
  <2>2. KT!TypeOK
    BY <2>1, TimeAssumption DEF KT!Init, KT!Idle, KT!TypeOK, KT!Timer
  <2> QED
    BY <2>1, <2>2 DEF KT!Init, KT!Idle, KT!IInv, KT!SlotsOwned
<1>3. ClockInv => (part = "clock" => T!WrongOnlyAtCarry)
  BY DEF ClockInv, T!IInv
<1>4. TimersInv => (part = "timers" => KT!SlotsOwned)
  BY DEF TimersInv, KT!IInv
<1> QED
  BY <1>1, <1>2, <1>3, <1>4, ClockNext, TimersNext, PTL DEF Spec, TimeKept
-----------------------------------------------------------------------------
(* The growing arrays *)

ArrayInv == part = "array" => A!IInv

\* Twice a power of two is one.
LEMMA PowersDouble ==
  ASSUME NEW n \in Nat \ {0}, A!PowerOfTwo(n)
  PROVE  A!PowerOfTwo(2 * n)
BY Q!DoubledIsPower DEF A!PowerOfTwo, Q!PowerOfTwo

\* reserve() finds a power of two.
LEMMA NextPower ==
  ASSUME NEW n \in Nat \ {0}
  PROVE  \E s \in 1 .. 2 * n : s >= n /\ s < 2 * n /\ A!PowerOfTwo(s)
<1> DEFINE found(m) == \E s \in 1 .. 2 * m : s >= m /\ s < 2 * m /\ A!PowerOfTwo(s)
           missing == {m \in Nat \ {0} : ~found(m)}
<1> SUFFICES ASSUME missing # {} PROVE FALSE
  OBVIOUS
<1>1. PICK m \in missing : \A x \in missing : ~(<<x, m>> \in OpToRel(<, Nat))
  BY NatLessThanWellFounded, WFMin
<1>2. m \in Nat \ {0} /\ ~found(m)
  OBVIOUS
<1>3. \A x \in Nat \ {0} : x < m => found(x)
  BY <1>1, <1>2 DEF OpToRel
<1>4. m # 1
  <2>1. A!PowerOfTwo(1)
    BY DEF A!PowerOfTwo
  <2> QED
    BY <1>2, <2>1
<1>5. m - 1 \in Nat \ {0} /\ m - 1 < m
  BY <1>2, <1>4
<1>6. PICK s \in 1 .. 2 * (m - 1) : s >= m - 1 /\ s < 2 * (m - 1) /\ A!PowerOfTwo(s)
  BY <1>3, <1>5
<1>7. CASE s >= m
  BY <1>2, <1>5, <1>6, <1>7
<1>8. CASE s = m - 1
  <2>1. A!PowerOfTwo(2 * s)
    BY <1>6, PowersDouble
  <2>2. 2 * s \in 1 .. 2 * m /\ 2 * s >= m /\ 2 * s < 2 * m
    BY <1>2, <1>4, <1>8
  <2> QED
    BY <1>2, <2>1, <2>2
<1> QED
  BY <1>2, <1>6, <1>7, <1>8

(* realloc() (expArray.h) copies the elements that fit, and its memory has  *)
(* the size asked for, of at least one.                                     *)
LEMMA ReallocKeeps ==
  ASSUME NEW a \in A!Array, NEW size \in Nat, a.nPos <= Len(a.cells)
  PROVE  LET r == A!Realloc(a, size)
         IN  /\ r \in A!Array /\ r.nPos = a.nPos
             /\ Len(r.cells) = A!Size(size) /\ A!Size(size) \in Nat \ {0}
             /\ \A k \in 1 .. A!Size(size) : k <= a.nPos => r.cells[k] = a.cells[k]
<1> DEFINE Cells == Values \cup {Fresh}
<1> HIDE DEF Cells
<1>1. a = [cells |-> a.cells, nPos |-> a.nPos] /\ a.cells \in Seq(Cells) /\ a.nPos \in Nat
  BY DEF A!Array, Cells
<1>2. PICK n \in Nat \ {0} : n = A!Size(size)
  BY DEF A!Size
<1>3. PICK c : c = [k \in 1 .. n |-> IF k <= a.nPos THEN a.cells[k] ELSE Fresh]
  OBVIOUS
<1>4. \A k \in 1 .. n : c[k] \in Cells
  <2> SUFFICES ASSUME NEW k \in 1 .. n PROVE c[k] \in Cells
    OBVIOUS
  <2>1. CASE k <= a.nPos
    <3>1. k \in 1 .. Len(a.cells)
      BY <1>1, <2>1
    <3> QED
      BY <1>1, <1>3, <2>1, <3>1
  <2>2. CASE ~(k <= a.nPos)
    BY <1>3, <2>2 DEF Cells
  <2> QED
    BY <2>1, <2>2
<1>5. c \in [1 .. n -> Cells]
  BY <1>3, <1>4
<1>6. c \in Seq(Cells) /\ Len(c) = n
  BY <1>5
<1>7. A!Realloc(a, size) = [cells |-> c, nPos |-> a.nPos]
  <2>1. c = [k \in 1 .. A!Size(size) |-> IF k <= a.nPos THEN a.cells[k] ELSE Fresh]
    BY <1>2, <1>3
  <2>2. A!Realloc(a, size) = [a EXCEPT !.cells = c]
    BY <2>1 DEF A!Realloc
  <2>3. [a EXCEPT !.cells = c] = [cells |-> c, nPos |-> a.nPos]
    BY <1>1
  <2> QED
    BY <2>2, <2>3
<1> QED
  BY <1>1, <1>2, <1>3, <1>6, <1>7 DEF A!Array, Cells

\* realloc() keeps a list it has room for.
LEMMA ReallocHolds ==
  ASSUME NEW a \in A!Array, NEW size \in Nat, NEW l \in Seq(Values),
         A!Holds(a, l), Len(l) <= A!Size(size)
  PROVE  A!Realloc(a, size) \in A!Array /\ A!Holds(A!Realloc(a, size), l)
<1>1. PICK r : r = A!Realloc(a, size)
  OBVIOUS
<1>2. /\ r \in A!Array /\ r.nPos = a.nPos
      /\ Len(r.cells) = A!Size(size) /\ A!Size(size) \in Nat \ {0}
      /\ \A k \in 1 .. A!Size(size) : k <= a.nPos => r.cells[k] = a.cells[k]
  BY <1>1, ReallocKeeps DEF A!Holds
<1>3. \A k \in 1 .. Len(l) : r.cells[k] = l[k]
  <2> SUFFICES ASSUME NEW k \in 1 .. Len(l) PROVE r.cells[k] = l[k]
    OBVIOUS
  <2>1. k \in 1 .. A!Size(size) /\ k <= a.nPos
    BY <1>2 DEF A!Holds
  <2> QED
    BY <1>2, <2>1 DEF A!Holds
<1> QED
  BY <1>1, <1>2, <1>3 DEF A!Holds

\* A value stored behind the last one is appended to the list.
LEMMA StoreHolds ==
  ASSUME NEW a \in A!Array, NEW l \in Seq(Values), NEW v \in Values,
         A!Holds(a, l), a.nPos < Len(a.cells)
  PROVE  LET r == [cells |-> [a.cells EXCEPT ![a.nPos + 1] = v], nPos |-> a.nPos + 1]
         IN  r \in A!Array /\ A!Holds(r, Append(l, v))
<1> DEFINE Cells == Values \cup {Fresh}
<1> HIDE DEF Cells
<1>1. a.cells \in Seq(Cells) /\ a.nPos \in Nat /\ v \in Cells /\ Len(a.cells) \in Nat
  BY DEF A!Array, Cells
<1>2. PICK n \in Nat : n = a.nPos
  BY <1>1
<1>3. PICK c : c = [a.cells EXCEPT ![n + 1] = v]
  OBVIOUS
<1>4. n + 1 \in 1 .. Len(a.cells)
  BY <1>1, <1>2
<1>5. c \in Seq(Cells) /\ Len(c) = Len(a.cells) /\ c[n + 1] = v
      /\ \A k \in 1 .. n : c[k] = a.cells[k]
  <2>1. c \in Seq(Cells) /\ Len(c) = Len(a.cells)
    BY <1>1, <1>3, <1>4, ExceptSeq
  <2>2. DOMAIN a.cells = 1 .. Len(a.cells)
    BY <1>1
  <2>3. c[n + 1] = v
    BY <1>3, <1>4, <2>2
  <2>4. \A k \in 1 .. n : k \in 1 .. Len(a.cells) /\ k # n + 1
    BY <1>1, <1>4
  <2> QED
    BY <1>3, <2>1, <2>2, <2>3, <2>4
<1>6. PICK r : r = [cells |-> c, nPos |-> n + 1]
  OBVIOUS
<1>7. r \in A!Array /\ r.cells = c /\ r.nPos = n + 1
  BY <1>5, <1>6 DEF A!Array, Cells
<1>8. PICK m : m = Append(l, v)
  OBVIOUS
<1>9. Len(l) = n /\ Len(m) = n + 1 /\ m[n + 1] = v /\ \A k \in 1 .. n : m[k] = l[k]
  BY <1>2, <1>8 DEF A!Holds
<1>10. \A k \in 1 .. n : c[k] = m[k]
  BY <1>5, <1>9 DEF A!Holds
<1>11. \A k \in 1 .. n + 1 : c[k] = m[k]
  <2> SUFFICES ASSUME NEW k \in 1 .. n + 1 PROVE c[k] = m[k]
    OBVIOUS
  <2>1. k = n + 1 \/ k \in 1 .. n
    OBVIOUS
  <2> QED
    BY <1>5, <1>9, <1>10, <2>1
<1>12. A!Holds(r, m)
  <2>1. r.nPos <= Len(r.cells) /\ Len(r.cells) > 0
    BY <1>1, <1>4, <1>5, <1>7
  <2> QED
    BY <1>7, <1>9, <1>11, <2>1 DEF A!Holds
<1> QED
  BY <1>2, <1>3, <1>6, <1>7, <1>8, <1>12

\* Clearing, popping and assigning put a shorter list into the same memory.
LEMMA PrefixHolds ==
  ASSUME NEW a \in A!Array, NEW l \in Seq(Values), A!Holds(a, l), NEW n \in 0 .. Len(l)
  PROVE  /\ [a EXCEPT !.nPos = n] \in A!Array
         /\ [a EXCEPT !.nPos = n].nPos = n /\ [a EXCEPT !.nPos = n].cells = a.cells
         /\ SubSeq(l, 1, n) \in Seq(Values) /\ Len(SubSeq(l, 1, n)) = n
         /\ A!Holds([a EXCEPT !.nPos = n], SubSeq(l, 1, n))
<1>1. a = [cells |-> a.cells, nPos |-> a.nPos]
  BY DEF A!Array
<1>2. PICK r : r = [a EXCEPT !.nPos = n]
  OBVIOUS
<1>3. r \in A!Array /\ r.nPos = n /\ r.cells = a.cells
  BY <1>1, <1>2 DEF A!Array
<1>4. \A i \in 1 .. n : i \in 1 .. Len(l) /\ l[i] \in Values /\ 1 + i - 1 = i
  OBVIOUS
<1>5. PICK m : m = SubSeq(l, 1, n)
  OBVIOUS
<1>6. m \in Seq(Values) /\ Len(m) = n /\ \A i \in 1 .. n : m[i] = l[i]
  BY <1>4, <1>5, SubSeqProperties
<1>7. A!Holds(r, m)
  <2>1. n <= Len(r.cells) /\ Len(r.cells) > 0
    BY <1>3 DEF A!Holds, A!Array
  <2>2. \A i \in 1 .. n : r.cells[i] = m[i]
    BY <1>3, <1>4, <1>6 DEF A!Holds
  <2> QED
    BY <1>3, <1>6, <2>1, <2>2 DEF A!Holds
<1> QED
  BY <1>2, <1>3, <1>5, <1>6, <1>7

\* An operation on one array leaves the other as it is.
LEMMA OneArray ==
  ASSUME A!IInv, NEW n \in A!Names, NEW a \in A!Array, NEW l \in Seq(Values), A!Holds(a, l),
         s1' = [s1 EXCEPT ![n] = a], s3' = [s3 EXCEPT ![n] = l], ~s2'
  PROVE  A!IInv'
BY DEF A!IInv, A!NeverTooSmall

(* push_back() keeps the arrays' invariant, growing first when there is no  *)
(* room.                                                                    *)
LEMMA PushBackStep ==
  ASSUME A!IInv, NEW n \in A!Names, NEW v \in Values, A!PushBack(n, v)
  PROVE  A!IInv'
<1>1. PICK a, l : a = s1[n] /\ l = s3[n]
  OBVIOUS
<1>2. a \in A!Array /\ l \in Seq(Values) /\ A!Holds(a, l) /\ ~s2
  BY <1>1 DEF A!IInv, A!NeverTooSmall
<1>3. PICK w : w = IF a.nPos >= Len(a.cells) THEN A!Realloc(a, 2 * Len(a.cells) + 1) ELSE a
  OBVIOUS
<1>4. PICK r : r = [cells |-> [w.cells EXCEPT ![w.nPos + 1] = v], nPos |-> w.nPos + 1]
  OBVIOUS
<1>5. s1' = [s1 EXCEPT ![n] = r] /\ s3' = [s3 EXCEPT ![n] = Append(l, v)] /\ s2' = s2
  BY <1>1, <1>3, <1>4 DEF A!PushBack
<1>6. w \in A!Array /\ A!Holds(w, l) /\ w.nPos < Len(w.cells)
  <2>1. Len(a.cells) \in Nat /\ a.nPos \in Nat /\ a.nPos <= Len(a.cells) /\ a.nPos = Len(l)
    BY <1>2 DEF A!Array, A!Holds
  <2>2. CASE a.nPos >= Len(a.cells)
    <3>1. PICK k \in Nat \ {0} : k = 2 * Len(a.cells) + 1 /\ A!Size(k) = k /\ a.nPos < k
      BY <2>1 DEF A!Size
    <3>2. w = A!Realloc(a, k)
      BY <1>3, <2>2, <3>1
    <3>3. w \in A!Array /\ A!Holds(w, l)
      BY <1>2, <2>1, <3>1, <3>2, ReallocHolds
    <3>4. w.nPos = a.nPos /\ Len(w.cells) = k
      BY <1>2, <2>1, <3>1, <3>2, ReallocKeeps
    <3> QED
      BY <3>1, <3>3, <3>4
  <2>3. CASE ~(a.nPos >= Len(a.cells))
    BY <1>2, <1>3, <2>1, <2>3
  <2> QED
    BY <2>2, <2>3
<1>7. r \in A!Array /\ A!Holds(r, Append(l, v))
  BY <1>2, <1>4, <1>6, StoreHolds
<1>8. Append(l, v) \in Seq(Values)
  BY <1>2
<1> QED
  BY <1>2, <1>5, <1>7, <1>8, OneArray

\* What is under a third full fits in half of the memory.
LEMMA HalfOverThird ==
  ASSUME NEW z \in Nat, NEW k \in Nat
  PROVE  z \div 2 \in Nat /\ (k < z \div 3 => k < z \div 2)
OBVIOUS

\* pop_back() keeps the arrays' invariant, shrinking when under a third full.
LEMMA PopBackStep ==
  ASSUME A!IInv, NEW n \in A!Names, A!PopBack(n)
  PROVE  A!IInv'
<1>1. PICK a, l : a = s1[n] /\ l = s3[n]
  OBVIOUS
<1>2. a \in A!Array /\ l \in Seq(Values) /\ A!Holds(a, l) /\ ~s2
  BY <1>1 DEF A!IInv, A!NeverTooSmall
<1>3. a.nPos \in Nat /\ a.nPos > 0 /\ a.nPos = Len(l) /\ Len(a.cells) \in Nat
  BY <1>1, <1>2 DEF A!PopBack, A!Array, A!Holds
<1>4. PICK k \in 0 .. Len(l) : k = Len(l) - 1 /\ k = a.nPos - 1 /\ k \in Nat
  <2>1. PICK z \in Nat : z = a.nPos
    BY <1>3
  <2>2. Len(l) = z /\ z - 1 \in 0 .. z
    BY <1>3, <2>1
  <2> QED
    BY <2>1, <2>2
<1>5. PICK s, m : s = [a EXCEPT !.nPos = k] /\ m = SubSeq(l, 1, k)
  OBVIOUS
<1>6. /\ s \in A!Array /\ s.nPos = k /\ s.cells = a.cells
      /\ m \in Seq(Values) /\ Len(m) = k /\ A!Holds(s, m)
  BY <1>2, <1>5, PrefixHolds
<1>7. s = [s1[n] EXCEPT !.nPos = @ - 1] /\ s3' = [s3 EXCEPT ![n] = m]
  BY <1>1, <1>4, <1>5 DEF A!PopBack
<1>8. CASE s.nPos < Len(s.cells) \div 3
  <2>1. PICK z \in Nat : z = Len(s.cells)
    BY <1>3, <1>6
  <2>2. z \div 2 \in Nat /\ (k < z \div 3 => k < z \div 2)
    BY <1>4, HalfOverThird
  <2>3. PICK h \in Nat : h = Len(s.cells) \div 2 /\ h = z \div 2
    BY <2>1, <2>2
  <2>4. /\ s1' = [s1 EXCEPT ![n] = A!Realloc(s, h)]
        /\ s2' = (s2 \/ A!Size(h) < k)
    BY <1>6, <1>7, <1>8, <2>3 DEF A!PopBack
  <2>5. k < h
    <3>1. k < z \div 3
      BY <1>6, <1>8, <2>1
    <3> QED
      BY <2>2, <2>3, <3>1
  <2>6. k <= A!Size(h) /\ ~(A!Size(h) < k)
    BY <2>5 DEF A!Size
  <2>7. A!Realloc(s, h) \in A!Array /\ A!Holds(A!Realloc(s, h), m)
    BY <1>6, <2>6, ReallocHolds
  <2>8. ~s2'
    BY <1>2, <2>4, <2>6
  <2> QED
    BY <1>6, <1>7, <2>4, <2>7, <2>8, OneArray
<1>9. CASE ~(s.nPos < Len(s.cells) \div 3)
  <2>1. s1' = [s1 EXCEPT ![n] = s] /\ s2' = s2
    BY <1>7, <1>9 DEF A!PopBack
  <2> QED
    BY <1>2, <1>6, <1>7, <2>1, OneArray
<1> QED
  BY <1>8, <1>9

\* An array that is cleared, in memory of a new size.
LEMMA ClearedHolds ==
  ASSUME NEW a \in A!Array, NEW l \in Seq(Values), A!Holds(a, l), NEW size \in Nat
  PROVE  LET r == A!Realloc([a EXCEPT !.nPos = 0], size)
         IN  r \in A!Array /\ r.nPos = 0 /\ Len(r.cells) = A!Size(size) /\ A!Holds(r, <<>>)
<1>1. PICK e : e = [a EXCEPT !.nPos = 0]
  OBVIOUS
<1>2. /\ e \in A!Array /\ e.nPos = 0 /\ e.cells = a.cells
      /\ A!Holds(e, SubSeq(l, 1, 0))
  <2>1. 0 \in 0 .. Len(l)
    OBVIOUS
  <2> QED
    BY <1>1, <2>1, PrefixHolds
<1>3. SubSeq(l, 1, 0) = <<>>
  BY SubSeqEmpty
<1>4. <<>> \in Seq(Values) /\ Len(<<>>) = 0 /\ 0 <= A!Size(size)
  BY DEF A!Size
<1>5. A!Realloc(e, size) \in A!Array /\ A!Holds(A!Realloc(e, size), <<>>)
  BY <1>2, <1>3, <1>4, ReallocHolds
<1>6. e.nPos <= Len(e.cells)
  BY <1>2 DEF A!Holds
<1>7. A!Realloc(e, size).nPos = 0 /\ Len(A!Realloc(e, size).cells) = A!Size(size)
  BY <1>2, <1>6, ReallocKeeps
<1> QED
  BY <1>1, <1>5, <1>7

\* clear() keeps the arrays' invariant.
LEMMA ClearStep ==
  ASSUME A!IInv, NEW n \in A!Names, A!Clear(n)
  PROVE  A!IInv'
<1>1. PICK r : r = A!Realloc([s1[n] EXCEPT !.nPos = 0], 2)
  OBVIOUS
<1>2. s1' = [s1 EXCEPT ![n] = r] /\ s3' = [s3 EXCEPT ![n] = <<>>] /\ s2' = s2
  <2>1. n \in DOMAIN s1
    BY DEF A!IInv
  <2> QED
    BY <1>1, <2>1 DEF A!Clear
<1>3. r \in A!Array /\ A!Holds(r, <<>>) /\ ~s2
  BY <1>1, ClearedHolds DEF A!IInv, A!NeverTooSmall
<1>4. <<>> \in Seq(Values)
  OBVIOUS
<1> QED
  BY <1>2, <1>3, <1>4, OneArray

\* reserve() keeps the arrays' invariant: it never gives less room than there
\* is.
LEMMA ReserveStep ==
  ASSUME A!IInv, NEW n \in A!Names, NEW size \in 1 .. ArrayMax, A!Reserve(n, size)
  PROVE  A!IInv'
<1>1. PICK a, l : a = s1[n] /\ l = s3[n]
  OBVIOUS
<1>2. a \in A!Array /\ l \in Seq(Values) /\ A!Holds(a, l) /\ ~s2
  BY <1>1 DEF A!IInv, A!NeverTooSmall
<1>3. PICK z : z = CHOOSE s \in 1 .. 2 * size : s >= size /\ s < 2 * size /\ A!PowerOfTwo(s)
  OBVIOUS
<1>4. size \in Nat \ {0}
  OBVIOUS
<1>5. z \in 1 .. 2 * size /\ z >= size
  BY <1>3, <1>4, NextPower
<1>6. s1' = [s1 EXCEPT ![n] = A!Realloc(a, z)] /\ s2' = s2 /\ s3' = s3 /\ Len(a.cells) < size
  <2>1. n \in DOMAIN s1
    BY DEF A!IInv
  <2> QED
    BY <1>1, <1>3, <2>1 DEF A!Reserve
<1>7. z \in Nat /\ Len(l) <= A!Size(z)
  <2>1. Len(l) \in Nat /\ Len(a.cells) \in Nat /\ Len(l) <= Len(a.cells)
    BY <1>2 DEF A!Holds, A!Array
  <2>2. z \in Nat /\ A!Size(z) = z
    BY <1>4, <1>5 DEF A!Size
  <2> QED
    BY <1>4, <1>5, <1>6, <2>1, <2>2
<1>8. A!Realloc(a, z) \in A!Array /\ A!Holds(A!Realloc(a, z), l)
  BY <1>2, <1>7, ReallocHolds
<1>9. s3' = [s3 EXCEPT ![n] = l]
  BY <1>1, <1>6 DEF A!IInv
<1> QED
  BY <1>2, <1>6, <1>8, <1>9, OneArray

\* The assignment operator keeps the arrays' invariant, of an array to itself
\* too.
LEMMA AssignStep ==
  ASSUME A!IInv, NEW n \in A!Names, NEW m \in A!Names, A!Assign(n, m)
  PROVE  A!IInv'
<1> DEFINE Cells == Values \cup {Fresh}
<1> HIDE DEF Cells
<1>1. PICK b, l : b = s1[m] /\ l = s3[m]
  OBVIOUS
<1>2. b \in A!Array /\ l \in Seq(Values) /\ A!Holds(b, l) /\ ~s2
  BY <1>1 DEF A!IInv, A!NeverTooSmall
<1>3. b.cells \in Seq(Cells) /\ \A a \in A!Array : a.cells \in Seq(Cells)
  BY <1>2 DEF A!Array, Cells
<1>4. PICK k \in Nat : k = b.nPos /\ k = Len(l) /\ k <= Len(b.cells)
  BY <1>2 DEF A!Array, A!Holds
<1>5. PICK t : t = A!Realloc([s1[n] EXCEPT !.nPos = 0], k)
  OBVIOUS
<1>6. t \in A!Array /\ Len(t.cells) = A!Size(k)
  BY <1>5, ClearedHolds DEF A!IInv
<1>7. PICK z \in Nat \ {0} : z = A!Size(k) /\ z >= k /\ z = Len(t.cells)
  <2>1. A!Size(k) \in Nat \ {0} /\ A!Size(k) >= k
    BY DEF A!Size
  <2> QED
    BY <1>6, <2>1
<1>8. PICK front, back : front = SubSeq(b.cells, 1, k) /\ back = SubSeq(t.cells, k + 1, z)
  OBVIOUS
<1>9. front \in Seq(Cells) /\ Len(front) = k /\ \A i \in 1 .. k : front[i] = l[i]
  <2>1. \A i \in 1 .. k : i \in 1 .. Len(b.cells) /\ b.cells[i] \in Cells /\ 1 + i - 1 = i
    BY <1>3, <1>4
  <2>2. front \in Seq(Cells) /\ Len(front) = k /\ \A i \in 1 .. k : front[i] = b.cells[i]
    BY <1>8, <2>1, SubSeqProperties
  <2> QED
    BY <1>2, <1>4, <2>2 DEF A!Holds
<1>10. back \in Seq(Cells) /\ Len(back) = z - k
  <2>1. \A i \in k + 1 .. z : i \in 1 .. Len(t.cells)
    BY <1>7
  <2>2. \A i \in k + 1 .. z : t.cells[i] \in Cells
    BY <1>3, <1>6, <2>1
  <2>3. back \in Seq(Cells) /\ Len(back) = IF k + 1 <= z THEN z - (k + 1) + 1 ELSE 0
    BY <1>8, <2>2, SubSeqProperties
  <2> QED
    BY <1>7, <2>3
<1>11. PICK c : c = front \o back
  OBVIOUS
<1>12. c \in Seq(Cells) /\ Len(c) = z /\ \A i \in 1 .. k : c[i] = l[i]
  <2>1. /\ c \in Seq(Cells) /\ Len(c) = k + (z - k)
        /\ \A i \in 1 .. k + (z - k) : c[i] = IF i <= k THEN front[i] ELSE back[i - k]
    BY <1>9, <1>10, <1>11, ConcatProperties
  <2>2. k + (z - k) = z /\ \A i \in 1 .. k : i \in 1 .. z /\ i <= k
    BY <1>7
  <2> QED
    BY <1>9, <2>1, <2>2
<1>13. PICK r : r = [cells |-> c, nPos |-> k]
  OBVIOUS
<1>14. r \in A!Array /\ A!Holds(r, l)
  <2>1. r \in A!Array /\ r.cells = c /\ r.nPos = k
    BY <1>12, <1>13 DEF A!Array, Cells
  <2> QED
    BY <1>4, <1>7, <1>12, <2>1 DEF A!Holds
<1>15. s1' = [s1 EXCEPT ![n] = r] /\ s3' = [s3 EXCEPT ![n] = l] /\ s2' = s2
  BY <1>1, <1>4, <1>5, <1>7, <1>8, <1>11, <1>13 DEF A!Assign
<1> QED
  BY <1>2, <1>14, <1>15, OneArray

\* Steps of the array part keep the arrays' invariant.
LEMMA ArrayNext == ArrayInv /\ [Next]_vars => ArrayInv'
<1> SUFFICES ASSUME ArrayInv, [Next]_vars, part' = "array" PROVE A!IInv'
  BY DEF ArrayInv
<1>1. A!IInv /\ (A!Next \/ UNCHANGED vars)
  BY SamePart DEF ArrayInv, Next, Stopped
<1>2. CASE UNCHANGED vars
  BY <1>1, <1>2 DEF vars, A!IInv, A!NeverTooSmall
<1> QED
  BY <1>1, <1>2, PushBackStep, PopBackStep, ClearStep, ReserveStep, AssignStep DEF A!Next

(* A growing array (expArray.h) holds the list of what was pushed, popped,  *)
(* cleared and assigned, and its assertion never fires.                     *)
THEOREM ArrayCorrect == Spec => []HoldsTheList
<1>1. Init => ArrayInv
  <2> SUFFICES ASSUME Init, part = "array" PROVE A!IInv
    BY DEF ArrayInv
  <2>1. A!Init
    BY DEF Init
  <2>2. PICK a : a = [cells |-> <<Fresh, Fresh>>, nPos |-> 0]
    OBVIOUS
  <2>3. <<Fresh, Fresh>> \in Seq(Values \cup {Fresh}) /\ Len(<<Fresh, Fresh>>) = 2
    OBVIOUS
  <2>4. a \in A!Array /\ A!Holds(a, <<>>) /\ <<>> \in Seq(Values)
    BY <2>2, <2>3 DEF A!Array, A!Holds
  <2> QED
    BY <2>1, <2>2, <2>4 DEF A!Init, A!IInv, A!NeverTooSmall
<1>2. ArrayInv => HoldsTheList
  <2> SUFFICES ASSUME A!IInv PROVE A!TypeOK /\ A!HoldsTheList /\ A!NeverTooSmall
    BY DEF ArrayInv, HoldsTheList
  <2>1. ASSUME NEW n \in A!Names
        PROVE  /\ s1[n].cells \in Seq(Values \cup {Fresh}) /\ s1[n].cells # <<>>
               /\ s1[n].nPos \in 0 .. Len(s1[n].cells)
               /\ SubSeq(s1[n].cells, 1, s1[n].nPos) = s3[n]
    <3>1. PICK c, l : c = s1[n].cells /\ l = s3[n]
      OBVIOUS
    <3>2. /\ c \in Seq(Values \cup {Fresh}) /\ Len(c) > 0 /\ s1[n].nPos = Len(l)
          /\ l \in Seq(Values) /\ Len(l) <= Len(c) /\ \A k \in 1 .. Len(l) : c[k] = l[k]
      BY <3>1 DEF A!IInv, A!Array, A!Holds
    <3>3. \A k \in 1 .. Len(l) : c[k] \in Values /\ 1 + k - 1 = k
      BY <3>2
    <3>4. PICK m : m = SubSeq(c, 1, Len(l))
      OBVIOUS
    <3>5. m \in Seq(Values) /\ Len(m) = Len(l) /\ \A k \in 1 .. Len(l) : m[k] = c[k]
      BY <3>2, <3>3, <3>4, SubSeqProperties
    <3>6. m = l
      BY <3>2, <3>5, SeqEqual
    <3> QED
      BY <3>1, <3>2, <3>4, <3>6
  <2> QED
    BY <2>1 DEF A!TypeOK, A!HoldsTheList, A!IInv
<1> QED
  BY <1>1, <1>2, ArrayNext, PTL DEF Spec
-----------------------------------------------------------------------------
(* The mailbox *)

MailboxInv == part = "mailbox" => M!IInv
Words == [i \in M!Slots |-> 77]

(* Every tag asks for one or two words, and its answer is read from within  *)
(* them.                                                                    *)
LEMMA TagShapes ==
  ASSUME NEW op \in M!Ops \cup M!PowerOps, NEW d
  PROVE  /\ M!Tag(op, d).len \in {4, 8} /\ M!Tag(op, d).out \in {5, 6}
         /\ op = "mac" => M!Tag(op, d).out = 5
<1>1. CASE op = "model"
  BY <1>1 DEF M!Tag
<1>2. CASE op = "revision"
  BY <1>2 DEF M!Tag
<1>3. CASE op = "mac"
  BY <1>3 DEF M!Tag
<1>4. CASE op = "ram"
  BY <1>4 DEF M!Tag
<1>5. CASE op = "temp"
  BY <1>5 DEF M!Tag
<1>6. CASE op = "critical"
  BY <1>6 DEF M!Tag
<1>7. CASE op = "timing"
  BY <1>7 DEF M!Tag
<1>8. CASE op = "state"
  BY <1>8 DEF M!Tag
<1>9. CASE op = "set"
  BY <1>9 DEF M!Tag
<1> QED
  BY <1>1, <1>2, <1>3, <1>4, <1>5, <1>6, <1>7, <1>8, <1>9 DEF M!Ops, M!PowerOps

\* A request is as long as its first word says and ends in a zero word.
LEMMA RequestShape ==
  ASSUME NEW op \in M!Ops \cup M!PowerOps, NEW d
  PROVE  LET w == M!Request(Words, M!Tag(op, d))
             end == 5 + (M!Tag(op, d).len \div 4)
         IN  /\ DOMAIN w = M!Slots /\ end \in M!Slots
             /\ w[0] = 4 * (end + 1) /\ w[end] = 0 /\ w[3] = M!Tag(op, d).len
<1>1. PICK t : t = M!Tag(op, d)
  OBVIOUS
<1>2. t.len \in {4, 8}
  BY <1>1, TagShapes
<1>3. PICK end \in {6, 7} : end = 5 + (t.len \div 4)
  BY <1>2
<1>4. PICK a : a = M!InitBuffer(Words)
  OBVIOUS
<1>5. DOMAIN a = 0 .. 15
  BY <1>4 DEF M!InitBuffer, Words, M!Slots
<1>6. PICK b : b = M!WriteTag(a, 2, t)
  OBVIOUS
<1>7. DOMAIN b = 0 .. 15 /\ b[3] = t.len
  <2>1. DOMAIN a \cup {2 + j : j \in 0 .. (t.len + 2)} = 0 .. 15
    BY <1>2, <1>5
  <2> QED
    BY <1>6, <2>1 DEF M!WriteTag
<1>8. PICK w : w = M!CloseBuffer(b, end)
  OBVIOUS
<1>9. DOMAIN w = 0 .. 15 /\ w[0] = 4 * (end + 1) /\ w[end] = 0 /\ w[3] = t.len
  BY <1>3, <1>7, <1>8 DEF M!CloseBuffer
<1>10. w = M!Request(Words, t)
  BY <1>3, <1>4, <1>6, <1>8 DEF M!Request
<1> QED
  BY <1>1, <1>3, <1>9, <1>10 DEF M!Slots

\* malloc() returns aligned blocks, and makeBuffer() keeps them so.
LEMMA AddressAligned ==
  ASSUME NEW b \in Nat
  PROVE  /\ M!AlignedUp(b) \in Nat /\ (M!AlignedUp(b) + 80) % 16 = 0
         /\ b % 16 = 0 => M!MakeBuffer(b - 80) \in Int /\ M!MakeBuffer(b - 80) % 16 = 0
                          /\ M!MakeBuffer(b - 80) # 1
BY DEF M!AlignedUp, M!MakeBuffer

(* A call begins with an aligned buffer of its own, and nothing is served   *)
(* yet.                                                                     *)
LEMMA StartCall ==
  ASSUME M!IInv, s3.pc = "done", UNCHANGED <<s5, s6, s7>>,
         NEW op \in M!Ops \cup M!PowerOps, NEW d, op \in M!PowerOps => d \in Devices \cup Unknown,
         M!Start(op, d)
  PROVE  /\ M!CallInv'
         /\ s1' \in Nat /\ DOMAIN s2' = M!Slots
         /\ s3'.op = op /\ s3'.arg = d /\ s3'.pc = "post"
         /\ s5' = <<>> /\ s12' = s12 + 1
<1>1. s3' = [op |-> op, arg |-> d, pc |-> "post"] /\ s2' = M!Request(Words, M!Tag(op, d))
      /\ s1' = M!AlignedUp(s1) + 80 /\ s12' = s12 + 1
  BY DEF M!Start, Words
<1>2. s1' \in Nat /\ s1' % 16 = 0
  <2>1. s1 \in Nat
    BY DEF M!IInv, M!TypeOK
  <2>2. PICK x \in Nat : x = M!AlignedUp(s1) /\ (x + 80) % 16 = 0
    BY <2>1, AddressAligned
  <2>3. s1' = x + 80
    BY <1>1, <2>2
  <2> QED
    BY <2>2, <2>3
<1>3. DOMAIN s2' = M!Slots
  BY <1>1, RequestShape
<1>4. s5' = <<>> /\ s6' = <<>>
  BY DEF M!IInv, M!CallInv
<1>5. ~M!Served'
  BY <1>1, <1>4 DEF M!Served
<1>6. op # "none"
  BY DEF M!Ops, M!PowerOps
<1>7. M!CallInv'
  BY <1>1, <1>2, <1>4, <1>5, <1>6 DEF M!CallInv, Words
<1> QED
  BY <1>1, <1>2, <1>3, <1>4, <1>7

(* Asking for the model, the revision or the memory keeps the mailbox's     *)
(* invariant.                                                               *)
LEMMA AskStep ==
  ASSUME M!IInv, NEW op \in M!Ops, M!Ask(op)
  PROVE  M!IInv'
<1>1. /\ op \in M!Ops /\ op # "mac" /\ s3.pc = "done" /\ ~s10 /\ s4 = "none" /\ s12 < MaxRequests
      /\ M!Start(op, 0) /\ UNCHANGED <<s4, s5, s6, s7, s8, s9, s10, s11>>
  BY DEF M!Ask, M!Idle
<1>2. /\ M!CallInv' /\ s1' \in Nat /\ DOMAIN s2' = M!Slots
      /\ s3'.op = op /\ s3'.pc = "post" /\ s5' = <<>> /\ s12' = s12 + 1
  <2>1. op \notin M!PowerOps
    BY DEF M!Ops, M!PowerOps
  <2> QED
    BY <1>1, <2>1, StartCall
<1>3. M!TypeOK'
  BY <1>1, <1>2, MailboxAssumption DEF M!IInv, M!TypeOK
<1>4. M!JobInv'
  BY <1>1, <1>2 DEF M!IInv, M!JobInv
<1> QED
  BY <1>1, <1>2, <1>3, <1>4 DEF M!IInv, M!AnswersRight, M!ReportedUpIsUp

\* Asking for the MAC address does, whether it is known already or not.
LEMMA GetMacStep ==
  ASSUME M!IInv, M!GetMac
  PROVE  M!IInv'
<1>1. /\ s3.pc = "done" /\ s4 = "none" /\ s12 < MaxRequests + 1
      /\ UNCHANGED <<s4, s5, s6, s7, s9, s10, s11>>
  BY DEF M!GetMac, M!Idle
<1>2. CASE s9 # <<0, 0>>
  <2>1. s8' = s9 /\ UNCHANGED <<s1, s2, s3, s12>>
    BY <1>2 DEF M!GetMac
  <2>2. s10 /\ s9 = <<M!MacLow, M!MacHigh>> /\ s3.op = "mac"
    BY <1>2 DEF M!IInv, M!JobInv
  <2>3. M!Truth("mac", s3.arg, s7) = <<M!MacLow, M!MacHigh>>
    BY DEF M!Truth
  <2>4. M!AnswersRight'
    BY <1>1, <2>1, <2>2, <2>3 DEF M!AnswersRight
  <2>5. M!TypeOK' /\ M!CallInv' /\ M!JobInv' /\ M!ReportedUpIsUp'
    BY <1>1, <2>1 DEF M!IInv, M!TypeOK, M!CallInv, M!JobInv, M!ReportedUpIsUp, M!Served, M!Answer, M!Address
  <2> QED
    BY <2>4, <2>5 DEF M!IInv
<1>3. CASE s9 = <<0, 0>>
  <2>1. M!Start("mac", 0) /\ s8' = s8
    BY <1>3 DEF M!GetMac
  <2>2. "mac" \in M!Ops /\ "mac" \notin M!PowerOps
    BY DEF M!Ops, M!PowerOps
  <2>3. /\ M!CallInv' /\ s1' \in Nat /\ DOMAIN s2' = M!Slots
        /\ s3'.op = "mac" /\ s3'.pc = "post" /\ s5' = <<>> /\ s12' = s12 + 1
    BY <1>1, <2>1, <2>2, StartCall
  <2>4. ~s10
    BY <1>3 DEF M!IInv, M!JobInv, M!MacLow, M!MacHigh
  <2>5. M!TypeOK'
    BY <1>1, <2>3, MailboxAssumption DEF M!IInv, M!TypeOK
  <2>6. M!JobInv'
    BY <1>1, <2>3, <2>4 DEF M!IInv, M!JobInv
  <2> QED
    BY <1>1, <2>3, <2>5, <2>6 DEF M!IInv, M!AnswersRight, M!ReportedUpIsUp
<1> QED
  BY <1>2, <1>3

\* Asking to power a device on does.
LEMMA PowerOnStep ==
  ASSUME M!IInv, NEW d \in Devices \cup Unknown, M!PowerOn(d)
  PROVE  M!IInv'
<1>1. /\ s3.pc = "done" /\ ~s10 /\ s4' = "asked" /\ s12 + 3 <= MaxRequests
      /\ M!Start("timing", d) /\ UNCHANGED <<s5, s6, s7, s8, s9, s10, s11>>
  BY DEF M!PowerOn, M!Idle
<1>2. /\ M!CallInv' /\ s1' \in Nat /\ DOMAIN s2' = M!Slots
      /\ s3'.op = "timing" /\ s3'.pc = "post" /\ s5' = <<>> /\ s12' = s12 + 1
  <2>1. "timing" \in M!PowerOps
    BY DEF M!PowerOps
  <2> QED
    BY <1>1, <2>1, StartCall
<1>3. M!TypeOK'
  BY <1>1, <1>2, MailboxAssumption DEF M!IInv, M!TypeOK
<1>4. M!JobInv'
  BY <1>1, <1>2, MailboxAssumption DEF M!IInv, M!JobInv, M!TypeOK, M!PowerOps
<1> QED
  BY <1>1, <1>2, <1>3, <1>4 DEF M!IInv, M!AnswersRight, M!ReportedUpIsUp

\* The next request of SetPowerStateOn().
LEMMA PowerNextStarts ==
  ASSUME M!IInv, s3.pc = "done", s4 = "asked", UNCHANGED <<s4, s5, s6, s7, s8, s9, s10, s11>>,
         \/ s3.op = "timing" /\ M!Start("state", s3.arg)
         \/ s3.op = "state" /\ M!Start("set", s3.arg)
  PROVE  M!IInv'
<1>1. s3.arg \in Devices \cup Unknown /\ ~s10
  BY DEF M!IInv, M!CallInv, M!JobInv, M!PowerOps
<1>2. PICK op \in {"state", "set"} :
        /\ M!Start(op, s3.arg)
        /\ op = "state" => s12 + 2 <= MaxRequests
        /\ op = "set" => s12 + 1 <= MaxRequests
  BY DEF M!IInv, M!JobInv
<1>3. /\ M!CallInv' /\ s1' \in Nat /\ DOMAIN s2' = M!Slots
      /\ s3'.op = op /\ s3'.pc = "post" /\ s5' = <<>> /\ s12' = s12 + 1
  <2>1. op \in M!PowerOps
    BY DEF M!PowerOps
  <2> QED
    BY <1>1, <1>2, <2>1, StartCall
<1>4. s12 \in Nat
  BY DEF M!IInv, M!TypeOK
<1>5. M!TypeOK'
  BY <1>2, <1>3, <1>4, MailboxAssumption DEF M!IInv, M!TypeOK
<1>6. M!JobInv'
  BY <1>1, <1>2, <1>3, <1>4, MailboxAssumption DEF M!IInv, M!JobInv, M!PowerOps
<1> QED
  BY <1>3, <1>5, <1>6 DEF M!IInv, M!AnswersRight, M!ReportedUpIsUp

\* So does each next request of set_power_state().
LEMMA PowerNextStep ==
  ASSUME M!IInv, M!PowerNext
  PROVE  M!IInv'
<1>1. /\ s3.pc = "done" /\ s4 = "asked" /\ UNCHANGED <<s5, s6, s7, s8, s9, s10, s11>>
      /\ s3.op \in M!PowerOps /\ s3.arg \in Devices \cup Unknown /\ ~s10
  BY DEF M!PowerNext, M!Idle, M!IInv, M!CallInv, M!JobInv, M!PowerOps
<1>2. CASE /\ \/ s3.op = "timing" /\ s8 = 0 /\ s4' = "failed"
              \/ s3.op = "state" /\ s8 % 2 = 1 /\ s4' = "up"
              \/ s3.op = "set" /\ s4' = IF s8 % 2 = 1 THEN "up" ELSE "failed"
           /\ UNCHANGED <<s1, s2, s3, s12>>
  <2>1. s4' \in {"up", "failed"}
    BY <1>2
  <2>2. M!TypeOK' /\ M!CallInv' /\ M!JobInv' /\ M!AnswersRight'
    BY <1>1, <1>2, <2>1
       DEF M!IInv, M!TypeOK, M!CallInv, M!JobInv, M!AnswersRight, M!Served, M!Answer, M!Address, M!PowerOps
  <2>3. s4' = "up" => s3.arg \in Devices /\ s7[s3.arg] = 1
    <3> SUFFICES ASSUME s4' = "up" PROVE s3.arg \in Devices /\ s7[s3.arg] = 1
      OBVIOUS
    <3>1. s3.op \in {"state", "set"} /\ s8 % 2 = 1
      BY <1>2
    <3>2. s8 = IF s3.arg \in Unknown THEN 2 ELSE s7[s3.arg]
      BY <1>1, <3>1 DEF M!IInv, M!AnswersRight, M!Truth
    <3>3. s3.arg \notin Unknown
      BY <3>1, <3>2
    <3>4. s3.arg \in Devices /\ s7[s3.arg] \in {0, 1}
      BY <1>1, <3>3 DEF M!IInv, M!JobInv
    <3> QED
      BY <3>1, <3>2, <3>3, <3>4
  <2> QED
    BY <1>1, <1>2, <2>2, <2>3 DEF M!IInv, M!ReportedUpIsUp
<1>3. CASE ~UNCHANGED <<s1, s2, s3, s12>>
  <2>1. /\ s4' = s4
        /\ \/ s3.op = "timing" /\ M!Start("state", s3.arg)
           \/ s3.op = "state" /\ M!Start("set", s3.arg)
    BY <1>3 DEF M!PowerNext
  <2> QED
    BY <1>1, <2>1, PowerNextStarts
<1>4. CASE UNCHANGED <<s1, s2, s3, s12>>
  <2>1. ASSUME NEW op \in {"state", "set"}, M!Start(op, s3.arg) PROVE FALSE
    BY <1>1, <1>4, <2>1 DEF M!Start
  <2> QED
    BY <1>2, <2>1 DEF M!PowerNext
<1> QED
  BY <1>2, <1>3, <1>4

\* So does the end of set_power_state().
LEMMA PowerDoneStep == ASSUME M!IInv, M!PowerDone PROVE M!IInv'
BY DEF M!PowerDone, M!IInv, M!TypeOK, M!CallInv, M!JobInv, M!AnswersRight, M!ReportedUpIsUp,
       M!Served, M!Answer, M!Address

\* So does posting the request.
LEMMA PostStep == ASSUME M!IInv, M!Post PROVE M!IInv'
<1>1. /\ s3.pc = "post" /\ s5' = <<M!Address>> /\ s3' = [s3 EXCEPT !.pc = "wait"]
      /\ UNCHANGED <<s1, s2, s4, s6, s7, s8, s9, s10, s11, s12>>
  BY DEF M!Post
<1>2. s6 = <<>> /\ M!Address' = M!Address /\ s1 % 16 = 0 /\ s3.op # "none" /\ ~s10
  BY <1>1 DEF M!IInv, M!CallInv, M!JobInv, M!Address
<1>3. s3'.op = s3.op /\ s3'.arg = s3.arg /\ s3'.pc = "wait"
  BY <1>1 DEF M!IInv, M!TypeOK
<1>4. M!CallInv'
  BY <1>1, <1>2, <1>3 DEF M!IInv, M!CallInv, M!Served
<1>5. M!TypeOK' /\ M!JobInv'
  BY <1>1, <1>2, <1>3 DEF M!IInv, M!TypeOK, M!JobInv
<1> QED
  BY <1>1, <1>3, <1>4, <1>5 DEF M!IInv, M!AnswersRight, M!ReportedUpIsUp, M!JobInv

\* What the mailbox holds: nothing, a stray word, a request, or both.
LEMMA Posted ==
  ASSUME NEW a
  PROVE  /\ Head(<<1>>) = 1 /\ Tail(<<1>>) = <<>> /\ Head(<<a>>) = a /\ Tail(<<a>>) = <<>>
         /\ Head(<<1, a>>) = 1 /\ Tail(<<1, a>>) = <<a>>
         /\ <<>> \o <<a>> = <<a>> /\ <<1>> \o <<a>> = <<1, a>>
<1>1. Head(<<1>>) = 1 /\ Tail(<<1>>) = <<>>
  OBVIOUS
<1>2. Head(<<a>>) = a /\ Tail(<<a>>) = <<>>
  OBVIOUS
<1>3. Head(<<1, a>>) = 1
  OBVIOUS
<1>4. Tail(<<1, a>>) = <<a>>
  OBVIOUS
<1>5. <<>> \o <<a>> = <<a>>
  OBVIOUS
<1>6. <<1>> \o <<a>> = <<1, a>>
  <2>1. <<1>> \in Seq({1, a}) /\ <<a>> \in Seq({1, a}) /\ <<1, a>> \in Seq({1, a})
    OBVIOUS
  <2>2. PICK c : c = <<1>> \o <<a>>
    OBVIOUS
  <2>3. c \in Seq({1, a}) /\ Len(c) = 2 /\ c[1] = 1 /\ c[2] = a
    BY <2>1, <2>2
  <2>4. Len(<<1, a>>) = 2 /\ <<1, a>>[1] = 1 /\ <<1, a>>[2] = a
    OBVIOUS
  <2>5. PICK d : d = <<1, a>>
    OBVIOUS
  <2>6. d \in Seq({1, a}) /\ Len(d) = 2 /\ d[1] = 1 /\ d[2] = a
    BY <2>1, <2>4, <2>5
  <2>7. c = d
    BY <2>3, <2>6, SeqEqual
  <2> QED
    BY <2>2, <2>5, <2>7
<1> QED
  BY <1>1, <1>2, <1>3, <1>4, <1>5, <1>6

\* The request's own address is never taken for the stray answer.
LEMMA ReadStep == ASSUME M!IInv, M!Read PROVE M!IInv'
<1>1. /\ s3.pc = "wait" /\ s6 # <<>> /\ s6' = Tail(s6)
      /\ s3' = [s3 EXCEPT !.pc = IF Head(s6) = M!Address THEN "return" ELSE "wait"]
      /\ UNCHANGED <<s1, s2, s4, s5, s7, s8, s9, s10, s11, s12>>
  BY DEF M!Read, M!Mine
<1>2. PICK a : a = M!Address /\ a # 1
  BY <1>1, AddressAligned DEF M!IInv, M!TypeOK, M!CallInv, M!Address
<1>3. /\ M!Address' = a /\ s3.op # "none" /\ ~s10 /\ s4 \notin {"up", "failed"}
      /\ s3'.op = s3.op /\ s3'.arg = s3.arg
      /\ s3'.pc = IF Head(s6) = a THEN "return" ELSE "wait"
  BY <1>1, <1>2 DEF M!IInv, M!TypeOK, M!CallInv, M!JobInv, M!Address
<1>4. /\ s6 \in {<<1>>, <<a>>, <<1, a>>}
      /\ s6 = <<1>> => s6' = <<>> /\ s3'.pc = "wait" /\ ~M!Served'
      /\ s6 = <<a>> => s6' = <<>> /\ s3'.pc = "return" /\ M!Served
      /\ s6 = <<1, a>> => s6' = <<a>> /\ s3'.pc = "wait" /\ M!Served
  <2>1. s6 \in {<<1>>, <<a>>, <<1, a>>}
    BY <1>1, <1>2 DEF M!IInv, M!CallInv
  <2>2. M!Served <=> s6 \in {<<a>>, <<1, a>>}
    BY <1>1, <1>2 DEF M!Served
  <2>3. M!Served' <=> s3'.pc = "return" \/ s6' \in {<<a>>, <<1, a>>}
    BY <1>2, <1>3 DEF M!Served
  <2>4. <<1>> # <<a>> /\ <<1, a>> # <<a>> /\ <<1>> # <<1, a>>
    BY <1>2
  <2>5. CASE s6 = <<1>>
    <3>1. s6' = <<>> /\ s3'.pc = "wait"
      BY <1>1, <1>2, <1>3, <2>5, Posted
    <3> QED
      BY <2>1, <2>3, <2>4, <2>5, <3>1
  <2>6. CASE s6 = <<a>>
    <3>1. s6' = <<>> /\ s3'.pc = "return"
      BY <1>1, <1>3, <2>6, Posted
    <3> QED
      BY <2>1, <2>2, <2>4, <2>6, <3>1
  <2>7. CASE s6 = <<1, a>>
    <3>1. s6' = <<a>> /\ s3'.pc = "wait"
      BY <1>1, <1>2, <1>3, <2>7, Posted
    <3> QED
      BY <2>1, <2>2, <2>4, <2>7, <3>1
  <2> QED
    BY <2>1, <2>5, <2>6, <2>7
<1>5. M!Served => M!Answer' = M!Truth(s3.op, s3.arg, s7)
  BY <1>1, <1>3 DEF M!IInv, M!CallInv, M!Answer
<1>6. M!Served' => M!Served
  BY <1>4
<1>7. M!CallInv'
  <2>1. s5 # <<>> => s5' = <<a>> /\ ~M!Served /\ s3'.pc = "wait"
    BY <1>1, <1>2, <1>3, <1>4 DEF M!IInv, M!CallInv
  <2>2. s6' \in {<<>>, <<a>>} /\ (s6' # <<>> => s3'.pc = "wait") /\ s3'.pc \in {"wait", "return"}
    BY <1>3, <1>4
  <2> QED
    BY <1>1, <1>2, <1>3, <1>5, <1>6, <2>1, <2>2 DEF M!IInv, M!CallInv
<1>8. M!TypeOK' /\ M!JobInv'
  BY <1>1, <1>3 DEF M!IInv, M!TypeOK, M!JobInv
<1> QED
  BY <1>1, <1>3, <1>7, <1>8 DEF M!IInv, M!AnswersRight, M!ReportedUpIsUp

\* So does returning the answer, which is the truth about what was asked.
LEMMA ReturnStep == ASSUME M!IInv, M!Return PROVE M!IInv'
<1>1. /\ s3.pc = "return" /\ s3' = [s3 EXCEPT !.pc = "done"]
      /\ UNCHANGED <<s1, s2, s4, s5, s6, s7, s11, s12>>
      /\ s8' = M!Answer
      /\ IF s3.op = "mac" THEN s9' = s8' /\ s10' = TRUE ELSE UNCHANGED <<s9, s10>>
  BY DEF M!Return, M!Answer
<1>2. /\ s3.op # "none" /\ s3'.op = s3.op /\ s3'.arg = s3.arg /\ s3'.pc = "done"
      /\ M!Answer = M!Truth(s3.op, s3.arg, s7) /\ s5 = <<>> /\ s6 = <<>>
      /\ s4 \notin {"up", "failed"} /\ ~s10
  BY <1>1 DEF M!IInv, M!TypeOK, M!CallInv, M!JobInv, M!Served
<1>3. M!AnswersRight'
  BY <1>1, <1>2 DEF M!AnswersRight
<1>4. s3.op = "mac" => s9' = <<M!MacLow, M!MacHigh>>
  BY <1>1, <1>2 DEF M!Truth
<1>5. M!CallInv'
  BY <1>1, <1>2 DEF M!IInv, M!CallInv, M!Served
<1>6. M!JobInv'
  BY <1>1, <1>2, <1>4 DEF M!IInv, M!JobInv
<1>7. M!TypeOK'
  BY <1>1, <1>2 DEF M!IInv, M!TypeOK
<1> QED
  BY <1>1, <1>2, <1>3, <1>5, <1>6, <1>7 DEF M!IInv, M!ReportedUpIsUp

\* The value buffer gets the truth about the request it belongs to.
LEMMA ServeStep == ASSUME M!IInv, M!Serve PROVE M!IInv'
<1>1. PICK t, v : t = M!Tag(s3.op, s3.arg) /\ v = M!Truth(s3.op, s3.arg, s7')
  OBVIOUS
<1>2. /\ s5 # <<>> /\ s5' = <<>> /\ s6' = s6 \o s5
      /\ s7' \in IF s3.op = "set" THEN {s7, [s7 EXCEPT ![s3.arg] = 1]} ELSE {s7}
      /\ s2' = [s2 EXCEPT
           ![1] = M!RESP_SUCCESS, ![4] = M!RESP_SUCCESS + t.len,
           ![5] = IF t.out = 6 THEN IF t.args = <<>> THEN 4 ELSE t.args[1]
                  ELSE IF s3.op = "mac" THEN v[1] ELSE v,
           ![6] = IF t.out = 6 THEN v ELSE IF s3.op = "mac" THEN v[2] ELSE @]
      /\ UNCHANGED <<s1, s3, s4, s8, s9, s10, s11, s12>>
  BY <1>1 DEF M!Serve
<1>3. PICK a : a = M!Address /\ a = M!Address'
  BY <1>2 DEF M!Address
<1>4. /\ s5 = <<a>> /\ s3.pc = "wait" /\ s6 \in {<<>>, <<1>>} /\ s3.op \in M!Ops \cup M!PowerOps
      /\ s4 \notin {"up", "failed"}
  BY <1>2, <1>3 DEF M!IInv, M!CallInv, M!JobInv, M!Served
<1>5. s6' \in {<<a>>, <<1, a>>}
  BY <1>2, <1>4, Posted
<1>6. DOMAIN s2 = 0 .. 15
  BY DEF M!IInv, M!TypeOK, M!Slots
<1>7. DOMAIN s2' = 0 .. 15
  BY <1>2, <1>6
<1>8. M!Answer' = v
  <2>1. CASE s3.op = "mac"
    <3>1. t.out = 5
      BY <1>1, <1>4, <2>1, TagShapes
    <3>2. s2'[5] = v[1] /\ s2'[6] = v[2]
      BY <1>2, <1>6, <2>1, <3>1
    <3>3. v = <<M!MacLow, M!MacHigh>>
      BY <1>1, <2>1 DEF M!Truth
    <3> QED
      BY <1>2, <2>1, <3>2, <3>3 DEF M!Answer
  <2>2. CASE s3.op # "mac"
    <3>1. t.out \in {5, 6}
      BY <1>1, <1>4, TagShapes
    <3>2. s2'[t.out] = v
      BY <1>2, <1>6, <2>2, <3>1
    <3> QED
      BY <1>1, <1>2, <2>2, <3>2 DEF M!Answer
  <2> QED
    BY <2>1, <2>2
<1>9. M!CallInv'
  BY <1>1, <1>2, <1>3, <1>4, <1>5, <1>8 DEF M!IInv, M!CallInv
<1>10. s7' \in [Devices -> {0, 1}]
  BY <1>2 DEF M!IInv, M!JobInv
<1>11. M!JobInv'
  BY <1>2, <1>4, <1>10 DEF M!IInv, M!JobInv
<1>12. M!TypeOK'
  BY <1>2, <1>7 DEF M!IInv, M!TypeOK, M!Slots
<1> QED
  BY <1>2, <1>4, <1>9, <1>11, <1>12 DEF M!IInv, M!AnswersRight, M!ReportedUpIsUp

\* So do a stray word, a lost answer and giving up.
LEMMA LossStep == ASSUME M!IInv, M!GiveUp \/ M!Stray \/ M!Lose PROVE M!IInv'
<1>1. CASE M!GiveUp
  BY <1>1 DEF M!GiveUp, M!IInv, M!TypeOK, M!CallInv, M!JobInv, M!AnswersRight, M!ReportedUpIsUp,
              M!Served, M!Answer, M!Address
<1>2. CASE M!Stray
  <2>1. /\ s6 = <<>> /\ s3.pc = "wait" /\ s6' = <<1>>
        /\ UNCHANGED <<s1, s2, s3, s4, s5, s7, s8, s9, s10, s11, s12>>
    BY <1>2 DEF M!Stray
  <2>2. M!Address # 1
    BY <2>1, AddressAligned DEF M!IInv, M!TypeOK, M!CallInv, M!Address
  <2>3. M!Address' = M!Address /\ ~M!Served'
    BY <2>1, <2>2 DEF M!Address, M!Served
  <2>4. M!CallInv'
    BY <2>1, <2>3 DEF M!IInv, M!CallInv
  <2> QED
    BY <2>1, <2>4 DEF M!IInv, M!TypeOK, M!JobInv, M!AnswersRight, M!ReportedUpIsUp
<1>3. CASE M!Lose
  BY <1>3 DEF M!Lose, M!IInv, M!TypeOK, M!CallInv, M!JobInv, M!AnswersRight, M!ReportedUpIsUp,
              M!Served, M!Answer, M!Address
<1> QED
  BY <1>1, <1>2, <1>3

\* Steps of the mailbox part keep the mailbox's invariant.
LEMMA MailboxNext == MailboxInv /\ [Next]_vars => MailboxInv'
<1> SUFFICES ASSUME MailboxInv, [Next]_vars, part' = "mailbox" PROVE M!IInv'
  BY DEF MailboxInv
<1>1. M!IInv /\ (M!Next \/ UNCHANGED vars)
  BY SamePart DEF MailboxInv, Next, Stopped
<1>2. CASE UNCHANGED vars
  BY <1>1, <1>2 DEF vars, M!IInv, M!TypeOK, M!CallInv, M!JobInv, M!AnswersRight, M!ReportedUpIsUp,
              M!Served, M!Answer, M!Address
<1> QED
  BY <1>1, <1>2, AskStep, GetMacStep, PowerOnStep, PowerNextStep, PowerDoneStep, PostStep, ReadStep,
     ReturnStep, ServeStep, LossStep DEF M!Next

\* A request to the VideoCore returns its own answer, a device reported as up
\* is up, and nobody waits on the mailbox after the boot (mailbox.cpp),
\* whatever else is posted.
THEOREM MailboxCorrect == Spec => []AnswersRight
<1>1. Init => MailboxInv
  <2> SUFFICES ASSUME Init, part = "mailbox" PROVE M!IInv
    BY DEF MailboxInv
  <2>1. M!Init
    BY DEF Init
  <2>2. s1 \in Nat /\ DOMAIN s2 = M!Slots /\ ~M!Served
    BY <2>1 DEF M!Init, M!Served
  <2> QED
    <3>1. s3.op = "none" /\ s3.pc = "done" /\ s4 = "none" /\ s5 = <<>> /\ s6 = <<>>
          /\ s7 \in [Devices -> {0, 1}] /\ s9 = <<0, 0>> /\ ~s10 /\ s10 \in BOOLEAN
          /\ s11 \in BOOLEAN /\ s12 = 0
      BY <2>1 DEF M!Init
    <3>2. M!TypeOK
      BY <2>2, <3>1, MailboxAssumption DEF M!TypeOK
    <3>3. M!CallInv
      BY <2>2, <3>1 DEF M!CallInv, M!Ops, M!PowerOps
    <3>4. M!JobInv
      BY <3>1 DEF M!JobInv
    <3> QED
      BY <3>1, <3>2, <3>3, <3>4 DEF M!IInv, M!AnswersRight, M!ReportedUpIsUp
<1>2. MailboxInv => AnswersRight
  <2> SUFFICES ASSUME M!IInv
               PROVE  M!TypeOK /\ M!RequestWellFormed /\ M!AnswersRight /\ M!ReportedUpIsUp
                      /\ M!NoRequestsAfterBoot
    BY DEF MailboxInv, AnswersRight
  <2>1. ASSUME s3.pc = "post" PROVE M!RequestWellFormed
    <3>1. PICK t : t = M!Tag(s3.op, s3.arg)
      OBVIOUS
    <3>2. s2 = M!Request(Words, t) /\ s3.op \in M!Ops \cup M!PowerOps
      BY <2>1, <3>1 DEF M!IInv, M!CallInv, Words
    <3>3. PICK end \in M!Slots :
            /\ end = 5 + (t.len \div 4) /\ s2[0] = 4 * (end + 1) /\ s2[end] = 0 /\ s2[3] = t.len
      BY <3>1, <3>2, RequestShape
    <3>4. end = (s2[0] \div 4) - 1
      BY <3>3 DEF M!Slots
    <3>5. M!Address % 16 = 0
      BY <2>1, AddressAligned DEF M!IInv, M!TypeOK, M!CallInv, M!Address
    <3> QED
      BY <3>3, <3>4, <3>5 DEF M!RequestWellFormed
  <2>2. M!RequestWellFormed
    BY <2>1 DEF M!RequestWellFormed
  <2> QED
    BY <2>2 DEF M!IInv, M!JobInv, M!NoRequestsAfterBoot
<1> QED
  BY <1>1, <1>2, MailboxNext, PTL DEF Spec

-----------------------------------------------------------------------------
(* Sockets: distances that stand where packets end, and nothing joined by the *)
(* last read.                                                                *)
StreamInv == part = "socket" => G!RightSocket(s1) /\ s2.bytes \in Seq(G!Byte) /\ G!PacketsApart
UdpInv == part = "udp" => U!IInv

\* A write (genericSocket.cpp) leaves the delimiters where packets end.
LEMMA StreamWrite ==
  ASSUME G!RightSocket(s1), NEW from \in {"sender"}, NEW len \in 1 .. MaxLen, NEW addDelim \in BOOLEAN,
         NEW writeWhole \in BOOLEAN, G!Write(from, len, addDelim, writeWhole)
  PROVE  G!RightSocket(s1') /\ s2'.bytes = <<>> /\ s2'.atDelim = FALSE
<1>1. s2'.bytes = <<>> /\ s2'.atDelim = FALSE
  BY DEF G!Write, G!Nothing
<1>2. s1' = s1 \/ s1' = G!Written(s1, G!Packet(from, len, addDelim), addDelim)
  BY DEF G!Write
<1>3. len \in Nat \ {0}
  BY SocketAssumption
<1>4. StreamSize \in Nat
  BY SocketAssumption
<1>5. G!RightSocket(G!Written(s1, G!Packet(from, len, addDelim), addDelim))
  BY <1>3, <1>4, G!WrittenIs, Zenon
<1> QED
  BY <1>1, <1>2, <1>5

(* A read leaves them there too, and what it takes ends at a delimiter or   *)
(* before it.                                                               *)
LEMMA StreamRead ==
  ASSUME G!RightSocket(s1), NEW max \in 0 .. MaxLen, G!Read(max)
  PROVE  G!RightSocket(s1') /\ s2'.bytes \in Seq(G!Byte) /\ G!PacketsApart'
<1>1. PICK data \in Seq(G!Byte), d \in Seq(Nat), since \in Nat : \E e :
        s1 = G!Socket(data, d, since) /\ Len(data) <= StreamSize /\ G!Marked(data, d, since, e)
  BY DEF G!RightSocket
<1>2. PICK e : s1 = G!Socket(data, d, since) /\ Len(data) <= StreamSize /\ G!Marked(data, d, since, e)
  BY <1>1
<1>3. PICK r : r = G!ReadFrom(G!Socket(data, d, since), max)
  OBVIOUS
<1>4. s1' = r.s /\ s2'.bytes = r.bytes /\ s2'.atDelim = r.atDelim
  BY <1>2, <1>3 DEF G!Read
<1>5. G!Takes(r, data, d, since, e)
  <2>1. max \in Nat
    BY SocketAssumption
  <2> QED
    BY <1>2, <1>3, <2>1, G!MarkedRead, Zenon
<1>6. PICK n \in 0 .. Len(data), left \in Nat : \E rest, c, g :
        /\ r.s = G!Socket(rest, c, left) /\ r.bytes = SubSeq(data, 1, n)
        /\ G!Rest(rest, data, n) /\ G!Marked(rest, c, left, g) /\ c \in Seq(Nat)
        /\ d # <<>> => n <= d[1]
        /\ r.atDelim <=> d # <<>> /\ d[1] = n
        /\ r.atDelim => n # 0 /\ G!Reached(c, g, d, e, n)
  BY <1>5 DEF G!Takes
<1>7. PICK rest, c, g :
        /\ r.s = G!Socket(rest, c, left) /\ r.bytes = SubSeq(data, 1, n)
        /\ G!Rest(rest, data, n) /\ G!Marked(rest, c, left, g) /\ c \in Seq(Nat)
        /\ d # <<>> => n <= d[1]
        /\ r.atDelim <=> d # <<>> /\ d[1] = n
        /\ r.atDelim => n # 0 /\ G!Reached(c, g, d, e, n)
  BY <1>6
<1>8. G!RightSocket(s1')
  <2>1. rest \in Seq(G!Byte) /\ Len(rest) = Len(data) - n
    BY <1>7 DEF G!Rest
  <2>2. PICK l, m \in Nat : l = Len(data) /\ m = Len(rest)
    BY <2>1
  <2>3. m <= StreamSize
    BY <1>2, <1>6, <2>1, <2>2, SocketAssumption
  <2> QED
    BY <1>4, <1>7, <2>1, <2>2, <2>3 DEF G!RightSocket
<1>9. PICK bytes : bytes = r.bytes /\ bytes = SubSeq(data, 1, n)
  BY <1>7
<1>10. bytes \in Seq(G!Byte) /\ Len(bytes) = n /\ \A i \in 1 .. n : bytes[i] = data[i]
  BY <1>6, <1>9
<1>11. ASSUME NEW i \in 1 .. n PROVE bytes[i].last <=> r.atDelim /\ i = n
  <2>1. data[i].last <=> d # <<>> /\ d[1] = n /\ i = n
    BY <1>2, <1>7, G!MarkedFront
  <2> QED
    BY <1>7, <1>10, <2>1
<1>12. r.atDelim => n > 0
  BY <1>6, <1>7
<1>13. \A i \in 1 .. n - 1 : ~bytes[i].last
  BY <1>11
<1>14. r.atDelim <=> n > 0 /\ bytes[n].last
  <2>1. n > 0 => (bytes[n].last <=> r.atDelim)
    BY <1>11
  <2> QED
    BY <1>12, <2>1
<1> QED
  BY <1>4, <1>8, <1>9, <1>10, <1>13, <1>14 DEF G!PacketsApart

\* Steps of the stream socket part keep its invariant.
LEMMA StreamNext == StreamInv /\ [Next]_vars => StreamInv'
<1> SUFFICES ASSUME StreamInv, [Next]_vars, part' = "socket"
             PROVE  G!RightSocket(s1') /\ s2'.bytes \in Seq(G!Byte) /\ G!PacketsApart'
  BY DEF StreamInv
<1>1. G!RightSocket(s1) /\ s2.bytes \in Seq(G!Byte) /\ G!PacketsApart /\ (G!Next \/ UNCHANGED vars)
  BY SamePart DEF StreamInv, Next, Stopped
<1>2. CASE UNCHANGED vars
  BY <1>1, <1>2 DEF vars, G!PacketsApart
<1>3. ASSUME NEW from \in {"sender"}, NEW len \in 1 .. MaxLen, NEW addDelim \in BOOLEAN,
             NEW writeWhole \in BOOLEAN, G!Write(from, len, addDelim, writeWhole)
      PROVE  G!RightSocket(s1') /\ s2'.bytes \in Seq(G!Byte) /\ G!PacketsApart'
  <2>1. G!RightSocket(s1') /\ s2'.bytes = <<>> /\ s2'.atDelim = FALSE
    BY <1>1, <1>3, StreamWrite
  <2> QED
    BY <2>1 DEF G!PacketsApart
<1> QED
  BY <1>1, <1>2, <1>3, StreamRead DEF G!Next

(* Steps of the UDP part keep the  invariant of UDP sockets                 *)
(* (UdpSocketProofs).                                                       *)
LEMMA UdpNext == UdpInv /\ [Next]_vars => UdpInv'
<1> SUFFICES ASSUME UdpInv, [Next]_vars PROVE UdpInv'
  OBVIOUS
<1>1. part' = part
  BY SamePart
<1>2. UdpSize \in Nat /\ MaxLen \in Nat /\ U!NoNullLink
  BY SocketAssumption
<1>3. ASSUME part = "udp" PROVE U!IInv'
  <2>1. U!IInv /\ (U!Next \/ UNCHANGED vars)
    BY <1>3 DEF UdpInv, Next, Stopped
  <2>2. CASE U!Next
    BY <1>2, <2>1, <2>2, U!NextInv
  <2>3. CASE UNCHANGED vars
    <3>1. UNCHANGED U!vars
      BY <2>3 DEF vars, U!vars
    <3> QED
      BY <2>1, <3>1, U!SameInv
  <2> QED
    BY <2>1, <2>2, <2>3
<1> QED
  BY <1>1, <1>3 DEF UdpInv

(* The delimiters of a stream socket (genericSocket.cpp) mark the ends of the *)
(* packets written with one, no read goes past such an end, and a UDP read    *)
(* that does not meet the handler inside a packet names the sender of its     *)
(* bytes (udpSocket.cpp), for sockets, packets and reads of any size.         *)
THEOREM SocketsCorrect == Spec => []PacketsApart
<1>1. Init => StreamInv /\ UdpInv
  <2> SUFFICES ASSUME Init PROVE StreamInv /\ UdpInv
    OBVIOUS
  <2>1. ASSUME part = "socket" PROVE G!RightSocket(s1) /\ s2.bytes \in Seq(G!Byte) /\ G!PacketsApart
    <3>1. G!Init
      BY <2>1 DEF Init
    <3>2. s1 = G!Socket(<<>>, <<>>, 0) /\ s2.bytes = <<>> /\ s2.atDelim = FALSE
      BY <3>1 DEF G!Init, G!EmptySocket, G!Nothing, G!Socket
    <3>3. PICK e : e = [k \in 0 .. 0 |-> 0]
      OBVIOUS
    <3>4. G!Marked(<<>>, <<>>, 0, e)
      BY <3>3 DEF G!Marked, G!Places, G!Last
    <3>5. <<>> \in Seq(G!Byte) /\ <<>> \in Seq(Nat) /\ Len(<<>>) <= StreamSize
      BY SocketAssumption
    <3>6. G!RightSocket(s1)
      BY <3>2, <3>4, <3>5 DEF G!RightSocket
    <3> QED
      BY <3>2, <3>6 DEF G!PacketsApart
  <2>2. part = "udp" => U!IInv
    BY U!InitInv DEF Init
  <2> QED
    BY <2>1, <2>2 DEF StreamInv, UdpInv
<1>2. StreamInv /\ UdpInv => PacketsApart
  <2> SUFFICES ASSUME StreamInv, UdpInv PROVE PacketsApart
    OBVIOUS
  <2>1. ASSUME part = "socket" PROVE G!TypeOK /\ G!DelimsMarkPackets /\ G!PacketsApart
    <3>1. PICK data \in Seq(G!Byte), d \in Seq(Nat), since \in Nat : \E e :
            s1 = G!Socket(data, d, since) /\ Len(data) <= StreamSize /\ G!Marked(data, d, since, e)
      BY <2>1 DEF StreamInv, G!RightSocket
    <3>2. PICK e : s1 = G!Socket(data, d, since) /\ Len(data) <= StreamSize /\ G!Marked(data, d, since, e)
      BY <3>1
    <3>3. s1.data = data /\ s1.delims = d /\ s1.sinceLastDelim = since
      BY <3>2 DEF G!Socket
    <3>4. G!TypeOK
      BY <2>1, <3>2, <3>3 DEF StreamInv, G!TypeOK
    <3>5. /\ G!Delimiters(s1) = G!PacketEnds(s1) /\ \A k \in 1 .. Len(d) : d[k] > 0
          /\ G!DelimAt(s1, Len(d)) + since = Len(data)
      BY <3>2, G!MarkedDelims
    <3> QED
      BY <2>1, <3>3, <3>4, <3>5 DEF StreamInv, G!DelimsMarkPackets
  <2>2. part = "udp" => U!TypeOK /\ U!QueuesAligned /\ U!SenderIsRight
    BY U!InvCounts, U!InvRight, SocketAssumption DEF UdpInv
  <2> QED
    BY <2>1, <2>2 DEF PacketsApart
<1> QED
  BY <1>1, <1>2, StreamNext, UdpNext, PTL DEF Spec
-----------------------------------------------------------------------------
(* The list of processes *)

ListInv == part = "list" => P!IInv

\* A set of numbers that is not empty has a least one.
LEMMA LeastNumber ==
  ASSUME NEW W, W \subseteq Nat, W # {}
  PROVE  \E j \in W : \A i \in W : ~(i < j)
<1>1. PICK j \in W : \A i \in W : ~(<<i, j>> \in OpToRel(<, Nat))
  BY NatLessThanWellFounded, WFMin
<1>2. \A i \in W : i < j => <<i, j>> \in OpToRel(<, Nat)
  BY <1>1 DEF OpToRel
<1> QED
  BY <1>1, <1>2

\* f[p] is what the loop over the pids of a set has found up to p.
FoundUpTo(f, set, last) ==
  f = [p \in 0 .. last |->
         IF p = 0 THEN <<>> ELSE IF p \in set THEN Append(f[p - 1], p) ELSE f[p - 1]]

\* There is such a function.
LEMMA LoopRuns ==
  ASSUME NEW S, NEW n \in Nat
  PROVE  \E f : FoundUpTo(f, S, n)
<1> SUFFICES ASSUME ~\E f : FoundUpTo(f, S, n) PROVE FALSE
  OBVIOUS
<1>1. PICK W : W = {m \in Nat : ~\E f : FoundUpTo(f, S, m)}
  OBVIOUS
<1>2. PICK m \in W : \A i \in W : ~(i < m)
  <2>1. W \subseteq Nat /\ W # {}
    BY <1>1
  <2> QED
    BY <2>1, LeastNumber
<1>3. m \in Nat /\ ~\E f : FoundUpTo(f, S, m)
  BY <1>1
<1>4. m # 0
  <2>1. PICK g : g = [p \in 0 .. 0 |-> <<>>]
    OBVIOUS
  <2>2. FoundUpTo(g, S, 0)
    BY <2>1 DEF FoundUpTo
  <2> QED
    BY <1>3, <2>2
<1>5. m - 1 \in Nat /\ m - 1 < m
  BY <1>3, <1>4
<1>6. PICK g : FoundUpTo(g, S, m - 1)
  BY <1>1, <1>2, <1>5
<1>7. PICK h : h = [p \in 0 .. m |-> IF p # m THEN g[p] ELSE
                      IF m \in S THEN Append(g[m - 1], m) ELSE g[m - 1]]
  OBVIOUS
<1>8. ASSUME NEW p \in 0 .. m
      PROVE  h[p] = IF p = 0 THEN <<>> ELSE IF p \in S THEN Append(h[p - 1], p) ELSE h[p - 1]
  <2>1. CASE p = m
    <3>1. h[p - 1] = g[m - 1]
      BY <1>5, <1>7, <2>1
    <3> QED
      BY <1>4, <1>7, <2>1, <3>1
  <2>2. CASE p # m
    <3>1. p \in 0 .. m - 1 /\ h[p] = g[p] /\ (p # 0 => h[p - 1] = g[p - 1])
      BY <1>3, <1>7, <2>2
    <3> QED
      BY <1>6, <3>1 DEF FoundUpTo
  <2> QED
    BY <2>1, <2>2
<1>9. FoundUpTo(h, S, m)
  BY <1>7, <1>8 DEF FoundUpTo
<1> QED
  BY <1>3, <1>9

\* The loop finds each member of a set of pids once, and nothing else.
LEMMA InOrderOf ==
  ASSUME NEW S \in SUBSET (1 .. MaxPid)
  PROVE  /\ P!InOrder(S) \in Seq(S)
         /\ Len(P!InOrder(S)) = Cardinality(S)
<1>1. MaxPid \in Nat
  BY ListAssumption
<1>2. PICK f : FoundUpTo(f, S, MaxPid) /\ P!InOrder(S) = f[MaxPid]
  <2>1. \E f : FoundUpTo(f, S, MaxPid)
    BY <1>1, LoopRuns
  <2>2. PICK f : f = CHOOSE g : FoundUpTo(g, S, MaxPid)
    OBVIOUS
  <2>3. FoundUpTo(f, S, MaxPid)
    BY <2>1, <2>2
  <2>4. P!InOrder(S) = f[MaxPid]
    BY <2>2 DEF P!InOrder, FoundUpTo
  <2> QED
    BY <2>3, <2>4
<1> DEFINE Below(n) == S \cap (1 .. n)
           Good(n) == f[n] \in Seq(S) /\ Len(f[n]) = Cardinality(Below(n)) /\ IsFiniteSet(Below(n))
<1>3. Good(0)
  <2>1. Below(0) = {} /\ f[0] = <<>>
    BY <1>1, <1>2 DEF FoundUpTo
  <2>2. Cardinality({}) = 0 /\ IsFiniteSet({})
    BY FS_EmptySet
  <2> QED
    BY <2>1, <2>2
<1>4. ASSUME NEW n \in 1 .. MaxPid, Good(n - 1) PROVE Good(n)
  <2>1. f[n] = IF n \in S THEN Append(f[n - 1], n) ELSE f[n - 1]
    <3>1. n \in 0 .. MaxPid /\ n # 0
      BY <1>1
    <3>2. f = [p \in 0 .. MaxPid |->
                 IF p = 0 THEN <<>> ELSE IF p \in S THEN Append(f[p - 1], p) ELSE f[p - 1]]
      BY <1>2 DEF FoundUpTo
    <3> QED
      BY <3>1, <3>2
  <2>2. Below(n) = IF n \in S THEN Below(n - 1) \cup {n} ELSE Below(n - 1)
    BY <1>1
  <2>3. CASE n \in S
    <3>1. n \notin Below(n - 1)
      BY <1>1
    <3>2. /\ Cardinality(Below(n - 1) \cup {n}) = Cardinality(Below(n - 1)) + 1
          /\ IsFiniteSet(Below(n - 1) \cup {n})
      BY <1>4, <3>1, FS_AddElement
    <3>3. Append(f[n - 1], n) \in Seq(S) /\ Len(Append(f[n - 1], n)) = Len(f[n - 1]) + 1
      BY <1>4, <2>3, AppendProperties
    <3> QED
      BY <1>4, <2>1, <2>2, <2>3, <3>2, <3>3
  <2>4. CASE n \notin S
    BY <1>4, <2>1, <2>2, <2>4
  <2> QED
    BY <2>3, <2>4
<1>5. Below(MaxPid) = S
  OBVIOUS
<1> HIDE DEF Good, Below
<1>6. Good(MaxPid)
  <2> SUFFICES ASSUME ~Good(MaxPid) PROVE FALSE
    OBVIOUS
  <2>1. PICK W : W = {n \in 0 .. MaxPid : ~Good(n)}
    OBVIOUS
  <2>2. PICK n \in W : \A i \in W : ~(i < n)
    <3>1. W \subseteq Nat /\ W # {}
      BY <1>1, <2>1
    <3> QED
      BY <3>1, LeastNumber
  <2>3. n \in 0 .. MaxPid /\ ~Good(n)
    BY <2>1
  <2>4. n # 0
    BY <1>3, <2>3
  <2>5. n \in 1 .. MaxPid /\ n - 1 \in 0 .. MaxPid /\ n - 1 < n
    BY <1>1, <2>3, <2>4
  <2>6. Good(n - 1)
    BY <2>1, <2>2, <2>5
  <2> QED
    BY <1>4, <2>3, <2>5, <2>6
<1> QED
  BY <1>2, <1>5, <1>6 DEF Good

\* The list counts as everybody else does.
LEMMA SameCount == \A S : P!Cardinality(S) = Cardinality(S)
BY DEF P!Cardinality, Cardinality

\* The words of a table and the entries of a list, under one invariant.
LEMMA ListFacts ==
  ASSUME P!IInv
  PROVE  /\ P!Listed \in SUBSET (1 .. MaxPid) /\ IsFiniteSet(P!Listed)
         /\ Cardinality(P!Listed) \in Nat
         /\ P!Found \in Seq(P!Listed) /\ Len(P!Found) = Cardinality(P!Listed)
<1>1. P!Listed \in SUBSET (1 .. MaxPid)
  BY DEF P!Listed, P!Pids
<1>2. IsFiniteSet(P!Listed)
  <2>1. IsFiniteSet(1 .. MaxPid)
    BY ListAssumption, FS_Interval
  <2> QED
    BY <1>1, <2>1, FS_Subset
<1> QED
  BY <1>1, <1>2, InOrderOf, FS_CardinalityType DEF P!Found

\* A quiet list is right.
LEMMA ListImplied == P!IInv => P!QuietListRight
<1> SUFFICES ASSUME P!IInv, s4 = "show", s2 = 0, Len(s7) = Len(s5)
             PROVE  /\ [k \in DOMAIN s7 |-> s7[k].pid] = P!Found
                    /\ \A k \in DOMAIN s7 : s7[k].state = "alive"
  BY DEF P!QuietListRight
<1>1. PICK n \in Nat : n = Len(s7)
  BY LenProperties DEF P!IInv, P!TypeOK
<1>2. /\ s5 = P!Found /\ Len(s5) = n /\ DOMAIN s7 = 1 .. n
      /\ \A k \in 1 .. n : s7[k] = [pid |-> s5[k], state |-> s1[s5[k]]]
  BY <1>1, LenProperties DEF P!IInv, P!TypeOK, P!Quiet
<1>3. P!Found \in Seq(P!Listed)
  BY ListFacts
<1>4. \A k \in 1 .. n : s5[k] \in P!Listed
  BY <1>2, <1>3, ElementOfSeq
<1>5. \A p \in P!Listed : s1[p] = "alive"
  BY DEF P!IInv, P!TypeOK, P!Listed
<1>6. s5 = [k \in 1 .. n |-> s5[k]]
  BY <1>2, <1>3
<1>7. \A k \in 1 .. n : s7[k].pid = s5[k] /\ s7[k].state = "alive"
  BY <1>2, <1>4, <1>5
<1>8. [k \in DOMAIN s7 |-> s7[k].pid] = s5
  BY <1>2, <1>6, <1>7
<1> QED
  BY <1>2, <1>7, <1>8

\* At the start ps has counted nothing.
LEMMA ListInit == P!Init => P!IInv
BY EmptySeq DEF P!Init, P!IInv, P!TypeOK, P!TableFilled, P!Quiet, P!CrashNeedsAnEnd, P!ListFits

\* ps counts, and reserves a table.
LEMMA CountStep == P!IInv /\ P!NbProcesses => P!IInv'
<1> SUFFICES ASSUME P!IInv, P!NbProcesses PROVE P!IInv'
  OBVIOUS
<1>1. PICK n \in Nat : n = Cardinality(P!Listed)
  BY ListFacts
<1>2. /\ s4 = "count" /\ s4' = "list" /\ UNCHANGED <<s1, s2, s3, s7>>
      /\ s5' = [k \in 1 .. n |-> Garbage] /\ s6' = Len(s5')
  BY <1>1, SameCount DEF P!NbProcesses
<1>3. s5' \in Seq(P!Pids \cup {Garbage}) /\ Len(s5') = n
  BY <1>2
<1>4. Cardinality(P!Listed)' = n
  BY <1>1, <1>2 DEF P!Listed
<1>5. s3 \in Nat /\ s2 = 0
  BY <1>2 DEF P!IInv, P!TypeOK, P!Quiet
<1>6. P!TableFilled'
  BY <1>2, <1>3, <1>4, <1>5, SameCount DEF P!TableFilled
<1>7. P!Quiet'
  BY <1>2, <1>3, <1>4, SameCount DEF P!IInv, P!Quiet
<1>8. P!TypeOK'
  BY <1>2, <1>3 DEF P!IInv, P!TypeOK
<1> QED
  BY <1>2, <1>6, <1>7, <1>8 DEF P!IInv, P!CrashNeedsAnEnd, P!ListFits

\* The kernel fills the table.
LEMMA FillStep == P!IInv /\ P!GetProcesses => P!IInv'
<1> SUFFICES ASSUME P!IInv, P!GetProcesses PROVE P!IInv'
  OBVIOUS
<1>0. PICK q : q = P!Found
  OBVIOUS
<1>1. PICK c, n \in Nat : c = Cardinality(P!Listed) /\ n = Len(s5)
  BY ListFacts, LenProperties DEF P!IInv, P!TypeOK
<1>2. q \in Seq(P!Listed) /\ Len(q) = c /\ P!Listed \subseteq P!Pids
  BY <1>0, <1>1, ListFacts DEF P!Pids
<1>3. s5 \in Seq(P!Pids \cup {Garbage}) /\ DOMAIN s5 = 1 .. n
  BY <1>1, LenProperties DEF P!IInv, P!TypeOK
<1>4. /\ s4 = "list" /\ s4' = "show" /\ UNCHANGED <<s1, s2, s3, s6, s7>>
      /\ s5' = [k \in 1 .. n |-> IF k <= c THEN q[k] ELSE s5[k]]
  BY <1>0, <1>1, <1>2, <1>3 DEF P!GetProcesses
<1>5. /\ \A k \in 1 .. c : q[k] \in P!Pids
      /\ \A k \in 1 .. n : s5[k] \in P!Pids \cup {Garbage}
  BY <1>1, <1>2, <1>3, ElementOfSeq
<1>6. \A k \in 1 .. n : (IF k <= c THEN q[k] ELSE s5[k]) \in P!Pids \cup {Garbage}
  BY <1>5
<1>7. s5' \in Seq(P!Pids \cup {Garbage}) /\ Len(s5') = n
  BY <1>4, <1>6
<1>8. P!Found' = q
  BY <1>0, <1>4 DEF P!Found, P!Listed
<1>9. n = s6 /\ s3 \in Nat /\ s6 <= c + s3 /\ (s2 = 0 => s6 = c /\ s3 = 0)
  BY <1>1, <1>4, SameCount DEF P!IInv, P!TypeOK, P!TableFilled, P!Quiet, P!ListFits
<1>10. P!TableFilled'
  <2> SUFFICES ASSUME s3 = 0, NEW k \in 1 .. n PROVE s5'[k] # Garbage
    BY <1>4, <1>7 DEF P!TableFilled
  <2>1. k \in 1 .. c
    BY <1>9
  <2>2. s5'[k] = q[k]
    BY <1>4, <2>1
  <2> QED
    BY <1>5, <2>1, <2>2, ListAssumption
<1>11. s7 = <<>>
  BY <1>4 DEF P!IInv, P!Quiet
<1>12. s2 = 0 => s5' = q
  <2> SUFFICES ASSUME s2 = 0 PROVE s5' = q
    OBVIOUS
  <2>1. n = c
    BY <1>9
  <2>2. q = [k \in 1 .. c |-> q[k]]
    BY <1>2
  <2> QED
    BY <1>4, <2>1, <2>2
<1>13. P!Quiet'
  BY <1>4, <1>7, <1>8, <1>11, <1>12 DEF P!IInv, P!Quiet
<1>14. P!TypeOK'
  BY <1>4, <1>7 DEF P!IInv, P!TypeOK
<1> QED
  BY <1>1, <1>4, <1>7, <1>9, <1>10, <1>13, <1>14 DEF P!IInv, P!CrashNeedsAnEnd, P!ListFits

\* ps asks for a name and a state, or starts again.
LEMMA ShowStep == P!IInv /\ (P!Show \/ P!Done) => P!IInv'
<1> SUFFICES ASSUME P!IInv, P!Show \/ P!Done PROVE P!IInv'
  OBVIOUS
<1>1. PICK m, n \in Nat : m = Len(s7) /\ n = Len(s5)
  BY LenProperties DEF P!IInv, P!TypeOK
<1>2. CASE P!Done
  <2>1. /\ s4' = "count" /\ s5' = <<>> /\ s7' = <<>> /\ s2' = 0 /\ s3' = 0 /\ s6' = 0
        /\ s1' = s1
    BY <1>2 DEF P!Done
  <2>2. P!TypeOK'
    BY <2>1, EmptySeq DEF P!IInv, P!TypeOK
  <2> QED
    BY <2>1, <2>2 DEF P!IInv, P!TableFilled, P!Quiet, P!CrashNeedsAnEnd, P!ListFits
<1>3. CASE P!Show
  <2>1. /\ s4 = "show" /\ m < n /\ UNCHANGED <<s1, s2, s3, s5, s6>>
        /\ s5[m + 1] \in P!Pids \cup {Garbage}
    <3>1. m + 1 \in 1 .. n /\ s5 \in Seq(P!Pids \cup {Garbage})
      BY <1>1, <1>3 DEF P!Show, P!IInv, P!TypeOK
    <3>2. s5[m + 1] \in P!Pids \cup {Garbage}
      BY <1>1, <3>1, ElementOfSeq
    <3> QED
      BY <1>1, <1>3, <3>2 DEF P!Show
  <2>2. P!Listed' = P!Listed /\ P!Found' = P!Found
    BY <2>1 DEF P!Listed, P!Found
  <2>3. P!TableFilled' \/ s4' # "show"
    BY <2>1 DEF P!IInv, P!TableFilled
  <2>4. CASE s4' = "crashed" /\ s7' = s7 /\ s5[m + 1] = Garbage
    <3>1. s3 > 0
      BY <1>1, <2>1, <2>4 DEF P!IInv, P!TypeOK, P!TableFilled
    <3>2. P!TypeOK'
      BY <2>1, <2>4 DEF P!IInv, P!TypeOK
    <3> QED
      BY <2>1, <2>4, <3>1, <3>2
      DEF P!IInv, P!TypeOK, P!TableFilled, P!Quiet, P!CrashNeedsAnEnd, P!ListFits
  <2>5. ASSUME NEW e, s4' = "show", s7' = Append(s7, e),
               e \in [pid : 0 .. MaxPid, state : {"none", "alive", "zombie", "any"}],
               s5[m + 1] # Garbage => e = [pid |-> s5[m + 1], state |-> s1[s5[m + 1]]]
        PROVE  P!IInv'
    <3>1. s7 \in Seq([pid : 0 .. MaxPid, state : {"none", "alive", "zombie", "any"}])
      BY DEF P!IInv, P!TypeOK
    <3>2. /\ s7' \in Seq([pid : 0 .. MaxPid, state : {"none", "alive", "zombie", "any"}])
          /\ Len(s7') = m + 1 /\ s7'[m + 1] = e
          /\ \A k \in 1 .. m : s7'[k] = s7[k]
      BY <1>1, <2>5, <3>1, AppendProperties
    <3>3. P!TypeOK'
      BY <2>1, <2>5, <3>2 DEF P!IInv, P!TypeOK
    <3>4. P!TableFilled'
      BY <2>1, <2>5 DEF P!IInv, P!TableFilled
    <3>5. s2 = 0 => s5[m + 1] # Garbage
      <4>1. s2 = 0 => s3 = 0
        BY DEF P!IInv, P!TypeOK, P!Quiet
      <4> QED
        BY <1>1, <2>1, <4>1 DEF P!IInv, P!TableFilled
    <3>6. ASSUME s2 = 0, NEW k \in 1 .. m + 1
          PROVE  s7'[k] = [pid |-> s5[k], state |-> s1[s5[k]]]
      <4>1. CASE k = m + 1
        BY <2>5, <3>2, <3>5, <3>6, <4>1
      <4>2. CASE k # m + 1
        <5>1. k \in 1 .. m
          BY <4>2
        <5>2. s7[k] = [pid |-> s5[k], state |-> s1[s5[k]]]
          BY <1>1, <2>1, <3>6, <5>1 DEF P!IInv, P!Quiet
        <5> QED
          BY <3>2, <5>1, <5>2
      <4> QED
        BY <4>1, <4>2
    <3>7. P!Quiet'
      BY <1>1, <2>1, <2>2, <2>5, <3>2, <3>6 DEF P!IInv, P!Quiet
    <3> QED
      BY <2>1, <2>5, <3>3, <3>4, <3>7 DEF P!IInv, P!CrashNeedsAnEnd, P!ListFits
  <2>6. CASE s5[m + 1] = Garbage
    <3>1. CASE s4' = "crashed" /\ s7' = s7
      BY <2>4, <2>6, <3>1
    <3>2. ASSUME NEW q \in 0 .. MaxPid, s4' = s4,
                 s7' = Append(s7, [pid |-> q, state |-> "any"])
          PROVE  P!IInv'
      BY <2>1, <2>5, <2>6, <3>2
    <3> QED
      BY <1>1, <1>3, <2>6, <3>1, <3>2 DEF P!Show
  <2>7. CASE s5[m + 1] # Garbage
    <3>1. PICK p \in P!Pids : p = s5[m + 1]
      BY <2>1, <2>7
    <3>2. [pid |-> p, state |-> s1[p]]
            \in [pid : 0 .. MaxPid, state : {"none", "alive", "zombie", "any"}]
      BY <3>1, ListAssumption DEF P!IInv, P!TypeOK, P!Pids
    <3>3. s4' = s4 /\ s7' = Append(s7, [pid |-> p, state |-> s1[p]])
      BY <1>1, <1>3, <2>7, <3>1 DEF P!Show
    <3> QED
      BY <2>1, <2>5, <2>7, <3>1, <3>2, <3>3
  <2> QED
    BY <2>6, <2>7
<1> QED
  BY <1>2, <1>3

\* A process starts, ends or is reaped.
LEMMA ChangeStep ==
  ASSUME P!IInv, NEW p \in P!Pids, P!Start(p) \/ P!End(p) \/ P!Reap(p)
  PROVE  P!IInv'
<1>1. PICK c \in Nat : c = Cardinality(P!Listed)
  BY ListFacts
<1>2. UNCHANGED <<s4, s5, s6, s7>> /\ s2 \in Nat /\ s3 \in Nat /\ s6 \in Nat
  BY DEF P!Start, P!End, P!Reap, P!Change, P!IInv, P!TypeOK
<1>3. /\ s1 \in [P!Pids -> {"none", "alive", "zombie"}] /\ IsFiniteSet(P!Listed)
      /\ P!Listed = {q \in P!Pids : s1[q] \notin {"none", "zombie"}}
      /\ P!Listed' = {q \in P!Pids : s1'[q] \notin {"none", "zombie"}}
  BY ListFacts DEF P!Listed, P!IInv, P!TypeOK
<1>4. /\ s2' \in Nat /\ s3' \in Nat
      /\ s4 = "count" => s2' = 0 /\ s3' = s3
      /\ s4 # "count" => s2' > 0
      /\ s3' > 0 => s2' > 0
  BY <1>2 DEF P!Start, P!End, P!Reap, P!Change, P!IInv, P!Quiet
<1>5. s1' \in [P!Pids -> {"none", "alive", "zombie"}]
  BY <1>3 DEF P!Start, P!End, P!Reap, P!Change
<1>6. s4 = "list" => c + s3 <= Cardinality(P!Listed') + s3'
  <2> SUFFICES ASSUME s4 = "list" PROVE c + s3 <= Cardinality(P!Listed') + s3'
    OBVIOUS
  <2>1. CASE P!Start(p)
    <3>1. s1' = [s1 EXCEPT ![p] = "alive"] /\ s1[p] = "none" /\ s3' = s3
      BY <2>1 DEF P!Start, P!Change
    <3>2. P!Listed' = P!Listed \cup {p} /\ p \notin P!Listed
      BY <1>3, <3>1
    <3>3. Cardinality(P!Listed \cup {p}) = c + 1
      BY <1>1, <1>3, <3>2, FS_AddElement
    <3> QED
      BY <1>2, <3>1, <3>2, <3>3
  <2>2. CASE P!End(p)
    <3>1. s1' = [s1 EXCEPT ![p] = "zombie"] /\ s1[p] = "alive" /\ s3' = s3 + 1
      BY <2>2 DEF P!End, P!Change
    <3>2. P!Listed' = P!Listed \ {p} /\ p \in P!Listed
      BY <1>3, <3>1
    <3>3. Cardinality(P!Listed \ {p}) = c - 1
      BY <1>1, <1>3, <3>2, FS_RemoveElement
    <3> QED
      BY <1>1, <1>2, <3>1, <3>2, <3>3
  <2>3. CASE P!Reap(p)
    <3>1. s1' = [s1 EXCEPT ![p] = "none"] /\ s1[p] = "zombie" /\ s3' = s3
      BY <2>3 DEF P!Reap, P!Change
    <3>2. P!Listed' = P!Listed
      BY <1>3, <3>1
    <3> QED
      BY <1>1, <1>2, <3>1, <3>2
  <2> QED
    BY <2>1, <2>2, <2>3
<1>7. Cardinality(P!Listed') \in Nat
  <2>1. P!Listed' \subseteq P!Pids /\ IsFiniteSet(P!Pids)
    BY <1>3, ListAssumption, FS_Interval DEF P!Pids
  <2> QED
    BY <2>1, FS_Subset, FS_CardinalityType
<1>8. s3' >= s3
  BY <1>2 DEF P!Start, P!End, P!Reap, P!Change
<1>9. P!TypeOK'
  BY <1>2, <1>4, <1>5 DEF P!IInv, P!TypeOK
<1>10. P!TableFilled'
  <2>1. s4' = "list" => s6' <= Cardinality(P!Listed') + s3'
    BY <1>1, <1>2, <1>4, <1>6, <1>7, SameCount DEF P!IInv, P!TableFilled
  <2>2. s4' = "show" /\ s3' = 0 => \A k \in 1 .. Len(s5') : s5'[k] # Garbage
    BY <1>2, <1>4, <1>8 DEF P!IInv, P!TableFilled
  <2> QED
    BY <2>1, <2>2, SameCount DEF P!TableFilled
<1>11. P!Quiet'
  BY <1>2, <1>4 DEF P!IInv, P!Quiet
<1>12. P!CrashNeedsAnEnd' /\ P!ListFits'
  BY <1>2, <1>4, <1>8 DEF P!IInv, P!CrashNeedsAnEnd, P!ListFits
<1> QED
  BY <1>9, <1>10, <1>11, <1>12 DEF P!IInv

\* Steps of the list part keep the list's invariant.
LEMMA ListNext == ListInv /\ [Next]_vars => ListInv'
<1> SUFFICES ASSUME ListInv, [Next]_vars, part' = "list" PROVE P!IInv'
  BY DEF ListInv
<1>1. part = "list" /\ P!IInv
  BY SamePart DEF ListInv
<1>2. P!Next \/ UNCHANGED vars
  BY <1>1 DEF Next, Stopped
<1>3. CASE UNCHANGED vars
  BY <1>1, <1>3 DEF vars, P!IInv, P!TypeOK, P!TableFilled, P!Quiet, P!CrashNeedsAnEnd,
     P!ListFits, P!Listed, P!Found
<1> QED
  BY <1>1, <1>2, <1>3, CountStep, FillStep, ShowStep, ChangeStep DEF P!Next

(* ps (ps.cpp) shows what there is on a quiet machine, the kernel never       *)
(* writes more pids than ps has room for, and a crash needs a process that    *)
(* ends between its two calls, for any number of pids and of changes.         *)
THEOREM ListCorrect == Spec => []ListRight
<1>1. Init => ListInv
  BY ListInit DEF Init, ListInv
<1>2. ListInv => ListRight
  BY ListImplied DEF ListInv, ListRight, P!IInv
<1> QED
  BY <1>1, <1>2, ListNext, PTL DEF Spec
=============================================================================
