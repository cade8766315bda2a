------------------------------- MODULE Mailbox -------------------------------
(***************************************************************************)
(* src/kernel/src/mailbox.cpp and the power-up of uspi_interface.cpp: the  *)
(* kernel writes a request in a fresh buffer of 16 words, posts its        *)
(* address, and spins until the GPU posts the same address back.  Only the *)
(* boot does so: kernel_main() and USPi's initialisation make requests one *)
(* after the other and end with getMac(), which everyone calls afterwards  *)
(* from its cache.                                                         *)
(***************************************************************************)
EXTENDS Integers, Sequences

CONSTANTS Devices,     \* the devices the GPU can power
          Unknown,     \* the devices it does not know
          MaxRequests  \* bound on the requests of a behaviour
VARIABLES brk,         \* malloc()'s break, a byte address
          buffer,      \* the request's words
          call,        \* the call in progress or the last one: [op, arg, pc]
          job,         \* SetPowerStateOn()'s step and answer
          fifo,        \* the addresses posted to the GPU (WRITE)
          answers,     \* the addresses it posted back (READ)
          power,       \* the GPU's own power bits
          result,      \* what the last request returned
          cached,      \* getMac()'s static variable
          booted, crashed, made
vars == <<brk, buffer, call, job, fifo, answers, power, result, cached, booted, crashed, made>>

RESP_SUCCESS == -2147483647 - 1
Slots == 0..15
MacLow == 5
MacHigh == 3

\* What a request puts in its tag and where it finds the answer: the bytes of
\* the value buffer, of the arguments, the arguments, the word it returns.
Tag(op, d) ==
  CASE op = "model" -> [id |-> 65537, len |-> 4, val |-> 0, args |-> <<>>, out |-> 5]
    [] op = "revision" -> [id |-> 65538, len |-> 4, val |-> 0, args |-> <<>>, out |-> 5]
    [] op = "mac" -> [id |-> 65539, len |-> 8, val |-> 0, args |-> <<>>, out |-> 5]
    [] op = "ram" -> [id |-> 65541, len |-> 8, val |-> 0, args |-> <<>>, out |-> 6]
    [] op = "state" -> [id |-> 131073, len |-> 8, val |-> 4, args |-> <<d>>, out |-> 6]
    [] op = "timing" -> [id |-> 131074, len |-> 8, val |-> 4, args |-> <<d>>, out |-> 6]
    [] op = "set" -> [id |-> 163841, len |-> 8, val |-> 8, args |-> <<d, 17>>, out |-> 6]
    [] op = "temp" -> [id |-> 196614, len |-> 8, val |-> 4, args |-> <<0>>, out |-> 6]
    [] op = "critical" -> [id |-> 196618, len |-> 8, val |-> 4, args |-> <<0>>, out |-> 6]
Ops == {"model", "revision", "mac", "ram", "temp", "critical"}

\* initBuffer(), writeTag() and closeBuffer() on the words w of a new buffer.
\* writeTag() clears bufLen words for a value of bufLen bytes.
InitBuffer(w) == [w EXCEPT ![0] = 0, ![1] = 0]
WriteTag(w, at, t) ==
  [i \in DOMAIN w \cup {at + j : j \in 0..(t.len + 2)} |->
     CASE i = at -> t.id [] i = at + 1 -> t.len [] i = at + 2 -> t.val
       [] i \in (at + 3)..(at + t.len + 2) ->
            IF i - at - 2 \in DOMAIN t.args THEN t.args[i - at - 2] ELSE 0
       [] OTHER -> w[i]]
CloseBuffer(w, pos) == [w EXCEPT ![pos] = 0, ![0] = 4 * (pos + 1)]
Request(w, t) == CloseBuffer(WriteTag(InitBuffer(w), 2, t), 5 + (t.len \div 4))

\* malloc() rounds its break up to 16; makeBuffer() rounds again, the wrong way
\* round for any address that malloc() does not return.
AlignedUp(a) == a + ((16 - (a % 16)) % 16)
MakeBuffer(mem) == LET o == 16 - (mem % 16) IN mem + (o - (o % 16))
Address == MakeBuffer(brk - 80)   \* of the buffer in use: its block ends at brk

Init ==
  /\ brk \in {16, 24} /\ buffer = [i \in Slots |-> 77]
  /\ call = [op |-> "none", arg |-> 0, pc |-> "done"] /\ job = "none"
  /\ fifo = <<>> /\ answers = <<>> /\ power \in [Devices -> {0, 1}]
  /\ result = 0 /\ cached = <<0, 0>> /\ booted = FALSE /\ crashed = FALSE /\ made = 0
-----------------------------------------------------------------------------
Idle == call.pc = "done" /\ ~crashed

\* A request function up to readTag()'s write.  The buffer's old content is
\* what the memory holds; malloc()'s memory is never reused.
Start(op, d) ==
  /\ brk' = AlignedUp(brk) + 80
  /\ buffer' = Request([i \in Slots |-> 77], Tag(op, d))
  /\ call' = [op |-> op, arg |-> d, pc |-> "post"]
  /\ made' = made + 1

\* The boot asks for one of the plain values.
Ask(op) ==
  /\ Idle /\ ~booted /\ job = "none" /\ op \in Ops \ {"mac"} /\ made < MaxRequests
  /\ Start(op, 0)
  /\ UNCHANGED <<job, fifo, answers, power, result, cached, booted, crashed>>

\* getMac(): from the cache if there is one.  The boot ends with the first.
GetMac ==
  /\ Idle /\ job = "none" /\ made < MaxRequests + 1
  /\ IF cached # <<0, 0>>
     THEN result' = cached /\ UNCHANGED <<brk, buffer, call, made>>
     ELSE Start("mac", 0) /\ UNCHANGED result
  /\ UNCHANGED <<job, fifo, answers, power, cached, booted, crashed>>

\* SetPowerStateOn(): the timing, which is 0 for an unknown device, the state,
\* and the order to power up; each answer decides on the next request.
PowerOn(d) ==
  /\ Idle /\ ~booted /\ job = "none" /\ made + 3 <= MaxRequests
  /\ job' = "asked" /\ Start("timing", d)
  /\ UNCHANGED <<fifo, answers, power, result, cached, booted, crashed>>
PowerNext ==
  /\ Idle /\ job = "asked"
  /\ LET on == result % 2 = 1 IN
     \/ /\ \/ call.op = "timing" /\ result = 0 /\ job' = "failed"
           \/ call.op = "state" /\ on /\ job' = "up"
           \/ call.op = "set" /\ job' = IF on THEN "up" ELSE "failed"
        /\ UNCHANGED <<brk, buffer, call, made>>
     \/ call.op = "timing" /\ result # 0 /\ Start("state", call.arg) /\ UNCHANGED job
     \/ call.op = "state" /\ ~on /\ Start("set", call.arg) /\ UNCHANGED job
  /\ UNCHANGED <<fifo, answers, power, result, cached, booted, crashed>>
PowerDone ==
  /\ Idle /\ job \in {"up", "failed"} /\ job' = "none"
  /\ UNCHANGED <<brk, buffer, call, fifo, answers, power, result, cached, booted, crashed, made>>

\* readTag(): spin while the FIFO is full, post, then read answers until one is
\* for this buffer.
Post ==
  /\ call.pc = "post" /\ ~crashed /\ fifo = <<>>
  /\ fifo' = <<Address>> /\ call' = [call EXCEPT !.pc = "wait"]
  /\ UNCHANGED <<brk, buffer, job, answers, power, result, cached, booted, crashed, made>>
Mine_Any(a) == a = a
Mine(a) == a = Address
Read ==
  /\ call.pc = "wait" /\ ~crashed /\ answers # <<>>
  /\ answers' = Tail(answers)
  /\ call' = [call EXCEPT !.pc = IF Mine(Head(answers)) THEN "return" ELSE "wait"]
  /\ UNCHANGED <<brk, buffer, job, fifo, power, result, cached, booted, crashed, made>>
\* The assertion on the time that has passed, if no answer comes.
GiveUp ==
  /\ call.pc = "wait" /\ answers = <<>> /\ fifo = <<>> /\ ~crashed
  /\ crashed' = TRUE
  /\ UNCHANGED <<brk, buffer, call, job, fifo, answers, power, result, cached, booted, made>>

\* The caller reads its word; getMac() joins two words and keeps them.
Return ==
  /\ call.pc = "return" /\ ~crashed /\ call' = [call EXCEPT !.pc = "done"]
  /\ IF call.op = "mac"
     THEN /\ result' = <<buffer[5], buffer[6]>> /\ cached' = result' /\ booted' = TRUE
     ELSE /\ result' = buffer[Tag(call.op, call.arg).out] /\ UNCHANGED <<cached, booted>>
  /\ UNCHANGED <<brk, buffer, job, fifo, answers, power, crashed, made>>
-----------------------------------------------------------------------------
(* The GPU, which is external: it overwrites the value buffer and posts    *)
(* the address.  A device may refuse to start.  It may also post an answer *)
(* to nobody, or none at all.                                              *)
Truth(op, d, p) ==
  CASE op = "model" -> 1 [] op = "revision" -> 2 [] op = "ram" -> 9
    [] op = "temp" -> 40 [] op = "critical" -> 85 [] op = "mac" -> <<MacLow, MacHigh>>
    [] op = "timing" -> IF d \in Unknown THEN 0 ELSE 30
    [] OTHER -> IF d \in Unknown THEN 2 ELSE p[d]
Serve ==
  /\ fifo # <<>> /\ fifo' = <<>> /\ answers' = answers \o fifo
  /\ power' \in IF call.op = "set" THEN {power, [power EXCEPT ![call.arg] = 1]} ELSE {power}
  /\ LET t == Tag(call.op, call.arg)
         v == Truth(call.op, call.arg, power')
     IN buffer' = [buffer EXCEPT
          ![1] = RESP_SUCCESS, ![4] = RESP_SUCCESS + t.len,
          ![5] = IF t.out = 6 THEN IF t.args = <<>> THEN 4 ELSE t.args[1]
                 ELSE IF call.op = "mac" THEN v[1] ELSE v,
          ![6] = IF t.out = 6 THEN v ELSE IF call.op = "mac" THEN v[2] ELSE @]
  /\ UNCHANGED <<brk, call, job, result, cached, booted, crashed, made>>
Stray ==
  /\ answers = <<>> /\ call.pc = "wait" /\ ~crashed /\ answers' = <<1>>
  /\ UNCHANGED <<brk, buffer, call, job, fifo, power, result, cached, booted, crashed, made>>
Lose ==
  /\ fifo # <<>> /\ fifo' = <<>>
  /\ UNCHANGED <<brk, buffer, call, job, answers, power, result, cached, booted, crashed, made>>

Next ==
  \/ \E op \in Ops : Ask(op)
  \/ GetMac
  \/ \E d \in Devices \cup Unknown : PowerOn(d)
  \/ PowerNext \/ PowerDone \/ Post \/ Read \/ GiveUp \/ Return
  \/ Serve \/ Stray \/ Lose

Spec == Init /\ [][Next]_vars
-----------------------------------------------------------------------------
TypeOK ==
  /\ brk \in Nat /\ DOMAIN buffer = Slots
  /\ call.pc \in {"done", "post", "wait", "return"} /\ job \in {"none", "asked", "up", "failed"}
  /\ Len(fifo) <= 1 /\ booted \in BOOLEAN /\ crashed \in BOOLEAN /\ made \in 0..(MaxRequests + 1)

(* What is posted is one whole message: aligned as the channel number in   *)
(* the low bits demands, its size counts the end tag, and the end tag lies *)
(* where the value buffer ends.                                            *)
RequestWellFormed ==
  call.pc = "post" =>
    /\ Address % 16 = 0
    /\ LET end == (buffer[0] \div 4) - 1 IN
       end \in Slots /\ buffer[end] = 0 /\ 5 + (buffer[3] \div 4) = end

(* A call returns what the GPU says of its own request, whatever the       *)
(* memory held, and whatever else is posted in between.                    *)
AnswersRight ==
  call.pc = "done" /\ call.op # "none" => result = Truth(call.op, call.arg, power)

(* SetPowerStateOn() reports a device as up only if it is.                 *)
ReportedUpIsUp ==
  job = "up" => call.arg \in Devices /\ power[call.arg] = 1

(* Once the boot has read the MAC address nobody spins on the mailbox any  *)
(* more: the handlers that ask for it later run with interrupts masked.    *)
NoRequestsAfterBoot == booted => call.pc = "done"
-----------------------------------------------------------------------------
PowerOps == {"timing", "state", "set"}
Answer == IF call.op = "mac" THEN <<buffer[5], buffer[6]>> ELSE buffer[Tag(call.op, call.arg).out]
Served == call.pc = "return" \/ answers \in {<<Address>>, <<1, Address>>}

\* The call in progress: only it has something posted, and once the GPU has
\* served it the buffer holds the truth.
CallInv ==
  /\ call.op \in Ops \cup PowerOps \cup {"none"}
  /\ call.op \in PowerOps => call.arg \in Devices \cup Unknown
  /\ call.op = "none" => call.pc = "done" /\ job = "none"
  /\ call.pc # "done" => brk % 16 = 0
  /\ call.pc = "post" => buffer = Request([i \in Slots |-> 77], Tag(call.op, call.arg))
  /\ fifo # <<>> => fifo = <<Address>> /\ call.pc = "wait" /\ ~Served
  /\ answers \in {<<>>, <<1>>, <<Address>>, <<1, Address>>} /\ (answers # <<>> => call.pc = "wait")
  /\ Served => Answer = Truth(call.op, call.arg, power)
\* SetPowerStateOn() and the boot: how many requests are left, and what ends it.
JobInv ==
  /\ power \in [Devices -> {0, 1}]
  /\ job = "asked" => call.op \in PowerOps
  /\ job = "asked" /\ call.op = "timing" => made + 2 <= MaxRequests
  /\ job = "asked" /\ call.op = "state" => made + 1 <= MaxRequests
  /\ job \in {"up", "failed"} => call.pc = "done"
  /\ call.op = "mac" => job = "none"
  /\ cached = IF booted THEN <<MacLow, MacHigh>> ELSE <<0, 0>>
  /\ booted => call.op = "mac" /\ call.pc = "done"
IInv == TypeOK /\ CallInv /\ JobInv /\ AnswersRight /\ ReportedUpIsUp
=============================================================================
