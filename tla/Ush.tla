--------------------------------- MODULE Ush ---------------------------------
(***************************************************************************)
(* The shell (src/kernel/programs/ush/ush.cpp): it reads a line byte by    *)
(* byte, cuts it into words, and runs the words as a command, here echo or *)
(* one that is not found.  init() of kernel.cpp cuts /etc/boot.targets     *)
(* into lines in the same way.                                             *)
(***************************************************************************)
EXTENDS Integers, Sequences, FiniteSets

CONSTANTS Chars,       \* letters and blanks; "\n" stands for '\r' too
          MaxLine,     \* getline()'s max_length, scaled down
          BootBuffer,  \* init()'s BUFFER_SIZE, scaled down from 1024
          MaxTyped     \* bound on what is typed, and on the boot file
VARIABLES typed,       \* everything typed so far
          lines,       \* the lines getline() has returned: [text, ended]
          buffer,      \* the line being read
          words,       \* of the last line
          child,       \* the command that runs: [pc, printed]
          lastExitCode,
          targets      \* [pc, text, started, warned]: the boot file, the names that
                       \* init() starts of it, and whether it logs that it is too long
vars == <<typed, lines, buffer, words, child, lastExitCode, targets>>

Texts == UNION {[1..n -> Chars] : n \in 0..MaxTyped}
\* The command that resolve_path() finds; cd and all others have no child.
EchoName == <<"a">>

\* split_string(): i is the place reached, start where the current word began.
RECURSIVE Split(_, _, _, _)
Split_KeepsBlank(s, d, i, start) ==
  IF i > Len(s) THEN IF i # start THEN <<SubSeq(s, start, i - 1)>> ELSE <<>>
  ELSE IF s[i] # d THEN Split(s, d, i + 1, start)
  ELSE <<SubSeq(s, start, i - 1)>> \o Split(s, d, i + 1, i + 1)
Split(s, d, i, start) ==
  IF i > Len(s) THEN IF i # start THEN <<SubSeq(s, start, i - 1)>> ELSE <<>>
  ELSE IF s[i] # d THEN Split(s, d, i + 1, start)
  ELSE IF i = start THEN Split(s, d, i + 1, start + 1)
  ELSE <<SubSeq(s, start, i - 1)>> \o Split(s, d, i + 1, i + 1)

\* The name in curBin: it ends where a '\0' is, or nobody knows where, "?".
Unwritten == [i \in 1..BootBuffer |-> "?"]
NameIn(curBin) ==
  LET ends == {i \in 1..BootBuffer : curBin[i] \in {"?", "\\0"}}
  IN IF ends = {} THEN Append(curBin, "?")
     ELSE LET e == CHOOSE i \in ends : \A j \in ends : i <= j
          IN SubSeq(curBin, 1, IF curBin[e] = "?" THEN e ELSE e - 1)

Store(curBin, cBinPos, c) ==
  [i \in 1..BootBuffer |-> IF i = cBinPos + 1 THEN c ELSE curBin[i]]

\* The loop of init(): a line that has at least one character is started; what
\* stands behind the last newline is not ended by a '\0'.
RECURSIVE BootLines(_, _, _)
BootLines(text, curBin, cBinPos) ==
  IF text = <<>> THEN IF cBinPos = 0 THEN <<>> ELSE <<NameIn(curBin)>>
  ELSE IF text[1] # "\n"
  THEN BootLines(Tail(text), Store(curBin, cBinPos, text[1]), cBinPos + 1)
  ELSE LET line == Store(curBin, cBinPos, "\\0")
       IN (IF cBinPos = 0 THEN <<>> ELSE <<NameIn(line)>>) \o BootLines(Tail(text), line, 0)

NoTargets(pc) == [pc |-> pc, text |-> <<>>, started |-> <<>>, warned |-> FALSE]
NoChild == [pc |-> "none", printed |-> <<>>]
Init ==
  /\ typed = <<>> /\ lines = <<>> /\ buffer = <<>> /\ words = <<>> /\ child = NoChild
  /\ lastExitCode = 0 /\ targets = NoTargets("unread")

\* Without a boot file nothing is started; of one that is too long the beginning
\* is read.  The kernel does not survive reading an empty one: file_read() takes
\* the address of its first byte (process.cpp:420).
NoBootFile ==
  /\ targets.pc = "unread" /\ targets' = NoTargets("done")
  /\ UNCHANGED <<typed, lines, buffer, words, child, lastExitCode>>
Boot(text) ==
  /\ targets.pc = "unread"
  /\ targets' =
       IF text = <<>> THEN NoTargets("died")
       ELSE LET read == IF Len(text) > BootBuffer THEN SubSeq(text, 1, BootBuffer) ELSE text
            IN [pc |-> "read", text |-> text, started |-> BootLines(read, Unwritten, 0),
                warned |-> Len(read) = BootBuffer]
  /\ UNCHANGED <<typed, lines, buffer, words, child, lastExitCode>>
\* One file is enough: the shell forgets it.
Forget ==
  /\ targets.pc = "read" /\ targets' = NoTargets("done")
  /\ UNCHANGED <<typed, lines, buffer, words, child, lastExitCode>>
-----------------------------------------------------------------------------
\* What main() does with a line: nothing, a change of directory, or a child;
\* a command that is not found leaves the exit code alone.
Run(text, ended) ==
  /\ lines' = Append(lines, [text |-> text, ended |-> ended]) /\ buffer' = <<>>
  /\ words' = Split(text, " ", 1, 1)
  /\ child' = IF words' # <<>> /\ words'[1] = EchoName
              THEN [pc |-> "runs", printed |-> <<>>] ELSE NoChild

Full(c) == Run(Append(buffer, c), FALSE)
\* getline(): the line ends with a newline or when the buffer is full.
Type(c) ==
  /\ targets.pc = "done" /\ child.pc = "none" /\ Len(typed) < MaxTyped
  /\ typed' = Append(typed, c)
  /\ IF c = "\n" THEN Run(buffer, TRUE)
     ELSE IF Len(buffer) + 1 = MaxLine - 1 THEN Full(c)
     ELSE buffer' = Append(buffer, c) /\ UNCHANGED <<lines, words, child>>
  /\ UNCHANGED <<lastExitCode, targets>>

\* echo, whose first argument is its name.
RECURSIVE Echoed(_)
Echoed(args) ==
  IF args = <<>> THEN <<>>
  ELSE IF Len(args) = 1 THEN args[1] ELSE args[1] \o <<" ">> \o Echoed(Tail(args))
Shown == Append(Echoed(Tail(words)), "\n")
Echo ==
  /\ child.pc = "runs" /\ child' = [pc |-> "ended", printed |-> Shown]
  /\ UNCHANGED <<typed, lines, buffer, words, lastExitCode, targets>>
Wait(code) ==
  /\ child.pc = "ended" /\ child' = NoChild /\ lastExitCode' = code
  /\ UNCHANGED <<typed, lines, buffer, words, targets>>

Next ==
  \/ \E text \in Texts : Boot(text)
  \/ NoBootFile \/ Forget \/ Echo \/ Wait(0) \/ Wait(1)
  \/ \E c \in Chars : Type(c)

Spec == Init /\ [][Next]_vars
-----------------------------------------------------------------------------
\* The maximal runs of characters other than d, as intervals, in their order.
Runs(s, d) ==
  {r \in (1..Len(s)) \X (1..Len(s)) :
     /\ r[1] <= r[2] /\ \A k \in r[1]..r[2] : s[k] # d
     /\ r[1] = 1 \/ s[r[1] - 1] = d
     /\ r[2] = Len(s) \/ s[r[2] + 1] = d}
Rank(r, s, d) == Cardinality({q \in Runs(s, d) : q[1] <= r[1]})
AreRuns(ws, s, d) ==
  /\ \A r \in Runs(s, d) :
       LET k == Rank(r, s, d) IN k <= Len(ws) /\ ws[k] = SubSeq(s, r[1], r[2])
  /\ Len(ws) = Cardinality(Runs(s, d))

(* The words of a line are its runs of letters, whatever blanks stand      *)
(* before, between and behind them.                                        *)
WordsAreRuns == lines # <<>> => AreRuns(words, lines[Len(lines)].text, " ")

(* Of the boot file the lines that end inside the buffer are started as    *)
(* they are written, in their order and no other; one that is cut, or that *)
(* no newline ends, is started too, with what follows it in curBin behind  *)
(* it.  A line is left out only after the warning.                         *)
TargetsAreLines ==
  targets.pc = "read" =>
    LET text == targets.text
        begun == {r \in Runs(text, "\n") : r[1] <= BootBuffer}
    IN /\ Len(targets.started) = Cardinality(begun)
       /\ \A r \in begun :
            LET name == targets.started[Rank(r, text, "\n")]
                seen == SubSeq(text, r[1], IF r[2] > BootBuffer THEN BootBuffer ELSE r[2])
            IN IF r[2] < BootBuffer /\ r[2] < Len(text) THEN name = seen
               ELSE SubSeq(name, 1, Len(seen)) = seen
       /\ ~targets.warned => begun = Runs(text, "\n")

(* Nothing typed is lost or read twice: a line too long for the buffer     *)
(* goes on in the next one.                                                *)
RECURSIVE Joined(_)
Joined(ls) == IF ls = <<>> THEN <<>>
              ELSE ls[1].text \o (IF ls[1].ended THEN <<"\n">> ELSE <<>>) \o Joined(Tail(ls))
NothingLost == typed = Joined(lines) \o buffer

(* echo gives back the words with one blank between them: cut again they   *)
(* are the same.                                                           *)
EchoKeepsWords ==
  child.pc = "ended" =>
    /\ child.printed # <<>> /\ child.printed[Len(child.printed)] = "\n"
    /\ AreRuns(Tail(words), SubSeq(child.printed, 1, Len(child.printed) - 1), " ")
=============================================================================
