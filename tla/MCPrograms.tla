------------------------------ MODULE MCPrograms ------------------------------
(***************************************************************************)
(* The programs for TLC: the parts of the Z-machine's interpreter, the     *)
(* snake server, the shell daemon, the shell and the files it works on,    *)
(* side by side.  They share no state: a behaviour is one of a single      *)
(* part, which has the first of the variables s1 to s7.  The daemon and    *)
(* the snake server have the variables of their modules, which the others  *)
(* leave as they are.                                                      *)
(***************************************************************************)
EXTENDS Ushd, Snake, TLC

VARIABLES part, s1, s2, s3, s4, s5, s6, s7

(* Two routines, one beyond the first 64 KB, with one and two local         *)
(* variables; a branch that returns and one that goes back.                  *)
C == INSTANCE ZCalls WITH
  z <- s1, NumLocals <- 8 :> 1 @@ 66564 :> 2, Sites <- {70000}, Vals <- {0, 65535},
  Vars <- {0, 2, 16}, Discard <- 65535, ArgLists <- {<<>>, <<65535, 0>>},
  Branches <- {[on |-> TRUE, offset |-> 1], [on |-> FALSE, offset |-> -300]},
  MaxWords <- 12, MaxStack <- 1

(* Four objects, with attributes in both of their words. *)
O == INSTANCE ZObjects WITH table <- s1, N <- 4, Attributes <- {0, 1, 8}, Adorned <- {1}

(* Tables of at most three properties, with the lengths where the encoding  *)
(* changes and the highest and lowest numbers; one of them can be put.      *)
Lengths == {1, 2, 3, 63, 64}
Tables == {t \in UNION {[1 .. n -> [number : {1, 18, 63}, length : Lengths]] : n \in 1 .. 3} :
             /\ \A i \in 2 .. Len(t) : t[i].number < t[i - 1].number
             /\ \E i \in DOMAIN t : t[i].length <= 2}
P == INSTANCE ZProperties WITH
  z <- s1, table <- s2, stored <- s3, Tables <- Tables, NameLength <- 1, Start <- 100,
  Given <- {513, 65535}

(* A character of each alphabet, the space, the newline and one that is in  *)
(* no alphabet; the first abbreviation and one of the second group.         *)
X == INSTANCE ZText WITH
  text <- s1, Chars <- {97, 90, 40, 32, 10, 64}, MaxLen <- 5,
  Abbreviations <- 0 :> <<58794>> @@ 33 :> <<4293, 40965>>

(* Two letters, one of them typed as a capital, the space and a comma; the  *)
(* dictionaries share a word.                                               *)
K == INSTANCE ZTokens WITH
  text <- s1, parse <- s2, words <- s3, reading <- s4, used <- s5,
  Typed <- {97, 66, 32, 44}, Separators <- {44}, MaxChars <- 5, MaxWords <- 3,
  Dictionaries <- <<<<<<97>>, <<98, 97>>, <<44>>>>, <<<<98>>, <<98, 97>>>>>>

(* Words of either sign, of one and of two bytes, and the borders.          *)
I == INSTANCE ZInstructions WITH
  mem <- s1, stack <- s2, last <- s3, Vals <- {0, 3, 514, 32768, 65535},
  Array <- 20, Indices <- {65535, 0, 1}, MaxStack <- 2

(* The shell's buffer holds four characters of the six that are typed, the  *)
(* boot's five.                                                             *)
H == INSTANCE Ush WITH
  typed <- s1, lines <- s2, buffer <- s3, words <- s4, child <- s5, lastExitCode <- s6,
  targets <- s7, Chars <- {"a", "c", " ", "\n"}, MaxLine <- 5, BootBuffer <- 5, MaxTyped <- 6

(* Pairs of numbers behind DIRS: a snake that stands, that jumps over a      *)
(* cell, aslant, and off the board.                                          *)
Jumps == {<<0, 0>>, <<2, 0>>, <<-1, 1>>, <<4, 0>>}

(* Folders in folders with files of the same names in several of them, an   *)
(* empty file, one that is no program, and two programs, one cut short.     *)
Folder(parent, name, nodes) == [parent |-> parent, name |-> name, folder |-> TRUE, data |-> nodes]
File(parent, name, bytes) == [parent |-> parent, name |-> name, folder |-> FALSE, data |-> bytes]
FsTree ==
  [root |-> Folder("none", <<>>, <<"dir", "bin", "text">>),
   dir |-> Folder("root", <<"a">>, <<"same", "sub", "empty">>),
   bin |-> Folder("root", <<"n">>, <<"prog", "short">>),
   text |-> File("root", <<"a", "n">>, <<1, 2, 3, 10>>),
   same |-> File("dir", <<"a">>, <<1, 2, 10, 3, 4>>),
   sub |-> Folder("dir", <<"n">>, <<"deep">>),
   empty |-> File("dir", <<"n", "n">>, <<>>),
   deep |-> File("sub", <<"n", "a">>, <<10>>),
   prog |-> File("bin", <<"a", "a">>, <<127, 5, 1, 2, 7, 8, 9>>),
   short |-> File("bin", <<"a">>, <<127, 1, 0, 0, 7, 8>>)]
F == INSTANCE FileSystem WITH
  cwd <- s1, last <- s2, prog <- s3, printed <- s4, memory <- s5, crashed <- s6, Tree <- FsTree,
  Root <- "root", None <- "none", Chars <- {"/", "a", "n"}, MaxPath <- 5, MAX_NAME_LENGTH <- 2,
  BUFF_SIZE <- 2
-----------------------------------------------------------------------------
\* A part leaves the variables it does not have at 0.
Unused7 == s7 = 0
Unused6 == s6 = 0 /\ Unused7
Unused4 == s4 = 0 /\ s5 = 0 /\ Unused6
Unused2 == s2 = 0 /\ s3 = 0 /\ Unused4
Rest7 == <<part, s7>>
Rest6 == <<s6, Rest7>>
Rest4 == <<s4, s5, Rest6>>
Rest2 == <<s2, s3, Rest4>>

PartInit ==
  \/ part = "calls" /\ C!Init /\ Unused2
  \/ part = "objects" /\ O!Init /\ Unused2
  \/ part = "properties" /\ P!Init /\ Unused4
  \/ part = "text" /\ X!Init /\ Unused2
  \/ part = "tokens" /\ K!Init /\ Unused6
  \/ part = "instructions" /\ I!Init /\ Unused4
  \/ part \in {"daemon", "snake"} /\ s1 = 0 /\ Unused2
  \/ part = "shell" /\ H!Init
  \/ part = "files" /\ F!Init /\ Unused7
AllInit ==
  /\ Init /\ NewGame /\ PartInit
  /\ part # "snake" => apples = CHOOSE a \in WithApples(<<>>, {}, NB_APPLES) : TRUE

\* The parts that stop: the snake server and the kernel's file_read() may die,
\* and games, sessions and lines end at their bounds.
Stopped ==
  /\ part \in {"snake", "daemon", "shell", "files"}
  /\ UNCHANGED <<s1, s2, s3, s4, s5, Rest6>>

PartNext ==
  \/ part = "calls" /\ C!Next /\ UNCHANGED Rest2
  \/ part = "objects" /\ O!Next /\ UNCHANGED Rest2
  \/ part = "properties" /\ P!Next /\ UNCHANGED Rest4
  \/ part = "text" /\ X!Next /\ UNCHANGED Rest2
  \/ part = "tokens" /\ K!Next /\ UNCHANGED Rest6
  \/ part = "instructions" /\ I!Next /\ UNCHANGED Rest4
  \/ part = "shell" /\ H!Next /\ UNCHANGED part
  \/ part = "files" /\ F!Next /\ UNCHANGED Rest7
  \/ Stopped

AllNext ==
  \/ PartNext /\ UNCHANGED <<vars, game>>
  \/ part = "daemon" /\ Next /\ UNCHANGED <<game, s1, Rest2>>
  \/ part = "snake" /\ Play /\ UNCHANGED <<vars, s1, Rest2>>

AllVars == <<vars, game, s1, Rest2>>
AllSpec == AllInit /\ [][AllNext]_AllVars
-----------------------------------------------------------------------------
(* The two flat arrays of words behave as a stack of activations, each with  *)
(* its own locals and stack.                                                 *)
ImplementsFrames ==
  /\ part = "calls" => C!ZF!Init
  /\ [](part = "calls" => C!TypeOK)
  /\ [][part = "calls" => C!ZF!Next \/ UNCHANGED C!ZF!vars]_AllVars

(* The linked entries behave as a forest whose links agree in both           *)
(* directions, the bits as sets of attributes.                               *)
ImplementsTree ==
  /\ part = "objects" => O!Tree!Init
  /\ [](part = "objects" => O!TypeOK /\ O!ParentsAgree)
  /\ [][part = "objects" => O!Tree!Next \/ UNCHANGED O!Tree!vars]_AllVars

(* In a table of properties of any lengths get_prop reads what put_prop      *)
(* stored, the length found backwards from the data is that of the property, *)
(* and get_next_prop goes through all of them once.                          *)
PropertiesRight ==
  part = "properties" => P!TypeOK /\ P!ReadsBack /\ P!LengthsAgree /\ P!WalksAll

(* Words survive their encoding and strings are printed as they were meant;  *)
(* the words of a typed line are found, each with the entry of the last      *)
(* dictionary that knows it.                                                 *)
WordsSurvive ==
  /\ part = "text" => X!TypeOK /\ X!WordsSurvive /\ X!StringsPrinted
  /\ part = "tokens" => K!TypeOK /\ K!WordsFound /\ K!EntriesRight

(* Instructions of the long and of the variable form read their operands as  *)
(* they were meant, give the results of arithmetic on signed words, and      *)
(* store into their own bytes and no other.                                  *)
InstructionsRight ==
  /\ [](part = "instructions" => I!TypeOK /\ I!OperandsRead /\ I!ResultsRight)
  /\ [][part = "instructions" => I!StoresApart]_AllVars

(* The shell loses nothing that is typed and cuts lines into their words;    *)
(* echo gives the words back.  Of the boot file every line that a newline    *)
(* ends inside the boot's buffer is started by its name.                     *)
LinesUnderstood ==
  part = "shell" => H!WordsAreRuns /\ H!TargetsAreLines /\ H!NothingLost /\ H!EchoKeepsWords

(* A path leads to the node it names, a command is found here or in /bin,    *)
(* and what pwd prints leads back; cat and ls print everything there is, and *)
(* a program is loaded as its file says.                                     *)
FilesRight ==
  part = "files" =>
    /\ F!TypeOK
    /\ F!PathsLeadToNames /\ F!CommandsFound /\ F!PwdLeadsBack
    /\ F!CatPrintsAll /\ F!LsPrintsAll /\ F!LoadedRight
=============================================================================
