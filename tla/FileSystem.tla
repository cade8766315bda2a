----------------------------- MODULE FileSystem ------------------------------
(***************************************************************************)
(* The read-only tree of src/kernel/src/filesystem.cpp, its system calls   *)
(* (process.cpp), and the programs that live on it: cat, ls, pwd, the      *)
(* shell's cd and its search for a command, and the loader.                *)
(***************************************************************************)
EXTENDS Integers, Sequences, FiniteSets

CONSTANTS Tree,        \* node |-> [parent, name, folder, data]; data is a file's
                       \* bytes or a folder's nodes
          Root, None,
          Chars,       \* the characters of paths, "/" among them
          MaxPath,     \* bound on the length of a path
          MAX_NAME_LENGTH,
          BUFF_SIZE    \* cat's
VARIABLES cwd,         \* of the process, a node or None
          last,        \* the last search: [path, cwd, found, command]
          prog,        \* what runs: [name, node, index], and what it
          printed,     \* has printed
          memory,      \* what the loader has made of a file: [file, words]
          crashed      \* the kernel has thrown
vars == <<cwd, last, prog, printed, memory, crashed>>

Node == DOMAIN Tree
IsFolder(n) == Tree[n].folder
Paths == UNION {[1..k -> Chars] : k \in 0..MaxPath}
Newline == 10
Elf == 127
NoProg == [name |-> "none", node |-> None, index |-> 0]
BIN_PREFIX == <<"/", "n", "/">>     \* "/bin/" in this alphabet

FindChild(f, name) ==
  LET same == {i \in DOMAIN Tree[f].data : Tree[Tree[f].data[i]].name = name}
  IN IF same = {} THEN None
     ELSE Tree[f].data[CHOOSE i \in same : \A j \in same : i <= j]

\* The loop of follow_path() in folder f: name has been read, rest is left.
RECURSIVE Walk(_, _, _)
Walk(f, name, rest) ==
  IF rest = <<>> THEN FindChild(f, name)
  ELSE IF rest[1] = "/"
  THEN LET n == FindChild(f, name) IN
       IF n = None \/ ~IsFolder(n) THEN None
       ELSE IF Len(rest) = 1 THEN n ELSE Walk(n, <<>>, Tail(rest))
  ELSE IF Len(name) >= MAX_NAME_LENGTH THEN None
  ELSE Walk(f, Append(name, rest[1]), Tail(rest))
FollowPath_AnyCwd(path, dir) ==
  IF path = <<"/">> THEN Root ELSE IF dir = None THEN None ELSE Walk(dir, <<>>, path)
FollowPath(path, dir) ==
  IF path # <<>> /\ path[1] = "/"
  THEN IF Len(path) = 1 THEN Root ELSE Walk(Root, <<>>, Tail(path))
  ELSE IF dir = None THEN None ELSE Walk(dir, <<>>, path)
\* The system call: a cwd that is no folder does not count.
FindFile(path) == FollowPath(path, IF cwd # None /\ IsFolder(cwd) THEN cwd ELSE None)

\* get_node_path(): the names from the root, each with a slash behind it.
RECURSIVE NodePath(_)
NodePath(n) == IF n = None THEN <<>> ELSE NodePath(Tree[n].parent) \o Append(Tree[n].name, "/")

NoSearch == [path |-> <<>>, cwd |-> None, found |-> None, command |-> FALSE]
NoImage == <<None, <<>>>>
Init ==
  /\ cwd \in {None, Root} /\ prog = NoProg /\ printed = <<>> /\ memory = NoImage
  /\ last = NoSearch /\ crashed = FALSE
-----------------------------------------------------------------------------
\* One search, program or image at a time, forgotten before the next.
Ready == prog = NoProg /\ last = NoSearch /\ memory = NoImage /\ ~crashed
Asked(path, found, command) ==
  last' = [path |-> path, cwd |-> cwd, found |-> found, command |-> command]

Find(path) ==
  /\ Ready /\ Asked(path, FindFile(path), FALSE)
  /\ UNCHANGED <<cwd, prog, printed, memory, crashed>>
\* The shell's cd, with a path or without.
Cd(path) ==
  /\ Ready /\ Asked(path, FindFile(path), FALSE)
  /\ cwd' = IF last'.found # None /\ IsFolder(last'.found) THEN last'.found ELSE cwd
  /\ UNCHANGED <<prog, printed, memory, crashed>>
\* resolve_path(): the file itself, or one in /bin.
Resolve(path) ==
  LET f == FindFile(path) IN IF f # None THEN f ELSE FindFile(BIN_PREFIX \o path)
Command(path) ==
  /\ Ready /\ Asked(path, Resolve(path), TRUE)
  /\ UNCHANGED <<cwd, prog, printed, memory, crashed>>

Start(name, n) ==
  /\ Ready /\ prog' = [name |-> name, node |-> n, index |-> 0] /\ printed' = <<>>
  /\ UNCHANGED <<cwd, last, memory, crashed>>
Pwd ==
  /\ Ready /\ cwd # None /\ printed' = NodePath(cwd)
  /\ prog' = [name |-> "pwd", node |-> cwd, index |-> 0]
  /\ UNCHANGED <<cwd, last, memory, crashed>>

\* The system call file_read(): none of the bytes at or past the end may be
\* addressed, not even to read nothing.
Throws(f, offset) == offset >= Len(Tree[f].data)
FileRead(f, offset, length) ==
  LET n == Len(Tree[f].data) - offset
  IN SubSeq(Tree[f].data, offset + 1, offset + (IF length < n THEN length ELSE n))

\* catFile(): chunk after chunk, then a newline if the last byte is none.
NbChunks(f) == (Len(Tree[f].data) + BUFF_SIZE - 1) \div BUFF_SIZE
CatChunk ==
  /\ prog.name = "cat" /\ prog.index < NbChunks(prog.node) /\ ~crashed
  /\ IF Throws(prog.node, prog.index * BUFF_SIZE) THEN crashed' = TRUE /\ UNCHANGED <<prog, printed>>
     ELSE /\ printed' = printed \o FileRead(prog.node, prog.index * BUFF_SIZE, BUFF_SIZE)
          /\ prog' = [prog EXCEPT !.index = @ + 1] /\ UNCHANGED crashed
  /\ UNCHANGED <<cwd, last, memory>>
CatEnd ==
  /\ prog.name = "cat" /\ prog.index = NbChunks(prog.node) /\ ~crashed
  /\ printed' = IF printed = <<>> \/ printed[Len(printed)] # Newline THEN Append(printed, Newline) ELSE printed
  /\ prog' = [prog EXCEPT !.name = "catted"]
  /\ UNCHANGED <<cwd, last, memory, crashed>>

\* ls: the name of each child, after a look whether it is a program, which
\* reads its first bytes.
NumChildren(n) == Len(Tree[n].data)
LsChild ==
  /\ prog.name = "ls" /\ prog.index < NumChildren(prog.node) /\ ~crashed
  /\ LET child == Tree[prog.node].data[prog.index + 1] IN
     IF ~IsFolder(child) /\ Throws(child, 0)
     THEN crashed' = TRUE /\ UNCHANGED <<prog, printed>>
     ELSE /\ printed' = Append(printed, Tree[child].name)
          /\ prog' = [prog EXCEPT !.index = @ + 1] /\ UNCHANGED crashed
  /\ UNCHANGED <<cwd, last, memory>>
LsEnd ==
  /\ prog.name = "ls" /\ prog.index = NumChildren(prog.node) /\ ~crashed
  /\ prog' = [prog EXCEPT !.name = "listed"]
  /\ UNCHANGED <<cwd, last, printed, memory, crashed>>
Finish ==
  /\ prog.name \in {"none", "pwd", "catted", "listed"} /\ ~Ready /\ ~crashed
  /\ prog' = NoProg /\ printed' = <<>> /\ last' = NoSearch /\ memory' = NoImage
  /\ UNCHANGED <<cwd, crashed>>

\* run_process() on a file whose bytes are <<Elf, size, table, entries>> and
\* its words, which assume an address of 0; it is put at 100.
Base == 100
IsProgram(f) == ~IsFolder(f) /\ Len(Tree[f].data) >= 4 /\ Tree[f].data[1] = Elf
Loaded(f) ==
  LET d == Tree[f].data
      raw == [i \in 0..(d[2] - 1) |-> IF i + 5 <= Len(d) THEN d[i + 5] ELSE 0]
  IN [i \in 0..(d[2] - 1) |-> IF i \in d[3]..(d[3] + d[4] - 1) THEN raw[i] + Base ELSE raw[i]]
RunProcess(f) ==
  /\ Ready /\ ~IsFolder(f)
  /\ IF Throws(f, 0) THEN crashed' = TRUE /\ UNCHANGED memory
     ELSE IF ~IsProgram(f) THEN memory' = <<f, <<>>>> /\ UNCHANGED crashed
     ELSE IF Tree[f].data[2] < Len(Tree[f].data) - 4 THEN crashed' = TRUE /\ UNCHANGED memory
     ELSE memory' = <<f, Loaded(f)>> /\ UNCHANGED crashed
  /\ UNCHANGED <<cwd, last, prog, printed>>

Next ==
  \/ \E p \in Paths : Find(p) \/ Cd(p) \/ Command(p)
  \/ \E n \in Node : \/ IsFolder(n) /\ Start("ls", n)
                     \/ ~IsFolder(n) /\ (Start("cat", n) \/ RunProcess(n))
  \/ Pwd \/ CatChunk \/ CatEnd \/ LsChild \/ LsEnd \/ Finish

Spec == Init /\ [][Next]_vars
-----------------------------------------------------------------------------
TypeOK ==
  /\ cwd \in Node \cup {None} /\ (cwd # None => IsFolder(cwd))
  /\ last.found \in Node \cup {None} /\ crashed \in BOOLEAN

\* The names on the way from folder f down to n, with slashes between them.
RECURSIVE Below(_, _), Relative(_, _)
Below(f, n) == n # None /\ (Tree[n].parent = f \/ Below(f, Tree[n].parent))
Relative(f, n) ==
  IF Tree[n].parent = f THEN Tree[n].name
  ELSE Relative(f, Tree[n].parent) \o <<"/">> \o Tree[n].name
Written(f, n) == {Relative(f, n)} \cup (IF IsFolder(n) THEN {Append(Relative(f, n), "/")} ELSE {})
Designated(path, dir) ==
  IF path = <<"/">> THEN {Root}
  ELSE LET abs == path # <<>> /\ path[1] = "/"
           f == IF abs THEN Root ELSE dir
           q == IF abs THEN Tail(path) ELSE path
       IN {n \in Node : f # None /\ Below(f, n) /\ q \in Written(f, n)}

(* A path leads to the one node it names: from the root if it begins with  *)
(* a slash and from the working directory otherwise, with one slash at its *)
(* end for folders only; any other path leads nowhere.                     *)
PathsLeadToNames ==
  ~last.command => Designated(last.path, last.cwd) = {last.found} \ {None}

(* The shell prefers the path as it is, and looks in /bin only then.       *)
CommandsFound ==
  last.command =>
    LET here == Designated(last.path, last.cwd) IN
    {last.found} \ {None} =
      IF here # {} THEN here ELSE Designated(BIN_PREFIX \o last.path, last.cwd)

(* What pwd prints leads back to the working directory from everywhere.    *)
PwdLeadsBack ==
  prog.name = "pwd" =>
    \A dir \in {n \in Node : IsFolder(n)} \cup {None} : FollowPath(printed, dir) = cwd

(* cat prints a whole file whatever its length, and ends its last line.    *)
CatPrintsAll ==
  prog.name = "catted" =>
    LET d == Tree[prog.node].data
    IN printed = IF d # <<>> /\ d[Len(d)] = Newline THEN d ELSE Append(d, Newline)

(* ls prints the names of all children, unless one is an empty file, on    *)
(* which file_read() throws.                                               *)
LsPrintsAll ==
  /\ prog.name = "listed" =>
       printed = [i \in DOMAIN Tree[prog.node].data |-> Tree[Tree[prog.node].data[i]].name]
  /\ crashed /\ prog.name = "ls" =>
       \E i \in DOMAIN Tree[prog.node].data : Tree[Tree[prog.node].data[i]].data = <<>>

(* A program that runs has its file's words, the table moved by its        *)
(* address, and zeros behind.                                              *)
LoadedRight ==
  memory[2] # <<>> =>
    LET d == Tree[memory[1]].data IN
    \A i \in DOMAIN memory[2] :
      memory[2][i] = (IF i \in d[3]..(d[3] + d[4] - 1) THEN Base ELSE 0)
                     + (IF i < Len(d) - 4 THEN d[i + 5] ELSE 0)
=============================================================================
