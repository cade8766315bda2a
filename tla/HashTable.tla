------------------------------ MODULE HashTable ------------------------------
(***************************************************************************)
(* HashTable<Key, Value> of hashTable.h, whose buckets are the growing      *)
(* arrays of expArray.h.  Processes insert without any lock, as the users   *)
(* of the ARP cache do, and may be pre-empted inside push_back().  For one  *)
(* process the table is shown to implement Dictionary.                      *)
(***************************************************************************)
EXTENDS Naturals, Sequences, FiniteSets

CONSTANTS Key,          \* numbers: StdToInt hashes a key to itself
          Value, NotFound,
          Fresh,        \* what malloc() leaves in memory
          Procs,
          NbBuckets

VARIABLES buckets,      \* arrays: [cells: their memory, nPos: the cells in use]
          nbAssoc,
          call,         \* per process: the insert() it is in
          returned      \* history: keys whose insert() has returned

vars == <<buckets, nbAssoc, call, returned>>

Assoc == Key \X Value

Idle == [pc |-> "idle"]

EmptyArray == [cells |-> <<Fresh, Fresh>>, nPos |-> 0]

Init ==
  /\ buckets = [b \in 0 .. NbBuckets - 1 |-> EmptyArray]
  /\ nbAssoc = 0
  /\ call = [p \in Procs |-> Idle]
  /\ returned = {}

Hash(k) == k % NbBuckets

\* The cells of an array that are in use.
InUse(array) == 1 .. (IF array.nPos <= Len(array.cells) THEN array.nPos ELSE Len(array.cells))

Positions(array, k) == {c \in InUse(array) : array.cells[c] \in {<<k, v>> : v \in Value}}

First(S) == CHOOSE c \in S : \A d \in S : c <= d

\* find(): the first binding of k in its bucket.
FindIn(table, bucket, k) ==
  LET found == Positions(table[bucket], k)
  IN IF found = {} THEN NotFound ELSE table[bucket].cells[First(found)][2]

Find(k) == FindIn(buckets, Hash(k), k)

\* realloc(): the memory of an array replaced by `size' cells.
Resized(array, size) ==
  [c \in 1 .. size |-> IF c \in InUse(array) THEN array.cells[c] ELSE Fresh]

\* Mutant: the key is appended although it is bound.
Search_NoReplace(p, k, v) ==
  /\ call[p] = Idle
  /\ Len(buckets[Hash(k)].cells) < 8 /\ buckets[Hash(k)].nPos < 7
  /\ call' = [call EXCEPT ![p] = [pc |-> "room", key |-> k, val |-> v]]
  /\ UNCHANGED <<buckets, nbAssoc, returned>>

\* insert(): a bound key gets its new value, otherwise the array is to grow.
Search(p, k, v) ==
  LET found == Positions(buckets[Hash(k)], k)
  IN /\ call[p] = Idle
     /\ IF found # {}
          THEN /\ buckets' = [buckets EXCEPT ![Hash(k)].cells[First(found)] = <<k, v>>]
               /\ returned' = returned \cup {k}
               /\ UNCHANGED <<call, nbAssoc>>
          ELSE /\ call' = [call EXCEPT ![p] = [pc |-> "room", key |-> k, val |-> v]]
               /\ UNCHANGED <<buckets, nbAssoc, returned>>

\* push_back(): realloc() fills new memory if the array is full ...
Room(p) ==
  LET array == buckets[Hash(call[p].key)]
  IN /\ call[p].pc = "room"
     /\ call' = IF array.nPos >= Len(array.cells)
          THEN [call EXCEPT ![p] = [key |-> @.key, val |-> @.val, pc |-> "move",
                                    memory |-> Resized(array, 2 * Len(array.cells) + 1)]]
          ELSE [call EXCEPT ![p].pc = "store"]
     /\ UNCHANGED <<buckets, nbAssoc, returned>>

\* ... which then takes the place of the old one,
Move(p) ==
  /\ call[p].pc = "move"
  /\ buckets' = [buckets EXCEPT ![Hash(call[p].key)].cells = call[p].memory]
  /\ call' = [call EXCEPT ![p] = [key |-> @.key, val |-> @.val, pc |-> "store"]]
  /\ UNCHANGED <<nbAssoc, returned>>

\* the binding is written to the first unused cell (beyond the array's memory
\* if others have filled it meanwhile)
Store(p) ==
  LET array == buckets[Hash(call[p].key)]
  IN /\ call[p].pc = "store"
     /\ buckets' = IF array.nPos < Len(array.cells)
          THEN [buckets EXCEPT ![Hash(call[p].key)].cells[array.nPos + 1] =
                                  <<call[p].key, call[p].val>>]
          ELSE buckets
     /\ call' = [call EXCEPT ![p].pc = "count"]
     /\ UNCHANGED <<nbAssoc, returned>>

\* and counted.  insert() returns before it looks at the load of the table.
Count(p) ==
  /\ call[p].pc = "count"
  /\ buckets' = [buckets EXCEPT ![Hash(call[p].key)].nPos = @ + 1]
  /\ nbAssoc' = nbAssoc + 1
  /\ returned' = returned \cup {call[p].key}
  /\ call' = [call EXCEPT ![p] = Idle]

Next == \E p \in Procs :
  \/ \E k \in Key, v \in Value : Search(p, k, v)
  \/ Room(p) \/ Move(p) \/ Store(p) \/ Count(p)

Spec == Init /\ [][Next]_vars

\* rehash(): every binding pushed to its bucket among n.
Bindings(table, n) ==
  LET all[b \in 0 .. n] ==
        IF b = n THEN <<>> ELSE SubSeq(table[b].cells, 1, table[b].nPos) \o all[b + 1]
  IN all[0]

Rehash(table, n) ==
  [b \in 0 .. n - 1 |->
     LET bucket == SelectSeq(Bindings(table, NbBuckets), LAMBDA a : a[1] % n = b)
     IN [cells |-> bucket, nPos |-> Len(bucket)]]

\* Iterator: the first binding at bPos of bucket buck or after it, or end().
ToNextValid(buck, bPos) ==
  LET valid[b \in 0 .. NbBuckets] ==
        IF b = NbBuckets THEN <<b, 0>>
        ELSE LET pos == IF b = buck THEN bPos ELSE 0
             IN IF pos < buckets[b].nPos THEN <<b, pos>> ELSE valid[b + 1]
  IN valid[buck]

\* The bindings a loop from begin() to end() sees, in its order.
Visited ==
  LET from[n \in 0 .. nbAssoc, at \in (0 .. NbBuckets) \X (0 .. nbAssoc)] ==
        IF n = 0 \/ at[1] = NbBuckets THEN <<>>
        ELSE <<buckets[at[1]].cells[at[2] + 1]>> \o from[n - 1, ToNextValid(at[1], at[2] + 1)]
  IN from[nbAssoc, ToNextValid(0, 0)]
-----------------------------------------------------------------------------
Quiet == \A p \in Procs : call[p] = Idle

(* Each key is bound at most once, in its own bucket, within the memory of   *)
(* that bucket, and the bindings are counted.                                *)
TypeOK ==
  /\ DOMAIN buckets = 0 .. NbBuckets - 1
  /\ \A b \in DOMAIN buckets :
       /\ buckets[b].nPos <= Len(buckets[b].cells)
       /\ \A c \in InUse(buckets[b]) :
            buckets[b].cells[c] \in Assoc /\ Hash(buckets[b].cells[c][1]) = b
       /\ \A k \in Key : Cardinality(Positions(buckets[b], k)) <= 1
  /\ nbAssoc = Cardinality({k \in Key : Find(k) # NotFound})

(* Whatever collides and however often the arrays move, find() returns the   *)
(* value inserted last: the table is a dictionary.                           *)
Abstract == INSTANCE Dictionary WITH
  dict <- [k \in Key |-> Find(k)],
  asked <- [p \in Procs |-> IF call[p] = Idle THEN NotFound ELSE <<call[p].key, call[p].val>>]

(* A loop over the table meets every binding once, across empty buckets.     *)
IterationIsComplete ==
  /\ Len(Visited) = nbAssoc
  /\ {Visited[i] : i \in 1 .. Len(Visited)} = {<<k, Find(k)>> : k \in {k \in Key : Find(k) # NotFound}}

(* rehash(), which nothing calls, would lose no binding and misplace none.   *)
RehashKeepsBindings ==
  \A k \in Key : FindIn(Rehash(buckets, 2 * NbBuckets), k % (2 * NbBuckets), k) = Find(k)

(* What the table's comment promises: an insertion triggers a rehash when    *)
(* the buckets are four fifths full (hashTable.h:101).                        *)
LoadBounded == Quiet => nbAssoc <= (NbBuckets * 4) \div 5

(* What the ARP cache's comment promises: a machine once seen is on record   *)
(* (arp.cpp:31).                                                             *)
InsertedIsKept == \A k \in returned : Find(k) # NotFound
=============================================================================
