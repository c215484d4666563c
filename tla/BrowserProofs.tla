--------------------------- MODULE BrowserProofs ---------------------------
(***************************************************************************)
(* The volumes and the window over them, for any disks, directories and    *)
(* files, block sizes, number of handles and volumes, and whatever fails   *)
(* on the way.                                                             *)
(*                                                                         *)
(* Volumes: a mounted volume has a handle of its own, open on its device,  *)
(* and no other handle is open; it is not larger than the partition of the *)
(* window's item, where the numbers agree, and the partitions that are     *)
(* counted are those that are found; and what Initialize writes is a file  *)
(* system that can be mounted.                                             *)
(*                                                                         *)
(* The argument: Open takes a handle that was closed, and what is not kept *)
(* is closed again, so a call that fails leaves all handles as they were;  *)
(* what is kept is the partition, or the whole disk if the opener gave up, *)
(* which its tables decide.  The count at our partitions grows by one from *)
(* each to the next, so no two have the same number, and behind partitions *)
(* that are all ours it is that of the place.  A walk finds a sequence of  *)
(* partitions, whatever the tables are linked to, which is an induction    *)
(* over the tables that are read.                                          *)
(*                                                                         *)
(* The window: a finished copy is as long as the file, and is the file     *)
(* unless a block could not be read; the walk over the tree tries each     *)
(* partition once, while the tree grows under it, and what the tree shows  *)
(* are the entries of the directories of the right volume.                 *)
(*                                                                         *)
(* The argument for the copy: between two rounds, what is written and what *)
(* is left make up the file, the next block is not longer than what is     *)
(* left, and it is read behind what was written.                           *)
(*                                                                         *)
(* The argument for the walk: the items the tree starts with, its base,    *)
(* are the devices, each with its partitions behind it, and stay where     *)
(* they are. A directory is listed behind all items there are, so a parent *)
(* is always in front of its children, and the base is what can be told    *)
(* by level. While the walk goes on, below the base are only the root      *)
(* directories of the partitions it has been to. Where it is in the base - *)
(* at an item of it, or below one - it has tried the partitions up to      *)
(* there, in their order, and none behind: the next item is a child that   *)
(* is skipped over, or the place behind in the base.                       *)
(*                                                                         *)
(* The argument for the entries: an item is added with the volume of the   *)
(* item it is listed for, as an entry of its directory that no sibling is, *)
(* and remains what it is. A directory is listed once, since it has no     *)
(* children before and all of them after.                                  *)
(***************************************************************************)
EXTENDS Browser, InductionLemmas, SequenceTheorems, FiniteSetTheorems, TLAPS

-----------------------------------------------------------------------------
(* What a walk finds.                                                      *)

\* Partitions that were found, what a walk and a round of it return, and disks whose
\* tables can be read as tables.
Found == [type : STRING, primary : BOOLEAN, start : Nat, size : Nat]
Walked == [found : Seq(Found), ok : BOOLEAN]
Chained == [rel : Nat, found : Seq(Found), ok : BOOLEAN, end : BOOLEAN]
Tables(disk) == \A t \in DOMAIN disk.tables : disk.tables[t] \in Seq(Entry)

\* What is in front of the link of a table.
LEMMA LinkIs ==
  ASSUME NEW table \in Seq(Entry)
  PROVE  /\ HasLink(table) => Link(table) \in Nat
         /\ Before(table) \in Seq(Entry) /\ Len(Before(table)) <= Len(table)
<1> DEFINE I == {i \in 1 .. Len(table) : table[i].type = "extended"}
<1>1. LinkAt(table) = IF I # {} THEN Min(I) ELSE 0
  BY DEF LinkAt, SelectInSeq
<1>2. I \subseteq 1 .. Len(table) /\ I \subseteq Nat
  OBVIOUS
<1> HIDE DEF I
<1>3. PICK n \in Nat : n = Len(table)
  OBVIOUS
<1>4. CASE I = {}
  <2>1. LinkAt(table) = 0
    BY <1>1, <1>4
  <2> QED
    BY <2>1 DEF HasLink, Before
<1>5. CASE I # {}
  <2>1. PICK i \in 1 .. n : i = LinkAt(table)
    BY <1>1, <1>2, <1>3, <1>5, MinIsLeast
  <2>2. table[i] \in Entry
    BY <1>3
  <2>3. Link(table) \in Nat
    BY <2>1, <2>2 DEF Link, Entry
  <2>4. \A k \in 1 .. i - 1 : table[k] \in Entry
    BY <1>3, <2>1
  <2>5. SubSeq(table, 1, i - 1) \in Seq(Entry) /\ Len(SubSeq(table, 1, i - 1)) = i - 1
    BY <2>4, SubSeqProperties
  <2>6. Before(table) = SubSeq(table, 1, i - 1)
    BY <2>1 DEF Before
  <2> QED
    BY <1>3, <2>1, <2>3, <2>5, <2>6
<1> QED
  BY <1>4, <1>5

\* What a table lists.
LEMMA HereIs ==
  ASSUME NEW table \in Seq(Entry), NEW primary \in BOOLEAN, NEW at \in Nat
  PROVE  [i \in 1 .. Len(Before(table)) |->
            [type |-> table[i].type, primary |-> primary, start |-> at + table[i].start, size |-> table[i].size]]
           \in Seq(Found)
<1>1. PICK n \in Nat, m \in Nat : n = Len(Before(table)) /\ m = Len(table) /\ n <= m
  BY LinkIs
<1>2. ASSUME NEW i \in 1 .. n
      PROVE  [type |-> table[i].type, primary |-> primary, start |-> at + table[i].start, size |-> table[i].size]
               \in Found
  <2>1. table[i] \in Entry
    BY <1>1
  <2>2. at + table[i].start \in Nat
    BY <2>1 DEF Entry
  <2> QED
    BY <2>1, <2>2 DEF Entry, Found
<1> QED
  BY <1>1, <1>2

\* The primary partitions.
LEMMA PrimariesAre ==
  ASSUME NEW disk, Tables(disk)
  PROVE  Primaries(disk) \in Seq(Found)
<1>1. CASE ~ Readable(disk, 0)
  BY <1>1 DEF Primaries
<1>2. CASE Readable(disk, 0)
  <2>1. PICK table \in Seq(Entry) : table = disk.tables[0]
    BY <1>2 DEF Readable, Tables
  <2>2. PICK n \in Nat, m \in Nat : n = Len(Before(table)) /\ m = Len(table) /\ n <= m
    BY <2>1, LinkIs
  <2>3. ASSUME NEW i \in 1 .. n
        PROVE  [type |-> table[i].type, primary |-> TRUE, start |-> table[i].start, size |-> table[i].size] \in Found
    <3>1. table[i] \in Entry
      BY <2>2
    <3> QED
      BY <3>1 DEF Entry, Found
  <2>4. Primaries(disk) = [i \in 1 .. n |-> [type |-> table[i].type, primary |-> TRUE,
                                             start |-> table[i].start, size |-> table[i].size]]
    BY <1>2, <2>1, <2>2 DEF Primaries
  <2>5. [i \in 1 .. n |-> [type |-> table[i].type, primary |-> TRUE,
                           start |-> table[i].start, size |-> table[i].size]] \in Seq(Found)
    BY <2>3
  <2> QED
    BY <2>4, <2>5
<1> QED
  BY <1>1, <1>2

\* One round of the loop over the tables.
LEMMA LogicalTableIs ==
  ASSUME NEW disk, Tables(disk), NEW first \in Nat, NEW w \in Chained
  PROVE  LogicalTable(disk, first, w) \in Chained
<1>1. PICK at \in Nat : at = first + w.rel
  BY DEF Chained
<1>2. CASE w.end
  BY <1>2 DEF LogicalTable
<1>3. CASE ~ w.end /\ ~ Readable(disk, at)
  <2>1. PICK yes \in BOOLEAN, no \in BOOLEAN : yes = TRUE /\ no = FALSE
    OBVIOUS
  <2>2. LogicalTable(disk, first, w) = [w EXCEPT !.end = yes, !.ok = no]
    BY <1>1, <1>3, <2>1 DEF LogicalTable
  <2> QED
    BY <2>2 DEF Chained
<1>4. CASE ~ w.end /\ Readable(disk, at)
  <2>1. PICK table \in Seq(Entry) : table = disk.tables[at]
    BY <1>4 DEF Readable, Tables
  <2> DEFINE here == [i \in 1 .. Len(Before(table)) |->
                       [type |-> table[i].type, primary |-> FALSE,
                        start |-> at + table[i].start, size |-> table[i].size]]
  <2>2. here \in Seq(Found)
    BY HereIs
  <2>3. LogicalTable(disk, first, w) = [rel |-> IF HasLink(table) THEN Link(table) ELSE w.rel,
                                        found |-> w.found \o here, ok |-> TRUE, end |-> ~ HasLink(table)]
    BY <1>1, <1>4, <2>1 DEF LogicalTable
  <2> HIDE DEF here
  <2>4. w.found \in Seq(Found) /\ w.rel \in Nat
    BY DEF Chained
  <2>5. w.found \o here \in Seq(Found)
    BY <2>2, <2>4, ConcatProperties
  <2>6. (IF HasLink(table) THEN Link(table) ELSE w.rel) \in Nat
    BY <2>4, LinkIs
  <2>7. PICK end \in BOOLEAN : end = ~ HasLink(table)
    OBVIOUS
  <2>8. LogicalTable(disk, first, w) = [rel |-> IF HasLink(table) THEN Link(table) ELSE w.rel,
                                        found |-> w.found \o here, ok |-> TRUE, end |-> end]
    BY <2>3, <2>7
  <2> QED
    BY <2>5, <2>6, <2>8 DEF Chained
<1> QED
  BY <1>2, <1>3, <1>4

\* The walk over the chain of tables exists, and finds partitions.
LEMMA LogicalsAre ==
  ASSUME NEW disk, Tables(disk), NEW first \in Nat
  PROVE  Logicals(disk, first).found \in Seq(Found) /\ Logicals(disk, first).ok \in BOOLEAN
<1>1. PICK n \in Nat : n = MaxTables
  BY TablesAssumption
<1> DEFINE begin == [rel |-> 0, found |-> <<>>, ok |-> TRUE, end |-> FALSE]
           Walks(f) == f = [k \in 0 .. n |-> IF k = 0 THEN begin ELSE LogicalTable(disk, first, f[k - 1])]
<1>2. begin \in Chained
  BY DEF Chained
<1> DEFINE H == [k \in 1 .. n |-> [v \in Chained |-> LogicalTable(disk, first, v)]]
<1>3. \A k \in 1 .. n : \A v \in Chained : H[k][v] = LogicalTable(disk, first, v) /\ H[k][v] \in Chained
  BY LogicalTableIs
<1> HIDE DEF H
<1>4. PICK f \in [0 .. n -> Chained] : f[0] = begin /\ \A k \in 1 .. n : f[k] = H[k][f[k - 1]]
  <2>1. PICK b \in Chained : b = begin
    BY <1>2
  <2>2. Stays(n, Chained, H)
    BY <1>3 DEF Stays
  <2>3. \E f : Stepwise(n, Chained, b, H, f)
    BY <2>2, StepwiseExists
  <2> QED
    BY <2>1, <2>3 DEF Stepwise
<1>5. Walks(f)
  <2> DEFINE G == [k \in 0 .. n |-> IF k = 0 THEN begin ELSE LogicalTable(disk, first, f[k - 1])]
  <2>1. ASSUME NEW k \in 0 .. n
        PROVE  f[k] = G[k]
    <3>1. CASE k = 0
      BY <1>4, <3>1
    <3>2. CASE k # 0
      <4>1. k \in 1 .. n /\ f[k - 1] \in Chained
        BY <3>2
      <4>2. f[k] = H[k][f[k - 1]] /\ H[k][f[k - 1]] = LogicalTable(disk, first, f[k - 1])
        BY <1>3, <1>4, <4>1
      <4> QED
        BY <3>2, <4>2
    <3> QED
      BY <3>1, <3>2
  <2>2. DOMAIN f = 0 .. n /\ DOMAIN G = 0 .. n
    OBVIOUS
  <2> HIDE DEF G
  <2>3. f = [k \in 0 .. n |-> f[k]] /\ G = [k \in 0 .. n |-> G[k]]
    BY <2>2 DEF G
  <2>4. f = G
    BY <2>1, <2>3
  <2> QED
    BY <2>4 DEF G
<1> DEFINE walk == CHOOSE walk : walk = [k \in 0 .. MaxTables |->
                     IF k = 0 THEN [rel |-> 0, found |-> <<>>, ok |-> TRUE, end |-> FALSE]
                     ELSE LogicalTable(disk, first, walk[k - 1])]
<1>6. Walks(walk)
  BY <1>1, <1>5
<1>7. Logicals(disk, first) = walk[n]
  BY <1>1 DEF Logicals
<1> HIDE DEF walk
<1> DEFINE P == {k \in Nat : k <= n => walk[k] \in Chained}
<1>8. Nat \subseteq P
  <2>1. 0 \in P
    <3>1. walk[0] = begin
      BY <1>6
    <3> QED
      BY <1>2, <3>1
  <2>2. ASSUME NEW k \in Nat, k \in P
        PROVE  k + 1 \in P
    <3> SUFFICES ASSUME k + 1 <= n PROVE walk[k + 1] \in Chained
      OBVIOUS
    <3>1. walk[k] \in Chained
      BY <2>2
    <3>2. walk[k + 1] = LogicalTable(disk, first, walk[k])
      <4>1. k + 1 \in 0 .. n /\ k + 1 # 0 /\ (k + 1) - 1 = k
        OBVIOUS
      <4>2. \A j \in 0 .. n : walk[j] = IF j = 0 THEN begin ELSE LogicalTable(disk, first, walk[j - 1])
        BY <1>6
      <4> HIDE DEF Walks, begin
      <4> QED
        BY <4>1, <4>2
    <3> QED
      BY <3>1, <3>2, LogicalTableIs
  <2> HIDE DEF P
  <2> QED
    BY <2>1, <2>2, NumberInduction
<1>9. walk[n] \in Chained
  <2>1. n \in P
    BY ONLY <1>8, n \in Nat
  <2> QED
    BY <2>1
<1> QED
  BY <1>7, <1>9 DEF Chained

\* A walk finds a sequence of partitions.
LEMMA WalkIs ==
  ASSUME NEW disk, Tables(disk)
  PROVE  Walk(disk).found \in Seq(Found) /\ Walk(disk).ok \in BOOLEAN
<1>1. CASE ~ Readable(disk, 0)
  BY <1>1 DEF Walk
<1>2. CASE Readable(disk, 0)
  <2>1. PICK table \in Seq(Entry) : table = disk.tables[0]
    BY <1>2 DEF Readable, Tables
  <2>2. CASE Full(disk) \/ ~ HasLink(table)
    BY <1>2, <2>1, <2>2, PrimariesAre DEF Walk
  <2>3. CASE ~ (Full(disk) \/ ~ HasLink(table))
    <3>1. PICK first \in Nat : first = Link(table)
      BY <2>3, LinkIs
    <3>2. Walk(disk) = [found |-> Primaries(disk) \o Logicals(disk, first).found, ok |-> Logicals(disk, first).ok]
      BY <1>2, <2>1, <2>3, <3>1 DEF Walk
    <3>3. Logicals(disk, first).found \in Seq(Found) /\ Logicals(disk, first).ok \in BOOLEAN
      BY LogicalsAre
    <3>4. Primaries(disk) \o Logicals(disk, first).found \in Seq(Found)
      BY <3>3, PrimariesAre, ConcatProperties
    <3> QED
      BY <3>2, <3>3, <3>4
  <2> QED
    BY <2>2, <2>3
<1> QED
  BY <1>1, <1>2

-----------------------------------------------------------------------------
(* The numbers of partitions.                                              *)

\* Partitions that are counted.
IsOurs(e) == e.type \in {"skyfs", "bfs"}
OursUpTo(found, i) == {j \in 1 .. i : found[j].type \in {"skyfs", "bfs"}}

\* Sets of places are finite, and as large as what they contain allows.
LEMMA PlacesAreFinite ==
  ASSUME NEW n \in Nat, NEW S, S \subseteq 1 .. n
  PROVE  /\ IsFiniteSet(S) /\ Cardinality(S) \in Nat /\ Cardinality(S) <= n
         /\ \A T \in SUBSET S : /\ Cardinality(T) \in Nat /\ Cardinality(T) <= Cardinality(S)
                                /\ T # S => Cardinality(T) < Cardinality(S)
<1>1. IsFiniteSet(1 .. n) /\ Cardinality(1 .. n) = n
  BY FS_Interval
<1>2. IsFiniteSet(S) /\ Cardinality(S) <= n
  BY <1>1, FS_Subset
<1>3. Cardinality(S) \in Nat
  BY <1>2, FS_CardinalityType
<1>4. ASSUME NEW T \in SUBSET S
      PROVE  /\ Cardinality(T) \in Nat /\ Cardinality(T) <= Cardinality(S)
             /\ T # S => Cardinality(T) < Cardinality(S)
  <2>1. IsFiniteSet(T) /\ Cardinality(T) <= Cardinality(S) /\ (Cardinality(S) = Cardinality(T) => S = T)
    BY <1>2, FS_Subset
  <2>2. Cardinality(T) \in Nat
    BY <2>1, FS_CardinalityType
  <2> QED
    BY <1>3, <2>1, <2>2
<1> QED
  BY <1>2, <1>3, <1>4

\* A chain of tables never shows infinitely many partitions.
LEMMA ListedAreFinite ==
  ASSUME NEW disk, Tables(disk)
  PROVE  IsFiniteSet(Listed(disk))
<1>1. PICK found \in Seq(Found) : found = Walk(disk).found
  BY WalkIs
<1>2. PICK n \in Nat : n = Len(found)
  OBVIOUS
<1>3. Listed(disk) \subseteq 0 .. n - 1
  BY <1>1, <1>2 DEF Listed
<1>4. IsFiniteSet(0 .. n - 1)
  BY FS_Interval
<1> QED
  BY <1>3, <1>4, FS_Subset

\* Count goes up with each of our partitions.
LEMMA CountGrows ==
  ASSUME NEW found \in Seq(Found), NEW i \in 0 .. Len(found)
  PROVE  /\ Count(found, i) \in Int /\ Count(found, i) >= -1 /\ Count(found, i) < i
         /\ Count(found, i) < Cardinality(OursUpTo(found, Len(found)))
         /\ i # 0 /\ IsOurs(found[i]) =>
              Count(found, i) >= 0 /\ \A k \in 0 .. i - 1 : Count(found, k) < Count(found, i)
<1>1. PICK n \in Nat : n = Len(found)
  OBVIOUS
<1>2. \A k \in 0 .. n : /\ Count(found, k) = Cardinality(OursUpTo(found, k)) - 1
                        /\ OursUpTo(found, k) \subseteq 1 .. k /\ OursUpTo(found, k) \subseteq OursUpTo(found, n)
  BY DEF Count, OursUpTo
<1>3. PICK S : S = OursUpTo(found, i)
  OBVIOUS
<1>4. /\ S \subseteq 1 .. i /\ i \in Nat /\ Count(found, i) = Cardinality(S) - 1
      /\ Cardinality(S) \in Nat /\ Cardinality(S) <= i
      /\ \A T \in SUBSET S : Cardinality(T) \in Nat /\ (T # S => Cardinality(T) < Cardinality(S))
  BY <1>1, <1>2, <1>3, PlacesAreFinite
<1>5. Cardinality(S) <= Cardinality(OursUpTo(found, n))  /\ Cardinality(OursUpTo(found, n)) \in Nat
  <2>1. PICK U : U = OursUpTo(found, n) /\ U \subseteq 1 .. n /\ S \in SUBSET U
    BY <1>1, <1>2, <1>3
  <2> QED
    BY <2>1, PlacesAreFinite
<1>6. ASSUME i # 0, IsOurs(found[i])
      PROVE  Count(found, i) >= 0 /\ \A k \in 0 .. i - 1 : Count(found, k) < Count(found, i)
  <2>1. i \in S
    BY <1>3, <1>6 DEF OursUpTo, IsOurs
  <2>2. ASSUME NEW k \in 0 .. i - 1
        PROVE  Count(found, k) < Count(found, i)
    <3>1. PICK T : T = OursUpTo(found, k)
      OBVIOUS
    <3>2. T \in SUBSET S /\ i \notin T
      BY <1>3, <3>1 DEF OursUpTo
    <3>3. Cardinality(T) \in Nat /\ Cardinality(T) < Cardinality(S)
      BY <1>4, <2>1, <3>2
    <3>4. Count(found, k) = Cardinality(T) - 1
      BY <1>1, <1>2, <3>1
    <3> QED
      BY <1>4, <3>3, <3>4
  <2>3. Count(found, 0) < Count(found, i) /\ Count(found, 0) = -1
    <3>1. OursUpTo(found, 0) = {}
      BY DEF OursUpTo
    <3>2. Count(found, 0) = -1
      BY <1>1, <1>2, <3>1, FS_EmptySet
    <3> QED
      BY <1>4, <1>6, <2>2, <3>2
  <2> QED
    BY <1>4, <2>2, <2>3
<1> QED
  BY <1>1, <1>4, <1>5, <1>6

\* No two of our partitions have the same number.
LEMMA CountIsUnique ==
  ASSUME NEW found \in Seq(Found), NEW i \in 1 .. Len(found), NEW j \in 1 .. Len(found),
         IsOurs(found[i]), IsOurs(found[j]), Count(found, i) = Count(found, j)
  PROVE  i = j
<1>1. i \in 0 .. Len(found) /\ j \in 0 .. Len(found) /\ i # 0 /\ j # 0
  OBVIOUS
<1>2. i < j => Count(found, i) < Count(found, j)
  BY <1>1, CountGrows
<1>3. j < i => Count(found, j) < Count(found, i)
  BY <1>1, CountGrows
<1>4. Count(found, i) \in Int /\ Count(found, j) \in Int
  BY <1>1, CountGrows
<1> QED
  BY <1>2, <1>3, <1>4

\* Behind partitions that are all ours, the numbers are those of the places.
LEMMA CountBehindOurs ==
  ASSUME NEW found \in Seq(Found), NEW i \in 1 .. Len(found), IsOurs(found[i]),
         NEW S, S \subseteq 1 .. i - 1, \A j \in 1 .. i - 1 : j \in S <=> ~ IsOurs(found[j])
  PROVE  Count(found, i) = i - 1 - Cardinality(S) /\ Cardinality(S) \in Nat
<1>1. PICK U : U = OursUpTo(found, i)
  OBVIOUS
<1>2. U \subseteq 1 .. i /\ S \subseteq 1 .. i /\ \A j \in 1 .. i : j \in U <=> IsOurs(found[j])
  BY <1>1 DEF OursUpTo, IsOurs
<1>3. /\ IsFiniteSet(U) /\ Cardinality(U) \in Nat
      /\ IsFiniteSet(S) /\ Cardinality(S) \in Nat
  <2>1. i \in Nat
    OBVIOUS
  <2> QED
    BY <1>2, <2>1, PlacesAreFinite
<1>4. U \cup S = 1 .. i /\ U \cap S = {}
  <2>1. ASSUME NEW j \in 1 .. i PROVE j \in S <=> j \notin U
    <3>1. j = i \/ j \in 1 .. i - 1
      OBVIOUS
    <3>2. i \notin S
      OBVIOUS
    <3> QED
      BY <1>2, <3>1, <3>2
  <2> QED
    BY <1>2, <2>1
<1>5. Cardinality(U \cup S) = Cardinality(U) + Cardinality(S) - Cardinality({})
  BY <1>3, <1>4, FS_Union
<1>6. PICK m \in Nat : m = i /\ m > 0
  OBVIOUS
<1>7. Cardinality(1 .. m) = m
  <2>1. 1 \in Int /\ m \in Int
    OBVIOUS
  <2>2. Cardinality(1 .. m) = IF 1 > m THEN 0 ELSE m - 1 + 1
    BY <2>1, FS_Interval
  <2> QED
    BY ONLY <1>6, <2>2
<1>8. Cardinality(U \cup S) = m /\ Cardinality({}) = 0
  BY <1>4, <1>6, <1>7, FS_EmptySet
<1>9. Count(found, i) = Cardinality(U) - 1
  BY <1>1 DEF Count, OursUpTo
<1>10. PICK u \in Nat, s \in Nat : u = Cardinality(U) /\ s = Cardinality(S)
  BY <1>3
<1>11. m = u + s - 0
  BY ONLY <1>5, <1>8, <1>10
<1>12. u - 1 = m - 1 - s
  BY ONLY <1>6, <1>10, <1>11
<1>13. Count(found, i) = m - 1 - s
  BY ONLY <1>9, <1>10, <1>12
<1> QED
  BY ONLY <1>6, <1>10, <1>13

\* Where the numbers agree, the entry that is saved is the partition's.
LEMMA SavedAgrees ==
  ASSUME NEW found \in Seq(Found), NEW nr \in Nat, nr + 1 \in 1 .. Len(found),
         IsOurs(found[nr + 1]), NumbersAgree(found, nr + 1)
  PROVE  Saved(found, nr) = {nr + 1}
<1>1. PICK n \in Nat, i \in Nat : n = Len(found) /\ i = nr + 1 /\ i \in 1 .. n /\ i - 1 = nr
  OBVIOUS
<1>2. \A k, l \in 1 .. n : IsOurs(found[k]) /\ IsOurs(found[l]) /\ Count(found, k) = Count(found, l) => k = l
  BY <1>1, CountIsUnique
<1>3. \A k : found[k].type = "bfs" \/ found[k].type = "skyfs" <=> IsOurs(found[k])
  BY DEF IsOurs
<1>4. CASE found[i].type = "bfs" /\ found[i].primary
  <2>1. PICK S : S = {j \in 1 .. i - 1 : found[j].type \notin {"skyfs", "bfs"}}
    OBVIOUS
  <2>2. Cardinality(S) = 1
    BY <1>1, <1>4, <2>1 DEF NumbersAgree
  <2>3. S \subseteq 1 .. i - 1 /\ \A j \in 1 .. i - 1 : j \in S <=> ~ IsOurs(found[j])
    BY <2>1 DEF IsOurs
  <2>4. Count(found, i) = i - 1 - Cardinality(S)
    BY <1>1, <2>3, CountBehindOurs
  <2>5. Count(found, i) = nr - 1
    BY <1>1, <2>2, <2>4
  <2>6. Stops(found, nr) = {i}
    BY <1>1, <1>2, <1>3, <1>4, <2>5 DEF Stops
  <2> QED
    BY <1>1, <2>6 DEF Saved
<1>5. CASE ~ (found[i].type = "bfs" /\ found[i].primary)
  <2>1. \A j \in 1 .. i - 1 : found[j].type = "skyfs"
    BY <1>1, <1>5 DEF NumbersAgree
  <2>2. \A j \in 1 .. i : Count(found, j) = j - 1
    <3> SUFFICES ASSUME NEW j \in 1 .. i PROVE Count(found, j) = j - 1
      OBVIOUS
    <3>1. j \in 1 .. Len(found) /\ IsOurs(found[j])
      BY <1>1, <2>1 DEF IsOurs
    <3>2. PICK S : S = {}
      OBVIOUS
    <3>3. S \subseteq 1 .. j - 1 /\ \A k \in 1 .. j - 1 : k \in S <=> ~ IsOurs(found[k])
      BY <1>1, <2>1, <3>2 DEF IsOurs
    <3>4. Count(found, j) = j - 1 - Cardinality(S)
      BY <3>1, <3>3, CountBehindOurs
    <3> QED
      BY <3>2, <3>4, FS_EmptySet
  <2>3. Stops(found, nr) = {}
    <3> SUFFICES ASSUME NEW k \in Stops(found, nr) PROVE FALSE
      OBVIOUS
    <3>1. k \in 1 .. n /\ found[k].type = "bfs" /\ Count(found, k) = nr - 1 /\ IsOurs(found[k])
      BY <1>1 DEF Stops, IsOurs
    <3>2. nr # 0
      BY <1>1, <3>1, CountGrows
    <3>3. nr \in 1 .. i - 1 /\ found[nr].type = "skyfs" /\ IsOurs(found[nr]) /\
        Count(found, nr) = nr - 1 /\ nr \in 1 .. n
      BY <1>1, <2>1, <2>2, <3>2 DEF IsOurs
    <3>4. k = nr
      BY <1>2, <3>1, <3>3
    <3> QED
      BY <3>1, <3>3, <3>4
  <2>4. Count(found, i) = nr
    BY <1>1, <2>2
  <2>5. Saved(found, nr) = {k \in 1 .. n : \/ found[k].type = "skyfs" /\ Count(found, k) = nr
                                           \/ found[k].type = "bfs" /\ ~ found[k].primary /\ Count(found, k) = nr}
    BY <1>1, <2>3 DEF Saved
  <2>6. ASSUME NEW k \in Saved(found, nr) PROVE k = i
    BY <1>1, <1>2, <1>3, <2>4, <2>5, <2>6
  <2>7. i \in Saved(found, nr)
    BY <1>1, <1>3, <1>5, <2>4, <2>5
  <2> QED
    BY <1>1, <2>6, <2>7
<1> QED
  BY <1>4, <1>5

\* Whatever is saved is an entry that was found.
LEMMA SavedAreFound ==
  ASSUME NEW found \in Seq(Found), NEW nr \in Nat
  PROVE  /\ Saved(found, nr) \subseteq 1 .. Len(found)
         /\ SavedOnDevice(found, nr) \subseteq 1 .. Len(found)
<1>1. PICK n \in Nat : n = Len(found)
  OBVIOUS
<1>2. Saved(found, nr) \subseteq 1 .. n
  BY <1>1 DEF Saved, Stops
<1> DEFINE saved == {i \in 1 .. Len(found) :
                       Count(found, i) = IF found[i].type = "skyfs" /\ ~ found[i].primary THEN nr ELSE nr - 1}
           ours == {i \in saved : found[i].type \in {"skyfs", "bfs"}}
<1>3. SavedOnDevice(found, nr) = IF ours = {} THEN {} ELSE {Max(ours)}
  BY DEF SavedOnDevice
<1>4. ours \subseteq 1 .. n /\ ours \subseteq Nat /\ \A i \in ours : i <= n
  BY <1>1
<1> HIDE DEF ours
<1>5. ours # {} => Max(ours) \in 1 .. n
  BY <1>4, MaxIsGreatest
<1> QED
  BY <1>1, <1>2, <1>3, <1>5

\* Without primary BFS partitions the numbers below the count are those of our
\* partitions.
LEMMA CountedAreSaved ==
  ASSUME NEW found \in Seq(Found), NEW ours, ours = {i \in DOMAIN found : found[i].type \in {"skyfs", "bfs"}},
         \A i \in ours : found[i].primary => found[i].type = "skyfs",
         NEW count, count = Cardinality(ours)
  PROVE  UNION {Saved(found, nr) : nr \in 0 .. count - 1} = ours
<1>1. PICK n \in Nat : n = Len(found) /\ DOMAIN found = 1 .. n
  OBVIOUS
<1>2. \A nr : Stops(found, nr) = {}
  BY <1>1 DEF Stops
<1>3. \A nr : Saved(found, nr) = {i \in ours : Count(found, i) = nr}
  <2> SUFFICES ASSUME NEW nr PROVE Saved(found, nr) = {i \in ours : Count(found, i) = nr}
    OBVIOUS
  <2>1. Saved(found, nr) = {i \in 1 .. n : \/ found[i].type = "skyfs" /\ Count(found, i) = nr
                                           \/ found[i].type = "bfs" /\ ~ found[i].primary /\ Count(found, i) = nr}
    BY <1>1, <1>2 DEF Saved
  <2> QED
    BY <1>1, <2>1
<1>4. ASSUME NEW i \in ours
      PROVE  Count(found, i) \in 0 .. count - 1
  <2>1. ours = OursUpTo(found, n)
    BY <1>1 DEF OursUpTo
  <2>2. i \in 0 .. Len(found) /\ i # 0 /\ IsOurs(found[i])
    BY <1>1 DEF IsOurs
  <2>3. Count(found, i) \in Int /\ Count(found, i) >= 0 /\ Count(found, i) < count
    BY <1>1, <2>1, <2>2, CountGrows
  <2>4. count \in Nat
    <3>1. ours \subseteq 1 .. n
      BY <1>1
    <3> QED
      BY <3>1, PlacesAreFinite
  <2> QED
    BY <2>3, <2>4
<1> QED
  BY <1>3, <1>4

\* The count is that of SkyFS and BFS partitions together.
LEMMA CountsTogether ==
  ASSUME NEW disk, Tables(disk), ~ Full(disk)
  PROVE  CountSkyfsPartitions(disk, TRUE) + CountSkyfsPartitions(disk, FALSE)
           = Cardinality({i \in DOMAIN Walk(disk).found : Walk(disk).found[i].type \in {"skyfs", "bfs"}})
<1>1. PICK found \in Seq(Found) : found = Walk(disk).found
  BY WalkIs
<1>2. PICK n \in Nat : n = Len(found) /\ DOMAIN found = 1 .. n
  OBVIOUS
<1>3. PICK S : S = {i \in 1 .. n : found[i].type = "skyfs"}
  OBVIOUS
<1>4. PICK T : T = {i \in 1 .. n : found[i].type = "bfs"}
  OBVIOUS
<1>5. CountSkyfsPartitions(disk, TRUE) = Cardinality(S) /\ CountSkyfsPartitions(disk, FALSE) = Cardinality(T)
  BY <1>1, <1>2, <1>3, <1>4 DEF CountSkyfsPartitions
<1>6. S \subseteq 1 .. n /\ T \subseteq 1 .. n /\ S \cap T = {}
  BY <1>3, <1>4
<1>7. IsFiniteSet(S) /\ Cardinality(S) \in Nat /\ IsFiniteSet(T) /\ Cardinality(T) \in Nat
  BY <1>6, PlacesAreFinite
<1>8. Cardinality(S \cup T) = Cardinality(S) + Cardinality(T) - Cardinality(S \cap T)
  BY <1>7, FS_Union
<1>9. S \cup T = {i \in DOMAIN found : found[i].type \in {"skyfs", "bfs"}}
  BY <1>2, <1>3, <1>4
<1>10. PICK k \in Nat, l \in Nat : k = Cardinality(S) /\ l = Cardinality(T)
  BY <1>7
<1>11. Cardinality(S \cup T) = k + l
  <2>1. Cardinality(S \cap T) = 0
    BY <1>6, FS_EmptySet
  <2> QED
    BY <1>8, <1>10, <2>1
<1> QED
  BY <1>1, <1>5, <1>9, <1>10, <1>11

-----------------------------------------------------------------------------
(* Super blocks that are written.                                          *)

\* What FormattedMounts says of one super block.
Mountable(sb) ==
  LET bitmap == 1 + sb.numAgs * sb.blocksPerAg
  IN  /\ IsValid(sb)
      /\ sb.numAgs * 2 ^ sb.agShift >= sb.numBlocks
      /\ sb.blocksPerAg * sb.blockSize * 8 = 2 ^ sb.agShift
      /\ bitmap + LogLength <= 2 ^ sb.agShift => IsValidRun(sb, sb.log)
      /\ ToBlock(sb.log, sb.agShift) >= bitmap
      /\ sb.numBlocks >= bitmap + LogLength => ToBlock(sb.log, sb.agShift) + LogLength <= sb.numBlocks

\* How many blocks a group may have.
Sizes == {8192, 16384, 32768, 65536}

\* The part of the bitmap that a group has is as large as the group.
LEMMA GroupsAre ==
  ASSUME NEW n, NEW blockSize, blockSize \in {1024, 2048, 4096, 8192}
  PROVE  \E a \in Sizes, per \in Nat :
           /\ a = 2 ^ Groups(n, blockSize).agShift /\ per = Groups(n, blockSize).blocksPerAg
           /\ per * blockSize * 8 = a
<1> DEFINE pow(s) == 2 ^ s
           F == {s \in 13 .. 16 : pow(s) >= blockSize * 8}
           first == Min(F)
           groups(s) == DivideRoundup(DivideRoundup(n, blockSize * 8), pow(s - first))
           G == {s \in first .. 16 : groups(s) <= kDesiredAllocationGroups \/ s = 16}
           shift == Min(G)
<1>1. /\ pow(0) = 1 /\ pow(1) = 2 /\ pow(2) = 4 /\ pow(3) = 8
      /\ pow(13) = 8192 /\ pow(14) = 16384 /\ pow(15) = 32768 /\ pow(16) = 65536
  OBVIOUS
<1>2. Groups(n, blockSize) = [numAgs |-> groups(shift), blocksPerAg |-> pow(shift - first), agShift |-> shift]
  BY DEF Groups
<1> HIDE DEF pow
<1>3. first \in 13 .. 16 /\ pow(first) = blockSize * 8
  <2>1. F \subseteq Nat /\ 16 \in F
    BY <1>1
  <2>2. \A s : s \in F <=> s \in 13 .. 16 /\ pow(s) >= blockSize * 8
    OBVIOUS
  <2> HIDE DEF F
  <2>3. first \in F /\ \A s \in F : first <= s
    <3>1. PICK S : S = F
      OBVIOUS
    <3>2. S \subseteq Nat /\ S # {}
      BY <2>1, <3>1
    <3>3. Min(S) \in S /\ \A s \in S : Min(S) <= s
      BY ONLY <3>2, MinIsLeast
    <3> QED
      BY <3>1, <3>3
  <2>4. PICK f \in 13 .. 16 : f = first /\ f \in F /\ \A s \in F : f <= s
    BY <2>2, <2>3
  <2>5. CASE blockSize = 1024
    <3>1. 13 \in F
      BY <1>1, <2>2, <2>5
    <3>2. f = 13
      BY <2>4, <3>1
    <3> QED
      BY <1>1, <2>4, <2>5, <3>2
  <2>6. CASE blockSize = 2048
    <3>1. 14 \in F /\ 13 \notin F
      BY <1>1, <2>2, <2>6
    <3>2. f = 14
      BY <2>4, <3>1
    <3> QED
      BY <1>1, <2>4, <2>6, <3>2
  <2>7. CASE blockSize = 4096
    <3>1. 15 \in F /\ 13 \notin F /\ 14 \notin F
      BY <1>1, <2>2, <2>7
    <3>2. f = 15
      BY <2>4, <3>1
    <3> QED
      BY <1>1, <2>4, <2>7, <3>2
  <2>8. CASE blockSize = 8192
    <3>1. 16 \in F /\ 13 \notin F /\ 14 \notin F /\ 15 \notin F
      BY <1>1, <2>2, <2>8
    <3>2. f = 16
      BY <2>4, <3>1
    <3> QED
      BY <1>1, <2>4, <2>8, <3>2
  <2> QED
    BY <2>5, <2>6, <2>7, <2>8
<1> HIDE DEF first
<1>4. shift \in first .. 16
  <2>1. G \subseteq first .. 16 /\ 16 \in G
    BY <1>3
  <2> HIDE DEF G
  <2>2. G \subseteq Nat /\ G # {}
    BY <1>3, <2>1
  <2>3. PICK S : S = G
    OBVIOUS
  <2>4. S \subseteq Nat /\ S # {}
    BY <2>2, <2>3
  <2>5. Min(S) \in S
    BY ONLY <2>4, MinIsLeast
  <2>6. shift = Min(S)
    BY <2>3
  <2> HIDE DEF shift
  <2> QED
    BY ONLY <2>1, <2>3, <2>5, <2>6
<1> HIDE DEF shift, groups
<1>5. PICK f \in 13 .. 16, s \in 13 .. 16 : f = first /\ s = shift /\ f <= s
  BY <1>3, <1>4
<1>6. PICK g \in 0 .. 3 : g = s - f
  BY <1>5
<1>7. pow(g) \in Nat \ {0} /\ pow(g) * pow(f) = pow(s)
  BY <1>1, <1>5, <1>6
<1>8. pow(g) * blockSize * 8 = pow(s)
  BY <1>3, <1>5, <1>7
<1>9. Groups(n, blockSize).agShift = s /\ Groups(n, blockSize).blocksPerAg = pow(g)
  BY <1>2, <1>5, <1>6
<1>10. pow(s) = 2 ^ Groups(n, blockSize).agShift
  BY <1>9 DEF pow
<1>11. pow(s) \in Sizes /\ pow(g) \in Nat
  BY <1>1, <1>7 DEF Sizes
<1> QED
  BY <1>8, <1>9, <1>10, <1>11

\* Blocks and runs, for groups of any size a file system may have.
LEMMA BlockOfRun ==
  ASSUME NEW a \in Sizes, NEW block \in Nat
  PROVE  /\ block \div a \in Nat /\ block % a \in Nat
         /\ (block \div a) * a + (block % a) = block
         /\ block < a => block \div a = 0 /\ block % a = block
         /\ DivideRoundup(block, a) * a >= block
         /\ DivideRoundup(block, a) \in Nat
<1>1. CASE a = 8192
  BY <1>1 DEF DivideRoundup
<1>2. CASE a = 16384
  BY <1>2 DEF DivideRoundup
<1>3. CASE a = 32768
  BY <1>3 DEF DivideRoundup
<1>4. CASE a = 65536
  BY <1>4 DEF DivideRoundup
<1> QED
  BY <1>1, <1>2, <1>3, <1>4 DEF Sizes

\* What Initialize writes, if it is valid, is right besides.
LEMMA WrittenMounts ==
  ASSUME NEW sectors \in Nat, NEW blockSize \in {1024, 2048, 4096, 8192},
         IsValid(NewSuperBlock(sectors, blockSize))
  PROVE  Mountable(NewSuperBlock(sectors, blockSize))
<1>1. PICK sb : sb = NewSuperBlock(sectors, blockSize)
  OBVIOUS
<1>2. PICK numBlocks \in Nat : numBlocks = sectors \div (blockSize \div SectorSize)
  BY DEF SectorSize
<1>3. PICK groups : groups = Groups(numBlocks, blockSize)
  OBVIOUS
<1>4. PICK a \in Sizes, per \in Nat : a = 2 ^ groups.agShift /\ per = groups.blocksPerAg /\ per * blockSize * 8 = a
  BY <1>3, GroupsAre
<1>5. /\ sb.blockSize = blockSize /\ sb.numBlocks = numBlocks /\ sb.agShift = groups.agShift /\ sb.blocksPerAg = per
      /\ sb.numAgs = groups.numAgs
      /\ sb.log = [ToBlockRun(groups.numAgs * per + 1, groups.agShift) EXCEPT !.length = LogLength]
  BY <1>1, <1>2, <1>3, <1>4 DEF NewSuperBlock
<1>6. 2 ^ sb.agShift = a
  BY <1>4, <1>5
<1>7. sb.numAgs = DivideRoundup(numBlocks, a)
  <2>1. sb.numAgs = DivideRoundup(sb.numBlocks, 2 ^ sb.agShift)
    BY <1>1 DEF IsValid
  <2> QED
    BY <1>5, <1>6, <2>1
<1>8. DivideRoundup(numBlocks, a) \in Nat /\ DivideRoundup(numBlocks, a) * a >= numBlocks
  BY BlockOfRun
<1>9. PICK numAgs \in Nat : numAgs = sb.numAgs /\ numAgs * a >= numBlocks
  BY <1>7, <1>8
<1>10. PICK bitmap \in Nat : bitmap = numAgs * per + 1 /\ bitmap = 1 + numAgs * per
  OBVIOUS
<1>11. PICK group \in Nat, start \in Nat :
         /\ group = bitmap \div a /\ start = bitmap % a /\ group * a + start = bitmap
         /\ bitmap < a => group = 0 /\ start = bitmap
  BY BlockOfRun
<1>12. sb.log = [group |-> group, start |-> start, length |-> LogLength]
  <2>1. ToBlockRun(bitmap, groups.agShift) = [group |-> group, start |-> start, length |-> 1]
    BY <1>4, <1>11 DEF ToBlockRun
  <2>2. sb.log = [ToBlockRun(bitmap, groups.agShift) EXCEPT !.length = LogLength]
    BY <1>5, <1>9, <1>10
  <2> QED
    BY <2>1, <2>2
<1>13. bitmap + LogLength <= 2 ^ sb.agShift => IsValidRun(sb, sb.log)
  <2>1. a \in Nat
    BY DEF Sizes
  <2>2. bitmap + LogLength <= a => bitmap < a /\ LogLength + bitmap <= a /\ bitmap <= a /\ LogLength # 0
    BY <2>1 DEF LogLength
  <2>3. bitmap + LogLength <= a => group \in 0 .. numAgs /\ start = bitmap
    BY <1>11, <2>2
  <2>4. sb.log.group = group /\ sb.log.start = start /\ sb.log.length = LogLength
    BY <1>12
  <2> QED
    BY <1>6, <1>9, <2>2, <2>3, <2>4 DEF IsValidRun
<1>14. ToBlock(sb.log, sb.agShift) = bitmap
  <2>1. ToBlock(sb.log, sb.agShift) = group * a + start
    BY <1>6, <1>12 DEF ToBlock
  <2> QED
    BY <1>11, <2>1
<1>15. sb.blocksPerAg * sb.blockSize * 8 = 2 ^ sb.agShift
  BY <1>4, <1>5, <1>6
<1>16. sb.numAgs * 2 ^ sb.agShift >= sb.numBlocks
  BY <1>5, <1>6, <1>9
<1>17. ToBlock(sb.log, sb.agShift) >= bitmap
  BY <1>14
<1>18. sb.numBlocks >= bitmap + LogLength => ToBlock(sb.log, sb.agShift) + LogLength <= sb.numBlocks
  BY <1>5, <1>14 DEF LogLength
<1>19. 1 + sb.numAgs * sb.blocksPerAg = bitmap
  BY <1>5, <1>9, <1>10
<1> QED
  BY <1>1, <1>13, <1>15, <1>16, <1>17, <1>18, <1>19 DEF Mountable

-----------------------------------------------------------------------------
(* The invariant.                                                          *)

\* Where a volume may lie, if the openers in F gave up.
Place(v) == IF v.by = "number" THEN <<v.disk, v.nr + 1>> ELSE <<1, 3>>
Places(v, F) == {Place(v)} \cup (IF <<v.disk, v.nr, v.by>> \in F THEN {<<v.disk, 0>>} ELSE {})

\* The openers that give up.
GaveUp(d, nr, by) == IF by = "number" THEN GivesUp(d, nr) ELSE GivesUpOnDevice(d)
Given == {x \in (DOMAIN disks) \X Number \X {"number", "name"} : GaveUp(x[1], x[2], x[3])}

\* The volumes V have all the fields and each its own handle of H.
VolumeFields(v) == v = [disk |-> v.disk, nr |-> v.nr, by |-> v.by, handle |-> v.handle, sb |-> v.sb, readOnly |-> v.readOnly]

Owned(V, H, F) ==
  /\ \E S : V \in Seq(S)
  /\ DOMAIN H = 1 .. MaxHandles /\ H = [h \in 1 .. MaxHandles |-> H[h]]
  /\ \A i \in 1 .. Len(V) :
       /\ VolumeFields(V[i])
       /\ V[i].handle \in 1 .. MaxHandles
       /\ H[V[i].handle] # Closed
       /\ H[V[i].handle] \in Places(V[i], F)
  /\ \A i, j \in 1 .. Len(V) : V[i].handle = V[j].handle => i = j
  /\ \A h \in 1 .. MaxHandles : H[h] # Closed => \E i \in 1 .. Len(V) : V[i].handle = h

\* The invariant for the handles.
VInv == Owned(volumes, handles, Given)

-----------------------------------------------------------------------------
(* Handles.                                                                *)

\* What Open returns: no handle, or one that was closed, which is now open on the
\* device, or on the whole disk if the opener gave up, or still closed.
OpenedRight(o, H, d, device, gaveUp) ==
  \/ o.h = 0 /\ o.handles = H
  \/ /\ o.h \in 1 .. MaxHandles
     /\ H[o.h] = Closed
     /\ \E x \in {Closed, <<d, 0>>, device} : (x = <<d, 0>> => gaveUp \/ x \in {Closed, device}) /\ o.handles = [H EXCEPT ![o.h] = x]

LEMMA OpenedIsRight ==
  ASSUME Bounded, DOMAIN handles = 1 .. MaxHandles, handles = [h \in 1 .. MaxHandles |-> handles[h]],
         NEW d, NEW device, NEW gaveUp \in BOOLEAN, NEW info, NEW fails
  PROVE  OpenedRight(Opened(d, device, gaveUp, info, fails), handles, d, device, gaveUp)
<1>1. Fresh \in 1 .. MaxHandles /\ handles[Fresh] = Closed
  <2>1. {h \in 1 .. MaxHandles : handles[h] = Closed} # {} /\ {h \in 1 .. MaxHandles : handles[h] = Closed} \subseteq Nat
    BY DEF Bounded
  <2>2. Fresh \in {h \in 1 .. MaxHandles : handles[h] = Closed}
    BY <2>1, MinIsLeast DEF Fresh
  <2> QED
    BY <2>2
<1>2. PICK o : o = Opened(d, device, gaveUp, info, fails)
  OBVIOUS
<1>3. CASE fails = "disk"
  BY <1>2, <1>3 DEF Opened, OpenedRight
<1>4. CASE fails # "disk"
  <2>1. PICK H : H = IF gaveUp THEN [handles EXCEPT ![Fresh] = <<d, 0>>]
                     ELSE IF fails # "partition" /\ device[2] <= Len(walks[device[1]].found)
                       THEN [handles EXCEPT ![Fresh] = device]
                       ELSE handles
    OBVIOUS
  <2>2. o = [h |-> Fresh, info |-> info, handles |-> H]
    BY <1>2, <1>4, <2>1 DEF Opened
  <2>3. handles = [handles EXCEPT ![Fresh] = Closed]
    BY <1>1
  <2>4. \E x \in {Closed, <<d, 0>>, device} : (x = <<d, 0>> => gaveUp \/ x \in {Closed, device}) /\ H = [handles EXCEPT ![Fresh] = x]
    <3>1. CASE gaveUp
      BY <2>1, <3>1
    <3>2. CASE ~ gaveUp /\ H = [handles EXCEPT ![Fresh] = device]
      BY <3>2
    <3>3. CASE ~ gaveUp /\ H = handles
      BY <2>3, <3>3
    <3> QED
      BY <2>1, <3>1, <3>2, <3>3
  <2>5. o.h = Fresh /\ o.handles = H
    BY <2>2
  <2> QED
    BY <1>1, <1>2, <2>4, <2>5 DEF OpenedRight
<1> QED
  BY <1>3, <1>4

\* What was opened and is not kept leaves the handles as they were.
LEMMA NotKept ==
  ASSUME NEW H, H = [h \in 1 .. MaxHandles |-> H[h]], NEW d, NEW device, NEW gaveUp, NEW o, OpenedRight(o, H, d, device, gaveUp)
  PROVE  Kept(o, FALSE) = H
<1>1. CASE o.h = 0 /\ o.handles = H
  BY <1>1 DEF Kept
<1>2. ASSUME o.h \in 1 .. MaxHandles, H[o.h] = Closed, NEW x, o.handles = [H EXCEPT ![o.h] = x]
      PROVE  Kept(o, FALSE) = H
  <2>1. o.h # 0
    BY <1>2
  <2>2. [o.handles EXCEPT ![o.h] = Closed] = H
    BY <1>2
  <2> QED
    BY <2>1, <2>2 DEF Kept
<1> QED
  BY <1>1, <1>2 DEF OpenedRight

-----------------------------------------------------------------------------
(* Volumes.                                                                *)

\* A volume is added, with a handle that was closed.
LEMMA AddOwned ==
  ASSUME NEW V, NEW H, NEW F, Owned(V, H, F),
         NEW h \in 1 .. MaxHandles, H[h] = Closed, NEW x, x # Closed, NEW G, G = [H EXCEPT ![h] = x],
         NEW v, VolumeFields(v), v.handle = h, x \in Places(v, F)
  PROVE  Owned(Append(V, v), G, F)
<1>1. PICK S : V \in Seq(S)
  BY DEF Owned
<1>2. PICK T : T = S \cup {v}
  OBVIOUS
<1>3. V \in Seq(T) /\ v \in T
  BY <1>1, <1>2, SeqMonotonic
<1>4. PICK W : W = Append(V, v)
  OBVIOUS
<1>5. PICK n \in Nat : n = Len(V)
  BY <1>1
<1>6. W \in Seq(T) /\ Len(W) = n + 1 /\ W[n + 1] = v /\ \A i \in 1 .. n : W[i] = V[i]
  BY <1>3, <1>4, <1>5, AppendProperties
<1>7. /\ DOMAIN G = 1 .. MaxHandles /\ G = [g \in 1 .. MaxHandles |-> G[g]]
      /\ G[h] = x /\ \A g \in 1 .. MaxHandles : g # h => G[g] = H[g]
  BY DEF Owned
<1>8. \A i \in 1 .. n : V[i].handle \in 1 .. MaxHandles /\ V[i].handle # h
  BY <1>5 DEF Owned
<1>9. ASSUME NEW i \in 1 .. n + 1
      PROVE  /\ VolumeFields(W[i])
             /\ W[i].handle \in 1 .. MaxHandles
             /\ G[W[i].handle] # Closed
             /\ G[W[i].handle] \in Places(W[i], F)
  <2>1. CASE i \in 1 .. n
    BY <1>5, <1>6, <1>7, <1>8, <2>1 DEF Owned
  <2>2. CASE i = n + 1
    BY <1>6, <1>7, <2>2
  <2> QED
    BY <2>1, <2>2
<1>10. \A i, j \in 1 .. n + 1 : W[i].handle = W[j].handle => i = j
  BY <1>5, <1>6, <1>8 DEF Owned
<1>11. ASSUME NEW g \in 1 .. MaxHandles, G[g] # Closed
       PROVE  \E i \in 1 .. n + 1 : W[i].handle = g
  <2>1. CASE g = h
    BY <1>6, <2>1
  <2>2. CASE g # h
    <3>1. PICK i \in 1 .. n : V[i].handle = g
      BY <1>5, <1>7, <1>11, <2>2 DEF Owned
    <3> QED
      BY <1>6, <3>1
  <2> QED
    BY <2>1, <2>2
<1> QED
  BY <1>4, <1>6, <1>7, <1>9, <1>10, <1>11 DEF Owned

\* RemoveAt: what is behind moves forward.
LEMMA RemovedAt ==
  ASSUME NEW V, NEW S, V \in Seq(S), NEW n \in Nat, n = Len(V), NEW k \in 1 .. n
  PROVE  /\ RemoveAt(V, k) \in Seq(S) /\ Len(RemoveAt(V, k)) = n - 1
         /\ \A i \in 1 .. n - 1 : RemoveAt(V, k)[i] = IF i < k THEN V[i] ELSE V[i + 1]
<1>1. PICK W : W = RemoveAt(V, k)
  OBVIOUS
<1>2. /\ W \in Seq(S) /\ Len(W) = n - 1
      /\ \A i \in 1 .. n - 1 : W[i] = IF i < k THEN V[i] ELSE V[i + 1]
  <2>1. PICK A : A = SubSeq(V, 1, k - 1)
    OBVIOUS
  <2>2. PICK B : B = SubSeq(V, k + 1, n)
    OBVIOUS
  <2>3. k \in 1 .. n /\ \A i \in 1 .. n : V[i] \in S
    OBVIOUS
  <2>4. /\ k - 1 \in Int /\ 1 \in Int /\ k + 1 \in Int /\ n \in Int
        /\ \A i \in 1 .. k - 1 : V[i] \in S
        /\ \A i \in k + 1 .. n : V[i] \in S
    BY <2>3
  <2>5. /\ A \in Seq(S) /\ Len(A) = k - 1
        /\ \A i \in 1 .. k - 1 : A[i] = V[i]
    BY <2>1, <2>3, <2>4, SubSeqProperties
  <2>6. /\ B \in Seq(S) /\ Len(B) = n - k
        /\ \A i \in 1 .. n - k : B[i] = V[k + i]
    BY <2>2, <2>3, <2>4, SubSeqProperties
  <2>7. W = A \o B
    BY <1>1, <2>1, <2>2 DEF RemoveAt
  <2>8. /\ W \in Seq(S) /\ Len(W) = n - 1
        /\ \A i \in 1 .. n - 1 : W[i] = IF i <= k - 1 THEN A[i] ELSE B[i - (k - 1)]
    <3>1. /\ A \o B \in Seq(S) /\ Len(A \o B) = Len(A) + Len(B)
          /\ \A i \in 1 .. Len(A) + Len(B) : (A \o B)[i] = IF i <= Len(A) THEN A[i] ELSE B[i - Len(A)]
      BY <2>5, <2>6, ConcatProperties
    <3>2. Len(A) + Len(B) = n - 1
      BY <2>3, <2>5, <2>6
    <3> QED
      BY <2>5, <2>7, <3>1, <3>2
  <2>9. ASSUME NEW i \in 1 .. n - 1
        PROVE  W[i] = IF i < k THEN V[i] ELSE V[i + 1]
    <3>1. CASE i < k
      BY <2>3, <2>5, <2>8, <3>1
    <3>2. CASE ~ (i < k)
      <4>1. i - (k - 1) \in 1 .. n - k /\ k + (i - (k - 1)) = i + 1
        BY <2>3, <3>2
      <4> QED
        BY <2>3, <2>6, <2>8, <3>2, <4>1
    <3> QED
      BY <3>1, <3>2
  <2> QED
    BY <2>8, <2>9
<1> QED
  BY <1>1, <1>2

\* A volume is taken out, and its handle closed.
LEMMA RemoveOwned ==
  ASSUME NEW V, NEW H, NEW F, Owned(V, H, F), NEW k \in 1 .. Len(V),
         NEW G, G = [H EXCEPT ![V[k].handle] = Closed]
  PROVE  Owned(RemoveAt(V, k), G, F)
<1>1. PICK S : V \in Seq(S)
  BY DEF Owned
<1>2. PICK n \in Nat : n = Len(V)
  BY <1>1
<1>3. PICK W : W = RemoveAt(V, k)
  OBVIOUS
<1>4. /\ W \in Seq(S) /\ Len(W) = n - 1
      /\ \A i \in 1 .. n - 1 : W[i] = IF i < k THEN V[i] ELSE V[i + 1]
  BY <1>1, <1>2, <1>3, RemovedAt
<1>5. PICK h \in 1 .. MaxHandles : h = V[k].handle
  BY DEF Owned
<1>6. /\ DOMAIN G = 1 .. MaxHandles /\ G = [g \in 1 .. MaxHandles |-> G[g]]
      /\ G[h] = Closed /\ \A g \in 1 .. MaxHandles : g # h => G[g] = H[g]
  BY <1>5 DEF Owned
<1> DEFINE at == [i \in 1 .. n - 1 |-> IF i < k THEN i ELSE i + 1]
<1>7. \A i \in 1 .. n - 1 : at[i] = IF i < k THEN i ELSE i + 1
  OBVIOUS
<1> HIDE DEF at
<1>8. /\ \A i \in 1 .. n - 1 : at[i] \in 1 .. n /\ at[i] # k /\ W[i] = V[at[i]]
      /\ \A i, j \in 1 .. n - 1 : at[i] = at[j] => i = j
      /\ \A j \in 1 .. n : j # k => \E i \in 1 .. n - 1 : at[i] = j
  <2>1. k \in 1 .. n
    BY <1>2
  <2>2. \A i \in 1 .. n - 1 : at[i] \in 1 .. n /\ at[i] # k /\ W[i] = V[at[i]]
    BY <1>4, <1>7, <2>1
  <2>3. \A i, j \in 1 .. n - 1 : at[i] = at[j] => i = j
    BY <1>7, <2>1
  <2>4. ASSUME NEW j \in 1 .. n, j # k
        PROVE  \E i \in 1 .. n - 1 : at[i] = j
    <3>1. CASE j < k
      BY <1>7, <2>1, <3>1
    <3>2. CASE j > k
      <4>1. j - 1 \in 1 .. n - 1 /\ at[j - 1] = j
        BY <1>7, <2>1, <3>2
      <4> QED
        BY <4>1
    <3> QED
      BY <2>1, <2>4, <3>1, <3>2
  <2> QED
    BY <2>2, <2>3, <2>4
<1>9. \A i \in 1 .. n : i # k => V[i].handle \in 1 .. MaxHandles /\ V[i].handle # h
  BY <1>2, <1>5 DEF Owned
<1>10. ASSUME NEW i \in 1 .. n - 1
       PROVE  /\ VolumeFields(W[i])
              /\ W[i].handle \in 1 .. MaxHandles
              /\ G[W[i].handle] # Closed
              /\ G[W[i].handle] \in Places(W[i], F)
  <2>1. PICK j \in 1 .. n : j = at[i] /\ j # k /\ W[i] = V[j]
    BY <1>8
  <2>2. VolumeFields(V[j]) /\ H[V[j].handle] # Closed /\ H[V[j].handle] \in Places(V[j], F)
    BY <1>2 DEF Owned
  <2>3. V[j].handle \in 1 .. MaxHandles /\ V[j].handle # h
    BY <1>9, <2>1
  <2>4. G[V[j].handle] = H[V[j].handle]
    BY <1>6, <2>3
  <2> QED
    BY <2>1, <2>2, <2>3, <2>4
<1>11. ASSUME NEW i \in 1 .. n - 1, NEW j \in 1 .. n - 1, W[i].handle = W[j].handle
       PROVE  i = j
  <2>1. /\ at[i] \in 1 .. n /\ W[i] = V[at[i]]
        /\ at[j] \in 1 .. n /\ W[j] = V[at[j]]
    BY <1>8
  <2>2. at[i] = at[j]
    BY <1>2, <1>11, <2>1 DEF Owned
  <2> QED
    BY <1>8, <2>2
<1>12. ASSUME NEW g \in 1 .. MaxHandles, G[g] # Closed
       PROVE  \E i \in 1 .. n - 1 : W[i].handle = g
  <2>1. g # h /\ H[g] # Closed
    BY <1>6, <1>12
  <2>2. PICK j \in 1 .. n : V[j].handle = g
    BY <1>2, <2>1 DEF Owned
  <2>3. j # k
    BY <1>5, <2>1, <2>2
  <2>4. PICK i \in 1 .. n - 1 : at[i] = j
    BY <1>8, <2>3
  <2>5. W[i] = V[j]
    BY <1>8, <2>4
  <2> QED
    BY <2>2, <2>5
<1> QED
  BY <1>3, <1>4, <1>6, <1>10, <1>11, <1>12 DEF Owned

\* A volume is made read-only.
LEMMA ReadOnlyOwned ==
  ASSUME NEW V, NEW H, NEW F, Owned(V, H, F), NEW k \in 1 .. Len(V), NEW r,
         NEW W, W = [V EXCEPT ![k].readOnly = r]
  PROVE  Owned(W, H, F)
<1>1. PICK S : V \in Seq(S)
  BY DEF Owned
<1>2. PICK v : v = [V[k] EXCEPT !.readOnly = r]
  OBVIOUS
<1>3. VolumeFields(V[k])
  BY DEF Owned
<1>4. VolumeFields(v) /\ v.handle = V[k].handle /\ v.by = V[k].by /\ v.disk = V[k].disk /\ v.nr = V[k].nr
  BY <1>2, <1>3 DEF VolumeFields
<1>5. PICK T : T = S \cup {v}
  OBVIOUS
<1>6. V \in Seq(T) /\ v \in T
  BY <1>1, <1>5, SeqMonotonic
<1>7. W = [V EXCEPT ![k] = v]
  BY <1>2
<1>8. /\ W \in Seq(T) /\ Len(W) = Len(V)
      /\ \A i \in 1 .. Len(V) : W[i] = IF i = k THEN v ELSE V[i]
  BY <1>6, <1>7, ExceptSeq
<1>9. Places(v, F) = Places(V[k], F)
  <2>1. Place(v) = Place(V[k]) /\ <<v.disk, v.nr, v.by>> = <<V[k].disk, V[k].nr, V[k].by>>
    BY ONLY <1>4 DEF Place
  <2> QED
    BY ONLY <1>4, <2>1 DEF Places
<1>10. \A i \in 1 .. Len(V) : VolumeFields(V[i])
  BY DEF Owned
<1>11. ASSUME NEW i \in 1 .. Len(V)
       PROVE  VolumeFields(W[i]) /\ W[i].handle = V[i].handle /\ Places(W[i], F) = Places(V[i], F)
  <2>1. CASE i = k
    BY <1>4, <1>8, <1>9, <2>1
  <2>2. CASE i # k
    BY <1>8, <1>10, <2>2
  <2> QED
    BY <2>1, <2>2
<1>12. \A i \in 1 .. Len(V) :
         V[i].handle \in 1 .. MaxHandles /\ H[V[i].handle] # Closed /\ H[V[i].handle] \in Places(V[i], F)
  BY DEF Owned
<1>13. \A i \in 1 .. Len(V) :
         /\ VolumeFields(W[i])
         /\ W[i].handle \in 1 .. MaxHandles
         /\ H[W[i].handle] # Closed
         /\ H[W[i].handle] \in Places(W[i], F)
  BY <1>11, <1>12
<1>14. \A i, j \in 1 .. Len(V) : W[i].handle = W[j].handle => i = j
  BY <1>11 DEF Owned
<1>15. ASSUME NEW h \in 1 .. MaxHandles, H[h] # Closed
       PROVE  \E i \in 1 .. Len(W) : W[i].handle = h
  <2>1. PICK i \in 1 .. Len(V) : V[i].handle = h
    BY <1>15 DEF Owned
  <2> QED
    BY <1>8, <1>11, <2>1
<1>16. DOMAIN H = 1 .. MaxHandles /\ H = [h \in 1 .. MaxHandles |-> H[h]]
  BY DEF Owned
<1> QED
  BY <1>8, <1>13, <1>14, <1>15, <1>16 DEF Owned

-----------------------------------------------------------------------------
(* Steps.                                                                  *)

LEMMA SameGiven ==
  ASSUME disks' = disks, walks' = walks
  PROVE  Given' = Given
<1>1. ASSUME NEW d, NEW nr, NEW by PROVE GaveUp(d, nr, by)' = GaveUp(d, nr, by)
  BY DEF GaveUp, GivesUp, GivesUpOnDevice
<1> QED
  BY <1>1 DEF Given

\* Whatever was opened is kept by the volume, or closed.
LEMMA MountKeeps ==
  ASSUME VInv, NEW d \in DOMAIN disks, NEW nr \in Number, NEW by \in {"number", "name"}, NEW chance, NEW device,
         NEW gaveUp \in BOOLEAN, gaveUp => GaveUp(d, nr, by),
         NEW o, OpenedRight(o, handles, d, device, gaveUp),
         device = IF by = "number" THEN <<d, nr + 1>> ELSE <<1, 3>>,
         MountOpened(o, d, nr, by, chance)
  PROVE  VInv'
<1>1. /\ Owned(volumes, handles, Given)
      /\ handles = [h \in 1 .. MaxHandles |-> handles[h]]
      /\ UNCHANGED <<disks, walks, super, formatted>>
  BY DEF VInv, Owned, MountOpened
<1>2. Given' = Given
  BY <1>1, SameGiven
<1>3. PICK ok \in BOOLEAN :
        /\ ok => IsValid(Identified(o))
        /\ handles' = Kept(o, ok)
        /\ ~ ok => volumes' = volumes
        /\ ok => \E ro : volumes' = Append(volumes, [disk |-> d, nr |-> nr, by |-> by, handle |-> o.h,
                                                     sb |-> Identified(o), readOnly |-> ro])
  BY DEF MountOpened
<1>4. CASE ~ ok
  <2>1. handles' = handles /\ volumes' = volumes
    BY <1>1, <1>3, <1>4, NotKept
  <2> QED
    BY <1>1, <1>2, <2>1 DEF VInv
<1>5. CASE ok
  <2>1. o.h # 0 /\ o.handles[o.h] # Closed /\ IsValid(super[o.handles[o.h]])
    <3>1. ~ IsValid(NoSuper)
      BY DEF IsValid, NoSuper
    <3> QED
      BY <1>3, <1>5, <3>1 DEF Identified
  <2>2. PICK h \in 1 .. MaxHandles : h = o.h /\ handles[h] = Closed
    BY <2>1 DEF OpenedRight
  <2>3. PICK x \in {Closed, <<d, 0>>, device} : (x = <<d, 0>> => gaveUp \/ x \in {Closed, device}) /\ o.handles = [handles EXCEPT ![h] = x]
    BY <2>1, <2>2 DEF OpenedRight
  <2>4. o.handles[o.h] = x
    BY <1>1, <2>2, <2>3
  <2>5. PICK ro : volumes' = Append(volumes, [disk |-> d, nr |-> nr, by |-> by, handle |-> h,
                                              sb |-> Identified(o), readOnly |-> ro])
    BY <1>3, <1>5, <2>2
  <2>6. PICK v : v = [disk |-> d, nr |-> nr, by |-> by, handle |-> h, sb |-> Identified(o), readOnly |-> ro]
    OBVIOUS
  <2>7. VolumeFields(v) /\ v.handle = h /\ v.disk = d /\ v.nr = nr /\ v.by = by
    BY <2>6 DEF VolumeFields
  <2>8. x \in Places(v, Given)
    <3>1. CASE x = device
      BY <2>7, <3>1 DEF Places, Place
    <3>2. CASE x = <<d, 0>> /\ x # device
      <4>1. <<d, nr, by>> \in Given
        <5>1. PICK y : y = <<d, nr, by>>
          OBVIOUS
        <5>2. GaveUp(d, nr, by)
          BY <2>1, <2>3, <2>4, <3>2
        <5>3. y \in (DOMAIN disks) \X Number \X {"number", "name"} /\ y[1] = d /\ y[2] = nr /\ y[3] = by
          BY <5>1
        <5> QED
          BY <5>1, <5>2, <5>3 DEF Given
      <4> QED
        BY <2>7, <3>2, <4>1 DEF Places
    <3> QED
      BY <2>1, <2>3, <2>4, <3>1, <3>2
  <2>9. handles' = [handles EXCEPT ![h] = x]
    BY <1>3, <1>5, <2>3 DEF Kept
  <2>10. PICK G : G = handles'
    OBVIOUS
  <2>11. Owned(Append(volumes, v), G, Given)
    BY <1>1, <2>1, <2>2, <2>4, <2>7, <2>8, <2>9, <2>10, AddOwned
  <2> QED
    BY <1>1, <1>2, <2>5, <2>6, <2>10, <2>11 DEF VInv
<1> QED
  BY <1>4, <1>5

\* Each action, and the initial states.
LEMMA MountKeepsVInv ==
  ASSUME VInv, NEW d \in DOMAIN disks, NEW nr \in Number, NEW chance \in Chances,
         Mount(d, nr, chance) \/ MountByName(d, nr, chance) \/ MountBFS(d, nr, chance)
  PROVE  VInv'
<1>1. /\ DOMAIN handles = 1 .. MaxHandles /\ handles = [h \in 1 .. MaxHandles |-> handles[h]]
  BY DEF VInv, Owned
<1>2. CASE Mount(d, nr, chance)
  <2>1. PICK o : o = Open(d, nr, chance.fails)
    OBVIOUS
  <2>2. Bounded /\ MountOpened(o, d, nr, "number", chance)
    BY <1>2, <2>1 DEF Mount
  <2>3. OpenedRight(o, handles, d, <<d, nr + 1>>, GivesUp(d, nr))
    BY <1>1, <2>1, <2>2, OpenedIsRight DEF Open, GivesUp
  <2> QED
    BY <2>2, <2>3, MountKeeps DEF GaveUp, GivesUp
<1>3. CASE MountByName(d, nr, chance) \/ MountBFS(d, nr, chance)
  <2>1. PICK o : o = OpenDevice(d, nr, chance.fails)
    OBVIOUS
  <2>2. Bounded /\ MountOpened(o, d, nr, "name", chance)
    BY <1>3, <2>1 DEF MountByName, MountBFS
  <2>3. OpenedRight(o, handles, d, <<1, 3>>, GivesUpOnDevice(d))
    BY <1>1, <2>1, <2>2, OpenedIsRight DEF OpenDevice, GivesUpOnDevice
  <2> QED
    BY <2>2, <2>3, MountKeeps DEF GaveUp, GivesUpOnDevice
<1> QED
  BY <1>2, <1>3

LEMMA InitializeKeepsVInv ==
  ASSUME VInv, NEW d \in DOMAIN disks, NEW nr \in Number, NEW chance \in Chances,
         NEW blockSize \in BlockSize, NEW done \in BOOLEAN,
         Initialize(d, nr, blockSize, chance, done)
  PROVE  VInv'
<1>1. /\ Owned(volumes, handles, Given)
      /\ DOMAIN handles = 1 .. MaxHandles /\ handles = [h \in 1 .. MaxHandles |-> handles[h]]
  BY DEF VInv, Owned
<1>2. PICK o : o = OpenDevice(d, nr, chance.fails)
  OBVIOUS
<1>3. PICK written, sb :
        /\ handles' = Kept(o, FALSE)
        /\ super' = [v \in DOMAIN super |-> IF v \in written THEN sb ELSE super[v]]
        /\ formatted' = formatted \cup written
        /\ UNCHANGED <<disks, walks, volumes>>
  BY <1>2 DEF Initialize
<1>4. OpenedRight(o, handles, d, <<1, 3>>, GivesUpOnDevice(d))
  BY <1>1, <1>2, OpenedIsRight DEF OpenDevice, Initialize, GivesUpOnDevice
<1>5. handles' = handles
  BY <1>1, <1>3, <1>4, NotKept
<1>6. Given' = Given
  BY <1>3, SameGiven
<1> QED
  BY <1>1, <1>3, <1>5, <1>6 DEF VInv

LEMMA InitVInv == VolumeInit => VInv
<1> SUFFICES ASSUME VolumeInit PROVE VInv
  OBVIOUS
<1>1. volumes = <<>> /\ handles = [h \in 1 .. MaxHandles |-> Closed] /\ formatted = {}
  BY DEF VolumeInit
<1>3. Owned(volumes, handles, Given)
  <2>1. \E S : volumes \in Seq(S)
    BY <1>1
  <2> QED
    BY <1>1, <2>1 DEF Owned
<1> QED
  BY <1>3 DEF VInv

LEMMA NextVInv == VInv /\ [VolumeNext]_volumeVars => VInv'
<1> SUFFICES ASSUME VInv, [VolumeNext]_volumeVars PROVE VInv'
  OBVIOUS
<1>1. CASE UNCHANGED volumeVars
  <2>1. Given' = Given
    BY <1>1, SameGiven DEF volumeVars
  <2> QED
    BY <1>1, <2>1 DEF volumeVars, VInv
<1>2. DOMAIN volumes = 1 .. Len(volumes)
  BY DEF VInv, Owned
<1>3. ASSUME NEW i \in DOMAIN volumes, Unmount(i)
      PROVE  VInv'
  <2>1. PICK G : G = handles'
    OBVIOUS
  <2>2. Owned(RemoveAt(volumes, i), G, Given)
    BY <1>2, <1>3, <2>1, RemoveOwned DEF Unmount, VInv
  <2> QED
    BY <1>3, <2>1, <2>2, SameGiven DEF Unmount, VInv
<1>4. ASSUME NEW i \in DOMAIN volumes, NEW run, ValidateBlockRun(i, run)
      PROVE  VInv'
  <2>1. PICK r : r = (volumes[i].readOnly \/ ~ IsValidRun(volumes[i].sb, run))
    OBVIOUS
  <2>2. PICK W : W = volumes'
    OBVIOUS
  <2>3. W = [volumes EXCEPT ![i].readOnly = r]
    BY <1>4, <2>1, <2>2 DEF ValidateBlockRun
  <2>4. Owned(W, handles, Given)
    BY <1>2, <1>4, <2>3, ReadOnlyOwned DEF VInv
  <2> QED
    BY <1>4, <2>2, <2>4, SameGiven DEF ValidateBlockRun, VInv
<1> QED
  BY <1>1, <1>3, <1>4, MountKeepsVInv, InitializeKeepsVInv DEF VolumeNext

\* DeviceOpener and the three Mount methods leave no handle open that no volume
\* has, and give each volume the device it was asked for, or the whole disk if the
\* opener gave up before it came to that device.
THEOREM VolumesOwnTheirDevice == VolumeSpec => []OwnDevice
<1>1. VInv => OwnDevice
  <2> SUFFICES ASSUME VInv PROVE OwnDevice
    OBVIOUS
  <2>1. DOMAIN volumes = 1 .. Len(volumes)
    BY DEF VInv, Owned
  <2> QED
    BY <2>1 DEF VInv, Owned, OwnDevice, Places, Place, Given, GaveUp
<1> QED
  BY <1>1, InitVInv, NextVInv, PTL DEF VolumeSpec

-----------------------------------------------------------------------------
(* Sizes, and what is formatted.                                           *)

\* A device of the system.
Device(x) == \E d \in DOMAIN disks, k \in Nat : k <= Len(walks[d].found) /\ x = <<d, k>>

\* The disks have not changed since they were walked over.
OurDevices ==
  /\ 1 \in DOMAIN disks
  /\ \A d \in DOMAIN disks :
       /\ d \in Nat \ {0} /\ Tables(disks[d]) /\ walks[d] = Walk(disks[d])
       /\ \A k \in Nat : k <= Len(walks[d].found) => <<d, k>> \in DOMAIN super

\* The handles H are closed, or of devices.
Opens(H) == \A h \in 1 .. MaxHandles : H[h] = Closed \/ Device(H[h])

\* The volumes V are not larger than their partitions, where the numbers agree.
Fits(v) ==
  LET found == walks[v.disk].found
  IN  /\ v.nr \in Nat
      /\ /\ v.by = "number" /\ v.nr + 1 \in 1 .. Len(found)
         /\ IsOurs(found[v.nr + 1]) /\ NumbersAgree(found, v.nr + 1)
         => v.sb.numBlocks * (v.sb.blockSize \div SectorSize) <= found[v.nr + 1].size

Sized(V) == \A i \in 1 .. Len(V) : Fits(V[i])

\* The file systems on the devices in F can be mounted.
Made(F, B) == \A x \in F : x \in DOMAIN B /\ Mountable(B[x])

\* The invariant for sizes and super blocks.
SInv == OurDevices /\ Opens(handles) /\ Sized(volumes) /\ Made(formatted, super)

\* It holds at first: the walks are those over the disks.
LEMMA InitSInv == VolumeInit => SInv
<1> SUFFICES ASSUME VolumeInit PROVE SInv
  OBVIOUS
<1>1. volumes = <<>> /\ handles = [h \in 1 .. MaxHandles |-> Closed] /\ formatted = {}
  BY DEF VolumeInit
<1>2. PICK s \in Systems : disks = s.disks /\ super = s.super /\ walks = [d \in DOMAIN s.disks |-> Walk(s.disks[d])]
  BY DEF VolumeInit
<1>3. 1 \in DOMAIN disks
  BY <1>2, SystemsAssumption
<1>4. ASSUME NEW d \in DOMAIN disks
      PROVE  /\ d \in Nat \ {0} /\ Tables(disks[d]) /\ walks[d] = Walk(disks[d])
             /\ \A k \in Nat : k <= Len(walks[d].found) => <<d, k>> \in DOMAIN super
  <2>1. /\ d \in Nat \ {0} /\ Tables(disks[d])
        /\ \A k \in 0 .. Len(Walk(disks[d]).found) : <<d, k>> \in DOMAIN super
    BY <1>2, SystemsAssumption DEF Tables
  <2>2. PICK n \in Nat : n = Len(Walk(disks[d]).found)
    BY <2>1, WalkIs
  <2>3. walks[d] = Walk(disks[d])
    BY <1>2
  <2> QED
    BY <2>1, <2>2, <2>3
<1>5. OurDevices
  BY <1>3, <1>4 DEF OurDevices
<1>6. Opens(handles) /\ Sized(volumes) /\ Made(formatted, super)
  BY <1>1 DEF Opens, Sized, Made
<1> QED
  BY <1>5, <1>6 DEF SInv

\* What is opened is a device.
LEMMA OpenedOpens ==
  ASSUME Bounded, DOMAIN handles = 1 .. MaxHandles, OurDevices, Opens(handles),
         NEW d \in DOMAIN disks, NEW e \in DOMAIN disks, NEW k \in Nat, NEW device, device = <<e, k>>,
         NEW gaveUp, NEW info, NEW fails
  PROVE  Opens(Opened(d, device, gaveUp, info, fails).handles)
<1>1. Device(<<d, 0>>)
  <2>1. walks[d] = Walk(disks[d]) /\ Tables(disks[d])
    BY DEF OurDevices
  <2>2. PICK n \in Nat : n = Len(walks[d].found)
    BY <2>1, WalkIs
  <2> QED
    BY <2>2 DEF Device
<1>2. PICK H : H = Opened(d, device, gaveUp, info, fails).handles
  OBVIOUS
<1>3. \/ H = handles
      \/ H = [handles EXCEPT ![Fresh] = <<d, 0>>]
      \/ device[2] <= Len(walks[device[1]].found) /\ H = [handles EXCEPT ![Fresh] = device]
  <2>1. CASE fails = "disk"
    BY <1>2, <2>1 DEF Opened
  <2>2. CASE fails # "disk"
    <3>1. H = IF gaveUp THEN [handles EXCEPT ![Fresh] = <<d, 0>>]
              ELSE IF fails # "partition" /\ device[2] <= Len(walks[device[1]].found)
                THEN [handles EXCEPT ![Fresh] = device]
                ELSE handles
      BY <1>2, <2>2 DEF Opened
    <3> QED
      BY <3>1
  <2> QED
    BY <2>1, <2>2
<1>4. \/ H = handles
      \/ \E x : Device(x) /\ H = [handles EXCEPT ![Fresh] = x]
  <2>1. device[2] <= Len(walks[device[1]].found) => Device(device)
    BY DEF Device
  <2> QED
    BY <1>1, <1>3, <2>1
<1>5. ASSUME NEW x, Device(x), H = [handles EXCEPT ![Fresh] = x]
      PROVE  Opens(H)
  <2> SUFFICES ASSUME NEW h \in 1 .. MaxHandles PROVE H[h] = Closed \/ Device(H[h])
    BY DEF Opens
  <2>1. H[h] = IF h = Fresh THEN x ELSE handles[h]
    BY <1>5
  <2>2. handles[h] = Closed \/ Device(handles[h])
    BY DEF Opens
  <2> QED
    BY <1>5, <2>1, <2>2
<1> QED
  BY <1>2, <1>4, <1>5

\* What is not kept is closed.
LEMMA KeptOpens ==
  ASSUME NEW o, DOMAIN o.handles = 1 .. MaxHandles, Opens(o.handles), NEW ok
  PROVE  Opens(Kept(o, ok))
<1>1. CASE Kept(o, ok) = o.handles
  BY <1>1
<1>2. CASE Kept(o, ok) = [o.handles EXCEPT ![o.h] = Closed]
  <2>1. PICK H : H = Kept(o, ok)
    OBVIOUS
  <2>2. ASSUME NEW h \in 1 .. MaxHandles PROVE H[h] = Closed \/ H[h] = o.handles[h]
    BY <1>2, <2>1
  <2>3. ASSUME NEW h \in 1 .. MaxHandles PROVE H[h] = Closed \/ Device(H[h])
    <3>1. o.handles[h] = Closed \/ Device(o.handles[h])
      BY DEF Opens
    <3> QED
      BY <2>2, <3>1
  <2> QED
    BY <2>1, <2>3 DEF Opens
<1> QED
  BY <1>1, <1>2 DEF Kept

\* Opening adds no handles.
LEMMA OpenedHandles ==
  ASSUME NEW H, DOMAIN H = 1 .. MaxHandles, NEW d, NEW device, NEW gaveUp, NEW o,
         OpenedRight(o, H, d, device, gaveUp)
  PROVE  DOMAIN o.handles = 1 .. MaxHandles
BY DEF OpenedRight


\* A volume that is mounted by its number fits.
LEMMA MountedFits ==
  ASSUME OurDevices, NEW d \in DOMAIN disks, NEW nr \in Nat, NEW fails, NEW garbage,
         NEW o, o = Open(d, nr, fails), o.h # 0,
         NEW v, v.disk = d, v.nr = nr, SizeOf(o, garbage) >= v.sb.numBlocks * (v.sb.blockSize \div SectorSize)
  PROVE  Fits(v)
<1>1. PICK found \in Seq(Found) : found = walks[d].found
  BY WalkIs DEF OurDevices
<1>2. SUFFICES ASSUME nr + 1 \in 1 .. Len(found), IsOurs(found[nr + 1]), NumbersAgree(found, nr + 1)
               PROVE  v.sb.numBlocks * (v.sb.blockSize \div SectorSize) <= found[nr + 1].size
  BY <1>1 DEF Fits
<1>3. Saved(found, nr) = {nr + 1}
  BY <1>2, SavedAgrees
<1>4. o.info = {found[i] : i \in Saved(found, nr)}
  BY <1>1 DEF Open, Opened
<1>5. o.info = {found[nr + 1]}
  BY <1>3, <1>4
<1>6. SizeOf(o, garbage) = found[nr + 1].size
  BY <1>5 DEF SizeOf
<1> QED
  BY <1>6

\* One volume more.
LEMMA AddSized ==
  ASSUME NEW V, NEW S, V \in Seq(S), Sized(V), NEW v, Fits(v)
  PROVE  Sized(Append(V, v))
<1>1. PICK T : T = S \cup {v}
  OBVIOUS
<1>2. V \in Seq(T) /\ v \in T
  BY <1>1, SeqMonotonic
<1>3. PICK W : W = Append(V, v)
  OBVIOUS
<1>4. PICK n \in Nat : n = Len(V)
  OBVIOUS
<1>5. Len(W) = n + 1 /\ W[n + 1] = v /\ \A i \in 1 .. n : W[i] = V[i]
  BY <1>2, <1>3, <1>4, AppendProperties
<1>6. ASSUME NEW i \in 1 .. n + 1 PROVE Fits(W[i])
  <2>1. CASE i \in 1 .. n
    BY <1>4, <1>5, <2>1 DEF Sized
  <2>2. CASE i = n + 1
    BY <1>5, <2>2
  <2> QED
    BY <2>1, <2>2
<1> QED
  BY <1>3, <1>5, <1>6 DEF Sized

\* Nothing on the disks changes.
LEMMA StaysSized ==
  ASSUME UNCHANGED <<disks, walks, super, formatted>>, SInv,
         NEW H, H = handles', Opens(H), NEW V, V = volumes', Sized(V)
  PROVE  SInv'
<1>1. OurDevices'
  BY DEF SInv, OurDevices
<1>2. Opens(handles)'
  BY DEF Opens, Device
<1>3. Sized(volumes)'
  BY DEF Sized, Fits
<1>4. Made(formatted, super)'
  BY DEF SInv
<1> QED
  BY <1>1, <1>2, <1>3, <1>4 DEF SInv

\* A mount leaves all sizes right.
LEMMA MountKeepsSInv ==
  ASSUME VInv, SInv, NEW d \in DOMAIN disks, NEW nr \in Number, NEW by, NEW chance,
         NEW o, DOMAIN o.handles = 1 .. MaxHandles, Opens(o.handles),
         by = "number" => o = Open(d, nr, chance.fails),
         MountOpened(o, d, nr, by, chance)
  PROVE  SInv'
<1>1. UNCHANGED <<disks, walks, super, formatted>>
  BY DEF MountOpened
<1>2. PICK ok \in BOOLEAN :
        /\ ok => /\ IsValid(Identified(o))
                 /\ SizeOf(o, chance.garbage) >= Identified(o).numBlocks * (Identified(o).blockSize \div SectorSize)
        /\ handles' = Kept(o, ok)
        /\ ~ ok => volumes' = volumes
        /\ ok => \E ro : volumes' = Append(volumes, [disk |-> d, nr |-> nr, by |-> by, handle |-> o.h,
                                                     sb |-> Identified(o), readOnly |-> ro])
  BY DEF MountOpened
<1>3. PICK H : H = handles' /\ Opens(H)
  BY <1>2, KeptOpens
<1>4. PICK V : V = volumes'
  OBVIOUS
<1>5. Sized(V)
  <2>1. Sized(volumes)
    BY DEF SInv
  <2>2. CASE ~ ok
    BY <1>2, <1>4, <2>1, <2>2
  <2>3. CASE ok
    <3>1. PICK ro : V = Append(volumes, [disk |-> d, nr |-> nr, by |-> by, handle |-> o.h,
                                         sb |-> Identified(o), readOnly |-> ro])
      BY <1>2, <1>4, <2>3
    <3>2. PICK v : v = [disk |-> d, nr |-> nr, by |-> by, handle |-> o.h, sb |-> Identified(o), readOnly |-> ro]
      OBVIOUS
    <3>3. v.disk = d /\ v.nr = nr /\ v.by = by /\ v.sb = Identified(o)
      BY <3>2
    <3>4. nr \in Nat
      BY VolumeAssumption
    <3>5. Fits(v)
      <4>1. CASE by = "number"
        <5>1. o.h # 0
          <6>1. ~ IsValid(NoSuper)
            BY DEF IsValid, NoSuper
          <6> QED
            BY <1>2, <2>3, <6>1 DEF Identified
        <5>2. SizeOf(o, chance.garbage) >= v.sb.numBlocks * (v.sb.blockSize \div SectorSize)
          BY <1>2, <2>3, <3>3
        <5>3. OurDevices
          BY DEF SInv
        <5>4. o = Open(d, nr, chance.fails)
          BY <4>1
        <5> QED
          BY <3>3, <3>4, <5>1, <5>2, <5>3, <5>4, MountedFits
      <4>2. CASE by # "number"
        BY <3>3, <3>4, <4>2 DEF Fits
      <4> QED
        BY <4>1, <4>2
    <3>6. PICK S : volumes \in Seq(S)
      BY DEF VInv, Owned
    <3>7. Sized(Append(volumes, v))
      BY <2>1, <3>5, <3>6, AddSized
    <3> QED
      BY <3>1, <3>2, <3>7
  <2> QED
    BY <2>2, <2>3
<1> QED
  BY <1>1, <1>3, <1>4, <1>5, StaysSized

\* What the two ways to open a device give.
LEMMA OpenOpens ==
  ASSUME VInv, SInv, Bounded, NEW d \in DOMAIN disks, NEW nr \in Number, NEW fails,
         NEW o, o = Open(d, nr, fails) \/ o = OpenDevice(d, nr, fails)
  PROVE  DOMAIN o.handles = 1 .. MaxHandles /\ Opens(o.handles)
<1>1. /\ DOMAIN handles = 1 .. MaxHandles /\ handles = [h \in 1 .. MaxHandles |-> handles[h]]
      /\ OurDevices /\ Opens(handles)
  BY DEF VInv, Owned, SInv
<1>2. nr + 1 \in Nat /\ 1 \in DOMAIN disks /\ 3 \in Nat
  BY <1>1, VolumeAssumption DEF OurDevices
<1>3. CASE o = Open(d, nr, fails)
  <2>1. PICK device : device = <<d, nr + 1>>
    OBVIOUS
  <2>2. PICK gaveUp, info : gaveUp \in BOOLEAN /\ o = Opened(d, device, gaveUp, info, fails)
    <3>1. PICK info : info = {walks[d].found[i] : i \in Saved(walks[d].found, nr)}
      OBVIOUS
    <3>2. PICK gaveUp \in BOOLEAN :
            gaveUp = GivesUp(d, nr)
      BY DEF GivesUp
    <3>3. o = Opened(d, device, gaveUp, info, fails)
      BY <1>3, <2>1, <3>1, <3>2 DEF Open
    <3> QED
      BY <3>3
  <2>3. OpenedRight(o, handles, d, device, gaveUp)
    BY <1>1, <2>2, OpenedIsRight
  <2>4. Opens(Opened(d, device, gaveUp, info, fails).handles)
    BY <1>1, <1>2, <2>1, OpenedOpens
  <2> QED
    BY <1>1, <2>2, <2>3, <2>4, OpenedHandles
<1>4. CASE o = OpenDevice(d, nr, fails)
  <2>1. PICK device : device = <<1, 3>>
    OBVIOUS
  <2>2. PICK gaveUp, info : gaveUp \in BOOLEAN /\ o = Opened(d, device, gaveUp, info, fails)
    <3>1. PICK info : info = {walks[d].found[i] : i \in SavedOnDevice(walks[d].found, nr)}
      OBVIOUS
    <3>2. PICK gaveUp \in BOOLEAN : gaveUp = GivesUpOnDevice(d)
      BY DEF GivesUpOnDevice
    <3>3. o = Opened(d, device, gaveUp, info, fails)
      BY <1>4, <2>1, <3>1, <3>2 DEF OpenDevice
    <3> QED
      BY <3>3
  <2>3. OpenedRight(o, handles, d, device, gaveUp)
    BY <1>1, <2>2, OpenedIsRight
  <2>4. Opens(Opened(d, device, gaveUp, info, fails).handles)
    BY <1>1, <1>2, <2>1, OpenedOpens
  <2> QED
    BY <1>1, <2>2, <2>3, <2>4, OpenedHandles
<1> QED
  BY <1>3, <1>4

\* What a new file system is made from is the size of something.
LEMMA SizesAreSizes ==
  ASSUME OurDevices, NEW d \in DOMAIN disks, NEW nr \in Nat, NEW fails, NEW garbage \in Nat,
         NEW o, o = OpenDevice(d, nr, fails)
  PROVE  SizeOf(o, garbage) \in Nat
<1>1. PICK found \in Seq(Found) : found = walks[d].found
  BY WalkIs DEF OurDevices
<1>2. SavedOnDevice(found, nr) \subseteq 1 .. Len(found)
  BY SavedAreFound
<1>3. o.info = {} \/ o.info = {found[i] : i \in SavedOnDevice(found, nr)}
  BY <1>1 DEF OpenDevice, Opened
<1>4. o.info \subseteq Found
  BY <1>2, <1>3
<1>5. CASE o.info = {}
  BY <1>5 DEF SizeOf
<1>6. CASE o.info # {}
  <2>1. (CHOOSE e \in o.info : TRUE) \in o.info
    BY <1>6
  <2>2. (CHOOSE e \in o.info : TRUE) \in Found
    BY <1>4, <2>1
  <2>3. SizeOf(o, garbage) = (CHOOSE e \in o.info : TRUE).size
    BY <1>6 DEF SizeOf
  <2> QED
    BY <2>2, <2>3 DEF Found
<1> QED
  BY <1>5, <1>6

\* What is written on a device can be mounted.
LEMMA InitializeKeepsSInv ==
  ASSUME VInv, SInv, NEW d \in DOMAIN disks, NEW nr \in Number, NEW chance \in Chances,
         NEW blockSize \in BlockSize, NEW done \in BOOLEAN,
         Initialize(d, nr, blockSize, chance, done)
  PROVE  SInv'
<1>1. PICK o : o = OpenDevice(d, nr, chance.fails)
  OBVIOUS
<1>2. PICK sectors \in Nat : sectors = SizeOf(o, chance.garbage)
  <2>1. chance.garbage \in Nat /\ nr \in Nat
    <3>1. chance \in [fails : Fails, garbage : Garbage, readOnly : BOOLEAN]
      BY DEF Chances
    <3>2. chance.garbage \in Garbage /\ Garbage \subseteq Nat /\ Number \subseteq Nat
      BY <3>1, VolumeAssumption
    <3> QED
      BY <3>2
  <2>2. OurDevices
    BY DEF SInv
  <2> QED
    BY <1>1, <2>1, <2>2, SizesAreSizes
<1>3. PICK sb : sb = NewSuperBlock(sectors, blockSize)
  OBVIOUS
<1>4. PICK written :
        /\ written = {} \/ (o.h # 0 /\ o.handles[o.h] # Closed /\ IsValid(sb) /\ written = {o.handles[o.h]})
        /\ handles' = Kept(o, FALSE)
        /\ super' = [x \in DOMAIN super |-> IF x \in written THEN sb ELSE super[x]]
        /\ formatted' = formatted \cup written
        /\ UNCHANGED <<disks, walks, volumes>>
  BY <1>1, <1>2, <1>3 DEF Initialize
<1>5. DOMAIN o.handles = 1 .. MaxHandles /\ Opens(o.handles)
  BY <1>1, OpenOpens DEF Initialize
<1>6. Opens(handles)'
  <2>1. PICK H : H = handles' /\ Opens(H)
    BY <1>4, <1>5, KeptOpens
  <2> QED
    BY <1>4, <2>1 DEF Opens, Device
<1>7. OurDevices'
  BY <1>4 DEF SInv, OurDevices
<1>8. Sized(volumes)'
  BY <1>4 DEF SInv, Sized, Fits
<1>9. Made(formatted', super')
  <2> SUFFICES ASSUME NEW x \in formatted' PROVE x \in DOMAIN super' /\ Mountable(super'[x])
    BY DEF Made
  <2>1. CASE x \in written
    <3>1. IsValid(sb) /\ o.h # 0 /\ x = o.handles[o.h] /\ x # Closed
      BY <1>4, <2>1
    <3>2. Mountable(sb)
      <4>1. blockSize \in {1024, 2048, 4096, 8192}
        BY VolumeAssumption
      <4> QED
        BY <1>3, <3>1, <4>1, WrittenMounts
    <3>3. x \in DOMAIN super
      <4>1. OpenedRight(o, handles, d, <<1, 3>>, GivesUpOnDevice(d))
        <5>1. DOMAIN handles = 1 .. MaxHandles /\ handles = [h \in 1 .. MaxHandles |-> handles[h]]
          BY DEF VInv, Owned
        <5> QED
          BY <1>1, <5>1, OpenedIsRight DEF OpenDevice, Initialize, GivesUpOnDevice
      <4>2. o.h \in 1 .. MaxHandles
        BY <3>1, <4>1 DEF OpenedRight
      <4>3. Device(x)
        BY <1>5, <3>1, <4>2 DEF Opens
      <4> QED
        BY <4>3 DEF Device, SInv, OurDevices
    <3> QED
      BY <1>4, <2>1, <3>2, <3>3
  <2>2. CASE x \notin written
    <3>1. x \in formatted /\ x \in DOMAIN super /\ Mountable(super[x])
      BY <1>4, <2>2 DEF SInv, Made
    <3> QED
      BY <1>4, <2>2, <3>1
  <2> QED
    BY <2>1, <2>2
<1> QED
  BY <1>6, <1>7, <1>8, <1>9 DEF SInv, Made

\* A volume is taken out.
LEMMA RemoveSized ==
  ASSUME NEW V, NEW S, V \in Seq(S), Sized(V), NEW k \in 1 .. Len(V)
  PROVE  Sized(RemoveAt(V, k))
<1>1. PICK n \in Nat : n = Len(V)
  OBVIOUS
<1>2. PICK W : W = RemoveAt(V, k)
  OBVIOUS
<1>3. Len(W) = n - 1 /\ \A i \in 1 .. n - 1 : W[i] = IF i < k THEN V[i] ELSE V[i + 1]
  BY <1>1, <1>2, RemovedAt
<1>4. ASSUME NEW i \in 1 .. n - 1 PROVE Fits(W[i])
  <2>1. i \in 1 .. n /\ i + 1 \in 1 .. n
    OBVIOUS
  <2>2. Fits(V[i]) /\ Fits(V[i + 1])
    BY <1>1, <2>1 DEF Sized
  <2> QED
    BY <1>3, <2>2
<1> QED
  BY <1>2, <1>3, <1>4 DEF Sized

\* So does every step.
LEMMA NextSInv == VInv /\ SInv /\ [VolumeNext]_volumeVars => SInv'
<1> SUFFICES ASSUME VInv, SInv, [VolumeNext]_volumeVars PROVE SInv'
  OBVIOUS
<1>1. CASE UNCHANGED volumeVars
  <2>1. UNCHANGED <<disks, walks, super, formatted>> /\ handles' = handles /\ volumes' = volumes
    BY <1>1 DEF volumeVars
  <2> QED
    BY <2>1, StaysSized DEF SInv
<1>2. DOMAIN volumes = 1 .. Len(volumes) /\ Sized(volumes) /\ Opens(handles)
  BY DEF VInv, Owned, SInv
<1>3. PICK S : volumes \in Seq(S)
  BY DEF VInv, Owned
<1>4. ASSUME NEW i \in DOMAIN volumes, Unmount(i)
      PROVE  SInv'
  <2>1. PICK V : V = volumes'
    OBVIOUS
  <2>2. Sized(V)
    BY <1>2, <1>3, <1>4, <2>1, RemoveSized DEF Unmount
  <2>3. PICK H : H = handles'
    OBVIOUS
  <2>4. H = [handles EXCEPT ![volumes[i].handle] = Closed] /\ DOMAIN handles = 1 .. MaxHandles
    BY <1>4, <2>3 DEF Unmount, VInv, Owned
  <2>5. \A h \in 1 .. MaxHandles : H[h] = Closed \/ H[h] = handles[h]
    BY <2>4
  <2>6. Opens(H)
    BY <1>2, <2>5 DEF Opens
  <2>7. UNCHANGED <<disks, walks, super, formatted>>
    BY <1>4 DEF Unmount
  <2> QED
    BY <2>1, <2>2, <2>3, <2>6, <2>7, StaysSized
<1>5. ASSUME NEW i \in DOMAIN volumes, NEW run, ValidateBlockRun(i, run)
      PROVE  SInv'
  <2>1. PICK V : V = volumes'
    OBVIOUS
  <2>2. PICK r : V = [volumes EXCEPT ![i].readOnly = r]
    <3>1. PICK r : r = (volumes[i].readOnly \/ ~ IsValidRun(volumes[i].sb, run))
      OBVIOUS
    <3>2. V = [volumes EXCEPT ![i].readOnly = r]
      BY <1>5, <2>1, <3>1 DEF ValidateBlockRun
    <3> QED
      BY <3>2
  <2>3. /\ UNCHANGED <<disks, walks, super, formatted>> /\ handles' = handles
    BY <1>5 DEF ValidateBlockRun
  <2>4. Len(V) = Len(volumes) /\ \A j \in 1 .. Len(volumes) : j # i => V[j] = volumes[j]
    BY <1>2, <1>3, <2>2
  <2>5. V[i] = [volumes[i] EXCEPT !.readOnly = r]
    BY <1>2, <1>3, <2>2
  <2>6. VolumeFields(volumes[i])
    BY <1>2 DEF VInv, Owned
  <2>7. V[i].disk = volumes[i].disk /\ V[i].nr = volumes[i].nr /\ V[i].by = volumes[i].by /\ V[i].sb = volumes[i].sb
    BY <2>5, <2>6 DEF VolumeFields
  <2>8. Fits(volumes[i])
    BY <1>2 DEF Sized
  <2>9. Fits(V[i])
    BY <2>7, <2>8 DEF Fits
  <2>10. Sized(V)
    BY <1>2, <2>4, <2>9 DEF Sized
  <2> QED
    BY <1>2, <2>1, <2>3, <2>10, StaysSized
<1>6. ASSUME NEW d \in DOMAIN disks, NEW nr \in Number, NEW chance \in Chances, Mount(d, nr, chance)
      PROVE  SInv'
  <2>1. PICK o : o = Open(d, nr, chance.fails)
    OBVIOUS
  <2>2. Bounded /\ MountOpened(o, d, nr, "number", chance)
    BY <1>6, <2>1 DEF Mount
  <2>3. DOMAIN o.handles = 1 .. MaxHandles /\ Opens(o.handles)
    BY <2>1, <2>2, OpenOpens
  <2> QED
    BY <2>1, <2>2, <2>3, MountKeepsSInv
<1>7. ASSUME NEW d \in DOMAIN disks, NEW nr \in Number, NEW chance \in Chances,
             MountByName(d, nr, chance) \/ MountBFS(d, nr, chance)
      PROVE  SInv'
  <2>1. PICK o : o = OpenDevice(d, nr, chance.fails)
    OBVIOUS
  <2>2. Bounded /\ MountOpened(o, d, nr, "name", chance)
    BY <1>7, <2>1 DEF MountByName, MountBFS
  <2>3. DOMAIN o.handles = 1 .. MaxHandles /\ Opens(o.handles)
    BY <2>1, <2>2, OpenOpens
  <2> QED
    BY <2>2, <2>3, MountKeepsSInv
<1> QED
  BY <1>1, <1>4, <1>5, <1>6, <1>7, InitializeKeepsSInv DEF VolumeNext

\* The walks of Open and CountSkyfsPartitions, and MountOpened: a volume of the
\* window is not larger than its partition, where the two number it alike, and each
\* partition that is counted is found.
THEOREM VolumesFitTheirPartition == VolumeSpec => []FitsPartition
<1>1. VInv /\ SInv => FitsPartition
  <2> SUFFICES ASSUME VInv, SInv PROVE FitsPartition
    OBVIOUS
  <2>1. CountedAreFound
    <3> DEFINE found(d) == walks[d].found
               count(d) == CountSkyfsPartitions(disks[d], TRUE) + CountSkyfsPartitions(disks[d], FALSE)
               ours(d) == {i \in DOMAIN found(d) : found(d)[i].type \in {"skyfs", "bfs"}}
    <3>1. ASSUME NEW d \in DOMAIN disks, ~ Full(disks[d]),
                 \A i \in ours(d) : found(d)[i].primary => found(d)[i].type = "skyfs"
          PROVE  count(d) = Cardinality(ours(d)) /\ UNION {Saved(found(d), nr) : nr \in 0 .. count(d) - 1} = ours(d)
      <4>1. Tables(disks[d]) /\ found(d) = Walk(disks[d]).found
        BY DEF SInv, OurDevices
      <4>2. found(d) \in Seq(Found)
        BY <4>1, WalkIs
      <4>3. count(d) = Cardinality(ours(d))
        BY <3>1, <4>1, CountsTogether
      <4>4. PICK f, O, c : f \in Seq(Found) /\ f = found(d) /\ O = ours(d) /\ c = count(d)
        BY <4>2
      <4>5. O = {i \in DOMAIN f : f[i].type \in {"skyfs", "bfs"}} /\ c = Cardinality(O)
            /\ \A i \in O : f[i].primary => f[i].type = "skyfs"
        BY <3>1, <4>3, <4>4
      <4>6. UNION {Saved(f, nr) : nr \in 0 .. c - 1} = O
        BY <4>4, <4>5, CountedAreSaved
      <4> QED
        BY <4>3, <4>4, <4>6
    <3> QED
      BY <3>1 DEF CountedAreFound
  <2>2. ASSUME NEW i \in DOMAIN volumes, NEW v, v = volumes[i], NEW found, found = walks[v.disk].found,
               v.by = "number", handles[v.handle][2] = v.nr + 1,
               found[v.nr + 1].type \in {"skyfs", "bfs"}, NumbersAgree(found, v.nr + 1)
        PROVE  v.sb.numBlocks * (v.sb.blockSize \div SectorSize) <= found[v.nr + 1].size
    <3>1. i \in 1 .. Len(volumes)
      BY DEF VInv, Owned
    <3>2. Fits(v) /\ v.nr \in Nat
      BY <2>2, <3>1 DEF SInv, Sized, Fits
    <3>3. v.handle \in 1 .. MaxHandles /\ handles[v.handle] # Closed /\ handles[v.handle] \in Places(v, Given)
      BY <2>2, <3>1 DEF VInv, Owned
    <3>4. handles[v.handle] = <<v.disk, v.nr + 1>>
      BY <2>2, <3>2, <3>3 DEF Places, Place
    <3>5. Device(<<v.disk, v.nr + 1>>)
      BY <3>3, <3>4 DEF SInv, Opens
    <3>6. PICK d \in DOMAIN disks, k \in Nat : k <= Len(walks[d].found) /\ <<v.disk, v.nr + 1>> = <<d, k>>
      BY <3>5 DEF Device
    <3>7. v.disk \in DOMAIN disks /\ v.nr + 1 <= Len(found) /\ found \in Seq(Found)
      BY <2>2, <3>6, WalkIs DEF SInv, OurDevices
    <3>8. v.nr + 1 \in 1 .. Len(found) /\ IsOurs(found[v.nr + 1])
      BY <2>2, <3>2, <3>7 DEF IsOurs
    <3> QED
      BY <2>2, <3>2, <3>8 DEF Fits
  <2> QED
    BY <2>1, <2>2 DEF FitsPartition
<1>2. VolumeInit => VInv /\ SInv
  BY InitVInv, InitSInv
<1>3. VInv /\ SInv /\ [VolumeNext]_volumeVars => (VInv /\ SInv)'
  BY NextVInv, NextSInv
<1> QED
  BY <1>1, <1>2, <1>3, PTL DEF VolumeSpec

\* Volume::Initialize and disk_super_block::Initialize: what is written on a device,
\* of any size, is a file system that Mount takes, whose groups cover the device, and
\* whose log is behind its bitmap.
THEOREM FormattedCanBeMounted == VolumeSpec => []FormattedMounts
<1>1. VInv /\ SInv => FormattedMounts
  BY DEF SInv, Made, Mountable, FormattedMounts
<1>2. VolumeInit => VInv /\ SInv
  BY InitVInv, InitSInv
<1>3. VInv /\ SInv /\ [VolumeNext]_volumeVars => (VInv /\ SInv)'
  BY NextVInv, NextSInv
<1> QED
  BY <1>1, <1>2, <1>3, PTL DEF VolumeSpec

-----------------------------------------------------------------------------
(* The window.                                                             *)

Fields(c) ==
  c = [inode |-> c.inode, open |-> c.open, size |-> c.size, left |-> c.left, block |-> c.block,
       offset |-> c.offset, buffer |-> c.buffer, written |-> c.written, failed |-> c.failed]

\* A copy that can be written to.
Growing(c) ==
  /\ c.size \in Nat /\ c.left \in Nat /\ c.offset \in Nat
  /\ c.block \in 1 .. c.left \/ (c.left = 0 /\ c.block \in Nat)
  /\ c.buffer \in Seq(Nat) /\ c.written \in Seq(Nat)
  /\ c.block <= Len(c.buffer)
  /\ Len(c.written) = c.offset
  /\ c.offset + c.left = c.size
  /\ ~ c.failed => c.written = [k \in 1 .. c.offset |-> k]

\* One that cannot: nothing is written, and what is left does not change.
Stuck(c) == c.written = <<>> /\ c.size \in Nat /\ c.left = c.size

Sound(c) == Fields(c) /\ (IF c.open THEN Growing(c) ELSE Stuck(c))

Whole(c) ==
  /\ Len(c.written) = c.size
  /\ ~ c.failed => c.written = [k \in 1 .. c.size |-> k]

\* When nothing is left, the copy is whole.
LEMMA DoneIsWhole ==
  ASSUME NEW c, Sound(c), c.left <= 0
  PROVE  Whole(c)
<1>1. CASE c.open
  <2>1. c.offset = c.size
    BY <1>1 DEF Sound, Growing
  <2> QED
    BY <1>1, <2>1 DEF Sound, Growing, Whole
<1>2. CASE ~ c.open
  <2>1. c.size = 0 /\ c.written = <<>>
    BY <1>2 DEF Sound, Stuck
  <2>2. [k \in 1 .. 0 |-> k] = <<>>
    OBVIOUS
  <2> QED
    BY <2>1, <2>2 DEF Whole
<1> QED
  BY <1>1, <1>2

\* A copy begins sound.
LEMMA BeginSound ==
  ASSUME NEW inode, NEW open \in BOOLEAN, NEW size \in Nat, NEW block \in Nat,
         block = IF size < Block THEN size ELSE Block,
         NEW c, c = [inode |-> inode, open |-> open, size |-> size, left |-> size, block |-> block, offset |-> 0,
                     buffer |-> [k \in 1 .. block |-> 0], written |-> <<>>, failed |-> FALSE]
  PROVE  Sound(c)
<1>1. [k \in 1 .. block |-> 0] \in Seq(Nat) /\ Len([k \in 1 .. block |-> 0]) = block
  OBVIOUS
<1>2. [k \in 1 .. 0 |-> k] = <<>>
  OBVIOUS
<1> DEFINE zeros == [k \in 1 .. block |-> 0]
<1>3. zeros \in Seq(Nat) /\ Len(zeros) = block
  BY <1>1
<1> HIDE DEF zeros
<1>4. Fields(c) /\ c.open = open
  BY DEF Fields
<1>5. /\ c.size = size /\ c.left = size /\ c.block = block /\ c.offset = 0 /\ c.written = <<>>
      /\ c.buffer = zeros
  BY DEF zeros
<1>6. Stuck(c)
  BY <1>5 DEF Stuck
<1>7. Growing(c)
  <2>1. c.block \in 1 .. c.left \/ (c.left = 0 /\ c.block \in Nat)
    BY <1>5, BrowserAssumption
  <2> QED
    BY <1>2, <1>3, <1>5, <2>1 DEF Growing
<1> QED
  BY <1>4, <1>6, <1>7 DEF Sound

\* What a round reads is as long as it should be, and is the next bytes of the file.
LEMMA ReadNext ==
  ASSUME Growing(copy), copy.left > 0
  PROVE  /\ Read(copy.offset, copy.block) = [k \in 1 .. copy.block |-> copy.offset + k]
         /\ Read(copy.offset, copy.block) \in Seq(Nat)
         /\ Len(Read(copy.offset, copy.block)) = copy.block
<1>1. /\ copy.block \in Nat /\ copy.offset \in Nat /\ copy.size \in Nat
      /\ copy.offset < copy.size
      /\ copy.offset + copy.block <= copy.size
  BY DEF Growing
<1>2. PICK length : length = IF copy.offset + copy.block > copy.size THEN copy.size - copy.offset ELSE copy.block
  OBVIOUS
<1>3. Read(copy.offset, copy.block) = [k \in 1 .. length |-> copy.offset + k]
  BY <1>1, <1>2 DEF Read
<1>4. length = copy.block
  BY <1>1, <1>2
<1>5. \A k \in 1 .. copy.block : copy.offset + k \in Nat
  BY <1>1
<1> QED
  BY <1>1, <1>3, <1>4, <1>5

\* What is read is put over the beginning of the buffer.
LEMMA BufferFilled ==
  ASSUME NEW old \in Seq(Nat), NEW read \in Seq(Nat), Len(read) <= Len(old),
         NEW new, new = read \o SubSeq(old, Len(read) + 1, Len(old))
  PROVE  /\ new \in Seq(Nat) /\ Len(new) = Len(old)
         /\ \A k \in 1 .. Len(read) : new[k] = read[k]
<1>1. PICK rest : rest = SubSeq(old, Len(read) + 1, Len(old))
  OBVIOUS
<1>2. /\ Len(old) \in Nat /\ Len(read) \in Nat
      /\ \A i \in Len(read) + 1 .. Len(old) : old[i] \in Nat
  OBVIOUS
<1>3. rest \in Seq(Nat) /\ Len(rest) = Len(old) - Len(read)
  BY <1>1, <1>2, SubSeqProperties
<1>4. /\ read \o rest \in Seq(Nat)
      /\ Len(read \o rest) = Len(read) + Len(rest)
      /\ \A i \in 1 .. Len(read) + Len(rest) : (read \o rest)[i] = IF i <= Len(read) THEN read[i] ELSE rest[i - Len(read)]
  BY <1>3, ConcatProperties
<1> QED
  BY <1>1, <1>2, <1>3, <1>4

\* The beginning of the buffer is put behind what was written.
LEMMA BlockWritten ==
  ASSUME NEW written \in Seq(Nat), NEW buffer \in Seq(Nat), NEW n \in 0 .. Len(buffer),
         NEW new, new = written \o SubSeq(buffer, 1, n)
  PROVE  /\ new \in Seq(Nat)
         /\ Len(new) = Len(written) + n
         /\ written = [k \in 1 .. Len(written) |-> k] /\ (\A k \in 1 .. n : buffer[k] = Len(written) + k)
              => new = [k \in 1 .. Len(written) + n |-> k]
<1>1. PICK part : part = SubSeq(buffer, 1, n)
  OBVIOUS
<1>2. /\ n \in Int /\ 0 <= n /\ Len(written) \in Nat
      /\ \A i \in 1 .. n : buffer[i] \in Nat
  OBVIOUS
<1>3. /\ part \in Seq(Nat) /\ Len(part) = n
      /\ \A i \in 1 .. n : part[i] = buffer[i]
  BY <1>1, <1>2, SubSeqProperties
<1>4. /\ written \o part \in Seq(Nat)
      /\ Len(written \o part) = Len(written) + Len(part)
      /\ \A i \in 1 .. Len(written) + Len(part) :
           (written \o part)[i] = IF i <= Len(written) THEN written[i] ELSE part[i - Len(written)]
  BY <1>3, ConcatProperties
<1>5. /\ new \in Seq(Nat) /\ Len(new) = Len(written) + n
      /\ \A i \in 1 .. Len(written) + n : new[i] = IF i <= Len(written) THEN written[i] ELSE buffer[i - Len(written)]
  BY <1>1, <1>2, <1>3, <1>4
<1>6. SUFFICES ASSUME written = [k \in 1 .. Len(written) |-> k],
                      \A k \in 1 .. n : buffer[k] = Len(written) + k
               PROVE  new = [k \in 1 .. Len(written) + n |-> k]
  BY <1>5
<1>7. ASSUME NEW i \in 1 .. Len(written) + n
      PROVE  new[i] = i
  <2>1. CASE i <= Len(written)
    BY <1>2, <1>5, <1>6, <2>1
  <2>2. CASE ~ (i <= Len(written))
    <3>1. i - Len(written) \in 1 .. n /\ Len(written) + (i - Len(written)) = i
      BY <1>2, <2>2
    <3> QED
      BY <1>5, <1>6, <2>2, <3>1
  <2> QED
    BY <2>1, <2>2
<1>8. PICK m : m = Len(written) + n
  OBVIOUS
<1>9. new = [k \in 1 .. m |-> new[k]]
  BY <1>5, <1>8
<1>10. \A k \in 1 .. m : new[k] = k
  BY <1>7, <1>8
<1> QED
  BY <1>8, <1>9, <1>10

\* A round appends the block it has, and the next one is not longer than what is left.
LEMMA RoundSound ==
  ASSUME Sound(copy), copy.left > 0, NEW fails \in BOOLEAN,
         NEW d, d = BlockCopied(copy, Read(copy.offset, copy.block), fails)
  PROVE  Sound(d)
<1> DEFINE read == Read(copy.offset, copy.block)
           length == IF fails THEN copy.block ELSE Len(read)
           buffer == IF fails THEN copy.buffer ELSE read \o SubSeq(copy.buffer, Len(read) + 1, Len(copy.buffer))
           left == IF copy.open THEN copy.left - length ELSE copy.left
           written == IF copy.open THEN copy.written \o SubSeq(buffer, 1, length) ELSE copy.written
           block == IF left < length THEN left ELSE length
<1>1. d = [copy EXCEPT !.buffer = buffer, !.left = left, !.failed = copy.failed \/ fails,
                       !.offset = copy.offset + length, !.written = written, !.block = block]
  BY DEF BlockCopied
<1>2. /\ Fields(d) /\ d.open = copy.open /\ d.size = copy.size
      /\ d.buffer = buffer /\ d.left = left /\ d.failed = (copy.failed \/ fails)
      /\ d.offset = copy.offset + length /\ d.written = written /\ d.block = block
  <2> HIDE DEF read, length, buffer, left, written, block
  <2> QED
    BY <1>1 DEF Sound, Fields
<1>3. CASE ~ copy.open
  <2>1. written = copy.written /\ left = copy.left
    BY <1>3
  <2> HIDE DEF read, length, buffer, left, written, block
  <2> QED
    BY <1>2, <1>3, <2>1 DEF Sound, Stuck
<1>4. CASE copy.open
  <2>1. Growing(copy)
    BY <1>4 DEF Sound
  <2>2. /\ read = [k \in 1 .. copy.block |-> copy.offset + k]
        /\ read \in Seq(Nat) /\ Len(read) = copy.block
    BY <2>1, ReadNext
  <2>3. /\ copy.block \in 1 .. copy.left /\ copy.block \in Nat /\ copy.left \in Nat
        /\ copy.buffer \in Seq(Nat) /\ copy.block <= Len(copy.buffer)
        /\ copy.written \in Seq(Nat) /\ copy.offset \in Nat /\ Len(copy.written) = copy.offset
        /\ copy.size \in Nat /\ copy.offset + copy.left = copy.size
    BY <2>1 DEF Growing
  <2> HIDE DEF read
  <2>4. length = copy.block
    BY <2>2
  <2>5. /\ buffer \in Seq(Nat) /\ Len(buffer) = Len(copy.buffer)
        /\ ~ fails => \A k \in 1 .. copy.block : buffer[k] = copy.offset + k
    <3>1. CASE fails
      BY <2>3, <3>1
    <3>2. CASE ~ fails
      <4>1. buffer = read \o SubSeq(copy.buffer, Len(read) + 1, Len(copy.buffer))
        BY <3>2
      <4> HIDE DEF buffer
      <4>2. /\ buffer \in Seq(Nat) /\ Len(buffer) = Len(copy.buffer)
            /\ \A k \in 1 .. Len(read) : buffer[k] = read[k]
        <5>1. PICK old \in Seq(Nat) : old = copy.buffer
          BY <2>3
        <5>2. Len(read) <= Len(old) /\ buffer = read \o SubSeq(old, Len(read) + 1, Len(old))
          BY <2>2, <2>3, <4>1, <5>1
        <5>3. PICK r \in Seq(Nat) : r = read
          BY <2>2
        <5>4. PICK new : new = buffer
          OBVIOUS
        <5>5. Len(r) <= Len(old) /\ new = r \o SubSeq(old, Len(r) + 1, Len(old))
          BY <5>2, <5>3, <5>4
        <5>6. /\ new \in Seq(Nat) /\ Len(new) = Len(old)
              /\ \A k \in 1 .. Len(r) : new[k] = r[k]
          BY <5>5, BufferFilled
        <5> QED
          BY <5>1, <5>3, <5>4, <5>6
      <4> QED
        BY <2>2, <4>2
    <3> QED
      BY <3>1, <3>2
  <2> HIDE DEF length, buffer
  <2>6. copy.block \in 0 .. Len(buffer)
    BY <2>3, <2>5
  <2>7. /\ written = copy.written \o SubSeq(buffer, 1, copy.block)
        /\ left = copy.left - copy.block
        /\ block = IF left < copy.block THEN left ELSE copy.block
    BY <1>4, <2>4
  <2> HIDE DEF left, written, block
  <2>8. /\ written \in Seq(Nat)
        /\ Len(written) = Len(copy.written) + copy.block
        /\ copy.written = [k \in 1 .. Len(copy.written) |-> k]
             /\ (\A k \in 1 .. copy.block : buffer[k] = Len(copy.written) + k)
             => written = [k \in 1 .. Len(copy.written) + copy.block |-> k]
    <3>1. PICK w \in Seq(Nat) : w = copy.written
      BY <2>3
    <3>2. PICK n \in 0 .. Len(buffer) : n = copy.block
      BY <2>6
    <3>3. written = w \o SubSeq(buffer, 1, n)
      BY <2>7, <3>1, <3>2
    <3>4. PICK b \in Seq(Nat) : b = buffer
      BY <2>5
    <3>5. PICK new : new = written
      OBVIOUS
    <3>6. n \in 0 .. Len(b) /\ new = w \o SubSeq(b, 1, n)
      BY <3>3, <3>4, <3>5
    <3>7. /\ new \in Seq(Nat)
          /\ Len(new) = Len(w) + n
          /\ w = [k \in 1 .. Len(w) |-> k] /\ (\A k \in 1 .. n : b[k] = Len(w) + k)
               => new = [k \in 1 .. Len(w) + n |-> k]
      BY <3>6, BlockWritten
    <3> QED
      BY <3>1, <3>2, <3>4, <3>5, <3>7
  <2>9. ~ copy.failed /\ ~ fails => written = [k \in 1 .. copy.offset + copy.block |-> k]
    <3>1. ~ copy.failed => copy.written = [k \in 1 .. copy.offset |-> k]
      BY <2>1 DEF Growing
    <3> QED
      BY <2>3, <2>5, <2>8, <3>1
  <2>10. /\ left \in Nat /\ block <= Len(buffer)
         /\ block \in 1 .. left \/ (left = 0 /\ block \in Nat)
    <3>1. PICK b \in Nat : b = copy.block
      BY <2>3
    <3>2. PICK l \in Nat : l = copy.left
      BY <2>3
    <3>3. b \in 1 .. l /\ b <= Len(buffer) /\ left = l - b
      BY <2>3, <2>5, <2>7, <3>1, <3>2
    <3>4. block = IF left < b THEN left ELSE b
      BY <2>7, <3>1
    <3> QED
      BY <3>3, <3>4
  <2>11. copy.offset + copy.block + left = copy.size
    BY <2>3, <2>7, SMTT(60)
  <2>12. /\ d.size = copy.size /\ d.left = left /\ d.block = block /\ d.offset = copy.offset + copy.block
         /\ d.buffer = buffer /\ d.written = written /\ (~ d.failed => ~ copy.failed /\ ~ fails)
    BY <1>2, <2>4
  <2>13. Growing(d)
    <3>1. d.offset + d.left = d.size /\ d.size \in Nat /\ d.offset \in Nat
      BY <2>3, <2>11, <2>12
    <3>2. d.written \in Seq(Nat) /\ Len(d.written) = d.offset
      BY <2>3, <2>8, <2>12
    <3>3. ~ d.failed => d.written = [k \in 1 .. d.offset |-> k]
      BY <2>9, <2>12
    <3>4. d.left \in Nat /\ d.block <= Len(d.buffer) /\ d.buffer \in Seq(Nat)
      BY <2>5, <2>10, <2>12
    <3>5. d.block \in 1 .. d.left \/ (d.left = 0 /\ d.block \in Nat)
      BY <2>10, <2>12
    <3> QED
      BY <3>1, <3>2, <3>3, <3>4, <3>5 DEF Growing
  <2> QED
    BY <1>2, <1>4, <2>13 DEF Sound
<1> QED
  BY <1>3, <1>4

-----------------------------------------------------------------------------

\* The copy that is made is sound, and one that was finished is whole.
CopyInv ==
  /\ copy # NoCopy => Sound(copy)
  /\ CopyWhole

LEMMA NextCopyInv == CopyInv /\ [Next]_vars => CopyInv'
<1> SUFFICES ASSUME CopyInv, [Next]_vars PROVE CopyInv'
  OBVIOUS
<1>1. CASE UNCHANGED <<copy, copied>>
  BY <1>1 DEF CopyInv, CopyWhole
<1>2. ASSUME NEW i \in DOMAIN items, NEW n \in 0 .. Entries(items[i].inode), Select(i, n)
      PROVE  CopyInv'
  BY <1>2 DEF Select, CopyInv, CopyWhole
<1>3. ASSUME NEW i \in DOMAIN items, NEW open \in BOOLEAN, Copy(i, open)
      PROVE  CopyInv'
  <2>1. PICK size : size = Size[items[i].inode]
    OBVIOUS
  <2>2. PICK block : block = IF size < Block THEN size ELSE Block
    OBVIOUS
  <2>3. size \in Nat /\ block \in Nat
    BY <1>3, <2>1, <2>2, BrowserAssumption DEF Copy, IsFile
  <2>4. /\ copy' = [inode |-> items[i].inode, open |-> open, size |-> size, left |-> size, block |-> block, offset |-> 0,
                    buffer |-> [k \in 1 .. block |-> 0], written |-> <<>>, failed |-> FALSE]
        /\ copied' = NoCopy
    BY <1>3, <2>1, <2>2 DEF Copy
  <2>5. PICK c : c = copy'
    OBVIOUS
  <2>6. Sound(c)
    BY <2>2, <2>3, <2>4, <2>5, BeginSound
  <2> QED
    BY <2>4, <2>5, <2>6 DEF CopyInv, CopyWhole
<1>4. ASSUME NEW fails \in BOOLEAN, CopyBlock(fails)
      PROVE  CopyInv'
  <2>1. copy # NoCopy
    BY <1>4 DEF CopyBlock, NoCopy
  <2>2. PICK d : d = copy'
    OBVIOUS
  <2>3. Sound(d)
    BY <1>4, <2>1, <2>2, RoundSound DEF CopyInv, CopyBlock
  <2> QED
    BY <1>4, <2>2, <2>3 DEF CopyInv, CopyWhole, CopyBlock
<1>5. CASE CopyDone
  <2>1. Whole(copy)
    BY <1>5, DoneIsWhole DEF CopyDone, CopyInv
  <2> QED
    BY <1>5, <2>1 DEF CopyDone, CopyInv, CopyWhole, Whole
<1>6. ASSUME NEW chance \in Chances, Visit(chance)
      PROVE  CopyInv'
  BY <1>1, <1>6 DEF Visit
<1>7. CASE UNCHANGED vars
  BY <1>1, <1>7 DEF vars
<1> QED
  BY <1>2, <1>3, <1>4, <1>5, <1>6, <1>7 DEF Next

\* The copy loop of the window, which counts the bytes that are left by those it
\* wrote and ignores what skyfs_read returns, ends with the whole file.
THEOREM FinishedCopyIsWhole == Spec => []CopyWhole
<1>1. Init => CopyInv
  BY DEF Init, CopyInv, CopyWhole
<1>2. CopyInv => CopyWhole
  BY DEF CopyInv
<1> QED
  BY <1>1, <1>2, NextCopyInv, PTL DEF Spec

-----------------------------------------------------------------------------
(* Sequences whose elements are not known.                                 *)

SomeSeq(s) == Len(s) \in Nat /\ s = [i \in 1 .. Len(s) |-> s[i]]

LEMMA ElementsOf ==
  ASSUME NEW s, SomeSeq(s)
  PROVE  /\ s \in Seq({s[i] : i \in 1 .. Len(s)}) /\ DOMAIN s = 1 .. Len(s)
         /\ Range(s) = {s[i] : i \in 1 .. Len(s)}
<1>1. PICK n \in Nat : n = Len(s)
  BY DEF SomeSeq
<1>2. s = [i \in 1 .. n |-> s[i]]
  BY <1>1 DEF SomeSeq
<1>3. DOMAIN s = 1 .. n
  BY <1>2
<1>4. s \in [1 .. n -> {s[i] : i \in 1 .. n}]
  BY <1>2
<1> QED
  BY <1>1, <1>3, <1>4 DEF Range

LEMMA SeqIs ==
  ASSUME NEW S, NEW s \in Seq(S)
  PROVE  SomeSeq(s)
BY DEF SomeSeq

Lists(t, n) == t = [k \in 1 .. n |-> t[k]]

JoinedAs(u, s, t, n) ==
  /\ SomeSeq(u) /\ Len(u) = Len(s) + n
  /\ \A i \in 1 .. Len(u) : u[i] = IF i <= Len(s) THEN s[i] ELSE t[i - Len(s)]

LEMMA Joined ==
  ASSUME NEW s, SomeSeq(s), NEW n \in Nat, NEW t, Lists(t, n), NEW u, u = s \o t
  PROVE  JoinedAs(u, s, t, n)
<1>1. PICK S : S = {s[i] : i \in 1 .. Len(s)} \cup {t[i] : i \in 1 .. n}
  OBVIOUS
<1>2. s \in Seq(S)
  <2>1. s \in Seq({s[i] : i \in 1 .. Len(s)})
    BY ElementsOf
  <2>2. {s[i] : i \in 1 .. Len(s)} \subseteq S
    BY <1>1
  <2> QED
    BY <2>1, <2>2
<1>3. t \in Seq(S) /\ Len(t) = n
  BY <1>1 DEF Lists
<1>4. /\ u \in Seq(S) /\ Len(u) = Len(s) + n
      /\ \A i \in 1 .. Len(s) + n : u[i] = IF i <= Len(s) THEN s[i] ELSE t[i - Len(s)]
  BY <1>2, <1>3, ConcatProperties
<1> QED
  BY <1>4, SeqIs DEF JoinedAs

AppendedTo(u, s, x) ==
  /\ SomeSeq(u) /\ Len(u) = Len(s) + 1 /\ u[Len(u)] = x
  /\ \A i \in 1 .. Len(s) : u[i] = s[i]
  /\ Range(u) = Range(s) \cup {x}

LEMMA Appended ==
  ASSUME NEW s, SomeSeq(s), NEW x, NEW u, u = Append(s, x)
  PROVE  AppendedTo(u, s, x)
<1>1. PICK S : S = {s[i] : i \in 1 .. Len(s)} \cup {x}
  OBVIOUS
<1>2. PICK n \in Nat : n = Len(s)
  BY DEF SomeSeq
<1>3. s \in Seq(S)
  <2>1. s = [i \in 1 .. n |-> s[i]] /\ \A i \in 1 .. n : s[i] \in S
    BY <1>1, <1>2 DEF SomeSeq
  <2> QED
    BY <2>1
<1>4. u \in Seq(S) /\ Len(u) = n + 1 /\ u[n + 1] = x /\ \A i \in 1 .. n : u[i] = s[i]
  BY <1>1, <1>2, <1>3
<1>5. Range(u) = {u[i] : i \in 1 .. n + 1} /\ Range(s) = {s[i] : i \in 1 .. n}
  <2>1. SomeSeq(u)
    BY <1>4, SeqIs
  <2>2. Range(u) = {u[i] : i \in 1 .. Len(u)} /\ Range(s) = {s[i] : i \in 1 .. Len(s)}
    BY ONLY <2>1, SomeSeq(s), ElementsOf
  <2> QED
    BY <1>2, <1>4, <2>2
<1>6. {u[i] : i \in 1 .. n + 1} = {s[i] : i \in 1 .. n} \cup {x}
  <2>1. \A i \in 1 .. n + 1 : i = n + 1 \/ i \in 1 .. n
    OBVIOUS
  <2>2. \A i \in 1 .. n : i \in 1 .. n + 1
    OBVIOUS
  <2>3. n + 1 \in 1 .. n + 1
    OBVIOUS
  <2> QED
    BY <1>4, <2>1, <2>2, <2>3
<1> QED
  BY <1>2, <1>4, <1>5, <1>6, SeqIs DEF AppendedTo

-----------------------------------------------------------------------------
(* What is first.                                                          *)

LEMMA FirstOfIs ==
  ASSUME NEW S, S \subseteq Nat
  PROVE  IF S = {} THEN FirstOf(S) = 0 ELSE FirstOf(S) \in S /\ \A x \in S : FirstOf(S) <= x
BY LeastNumber DEF FirstOf

\* Every element has a rank of its own, so each rank is had.
LEMMA InOrderIs ==
  ASSUME NEW S, S \subseteq Nat, IsFiniteSet(S)
  PROVE  \E m \in Nat : /\ InOrder(S) = [k \in 1 .. m |-> InOrder(S)[k]]
                        /\ \A k \in 1 .. m : InOrder(S)[k] \in S
                        /\ \A k, l \in 1 .. m : InOrder(S)[k] = InOrder(S)[l] => k = l
<1> DEFINE upTo(x) == {y \in S : y <= x}
           rank == [x \in S |-> Cardinality(upTo(x))]
<1>1. PICK m \in Nat : m = Cardinality(S)
  BY FS_CardinalityType
<1>2. \A x \in S : IsFiniteSet(upTo(x)) /\ Cardinality(upTo(x)) \in Nat /\ Cardinality(upTo(x)) <= m
  BY <1>1, FS_Subset, FS_CardinalityType
<1>3. ASSUME NEW x \in S
      PROVE  rank[x] \in 1 .. m
  <2>1. x \in upTo(x)
    OBVIOUS
  <2>2. Cardinality(upTo(x)) # 0
    BY <1>2, <2>1, FS_EmptySet
  <2> HIDE DEF upTo
  <2> QED
    BY <1>2, <2>2
<1>4. ASSUME NEW x \in S, NEW y \in S, x < y
      PROVE  rank[x] < rank[y]
  <2>1. upTo(x) \subseteq upTo(y) /\ y \in upTo(y) /\ y \notin upTo(x)
    <3>1. \A z \in S : z \in Nat
      OBVIOUS
    <3>2. \A z \in S : z <= x => z <= y
      BY <1>4, <3>1
    <3>3. y <= y /\ ~ (y <= x)
      BY <1>4, <3>1
    <3> QED
      BY <3>2, <3>3
  <2>2. Cardinality(upTo(x)) < Cardinality(upTo(y))
    <3> HIDE DEF upTo
    <3>1. upTo(x) # upTo(y)
      BY <2>1
    <3> QED
      BY <1>2, <2>1, <3>1, FS_Subset
  <2> HIDE DEF upTo
  <2> QED
    BY <2>2
<1>5. rank \in Surjection(S, 1 .. m)
  <2> HIDE DEF upTo
  <2>1. rank \in [S -> 1 .. m]
    <3>1. rank = [x \in S |-> rank[x]]
      OBVIOUS
    <3> QED
      BY <1>3, <3>1
  <2>2. \A x, y \in S : rank[x] = rank[y] => x = y
    <3> SUFFICES ASSUME NEW x \in S, NEW y \in S, rank[x] = rank[y] PROVE x = y
      OBVIOUS
    <3>1. ~ (x < y) /\ ~ (y < x)
      <4>1. rank[x] \in Nat /\ rank[y] \in Nat
        BY <1>3
      <4> HIDE DEF rank
      <4> QED
        BY <1>4, <4>1
    <3> QED
      BY <3>1
  <2> HIDE DEF rank
  <2>3. rank \in Injection(S, 1 .. m)
    BY <2>1, <2>2 DEF Injection, IsInjective
  <2>4. IsFiniteSet(1 .. m) /\ Cardinality(1 .. m) = m
    BY FS_Interval
  <2> QED
    BY <1>1, <2>3, <2>4, FS_Injection
<1>6. \A k \in 1 .. m : \E x \in S : Cardinality(upTo(x)) = k
  BY <1>5 DEF Surjection
<1>7. InOrder(S) = [k \in 1 .. m |-> CHOOSE x \in S : Cardinality(upTo(x)) = k]
  BY <1>1 DEF InOrder
<1> HIDE DEF upTo
<1>8. \A k \in 1 .. m : InOrder(S)[k] \in S /\ Cardinality(upTo(InOrder(S)[k])) = k
  BY <1>6, <1>7
<1>9. InOrder(S) = [k \in 1 .. m |-> InOrder(S)[k]]
  BY <1>7
<1> QED
  BY <1>8, <1>9

-----------------------------------------------------------------------------
(* The tree.                                                               *)

IsItem(x) ==
  x = [parent |-> x.parent, level |-> x.level, name |-> x.name, disk |-> x.disk, nr |-> x.nr,
       volume |-> x.volume, inode |-> x.inode, entries |-> x.entries]

\* An item stays where and what it is.
Remains(x, y) ==
  /\ y.parent = x.parent /\ y.level = x.level /\ y.name = x.name
  /\ y.disk = x.disk /\ y.nr = x.nr /\ y.inode = x.inode

\* An item y that is added below the item x, which is the i-th.
Below(x, i, y) ==
  /\ y.parent = i /\ y.level \in {2, x.level + 1}
  /\ y.disk = x.disk /\ y.nr = x.nr
  /\ [name |-> y.name, inode |-> y.inode] \in Range(Directory[x.inode])

Items(its) == SomeSeq(its) /\ \A i \in 1 .. Len(its) : IsItem(its[i])

\* The directory of the i-th item is listed, which has the volume v.
Grows(its, i, v, new) ==
  /\ Items(new) /\ Len(new) >= Len(its)
  /\ \A j \in 1 .. Len(its) : Remains(its[j], new[j]) /\ new[j].volume = IF j = i THEN v ELSE its[j].volume
  /\ \A j \in Len(its) + 1 .. Len(new) : Below(its[i], i, new[j]) /\ new[j].volume = v
  /\ \A j, k \in Len(its) + 1 .. Len(new) : new[j].name = new[k].name => j = k

LEMMA ListDirGrows ==
  ASSUME NEW its, Items(its), NEW i \in 1 .. Len(its), NEW n \in 0 .. Entries(its[i].inode),
         NEW new, new = ListDir(its, i, n)
  PROVE  Grows(its, i, its[i].volume, new)
<1>1. PICK len \in Nat : len = Len(its)
  BY DEF Items, SomeSeq
<1>2. CASE ~ IsDirectory(its[i].inode)
  <2>1. new = its
    BY <1>2 DEF ListDir
  <2>2. \A j \in len + 1 .. len : FALSE
    BY <1>1
  <2> QED
    BY <1>1, <2>1, <2>2 DEF Grows, Items, Remains
<1>3. CASE IsDirectory(its[i].inode)
  <2>1. PICK entries : entries = Directory[its[i].inode]
    OBVIOUS
  <2>2. PICK m \in Nat : m = Len(entries) /\ n \in 0 .. m /\ n \in Nat
    BY <1>3, <2>1, TreesAssumption DEF Entries, IsDirectory
  <2>3. /\ DOMAIN entries = 1 .. m
        /\ \A k \in 1 .. m : /\ entries[k] \in Range(entries)
                            /\ entries[k] = [name |-> entries[k].name, inode |-> entries[k].inode]
        /\ \A k, l \in 1 .. m : entries[k].name = entries[l].name => k = l
    <3>1. entries \in Seq(Range(entries))
      BY <1>3, <2>1, TreesAssumption DEF IsDirectory
    <3>2. DOMAIN entries = 1 .. m
      BY <2>2, <3>1
    <3>3. \A k \in 1 .. m : entries[k] \in Range(entries)
      BY <3>2 DEF Range
    <3>4. /\ \A e \in Range(entries) : e = [name |-> e.name, inode |-> e.inode]
          /\ \A k, l \in DOMAIN entries : entries[k].name = entries[l].name => k = l
      BY <1>3, <2>1, TreesAssumption DEF IsDirectory
    <3> QED
      BY <3>2, <3>3, <3>4
  <2>4. PICK S : S = {k \in 2 .. n : entries[k].name \notin {".", ".."}}
    OBVIOUS
  <2>5. S \subseteq Nat /\ S \subseteq 1 .. m /\ IsFiniteSet(S)
    <3>1. S \subseteq 2 .. n
      BY <2>4
    <3>2. IsFiniteSet(2 .. n)
      BY <2>2, FS_Interval
    <3>3. 2 .. n \subseteq Nat /\ 2 .. n \subseteq 1 .. m
      BY <2>2
    <3> QED
      BY <3>1, <3>2, <3>3, FS_Subset
  <2>6. PICK shown : shown = InOrder(S)
    OBVIOUS
  <2>7. PICK c \in Nat : /\ shown = [k \in 1 .. c |-> shown[k]]
                         /\ \A k \in 1 .. c : shown[k] \in S
                         /\ \A k, l \in 1 .. c : shown[k] = shown[l] => k = l
    BY <2>5, <2>6, InOrderIs
  <2> DEFINE front == [its EXCEPT ![i].entries = n]
             added == [k \in DOMAIN shown |-> Child(its, i, entries[shown[k]])]
  <2>8. new = front \o added
    BY <1>3, <2>1, <2>4, <2>6 DEF ListDir
  <2>9. /\ SomeSeq(front) /\ Len(front) = len
        /\ \A j \in 1 .. len : IsItem(front[j]) /\ Remains(its[j], front[j]) /\ front[j].volume = its[j].volume
    <3>1. its = [j \in 1 .. len |-> its[j]]
      BY <1>1 DEF Items, SomeSeq
    <3>2. front = [j \in 1 .. len |-> IF j = i THEN [its[i] EXCEPT !.entries = n] ELSE its[j]]
      BY <3>1
    <3> HIDE DEF front
    <3>3. front = [j \in 1 .. len |-> front[j]] /\ front \in Seq({front[j] : j \in 1 .. len}) /\ Len(front) = len
      BY <3>2
    <3>4. ASSUME NEW j \in 1 .. len
          PROVE  IsItem(front[j]) /\ Remains(its[j], front[j]) /\ front[j].volume = its[j].volume
      <4>1. IsItem(its[j])
        BY <1>1 DEF Items
      <4>2. CASE j # i
        <5>1. front[j] = its[j]
          BY <3>2, <4>2
        <5> QED
          BY <4>1, <5>1 DEF Remains
      <4>3. CASE j = i
        <5>1. front[j] = [its[j] EXCEPT !.entries = n]
          BY <3>2, <4>3
        <5>2. PICK x : x = its[j]
          OBVIOUS
        <5>3. front[j] = [parent |-> x.parent, level |-> x.level, name |-> x.name, disk |-> x.disk, nr |-> x.nr,
                          volume |-> x.volume, inode |-> x.inode, entries |-> n]
          BY <4>1, <5>1, <5>2 DEF IsItem
        <5> QED
          BY <5>2, <5>3 DEF Remains, IsItem
      <4> QED
        BY <4>2, <4>3
    <3> QED
      BY <3>3, <3>4 DEF SomeSeq
  <2>10. added = [k \in 1 .. c |-> added[k]] /\ \A k \in 1 .. c : added[k] = Child(its, i, entries[shown[k]])
    BY <2>7
  <2> HIDE DEF front, added
  <2>11. /\ SomeSeq(new) /\ Len(new) = len + c
         /\ \A j \in 1 .. Len(new) : new[j] = IF j <= len THEN front[j] ELSE added[j - len]
    <3>1. PICK f, t : f = front /\ t = added
      OBVIOUS
    <3>2. SomeSeq(f) /\ Lists(t, c) /\ new = f \o t /\ Len(f) = len
      BY <2>8, <2>9, <2>10, <3>1 DEF Lists
    <3>3. JoinedAs(new, f, t, c)
      BY ONLY <3>2, c \in Nat, Joined
    <3> QED
      BY <3>1, <3>2, <3>3 DEF JoinedAs
  <2>12. ASSUME NEW k \in 1 .. c
         PROVE  /\ IsItem(added[k]) /\ Below(its[i], i, added[k]) /\ added[k].volume = its[i].volume
                /\ shown[k] \in 1 .. m /\ added[k].name = entries[shown[k]].name
    <3>1. PICK e : e = entries[shown[k]]
      OBVIOUS
    <3>2. shown[k] \in 1 .. m /\ e \in Range(entries) /\ e = [name |-> e.name, inode |-> e.inode]
      BY <2>3, <2>5, <2>7, <3>1
    <3>3. PICK level : level = IF IsDirectory(e.inode) THEN its[i].level + 1 ELSE 2
      OBVIOUS
    <3>4. added[k] = [parent |-> i, level |-> level, name |-> e.name, disk |-> its[i].disk, nr |-> its[i].nr,
                      volume |-> its[i].volume, inode |-> e.inode, entries |-> 0]
      BY <2>10, <3>1, <3>3 DEF Child, Item
    <3>5. /\ IsItem(added[k]) /\ added[k].name = e.name /\ added[k].inode = e.inode
          /\ added[k].volume = its[i].volume
      BY <3>4 DEF IsItem
    <3>6. Below(its[i], i, added[k])
      BY <2>1, <3>2, <3>3, <3>4 DEF Below
    <3> QED
      BY <3>1, <3>2, <3>5, <3>6
  <2>13. /\ \A j \in 1 .. len : j \in 1 .. len + c /\ j <= len
         /\ \A j \in len + 1 .. len + c : j \in 1 .. len + c /\ ~ (j <= len) /\ j - len \in 1 .. c
         /\ \A j \in 1 .. len + c : j \in 1 .. len \/ j \in len + 1 .. len + c
         /\ len + c >= len
    OBVIOUS
  <2>14. /\ \A j \in 1 .. len : new[j] = front[j]
         /\ \A j \in len + 1 .. len + c : new[j] = added[j - len]
    BY <2>11, <2>13
  <2>15. \A j \in 1 .. len + c : IsItem(new[j])
    BY <2>9, <2>12, <2>13, <2>14
  <2>16. \A j, k \in len + 1 .. len + c : new[j].name = new[k].name => j = k
    <3> SUFFICES ASSUME NEW j \in len + 1 .. len + c, NEW k \in len + 1 .. len + c, new[j].name = new[k].name
                 PROVE  j = k
      OBVIOUS
    <3>1. PICK p \in 1 .. c, q \in 1 .. c : p = j - len /\ q = k - len
      BY <2>13
    <3>2. entries[shown[p]].name = entries[shown[q]].name
      BY <2>12, <2>14, <3>1
    <3>3. p = q
      BY <2>3, <2>7, <2>12, <3>2
    <3> QED
      BY <3>1, <3>3
  <2> QED
    <3>1. Items(new) /\ Len(new) >= Len(its)
      BY <1>1, <2>11, <2>13, <2>15 DEF Items
    <3>2. \A j \in 1 .. len : Remains(its[j], new[j]) /\ new[j].volume = its[j].volume
      BY <2>9, <2>14
    <3>3. \A j \in len + 1 .. len + c : Below(its[i], i, new[j]) /\ new[j].volume = its[i].volume
      BY <2>12, <2>13, <2>14
    <3> QED
      BY <1>1, <2>11, <2>16, <3>1, <3>2, <3>3 DEF Grows
<1> QED
  BY <1>2, <1>3

\* Parents are in front of their children; items without one are on the level 0.
Tree(its) ==
  /\ Items(its)
  /\ \A i \in 1 .. Len(its) :
       /\ its[i].level \in Nat /\ its[i].parent \in 0 .. i - 1
       /\ its[i].level = 0 <=> its[i].parent = 0
       /\ its[i].level = 1 => its[its[i].parent].level = 0
       /\ its[i].level >= 2 => its[its[i].parent].level >= 1

\* The first b items are devices, each with its partitions behind it.
Base(its, b) ==
  /\ b \in 0 .. Len(its)
  /\ \A i \in 1 .. b :
       /\ its[i].level \in {0, 1}
       /\ its[i].level = 1 => \A j \in its[i].parent + 1 .. i : its[j].level = 1 /\ its[j].parent = its[i].parent
  /\ \A i \in b + 1 .. Len(its) : its[i].level >= 2

\* While the walk goes on there are, besides, the root directories of partitions up to the place at.
Shallow(its, b, at) ==
  \A i \in b + 1 .. Len(its) :
    its[i].level = 2 /\ its[i].parent \in 1 .. b /\ its[i].parent <= at /\ its[its[i].parent].level = 1

Following(b, i) == IF i < b THEN i + 1 ELSE 0

LEMMA SiblingIs ==
  ASSUME NEW its, Tree(its), NEW i \in 1 .. Len(its)
  PROVE  LET s == Sibling(its, i)
         IN  IF s = 0 THEN \A j \in i + 1 .. Len(its) : its[j].parent # its[i].parent
             ELSE /\ s \in i + 1 .. Len(its) /\ its[s].parent = its[i].parent
                  /\ \A j \in i + 1 .. Len(its) : its[j].parent = its[i].parent => s <= j
<1>1. PICK n \in Nat : n = Len(its)
  BY DEF Tree, Items, SomeSeq
<1>2. PICK S : S = {j \in i + 1 .. n : its[j].parent = its[i].parent}
  OBVIOUS
<1>3. S \subseteq Nat /\ 0 \notin S
  BY <1>1, <1>2
<1>4. Sibling(its, i) = FirstOf(S)
  BY <1>1, <1>2 DEF Sibling
<1>5. IF S = {} THEN FirstOf(S) = 0 ELSE FirstOf(S) \in S /\ \A x \in S : FirstOf(S) <= x
  BY <1>3, FirstOfIs
<1> QED
  BY <1>1, <1>2, <1>3, <1>4, <1>5

\* The sibling of a device is the next one, which is behind its partitions.
LEMMA NextDevice ==
  ASSUME NEW its, Tree(its), NEW b, Base(its, b), NEW i \in 1 .. b, its[i].level = 0,
         NEW at \in i .. b, \A j \in i + 1 .. at : its[j].level = 1,
         at < b => its[at + 1].level = 0
  PROVE  Sibling(its, i) = Following(b, at)
<1>1. PICK n \in Nat, c \in Nat, k \in Nat : n = Len(its) /\ c = b /\ k = at /\ c <= n /\ k \in i .. c
  BY DEF Tree, Items, SomeSeq, Base
<1>2. i \in 1 .. n /\ its[i].parent = 0
  BY <1>1 DEF Tree
<1>3. \A j \in 1 .. n : its[j].parent = 0 <=> its[j].level = 0
  BY <1>1 DEF Tree
<1>4. PICK s : s = Sibling(its, i)
  OBVIOUS
<1>5. IF s = 0 THEN \A j \in i + 1 .. n : its[j].parent # 0
      ELSE s \in i + 1 .. n /\ its[s].parent = 0 /\ \A j \in i + 1 .. n : its[j].parent = 0 => s <= j
  BY <1>1, <1>2, <1>4, SiblingIs
<1>6. \A j \in i + 1 .. n : its[j].parent = 0 => j \in k + 1 .. c
  <2>1. \A j \in i + 1 .. k : its[j].level # 0
    BY <1>1
  <2>2. \A j \in c + 1 .. n : its[j].level # 0
    BY <1>1 DEF Base
  <2>3. \A j \in i + 1 .. n : j \in 1 .. n /\ (j \in i + 1 .. k \/ j \in k + 1 .. c \/ j \in c + 1 .. n)
    BY <1>1
  <2> QED
    BY <1>3, <2>1, <2>2, <2>3
<1>7. CASE k < c
  <2>1. k + 1 \in 1 .. n /\ k + 1 \in i + 1 .. n /\ its[k + 1].parent = 0
    BY <1>1, <1>3, <1>7
  <2>2. s # 0
    BY <1>5, <2>1
  <2>3. s \in k + 1 .. c /\ s <= k + 1
    BY <1>5, <1>6, <2>1, <2>2
  <2> QED
    BY <1>1, <1>4, <1>7, <2>3 DEF Following
<1>8. CASE ~ (k < c)
  <2>1. s = 0
    BY <1>1, <1>5, <1>6, <1>8
  <2> QED
    BY <1>1, <1>4, <1>8, <2>1 DEF Following
<1> QED
  BY <1>7, <1>8

\* A partition is on a device.
LEMMA PartitionIs ==
  ASSUME NEW its, Tree(its), NEW p \in 1 .. Len(its), its[p].level = 1
  PROVE  its[p].parent \in Nat /\ its[p].parent \in 1 .. p - 1 /\ its[its[p].parent].level = 0
<1>1. its[p].parent \in 0 .. p - 1 /\ its[p].parent # 0 /\ its[its[p].parent].level = 0
  BY DEF Tree
<1>2. PICK k \in Nat : k = p
  BY DEF Tree, Items, SomeSeq
<1> QED
  BY <1>1, <1>2

\* Behind a partition is the next one of its device, or the next device.
LEMMA BehindPartition ==
  ASSUME NEW its, Tree(its), NEW b, Base(its, b), NEW p \in 1 .. b, its[p].level = 1
  PROVE  /\ Following(b, p) = IF Sibling(its, p) # 0 THEN Sibling(its, p) ELSE Sibling(its, its[p].parent)
         /\ its[p].parent \in 1 .. Len(its) /\ its[its[p].parent].level = 0
<1>1. PICK n \in Nat, c \in Nat, k \in Nat : n = Len(its) /\ c = b /\ k = p /\ c <= n /\ k \in 1 .. c
  BY DEF Tree, Items, SomeSeq, Base
<1>2. PICK d \in Nat : d = its[p].parent /\ d \in 1 .. k - 1 /\ its[d].level = 0
  <2>1. p \in 1 .. Len(its)
    BY <1>1
  <2> QED
    BY <1>1, <2>1, PartitionIs
<1>3. \A j \in d + 1 .. k : its[j].level = 1 /\ its[j].parent = d
  BY <1>1, <1>2 DEF Base
<1>4. \A j \in k + 1 .. n : its[j].parent = d => k < c /\ its[k + 1].level = 1
  <2> SUFFICES ASSUME NEW j \in k + 1 .. n, its[j].parent = d PROVE k < c /\ its[k + 1].level = 1
    OBVIOUS
  <2>1. j \in 1 .. n
    BY <1>1
  <2>2. its[j].level \in Nat /\ its[j].level # 0 /\ ~ (its[j].level >= 2)
    <3>1. /\ its[j].level \in Nat
          /\ its[j].level = 0 => its[j].parent = 0
          /\ its[j].level >= 2 => its[its[j].parent].level >= 1
      BY <1>1, <2>1 DEF Tree
    <3>2. d # 0 /\ its[d].level = 0
      BY <1>2
    <3> QED
      BY ONLY <3>1, <3>2, its[j].parent = d
  <2>3. ~ (j \in c + 1 .. n)
    BY <1>1, <2>2 DEF Base
  <2>4. j \in 1 .. c /\ its[j].level = 1
    <3>1. PICK v \in Nat : v = its[j].level
      BY <2>2
    <3>2. v = 1
      BY ONLY <2>2, <3>1, v \in Nat
    <3>3. j \in 1 .. c
      BY ONLY n \in Nat, c \in Nat, <2>1, <2>3
    <3> QED
      BY ONLY <3>1, <3>2, <3>3
  <2>5. \A i \in d + 1 .. j : its[i].level = 1
    BY <1>1, <2>4 DEF Base
  <2>6. k + 1 \in d + 1 .. j /\ k < c
    BY <1>1, <1>2, <2>4
  <2> QED
    BY <2>5, <2>6
<1>5. PICK s : s = Sibling(its, p)
  OBVIOUS
<1>6. IF s = 0 THEN \A j \in k + 1 .. n : its[j].parent # d
      ELSE s \in k + 1 .. n /\ its[s].parent = d /\ \A j \in k + 1 .. n : its[j].parent = d => s <= j
  <2>1. p \in 1 .. Len(its)
    BY <1>1
  <2> QED
    BY <1>1, <1>2, <1>5, <2>1, SiblingIs
<1>7. CASE k < c /\ its[k + 1].level = 1
  <2>1. its[k + 1].parent = d
    <3>1. k + 1 \in 1 .. c /\ k + 1 \in 1 .. n
      BY <1>1, <1>7
    <3>2. PICK e \in Nat : e = its[k + 1].parent /\ e \in 1 .. k /\ its[e].level = 0
      <4>1. /\ its[k + 1].parent \in Nat /\ its[k + 1].parent \in 1 .. (k + 1) - 1
            /\ its[its[k + 1].parent].level = 0
        BY <1>1, <1>7, <3>1, PartitionIs
      <4> QED
        BY <4>1
    <3>3. \A j \in e + 1 .. k + 1 : its[j].level = 1 /\ its[j].parent = e
      BY <1>1, <1>7, <3>1, <3>2 DEF Base
    <3>4. e # k
      BY <1>1, <3>2
    <3>5. k \in e + 1 .. k + 1
      BY <1>1, <3>2, <3>4
    <3> QED
      BY <1>1, <1>2, <3>2, <3>3, <3>5
  <2>2. k + 1 \in k + 1 .. n
    BY <1>1, <1>7
  <2>3. s # 0 /\ s <= k + 1 /\ s \in k + 1 .. n
    BY <1>6, <2>1, <2>2
  <2>4. s = k + 1
    BY <2>3
  <2> QED
    BY <1>1, <1>2, <1>5, <1>7, <2>3, <2>4 DEF Following
<1>8. CASE ~ (k < c /\ its[k + 1].level = 1)
  <2>1. s = 0
    BY <1>4, <1>6, <1>8
  <2>2. d \in 1 .. b /\ p \in d .. b /\ (p < b => its[p + 1].level = 0)
    <3>1. k < c => k + 1 \in 1 .. c
      BY <1>1
    <3>2. k < c => its[k + 1].level \in {0, 1}
      BY <1>1, <3>1 DEF Base
    <3>3. d \in 1 .. c /\ k \in d .. c
      BY <1>1, <1>2
    <3> QED
      BY <1>1, <1>8, <3>2, <3>3
  <2>3. Sibling(its, d) = Following(b, p)
    <3>1. /\ d \in 1 .. b /\ its[d].level = 0 /\ p \in d .. b
          /\ \A j \in d + 1 .. p : its[j].level = 1
          /\ p < b => its[p + 1].level = 0
      BY <1>1, <1>2, <1>3, <2>2
    <3> QED
      BY ONLY <3>1, Tree(its), Base(its, b), NextDevice
  <2> QED
    BY <1>1, <1>2, <1>5, <2>1, <2>3
<1> QED
  BY <1>7, <1>8

\* The way up from an item of the first three levels.
LEMMA UpIs ==
  ASSUME NEW its, Tree(its), NEW i \in 1 .. Len(its),
         \A j \in 1 .. Len(its) : its[j].level \in 0 .. 2 /\ (its[j].level = 2 => its[its[j].parent].level = 1)
  PROVE  /\ its[i].level = 0 => GetNextUpItem(its, i) = 0
         /\ its[i].level = 1 => GetNextUpItem(its, i) = Sibling(its, its[i].parent)
         /\ its[i].level = 2 => LET p == its[i].parent
                               IN  GetNextUpItem(its, i) = IF Sibling(its, p) # 0 THEN Sibling(its, p)
                                                           ELSE Sibling(its, its[p].parent)
<1>1. PICK n \in Nat : n = Len(its)
  BY DEF Tree, Items, SomeSeq
<1> DEFINE above(j) == its[j].parent
           top(j) == j = 0 \/ above(j) = 0
           sib(j) == Sibling(its, j)
           one(j) == IF top(j) THEN 0 ELSE sib(above(j))
           two(j) == IF top(j) THEN 0 ELSE IF sib(above(j)) # 0 THEN sib(above(j)) ELSE one(above(j))
           Ups(f) == f = [j \in 0 .. n |-> IF top(j) THEN 0 ELSE IF sib(above(j)) # 0 THEN sib(above(j)) ELSE f[above(j)]]
           up == CHOOSE f : Ups(f)
<1>2. GetNextUpItem(its, i) = up[i]
  BY <1>1 DEF GetNextUpItem
<1>3. ASSUME NEW j \in 0 .. n, ~ top(j)
      PROVE  /\ j \in 1 .. n /\ above(j) \in 1 .. n /\ above(j) \in 0 .. n
             /\ its[j].level = 1 => top(above(j))
             /\ its[j].level = 2 => ~ top(above(j)) /\ its[above(j)].level = 1
             /\ its[j].level \in {1, 2}
  <2>1. j \in 1 .. n
    BY <1>3
  <2>2. above(j) \in 1 .. n
    BY <1>1, <1>3, <2>1 DEF Tree
  <2>3. its[j].level \in {1, 2}
    BY <1>1, <1>3, <2>1 DEF Tree
  <2>4. its[j].level = 1 => its[above(j)].level = 0
    BY <1>1, <2>1 DEF Tree
  <2>5. its[j].level = 2 => its[above(j)].level = 1
    BY <1>1, <2>1
  <2>6. its[above(j)].level = 0 <=> above(above(j)) = 0
    BY <1>1, <2>2 DEF Tree
  <2> HIDE DEF above
  <2>7. above(j) # 0
    BY <1>3
  <2>8. above(j) \in 0 .. n
    BY <1>1, <2>2
  <2>9. its[j].level = 1 => top(above(j))
    BY <2>4, <2>6
  <2>10. its[j].level = 2 => ~ top(above(j)) /\ its[above(j)].level = 1
    BY <1>1, <2>2, <2>5, <2>6
  <2> QED
    BY <2>1, <2>2, <2>3, <2>8, <2>9, <2>10
<1>4. \E f : Ups(f)
  <2> DEFINE f == [j \in 0 .. n |-> two(j)]
  <2>1. ASSUME NEW j \in 0 .. n
        PROVE  f[j] = IF top(j) THEN 0 ELSE IF sib(above(j)) # 0 THEN sib(above(j)) ELSE f[above(j)]
    <3>1. CASE top(j)
      BY <3>1
    <3>2. CASE ~ top(j)
      <4>1. above(j) \in 0 .. n /\ one(above(j)) = two(above(j))
        <5>1. CASE its[j].level = 1
          <6>1. top(above(j)) /\ above(j) \in 0 .. n
            BY <1>3, <3>2, <5>1
          <6> HIDE DEF top, sib, above
          <6> QED
            BY <6>1
        <5>2. CASE its[j].level = 2
          <6>1. ~ top(above(j)) /\ above(j) \in 0 .. n /\ its[above(j)].level = 1
            BY <1>3, <3>2, <5>2
          <6>2. top(above(above(j)))
            BY <1>3, <6>1
          <6> HIDE DEF top, sib, above
          <6> QED
            BY <6>1, <6>2
        <5> QED
          BY <1>3, <3>2, <5>1, <5>2
      <4> HIDE DEF top, sib, above, one
      <4> QED
        BY <3>2, <4>1
    <3> QED
      BY <3>1, <3>2
  <2> HIDE DEF two, top, sib, above
  <2>2. Ups(f)
    BY <2>1
  <2> QED
    BY <2>2
<1>5. \A j \in 0 .. n : up[j] = IF top(j) THEN 0 ELSE IF sib(above(j)) # 0 THEN sib(above(j)) ELSE up[above(j)]
  <2> HIDE DEF top, sib, above
  <2>1. Ups(up)
    <3> HIDE DEF Ups
    <3> QED
      BY <1>4
  <2> HIDE DEF up
  <2> QED
    BY <2>1
<1> HIDE DEF up
<1>6. i \in 0 .. n /\ i # 0
  BY <1>1
<1>7. its[i].level = 0 <=> above(i) = 0
  BY <1>1 DEF Tree
<1>8. CASE its[i].level = 0
  BY <1>2, <1>5, <1>6, <1>7, <1>8
<1>9. CASE its[i].level = 1
  <2>1. ~ top(i) /\ top(above(i)) /\ above(i) \in 0 .. n
    <3>1. ~ top(i)
      BY <1>6, <1>7, <1>9
    <3> QED
      BY <1>3, <1>6, <1>9, <3>1
  <2> HIDE DEF top, sib
  <2>2. up[above(i)] = 0
    BY <1>5, <2>1
  <2>3. up[i] = sib(above(i))
    BY <1>5, <1>6, <2>1, <2>2
  <2> USE DEF sib
  <2> QED
    BY <1>2, <1>9, <2>3
<1>10. CASE its[i].level = 2
  <2>1. ~ top(i)
    BY <1>6, <1>7, <1>10
  <2>2. ~ top(above(i)) /\ above(i) \in 0 .. n /\ its[above(i)].level = 1
    BY <1>3, <1>6, <1>10, <2>1
  <2>3. above(above(i)) \in 0 .. n /\ top(above(above(i)))
    BY <1>3, <2>2
  <2> HIDE DEF top, sib, above
  <2>4. up[above(above(i))] = 0
    BY <1>5, <2>3
  <2>5. up[above(i)] = sib(above(above(i)))
    BY <1>5, <2>2, <2>4
  <2>6. up[i] = IF sib(above(i)) # 0 THEN sib(above(i)) ELSE sib(above(above(i)))
    BY <1>5, <1>6, <2>1, <2>5
  <2> USE DEF sib, above
  <2> QED
    BY <1>2, <1>10, <2>6
<1> QED
  BY <1>8, <1>9, <1>10

\* The place in the base that belongs to an item of the walk.
PlaceOf(its, b, i) == IF i <= b THEN i ELSE its[i].parent

\* Where the walk goes: into what was listed at its place, or to the next place.
Visits(its, b, at, next) ==
  \/ next \in b + 1 .. Len(its) /\ its[next].parent = at
  \/ next = Following(b, at)

LEMMA ChildIs ==
  ASSUME NEW its, Tree(its), NEW i \in 1 .. Len(its),
         NEW c, c = FirstOf({j \in DOMAIN its : its[j].parent = i})
  PROVE  IF c = 0 THEN \A j \in 1 .. Len(its) : its[j].parent # i
         ELSE c \in 1 .. Len(its) /\ its[c].parent = i /\ \A j \in 1 .. Len(its) : its[j].parent = i => c <= j
<1>1. PICK n \in Nat : n = Len(its)
  BY DEF Tree, Items, SomeSeq
<1>2. DOMAIN its = 1 .. n
  BY <1>1, ElementsOf DEF Tree, Items
<1>3. PICK S : S = {j \in 1 .. n : its[j].parent = i}
  OBVIOUS
<1>4. S \subseteq Nat /\ 0 \notin S /\ c = FirstOf(S)
  BY <1>2, <1>3
<1>5. IF S = {} THEN FirstOf(S) = 0 ELSE FirstOf(S) \in S /\ \A x \in S : FirstOf(S) <= x
  BY <1>4, FirstOfIs
<1> QED
  BY <1>1, <1>3, <1>4, <1>5

LEMMA NextVisitedIs ==
  ASSUME NEW its, Tree(its), NEW b, Base(its, b), NEW i \in 1 .. Len(its),
         NEW at, at = PlaceOf(its, b, i), Shallow(its, b, at)
  PROVE  at \in 1 .. b /\ Visits(its, b, at, NextVisited(its, i))
<1>1. PICK n \in Nat, c \in Nat, k \in Nat : n = Len(its) /\ c = b /\ k = i /\ c <= n /\ k \in 1 .. n
  BY DEF Tree, Items, SomeSeq, Base
<1>2. \A j \in 1 .. n : j \in 1 .. c \/ j \in c + 1 .. n
  BY <1>1
<1>3. \A j \in 1 .. n : its[j].level \in 0 .. 2 /\ (its[j].level = 2 => its[its[j].parent].level = 1)
  BY <1>1, <1>2 DEF Base, Shallow
<1>4. CASE i \in c + 1 .. n
  <2>1. /\ its[i].level = 2 /\ at = its[i].parent /\ at \in 1 .. b /\ its[at].level = 1
    BY <1>1, <1>4 DEF Shallow, PlaceOf
  <2>2. NextVisited(its, i) = GetNextUpItem(its, i)
    BY <2>1 DEF NextVisited
  <2>3. GetNextUpItem(its, i) = IF Sibling(its, at) # 0 THEN Sibling(its, at) ELSE Sibling(its, its[at].parent)
    BY <1>1, <1>3, <2>1, UpIs
  <2>4. NextVisited(its, i) = Following(b, at)
    BY <2>1, <2>2, <2>3, BehindPartition
  <2> QED
    BY <2>1, <2>4 DEF Visits
<1>5. CASE i \in 1 .. c
  <2>1. at = i /\ at \in 1 .. b /\ its[i].level \in {0, 1}
    BY <1>1, <1>5 DEF PlaceOf, Base
  <2>2. PICK child : child = FirstOf({j \in DOMAIN its : its[j].parent = i})
    OBVIOUS
  <2>3. IF child = 0 THEN \A j \in 1 .. n : its[j].parent # i
        ELSE child \in 1 .. n /\ its[child].parent = i /\ \A j \in 1 .. n : its[j].parent = i => child <= j
    BY <1>1, <2>2, ChildIs
  <2>4. NextVisited(its, i) = IF child # 0 THEN child
                              ELSE IF Sibling(its, i) # 0 THEN Sibling(its, i) ELSE GetNextUpItem(its, i)
    BY <2>1, <2>2 DEF NextVisited, GetNext
  <2>5. CASE child # 0 /\ child \in c + 1 .. n
    BY <1>1, <2>1, <2>3, <2>4, <2>5 DEF Visits
  <2>6. CASE its[i].level = 1 /\ (child = 0 \/ child \in 1 .. c)
    <3>1. child = 0
      <4> SUFFICES ASSUME child # 0 PROVE FALSE
        OBVIOUS
      <4>1. child \in 1 .. n /\ child \in 1 .. c /\ its[child].parent = i
        BY <2>3, <2>6
      <4>2. its[child].level \in {0, 1}
        BY <1>1, <4>1 DEF Base
      <4>3. its[child].level # 0
        BY <1>1, <4>1 DEF Tree
      <4> QED
        BY <1>1, <2>6, <4>1, <4>2, <4>3 DEF Tree
    <3>2. GetNextUpItem(its, i) = Sibling(its, its[i].parent)
      BY <1>1, <1>3, <2>6, UpIs
    <3>3. Following(b, i) = IF Sibling(its, i) # 0 THEN Sibling(its, i) ELSE Sibling(its, its[i].parent)
      BY <2>1, <2>6, BehindPartition
    <3> QED
      BY <2>1, <2>4, <3>1, <3>2, <3>3 DEF Visits
  <2>7. CASE its[i].level = 0 /\ (child = 0 \/ child \in 1 .. c)
    <3>1. \A j \in 1 .. n : its[j].parent = i => its[j].level = 1 /\ j \in 1 .. c /\ k + 1 \in k + 1 .. j /\ k < c
                                                 /\ its[k + 1].level = 1 /\ its[k + 1].parent = k
      <4> SUFFICES ASSUME NEW j \in 1 .. n, its[j].parent = i
                   PROVE  its[j].level = 1 /\ j \in 1 .. c /\ k + 1 \in k + 1 .. j /\ k < c
                            /\ its[k + 1].level = 1 /\ its[k + 1].parent = k
        OBVIOUS
      <4>1. its[j].level \in Nat /\ its[j].level # 0 /\ ~ (its[j].level >= 2) /\ k \in 0 .. j - 1
        BY <1>1, <2>7 DEF Tree
      <4>2. its[j].level = 1
        BY <4>1
      <4>3. ~ (j \in c + 1 .. n)
        BY <1>1, <4>1 DEF Base
      <4>4. j \in 1 .. c
        BY <1>2, <4>3
      <4>5. \A l \in k + 1 .. j : its[l].level = 1 /\ its[l].parent = k
        BY <1>1, <4>2, <4>4 DEF Base
      <4>6. k + 1 \in k + 1 .. j /\ k < c
        BY <1>1, <4>1, <4>4
      <4> QED
        BY <4>2, <4>4, <4>5, <4>6
    <3>2. CASE child = 0
      <4>1. k < c => its[k + 1].level = 0
        <5> SUFFICES ASSUME k < c, its[k + 1].level # 0 PROVE FALSE
          OBVIOUS
        <5>1. k + 1 \in 1 .. c /\ k + 1 \in 1 .. n
          BY <1>1
        <5>2. its[k + 1].level = 1
          BY <1>1, <5>1 DEF Base
        <5>3. PICK e \in Nat : e = its[k + 1].parent /\ e \in 1 .. k
          <6>1. its[k + 1].parent \in Nat /\ its[k + 1].parent \in 1 .. (k + 1) - 1
            BY <1>1, <5>1, <5>2, PartitionIs
          <6> QED
            BY <6>1
        <5>4. \A j \in e + 1 .. k + 1 : its[j].level = 1
          BY <1>1, <5>1, <5>2, <5>3 DEF Base
        <5>5. e # k
          BY <1>1, <2>3, <3>2, <5>1, <5>3
        <5>6. k \in e + 1 .. k + 1
          BY <5>3, <5>5
        <5> QED
          BY <1>1, <2>7, <5>4, <5>6
      <4>2. Sibling(its, i) = Following(b, i)
        <5>1. i \in 1 .. b /\ i \in i .. b /\ \A j \in i + 1 .. i : its[j].level = 1
          BY <1>1, <1>5
        <5>2. i < b => its[i + 1].level = 0
          BY <1>1, <4>1
        <5> QED
          BY <2>7, <5>1, <5>2, NextDevice
      <4>3. GetNextUpItem(its, i) = 0
        BY <1>1, <1>3, <2>7, UpIs
      <4>4. Following(b, i) = IF Sibling(its, i) # 0 THEN Sibling(its, i) ELSE GetNextUpItem(its, i)
        BY <4>2, <4>3
      <4> QED
        BY <2>1, <2>4, <3>2, <4>4 DEF Visits
    <3>3. CASE child # 0
      <4>1. k < c /\ its[k + 1].parent = k /\ k \in 0 .. child - 1
        <5>1. child \in 1 .. n /\ its[child].parent = i
          BY <2>3, <3>3
        <5>2. its[child].parent \in 0 .. child - 1
          BY <1>1, <5>1 DEF Tree
        <5> QED
          BY <1>1, <3>1, <5>1, <5>2
      <4>2. child <= k + 1 /\ child \in 1 .. n
        <5>1. k + 1 \in 1 .. n
          BY <1>1, <4>1
        <5> QED
          BY <1>1, <2>3, <3>3, <4>1, <5>1
      <4>3. child = k + 1
        BY <1>1, <4>1, <4>2
      <4>4. child = Following(b, at)
        BY <1>1, <2>1, <4>1, <4>3 DEF Following
      <4> QED
        BY <2>1, <2>4, <3>3, <4>4 DEF Visits
    <3> QED
      BY <3>2, <3>3
  <2> QED
    BY <1>2, <2>1, <2>3, <2>5, <2>6, <2>7
<1> QED
  BY <1>1, <1>2, <1>4, <1>5

-----------------------------------------------------------------------------
(* The items before the walk.                                              *)

FirstItem == [parent : Nat, level : {0, 1}, name : {"device", "partition"}, disk : Nat, nr : Nat,
              volume : {0}, inode : {Root}, entries : {0}]

Planted == {s \in Seq(FirstItem) : Tree(s) /\ Base(s, Len(s))}

LEMMA DeviceAdded ==
  ASSUME NEW d \in Nat, IsFiniteSet(Listed(disks[d])), NEW s \in Planted,
         NEW u, u = s \o DeviceItems(d, Len(s))
  PROVE  u \in Planted
<1>1. PICK n \in Nat : n = Len(s)
  BY DEF Planted
<1> DEFINE Behind(i) == \A j \in s[i].parent + 1 .. i : s[j].level = 1 /\ s[j].parent = s[i].parent
<1>2. /\ s \in Seq(FirstItem)
      /\ \A i \in 1 .. n :
           /\ s[i] \in FirstItem /\ s[i].level \in {0, 1} /\ s[i].parent \in Nat
           /\ s[i].parent \in 0 .. i - 1
           /\ (s[i].level = 0) <=> (s[i].parent = 0)
           /\ (s[i].level = 1) => (s[s[i].parent].level = 0)
           /\ (s[i].level = 1) => Behind(i)
  <2>1. s \in Seq(FirstItem) /\ Tree(s) /\ Base(s, n)
    BY <1>1 DEF Planted
  <2>2. \A i \in 1 .. n : s[i] \in FirstItem
    BY <1>1, <2>1
  <2>3. \A x \in FirstItem : x.level \in {0, 1} /\ x.parent \in Nat
    BY DEF FirstItem
  <2>4. \A i \in 1 .. n : s[i].level = 1 => Behind(i)
    BY <2>1 DEF Base
  <2> HIDE DEF Behind
  <2> QED
    BY <1>1, <2>1, <2>2, <2>3, <2>4 DEF Tree
<1> HIDE DEF Behind
<1>3. PICK S : S = Listed(disks[d])
  OBVIOUS
<1>4. S \subseteq Nat /\ IsFiniteSet(S)
  BY <1>3 DEF Listed
<1>5. PICK p : p = InOrder(S)
  OBVIOUS
<1>6. PICK m \in Nat : p = [k \in 1 .. m |-> p[k]] /\ \A k \in 1 .. m : p[k] \in S
  BY <1>4, <1>5, InOrderIs
<1> DEFINE device == Item(0, 0, "device", d, 0, 0, Root)
           partition(k) == Item(n + 1, 1, "partition", d, p[k], 0, Root)
           ps == [k \in 1 .. m |-> partition(k)]
<1>7. device \in FirstItem /\ device.level = 0 /\ device.parent = 0
  BY DEF Item, FirstItem
<1>8. \A k \in 1 .. m : partition(k) \in FirstItem /\ partition(k).level = 1 /\ partition(k).parent = n + 1
  <2>1. \A k \in 1 .. m : p[k] \in Nat
    BY <1>4, <1>6
  <2> QED
    BY <2>1 DEF Item, FirstItem
<1>9. DeviceItems(d, Len(s)) = <<device>> \o ps
  <2>1. DOMAIN p = 1 .. m
    BY <1>6
  <2> QED
    BY <1>1, <1>3, <1>5, <2>1 DEF DeviceItems
<1> HIDE DEF device, partition
<1>10. /\ <<device>> \in Seq(FirstItem) /\ Len(<<device>>) = 1 /\ <<device>>[1] = device
       /\ ps \in Seq(FirstItem) /\ Len(ps) = m /\ \A k \in 1 .. m : ps[k] = partition(k)
  BY <1>7, <1>8
<1> HIDE DEF ps
<1>11. PICK x : x = <<device>> \o ps
  OBVIOUS
<1>12. /\ x \in Seq(FirstItem) /\ Len(x) = 1 + m
       /\ \A i \in 1 .. 1 + m : x[i] = IF i <= 1 THEN <<device>>[i] ELSE ps[i - 1]
  BY <1>10, <1>11, ConcatProperties
<1>13. /\ u \in Seq(FirstItem) /\ Len(u) = n + (1 + m)
       /\ \A i \in 1 .. n + (1 + m) : u[i] = IF i <= n THEN s[i] ELSE x[i - n]
  <2>1. u = s \o x
    BY <1>9, <1>11
  <2> QED
    <3>1. s \in Seq(FirstItem) /\ x \in Seq(FirstItem) /\ Len(s) = n /\ Len(x) = 1 + m
      BY <1>1, <1>2, <1>12
    <3>2. /\ s \o x \in Seq(FirstItem) /\ Len(s \o x) = Len(s) + Len(x)
          /\ \A i \in 1 .. Len(s) + Len(x) : (s \o x)[i] = IF i <= Len(s) THEN s[i] ELSE x[i - Len(s)]
      BY ONLY <3>1, ConcatProperties
    <3> QED
      BY ONLY <2>1, <3>1, <3>2
<1>14. PICK l \in Nat : l = n + (1 + m)
  OBVIOUS
<1>15. \A i \in 1 .. n : u[i] = s[i]
  BY <1>13, <1>14
<1>16. u[n + 1] = device
  <2>1. n + 1 \in 1 .. n + (1 + m) /\ ~ (n + 1 <= n) /\ (n + 1) - n = 1 /\ 1 \in 1 .. 1 + m
    OBVIOUS
  <2>2. u[n + 1] = IF n + 1 <= n THEN s[n + 1] ELSE x[(n + 1) - n]
    BY ONLY <1>13, <2>1
  <2>3. x[1] = IF 1 <= 1 THEN <<device>>[1] ELSE ps[1 - 1]
    BY ONLY <1>12, <2>1
  <2>4. u[n + 1] = x[1] /\ x[1] = <<device>>[1]
    BY <2>1, <2>2, <2>3
  <2> QED
    BY <1>10, <2>4
<1>17. \A i \in n + 2 .. l : u[i] \in FirstItem /\ u[i].level = 1 /\ u[i].parent = n + 1
  <2> SUFFICES ASSUME NEW i \in n + 2 .. l PROVE u[i] \in FirstItem /\ u[i].level = 1 /\ u[i].parent = n + 1
    OBVIOUS
  <2>1. PICK k \in 1 .. m : k = i - n - 1
    BY <1>14
  <2>2. i \in 1 .. n + (1 + m) /\ ~ (i <= n) /\ i - n = k + 1 /\ k + 1 \in 1 .. 1 + m /\ ~ (k + 1 <= 1)
    BY <1>14, <2>1
  <2>3. u[i] = x[k + 1] /\ x[k + 1] = ps[k + 1 - 1] /\ k + 1 - 1 = k
    BY <1>12, <1>13, <2>2
  <2>4. u[i] = partition(k)
    BY <1>10, <2>3
  <2> QED
    BY <1>8, <2>4
<1>18. \A i \in 1 .. l : i \in 1 .. n \/ i = n + 1 \/ i \in n + 2 .. l
  BY <1>14
<1>19. n + 1 \in 1 .. l /\ n <= l
  BY <1>14
<1>20. Tree(u)
  <2>1. \A y \in FirstItem : IsItem(y)
    BY DEF FirstItem, IsItem
  <2>2. \A i \in 1 .. l : u[i] \in FirstItem
    BY <1>2, <1>7, <1>15, <1>16, <1>17, <1>18
  <2>3. SomeSeq(u)
    BY <1>13, SeqIs
  <2>4. Items(u)
    BY <1>13, <1>14, <2>1, <2>2, <2>3 DEF Items
  <2>5. ASSUME NEW i \in 1 .. l
        PROVE  /\ u[i].level \in Nat /\ u[i].parent \in 0 .. i - 1
               /\ u[i].level = 0 <=> u[i].parent = 0
               /\ u[i].level = 1 => u[u[i].parent].level = 0
               /\ ~ (u[i].level >= 2)
    <3>1. CASE i \in 1 .. n
      <4>1. u[i] = s[i] /\ s[i].level \in {0, 1}
        BY <1>2, <1>15, <3>1
      <4>2. PICK e \in Nat : e = s[i].parent /\ e \in 0 .. i - 1
        BY <1>2, <3>1
      <4>3. s[i].level = 1 => e # 0 /\ s[e].level = 0
        BY <1>2, <3>1, <4>2
      <4>4. e # 0 => e \in 1 .. n /\ u[e] = s[e]
        <5>1. e # 0 => e \in 1 .. n
          BY ONLY <3>1, <4>2, n \in Nat
        <5> QED
          BY <1>15, <5>1
      <4>5. s[i].level = 0 <=> e = 0
        BY <1>2, <3>1, <4>2
      <4>6. u[i].parent = e /\ u[i].level \in {0, 1}
        BY <4>1, <4>2
      <4>7. u[i].level \in Nat /\ ~ (u[i].level >= 2)
        <5>1. \A v \in {0, 1} : v \in Nat /\ ~ (v >= 2)
          OBVIOUS
        <5> QED
          BY ONLY <4>6, <5>1
      <4>8. u[i].level = 1 => u[e].level = 0
        BY <4>1, <4>3, <4>4
      <4>9. u[i].level = 0 <=> e = 0
        BY <4>1, <4>5
      <4> QED
        BY <4>2, <4>6, <4>7, <4>8, <4>9
    <3>2. CASE i = n + 1
      <4>1. u[i].level = 0 /\ u[i].parent = 0
        BY <1>7, <1>16, <3>2
      <4> QED
        BY <4>1
    <3>3. CASE i \in n + 2 .. l
      <4>1. u[i].level = 1 /\ u[i].parent = n + 1
        BY <1>17, <3>3
      <4>2. n + 1 \in 0 .. i - 1 /\ n + 1 # 0
        BY <3>3
      <4>3. u[n + 1].level = 0
        BY <1>7, <1>16
      <4> QED
        BY <4>1, <4>2, <4>3
    <3> QED
      BY <1>18, <3>1, <3>2, <3>3
  <2> QED
    BY <1>13, <1>14, <2>4, <2>5 DEF Tree
<1>21. Base(u, l)
  <2>1. ASSUME NEW i \in 1 .. l
        PROVE  /\ u[i].level \in {0, 1}
               /\ u[i].level = 1 => \A j \in u[i].parent + 1 .. i : u[j].level = 1 /\ u[j].parent = u[i].parent
    <3>1. CASE i \in 1 .. n
      <4>1. u[i] = s[i] /\ s[i].level \in {0, 1} /\ s[i].parent \in Nat
        BY <1>2, <1>15, <3>1
      <4>2. PICK e \in Nat : e = s[i].parent
        BY <4>1
      <4>3. \A j \in e + 1 .. i : j \in 1 .. n
        BY <3>1
      <4>4. \A j \in e + 1 .. i : u[j] = s[j]
        BY <1>15, <4>3
      <4>5. s[i].level = 1 => \A j \in e + 1 .. i : s[j].level = 1 /\ s[j].parent = e
        BY <1>2, <3>1, <4>2 DEF Behind
      <4> QED
        BY <4>1, <4>2, <4>4, <4>5
    <3>2. CASE i = n + 1
      <4>1. u[i].level = 0
        BY <1>7, <1>16, <3>2
      <4> QED
        BY <4>1
    <3>3. CASE i \in n + 2 .. l
      <4>1. u[i].level = 1 /\ u[i].parent = n + 1
        BY <1>17, <3>3
      <4>2. \A j \in (n + 1) + 1 .. i : j \in n + 2 .. l
        BY <3>3
      <4> QED
        BY <1>17, <4>1, <4>2
    <3> QED
      BY <1>18, <3>1, <3>2, <3>3
  <2>2. l \in 0 .. Len(u) /\ \A i \in l + 1 .. Len(u) : FALSE
    BY <1>13, <1>14
  <2> QED
    BY <2>1, <2>2 DEF Base
<1> QED
  BY <1>13, <1>14, <1>20, <1>21 DEF Planted

LEMMA DevicesPlanted ==
  ASSUME NEW n \in Nat, n = Len(disks), \A d \in 1 .. n : IsFiniteSet(Listed(disks[d]))
  PROVE  Devices \in Planted
<1> DEFINE Added(d, s) == s \o DeviceItems(d, Len(s))
           All(f) == f = [d \in 0 .. n |-> IF d = 0 THEN <<>> ELSE Added(d, f[d - 1])]
           H == [d \in 1 .. n |-> [s \in Planted |-> Added(d, s)]]
           all == CHOOSE all : all = [d \in 0 .. Len(disks) |->
                    IF d = 0 THEN <<>> ELSE all[d - 1] \o DeviceItems(d, Len(all[d - 1]))]
<1>1. \A d \in 1 .. n : \A s \in Planted : Added(d, s) \in Planted
  <2> SUFFICES ASSUME NEW d \in 1 .. n, NEW s \in Planted PROVE Added(d, s) \in Planted
    OBVIOUS
  <2>1. d \in Nat /\ IsFiniteSet(Listed(disks[d]))
    OBVIOUS
  <2>2. PICK u : u = s \o DeviceItems(d, Len(s))
    OBVIOUS
  <2>3. u \in Planted
    BY <2>1, <2>2, DeviceAdded
  <2> QED
    BY <2>2, <2>3
<1>2. <<>> \in Planted
  <2>1. <<>> \in Seq(FirstItem) /\ Len(<<>>) = 0 /\ SomeSeq(<<>>) /\ \A i \in 1 .. 0 : FALSE
    <3>1. PICK e : e = <<>>
      OBVIOUS
    <3>2. e \in Seq(FirstItem) /\ Len(e) = 0
      BY <3>1
    <3>3. SomeSeq(e)
      BY ONLY <3>2, SeqIs
    <3> QED
      BY <3>1, <3>2, <3>3
  <2>2. Items(<<>>)
    BY <2>1 DEF Items
  <2>3. Tree(<<>>)
    BY <2>1, <2>2 DEF Tree
  <2>4. Base(<<>>, 0)
    BY <2>1 DEF Base
  <2> QED
    BY <2>1, <2>3, <2>4 DEF Planted
<1>3. Devices = all[n]
  BY DEF Devices
<1> HIDE DEF Added
<1>4. \A d \in 1 .. n : \A s \in Planted : H[d][s] = Added(d, s) /\ H[d][s] \in Planted
  BY <1>1
<1> HIDE DEF H
<1>5. PICK f \in [0 .. n -> Planted] : f[0] = <<>> /\ \A d \in 1 .. n : f[d] = H[d][f[d - 1]]
  <2>1. PICK b \in Planted : b = <<>>
    BY <1>2
  <2>2. Stays(n, Planted, H)
    BY <1>4 DEF Stays
  <2>3. \E f : Stepwise(n, Planted, b, H, f)
    BY <2>2, StepwiseExists
  <2> QED
    BY <2>1, <2>3 DEF Stepwise
<1>6. All(f)
  <2>1. ASSUME NEW d \in 0 .. n
        PROVE  f[d] = IF d = 0 THEN <<>> ELSE Added(d, f[d - 1])
    <3>1. CASE d = 0
      BY <1>5, <3>1
    <3>2. CASE d # 0
      <4>1. d \in 1 .. n /\ f[d - 1] \in Planted
        BY <3>2
      <4> QED
        BY <1>4, <1>5, <3>2, <4>1
    <3> QED
      BY <3>1, <3>2
  <2> QED
    BY <2>1
<1>7. All(all)
  <2>1. \A g : All(g) <=> g = [d \in 0 .. Len(disks) |-> IF d = 0 THEN <<>> ELSE g[d - 1] \o DeviceItems(d, Len(g[d - 1]))]
    BY DEF Added
  <2> QED
    BY <1>6, <2>1
<1> HIDE DEF all
<1>8. all[0] = <<>> /\ \A d \in 1 .. n : all[d] = Added(d, all[d - 1])
  BY <1>7
<1> DEFINE P == {d \in Nat : d <= n => all[d] \in Planted}
<1>9. Nat \subseteq P
  <2>1. 0 \in P
    BY <1>2, <1>8
  <2>2. ASSUME NEW d \in Nat, d \in P
        PROVE  d + 1 \in P
    <3> SUFFICES ASSUME d + 1 <= n PROVE all[d + 1] \in Planted
      OBVIOUS
    <3>1. all[d] \in Planted /\ d + 1 \in 1 .. n /\ (d + 1) - 1 = d
      BY <2>2
    <3>2. all[d + 1] = Added(d + 1, all[d])
      BY <1>8, <3>1
    <3> QED
      BY <1>1, <3>1, <3>2
  <2> HIDE DEF P
  <2> QED
    BY <2>1, <2>2, NumberInduction
<1>10. n \in P
  BY ONLY <1>9, n \in Nat
<1> QED
  BY <1>3, <1>10

-----------------------------------------------------------------------------
(* The tree grows.                                                         *)

\* The volume is set before the directory is listed.
LEMMA SetAndListed ==
  ASSUME NEW its, Items(its), NEW i \in 1 .. Len(its), NEW v, NEW n \in 0 .. Entries(its[i].inode),
         NEW new, new = ListDir([its EXCEPT ![i].volume = v], i, n)
  PROVE  Grows(its, i, v, new)
<1>1. PICK len \in Nat : len = Len(its)
  BY DEF Items, SomeSeq
<1>2. PICK set : set = [its EXCEPT ![i].volume = v]
  OBVIOUS
<1>3. /\ Items(set) /\ Len(set) = len
      /\ \A j \in 1 .. len : Remains(its[j], set[j]) /\ set[j].volume = IF j = i THEN v ELSE its[j].volume
  <2>1. its = [j \in 1 .. len |-> its[j]]
    BY <1>1 DEF Items, SomeSeq
  <2>2. set = [j \in 1 .. len |-> IF j = i THEN [its[i] EXCEPT !.volume = v] ELSE its[j]]
    BY <1>2, <2>1
  <2>3. set = [j \in 1 .. len |-> set[j]] /\ set \in Seq({set[j] : j \in 1 .. len}) /\ Len(set) = len
    BY <2>2
  <2>4. ASSUME NEW j \in 1 .. len
        PROVE  IsItem(set[j]) /\ Remains(its[j], set[j]) /\ set[j].volume = IF j = i THEN v ELSE its[j].volume
    <3>1. IsItem(its[j])
      BY <1>1 DEF Items
    <3>2. CASE j # i
      <4>1. set[j] = its[j]
        BY <2>2, <3>2
      <4> QED
        BY <3>1, <3>2, <4>1 DEF Remains
    <3>3. CASE j = i
      <4>1. set[j] = [its[j] EXCEPT !.volume = v]
        BY <2>2, <3>3
      <4>2. PICK x : x = its[j]
        OBVIOUS
      <4>3. set[j] = [parent |-> x.parent, level |-> x.level, name |-> x.name, disk |-> x.disk, nr |-> x.nr,
                      volume |-> v, inode |-> x.inode, entries |-> x.entries]
        BY <3>1, <4>1, <4>2 DEF IsItem
      <4> QED
        BY <3>3, <4>2, <4>3 DEF Remains, IsItem
    <3> QED
      BY <3>2, <3>3
  <2> QED
    BY <2>3, <2>4 DEF SomeSeq, Items
<1>4. set[i].inode = its[i].inode /\ set[i].volume = v /\ i \in 1 .. Len(set)
  BY <1>1, <1>3 DEF Remains
<1>5. Grows(set, i, v, new)
  <2>1. n \in 0 .. Entries(set[i].inode) /\ new = ListDir(set, i, n)
    BY <1>2, <1>4
  <2>2. Grows(set, i, set[i].volume, new)
    BY <1>3, <1>4, <2>1, ListDirGrows
  <2> QED
    BY <1>4, <2>2
<1>6. ASSUME NEW j \in 1 .. len
      PROVE  Remains(its[j], new[j]) /\ new[j].volume = IF j = i THEN v ELSE its[j].volume
  <2>1. Remains(set[j], new[j]) /\ new[j].volume = IF j = i THEN v ELSE set[j].volume
    BY <1>3, <1>5 DEF Grows
  <2> QED
    BY <1>3, <2>1 DEF Remains
<1>7. \A j \in len + 1 .. Len(new) : Below(its[i], i, new[j]) /\ new[j].volume = v
  <2>1. \A j \in len + 1 .. Len(new) : Below(set[i], i, new[j]) /\ new[j].volume = v
    BY <1>3, <1>5 DEF Grows
  <2>2. Remains(its[i], set[i])
    BY <1>1, <1>3
  <2> QED
    BY <2>1, <2>2 DEF Below, Remains
<1> QED
  BY <1>1, <1>3, <1>5, <1>6, <1>7 DEF Grows

LEMMA GrownTree ==
  ASSUME NEW its, Tree(its), NEW i \in 1 .. Len(its), its[i].level >= 1, NEW v, NEW new, Grows(its, i, v, new)
  PROVE  /\ Tree(new)
         /\ \A b \in 0 .. Len(its) : Base(its, b) => Base(new, b)
         /\ \A j \in Len(its) + 1 .. Len(new) : new[j].level >= 2
<1>1. PICK n \in Nat, m \in Nat : n = Len(its) /\ m = Len(new) /\ n <= m
  BY DEF Tree, Items, SomeSeq, Grows
<1>2. \A j \in 1 .. n : new[j].level = its[j].level /\ new[j].parent = its[j].parent
  BY <1>1 DEF Grows, Remains
<1>3. \A j \in n + 1 .. m : new[j].parent = i /\ new[j].level \in {2, its[i].level + 1}
  BY <1>1 DEF Grows, Below
<1>4. \A j \in 1 .. m : j \in 1 .. n \/ j \in n + 1 .. m
  BY <1>1
<1>5. its[i].level \in Nat /\ i \in 1 .. n
  BY <1>1 DEF Tree
<1>6. \A j \in n + 1 .. m : new[j].level >= 2 /\ new[j].level \in Nat /\ i \in 0 .. j - 1
  BY <1>1, <1>3, <1>5
<1>7. ASSUME NEW j \in 1 .. m
      PROVE  /\ new[j].level \in Nat /\ new[j].parent \in 0 .. j - 1
             /\ (new[j].level = 0) <=> (new[j].parent = 0)
             /\ (new[j].level = 1) => (new[new[j].parent].level = 0)
             /\ (new[j].level >= 2) => (new[new[j].parent].level >= 1)
  <2>1. CASE j \in 1 .. n
    <3>1. PICK e \in Nat : e = its[j].parent /\ e \in 0 .. j - 1
      BY <1>1, <2>1 DEF Tree
    <3>2. /\ its[j].level \in Nat /\ ((its[j].level = 0) <=> (e = 0))
          /\ (its[j].level = 1 => its[e].level = 0) /\ (its[j].level >= 2 => its[e].level >= 1)
      BY <1>1, <2>1, <3>1 DEF Tree
    <3>3. e # 0 => e \in 1 .. n
      BY <2>1, <3>1
    <3>4. e # 0 => new[e].level = its[e].level
      BY <1>2, <3>3
    <3>5. new[j].level = its[j].level /\ new[j].parent = e
      BY <1>2, <2>1, <3>1
    <3>6. its[j].level = 1 \/ its[j].level >= 2 => its[j].level # 0
      BY <3>2
    <3> QED
      BY <3>1, <3>2, <3>4, <3>5, <3>6
  <2>2. CASE j \in n + 1 .. m
    <3>1. new[i].level >= 1
      BY <1>2, <1>5
    <3>2. i # 0 /\ new[j].parent = i /\ new[j].level \in Nat /\ new[j].level >= 2 /\ i \in 0 .. j - 1
      BY <1>3, <1>5, <1>6, <2>2
    <3> QED
      BY <3>1, <3>2
  <2> QED
    BY <1>4, <2>1, <2>2
<1>8. Tree(new)
  BY <1>1, <1>7 DEF Tree, Grows
<1>9. ASSUME NEW b \in 0 .. n, Base(its, b)
      PROVE  Base(new, b)
  <2>1. \A j \in b + 1 .. n : its[j].level >= 2
    BY <1>1, <1>9 DEF Base
  <2>2. \A j \in b + 1 .. m : new[j].level >= 2
    <3>1. \A j \in b + 1 .. m : j \in b + 1 .. n \/ j \in n + 1 .. m
      BY <1>1
    <3>2. \A j \in b + 1 .. n : j \in 1 .. n
      BY <1>1
    <3> QED
      BY <1>2, <1>6, <2>1, <3>1, <3>2
  <2>3. ASSUME NEW j \in 1 .. b
        PROVE  /\ new[j].level \in {0, 1}
               /\ new[j].level = 1 =>
                    \A k \in new[j].parent + 1 .. j : new[k].level = 1 /\ new[k].parent = new[j].parent
    <3>1. j \in 1 .. n /\ its[j].level \in {0, 1}
      BY <1>1, <1>9 DEF Base
    <3>2. PICK e \in Nat : e = its[j].parent
      BY <1>1, <3>1 DEF Tree
    <3>3. its[j].level = 1 => \A k \in e + 1 .. j : its[k].level = 1 /\ its[k].parent = e
      BY <1>9, <3>2 DEF Base
    <3>4. \A k \in e + 1 .. j : k \in 1 .. n
      BY <3>1, <3>2
    <3> QED
      BY <1>2, <3>1, <3>2, <3>3, <3>4
  <2>4. b \in 0 .. m
    BY <1>1
  <2> QED
    BY <1>1, <2>2, <2>3, <2>4 DEF Base
<1> QED
  BY <1>1, <1>6, <1>8, <1>9

\* The volume of an item is one of its partition.
Leads(x, vs) == x.volume \in 1 .. Len(vs) /\ vs[x.volume].disk = x.disk /\ vs[x.volume].nr = x.nr

EntryOf(its, i) ==
  LET x == its[i]
      p == its[x.parent]
  IN  /\ x.disk = p.disk /\ x.nr = p.nr
      /\ [name |-> x.name, inode |-> x.inode] \in Range(Directory[p.inode])

OnlyOne(its, i) == \A j \in 1 .. Len(its) : its[j].parent = its[i].parent /\ its[j].name = its[i].name => j = i

Entered(its, vs) ==
  \A i \in 1 .. Len(its) :
    /\ its[i].level = 1 => its[i].inode = Root /\ (its[i].volume = 0 \/ Leads(its[i], vs))
    /\ its[i].level >= 2 => Leads(its[i], vs) /\ EntryOf(its, i) /\ OnlyOne(its, i)

LEMMA GrownEntered ==
  ASSUME NEW its, Tree(its), NEW vs, Entered(its, vs), NEW i \in 1 .. Len(its), its[i].level >= 1,
         \A j \in 1 .. Len(its) : its[j].parent # i,
         NEW v, v \in 1 .. Len(vs), vs[v].disk = its[i].disk, vs[v].nr = its[i].nr,
         NEW new, Grows(its, i, v, new)
  PROVE  Entered(new, vs)
<1>1. PICK n \in Nat, m \in Nat : n = Len(its) /\ m = Len(new) /\ n <= m
  BY DEF Tree, Items, SomeSeq, Grows
<1>2. \A j \in 1 .. n : Remains(its[j], new[j]) /\ new[j].volume = IF j = i THEN v ELSE its[j].volume
  BY <1>1 DEF Grows
<1>3. \A j \in n + 1 .. m : Below(its[i], i, new[j]) /\ new[j].volume = v
  BY <1>1 DEF Grows
<1>4. \A j \in 1 .. m : j \in 1 .. n \/ j \in n + 1 .. m
  BY <1>1
<1>5. i \in 1 .. n /\ \A j \in 1 .. n : its[j].parent # i
  BY <1>1
<1>6. ASSUME NEW j \in 1 .. n
      PROVE  /\ new[j].level = 1 => new[j].inode = Root /\ (new[j].volume = 0 \/ Leads(new[j], vs))
             /\ new[j].level >= 2 => Leads(new[j], vs) /\ EntryOf(new, j) /\ OnlyOne(new, j)
  <2>1. /\ new[j].level = its[j].level /\ new[j].parent = its[j].parent /\ new[j].inode = its[j].inode
        /\ new[j].disk = its[j].disk /\ new[j].nr = its[j].nr /\ new[j].name = its[j].name
    BY <1>2 DEF Remains
  <2>2. Leads(its[j], vs) => Leads(new[j], vs)
    <3>1. CASE j = i
      BY <1>2, <2>1, <3>1 DEF Leads
    <3>2. CASE j # i
      BY <1>2, <2>1, <3>2 DEF Leads
    <3> QED
      BY <3>1, <3>2
  <2>3. its[j].level = 1 /\ its[j].volume = 0 => new[j].volume = 0 \/ Leads(new[j], vs)
    <3>1. CASE j = i
      BY <1>2, <2>1, <3>1 DEF Leads
    <3>2. CASE j # i
      BY <1>2, <3>2
    <3> QED
      BY <3>1, <3>2
  <2>4. CASE ~ (its[j].level >= 2)
    BY <1>1, <2>1, <2>2, <2>3, <2>4 DEF Entered
  <2>5. CASE its[j].level >= 2
    <3>1. Leads(its[j], vs) /\ EntryOf(its, j) /\ OnlyOne(its, j)
      BY <1>1, <2>5 DEF Entered
    <3>2. PICK e \in 1 .. n : e = its[j].parent
      <4>1. its[j].parent \in 0 .. j - 1 /\ its[j].level # 0 /\ its[j].parent # 0
        BY <1>1, <2>5 DEF Tree
      <4> QED
        BY <1>1, <4>1
    <3>3. EntryOf(new, j)
      <4>1. new[e].disk = its[e].disk /\ new[e].nr = its[e].nr /\ new[e].inode = its[e].inode
        BY <1>2 DEF Remains
      <4> QED
        BY <2>1, <3>1, <3>2, <4>1 DEF EntryOf
    <3>4. OnlyOne(new, j)
      <4> SUFFICES ASSUME NEW k \in 1 .. m, new[k].parent = new[j].parent, new[k].name = new[j].name
                   PROVE  k = j
        BY <1>1 DEF OnlyOne
      <4>1. CASE k \in 1 .. n
        <5>1. its[k].parent = its[j].parent /\ its[k].name = its[j].name
          BY <1>2, <2>1, <4>1 DEF Remains
        <5> QED
          BY <1>1, <3>1, <4>1, <5>1 DEF OnlyOne
      <4>2. CASE k \in n + 1 .. m
        BY <1>3, <1>5, <2>1, <4>2 DEF Below
      <4> QED
        BY <1>4, <4>1, <4>2
    <3>5. ~ (new[j].level = 1)
      BY <2>1, <2>5
    <3> QED
      BY <2>2, <3>1, <3>3, <3>4, <3>5
  <2> QED
    BY <2>4, <2>5
<1>7. ASSUME NEW j \in n + 1 .. m
      PROVE  /\ ~ (new[j].level = 1)
             /\ Leads(new[j], vs) /\ EntryOf(new, j) /\ OnlyOne(new, j)
  <2>1. Below(its[i], i, new[j]) /\ new[j].volume = v
    BY <1>3
  <2>2. Remains(its[i], new[i])
    BY <1>2, <1>5
  <2>3. ~ (new[j].level = 1)
    <3>1. its[i].level \in Nat
      BY DEF Tree
    <3>2. new[j].level \in {2, its[i].level + 1}
      BY <2>1 DEF Below
    <3> QED
      BY <3>1, <3>2
  <2>4. Leads(new[j], vs)
    BY <2>1 DEF Below, Leads
  <2>5. EntryOf(new, j)
    BY <2>1, <2>2 DEF Below, EntryOf, Remains
  <2>6. OnlyOne(new, j)
    <3> SUFFICES ASSUME NEW k \in 1 .. m, new[k].parent = new[j].parent, new[k].name = new[j].name
                 PROVE  k = j
      BY <1>1 DEF OnlyOne
    <3>1. CASE k \in 1 .. n
      BY <1>2, <1>5, <2>1, <3>1 DEF Remains, Below
    <3>2. CASE k \in n + 1 .. m
      BY <1>1, <3>2 DEF Grows
    <3> QED
      BY <1>4, <3>1, <3>2
  <2> QED
    BY <2>3, <2>4, <2>5, <2>6
<1> QED
  BY <1>1, <1>4, <1>6, <1>7 DEF Entered

\* Volumes are added.
LEMMA MoreVolumes ==
  ASSUME NEW its, NEW vs, SomeSeq(vs), Entered(its, vs),
         NEW more, SomeSeq(more), Len(more) >= Len(vs), \A i \in 1 .. Len(vs) : more[i] = vs[i]
  PROVE  Entered(its, more)
<1>1. ASSUME NEW x, Leads(x, vs)
      PROVE  Leads(x, more)
  <2>1. PICK v \in 1 .. Len(vs) : v = x.volume
    BY <1>1 DEF Leads
  <2>2. v \in 1 .. Len(more) /\ more[v] = vs[v]
    BY DEF SomeSeq
  <2> QED
    BY <1>1, <2>1, <2>2 DEF Leads
<1> QED
  BY <1>1 DEF Entered

LEMMA MountAdds ==
  ASSUME SomeSeq(volumes), NEW d, NEW nr, NEW chance, Mount(d, nr, chance)
  PROVE  \/ volumes' = volumes
         \/ /\ SomeSeq(volumes') /\ Len(volumes') = Len(volumes) + 1
            /\ \A i \in 1 .. Len(volumes) : volumes'[i] = volumes[i]
            /\ volumes'[Len(volumes')].disk = d /\ volumes'[Len(volumes')].nr = nr
<1>1. PICK o : MountOpened(o, d, nr, "number", chance)
  BY DEF Mount
<1>2. PICK more, sb, readOnly : more = [disk |-> d, nr |-> nr, by |-> "number", handle |-> o.h, sb |-> sb, readOnly |-> readOnly]
                         /\ (volumes' = volumes \/ volumes' = Append(volumes, more))
  BY <1>1 DEF MountOpened
<1>3. more.disk = d /\ more.nr = nr
  BY <1>2
<1>4. CASE volumes' = Append(volumes, more)
  <2>1. PICK u : u = volumes'
    OBVIOUS
  <2>2. SomeSeq(u) /\ Len(u) = Len(volumes) + 1 /\ u[Len(u)] = more /\ \A i \in 1 .. Len(volumes) : u[i] = volumes[i]
    <3>1. AppendedTo(u, volumes, more)
      BY <1>4, <2>1, Appended
    <3> QED
      BY <3>1 DEF AppendedTo
  <2> QED
    BY <1>3, <2>1, <2>2
<1> QED
  BY <1>2, <1>4

-----------------------------------------------------------------------------
(* The walk.                                                               *)

\* Up to where the partitions were tried.
Done(b) == IF current = 0 THEN b ELSE IF current <= b THEN current - 1 ELSE items[current].parent

PartitionsTo(b, at) == {i \in 1 .. b : items[i].level = 1 /\ i <= at}

Walking(b) ==
  /\ Base(items, b) /\ current \in 0 .. Len(items)
  /\ SomeSeq(tried) /\ (\A i, j \in DOMAIN tried : tried[i] = tried[j] => i = j)
  /\ Range(tried) = PartitionsTo(b, Done(b))
  /\ current # 0 => Shallow(items, b, Done(b))

TreeInv == Tree(items) /\ SomeSeq(volumes) /\ Entered(items, volumes) /\ \E b \in Nat : Walking(b)

LEMMA InitTree == Init => TreeInv
<1> SUFFICES ASSUME Init PROVE TreeInv
  OBVIOUS
<1>1. PICK n \in Nat : n = Len(disks) /\ \A d \in 1 .. n : IsFiniteSet(Listed(disks[d]))
  <2>1. PICK s \in Systems : disks = s.disks
    BY DEF Init, VolumeInit
  <2>2. disks \in Seq(Range(disks)) /\ \A d \in DOMAIN disks : IsFiniteSet(Listed(disks[d]))
    <3>1. disks \in Seq(Range(disks))
      BY <2>1, TreesAssumption
    <3>2. ASSUME NEW d \in DOMAIN disks PROVE IsFiniteSet(Listed(disks[d]))
      <4>1. \A t \in DOMAIN disks[d].tables : disks[d].tables[t] \in Seq(Entry)
        BY <2>1, SystemsAssumption
      <4>2. Tables(disks[d])
        BY ONLY <4>1 DEF Tables
      <4> QED
        BY ONLY <4>2, ListedAreFinite
    <3> QED
      BY <3>1, <3>2
  <2> QED
    BY <2>2
<1>2. items \in Planted
  BY <1>1, DevicesPlanted DEF Init
<1>3. PICK b \in Nat : b = Len(items) /\ Tree(items) /\ Base(items, b) /\ items \in Seq(FirstItem)
  BY <1>2 DEF Planted
<1>4. SomeSeq(volumes) /\ SomeSeq(tried) /\ Len(tried) = 0 /\ tried = <<>>
  <2>1. PICK e : e = <<>>
    OBVIOUS
  <2>2. e \in Seq(Nat) /\ Len(e) = 0
    BY <2>1
  <2>3. SomeSeq(e)
    BY <2>2, SeqIs
  <2> QED
    BY <2>1, <2>2, <2>3 DEF Init, VolumeInit
<1>5. Entered(items, volumes)
  <2>1. \A x \in FirstItem : x.inode = Root /\ x.volume = 0 /\ ~ (x.level >= 2)
    BY DEF FirstItem
  <2>2. \A i \in 1 .. b : items[i] \in FirstItem
    BY <1>3
  <2> QED
    BY <1>3, <2>1, <2>2 DEF Entered
<1>6. current \in 0 .. 1 /\ (current = 0 => b = 0) /\ (current = 1 => 1 <= b)
  <2>1. items = <<>> => b = 0
    BY <1>3
  <2>2. items # <<>> => b # 0
    BY <1>3
  <2> QED
    BY <2>1, <2>2 DEF Init
<1>7. Walking(b)
  <2>1. Done(b) = 0 /\ current \in 0 .. Len(items)
    BY <1>3, <1>6 DEF Done
  <2>2. PartitionsTo(b, 0) = {} /\ Range(tried) = {} /\ DOMAIN tried = {}
    <3>1. DOMAIN tried = 1 .. 0 /\ Range(tried) = {tried[i] : i \in 1 .. 0}
      <4>1. PICK e : e = tried
        OBVIOUS
      <4>2. SomeSeq(e) /\ Len(e) = 0
        BY <1>4, <4>1
      <4>3. DOMAIN e = 1 .. Len(e) /\ Range(e) = {e[i] : i \in 1 .. Len(e)}
        BY ONLY <4>2, ElementsOf
      <4> QED
        BY <4>1, <4>2, <4>3
    <3> QED
      BY <3>1 DEF PartitionsTo
  <2>3. Shallow(items, b, 0)
    BY <1>3 DEF Shallow
  <2> QED
    BY <1>3, <1>4, <2>1, <2>2, <2>3 DEF Walking
<1> QED
  BY <1>3, <1>4, <1>5, <1>7 DEF TreeInv

\* Where the walk is, all partitions in front of it were tried, and none behind it.
LEMMA WalkIsAt ==
  ASSUME NEW b \in Nat, Tree(items), Walking(b), current # 0
  PROVE  LET at == PlaceOf(items, b, current)
         IN  /\ at \in 1 .. b /\ current \in 1 .. Len(items)
             /\ Shallow(items, b, at)
             /\ items[current].level = 1 => at = current /\ \A j \in 1 .. Len(items) : items[j].parent # current
             /\ PartitionsTo(b, Done(b)) = IF items[current].level = 1 THEN PartitionsTo(b, at) \ {at} ELSE PartitionsTo(b, at)
<1>1. PICK n, at : n \in Nat /\ n = Len(items) /\ at = PlaceOf(items, b, current) /\ b <= n
  BY DEF Tree, Items, SomeSeq, Walking, Base
<1>2. /\ current \in 1 .. n /\ Base(items, b) /\ Shallow(items, b, Done(b))
      /\ Range(tried) = PartitionsTo(b, Done(b))
  BY <1>1 DEF Walking
<1>3. CASE current <= b
  <2>1. at = current /\ Done(b) = current - 1 /\ current \in 1 .. b /\ items[current].level \in {0, 1}
    BY <1>1, <1>2, <1>3 DEF PlaceOf, Done, Base
  <2>2. PICK c \in 1 .. b : c = current
    BY <2>1
  <2>3. Shallow(items, b, at)
    <3>1. ASSUME NEW j \in b + 1 .. n
          PROVE  items[j].parent <= c
      <4>1. items[j].parent \in 1 .. b /\ items[j].parent <= c - 1
        BY <1>1, <1>2, <2>1, <2>2 DEF Shallow
      <4> QED
        BY <4>1
    <3> QED
      BY <1>1, <1>2, <2>1, <2>2, <3>1 DEF Shallow
  <2>4. items[c].level = 1 => \A j \in 1 .. n : items[j].parent # c
    <3> SUFFICES ASSUME items[c].level = 1, NEW j \in 1 .. n, items[j].parent = c PROVE FALSE
      OBVIOUS
    <3>1. items[j].level \in Nat /\ items[j].level # 0 /\ items[j].level # 1
      <4>1. /\ items[j].level \in Nat
            /\ items[j].level = 0 <=> items[j].parent = 0
            /\ items[j].level = 1 => items[items[j].parent].level = 0
        BY <1>1 DEF Tree
      <4>2. items[j].level # 0
        BY ONLY c \in 1 .. b, b \in Nat, items[j].parent = c, <4>1
      <4>3. items[j].level # 1
        BY ONLY items[c].level = 1, items[j].parent = c, <4>1
      <4> QED
        BY ONLY <4>1, <4>2, <4>3
    <3>2. ~ (j \in 1 .. b)
      BY <1>2, <3>1 DEF Base
    <3>3. j \in b + 1 .. n
      BY <1>1, <3>2
    <3>4. c <= c - 1
      BY <1>1, <1>2, <2>1, <2>2, <3>3 DEF Shallow
    <3> QED
      BY <3>4
  <2>5. PartitionsTo(b, c - 1) = IF items[c].level = 1 THEN PartitionsTo(b, c) \ {c} ELSE PartitionsTo(b, c)
    <3>1. \A i \in 1 .. b : i <= c <=> i <= c - 1 \/ i = c
      OBVIOUS
    <3>2. ~ (c <= c - 1)
      OBVIOUS
    <3> QED
      BY <3>1, <3>2 DEF PartitionsTo
  <2> QED
    BY <1>1, <1>2, <2>1, <2>2, <2>3, <2>4, <2>5
<1>4. CASE ~ (current <= b)
  <2>1. current \in b + 1 .. n /\ at = items[current].parent /\ Done(b) = at
    BY <1>1, <1>2, <1>4 DEF PlaceOf, Done
  <2>2. items[current].level = 2 /\ at \in 1 .. b
    BY <1>1, <1>2, <2>1 DEF Shallow
  <2> QED
    BY <1>1, <1>2, <2>1, <2>2
<1> QED
  BY <1>3, <1>4

\* The walk goes on.
LEMMA WalkGoesOn ==
  ASSUME NEW b \in Nat, NEW at \in 1 .. b, NEW its, Tree(its), Base(its, b), Shallow(its, b, at),
         NEW next, Visits(its, b, at, next)
  PROVE  /\ next \in 0 .. Len(its)
         /\ at = IF next = 0 THEN b ELSE IF next <= b THEN next - 1 ELSE its[next].parent
<1>1. PICK n \in Nat : n = Len(its) /\ b <= n
  BY DEF Tree, Items, SomeSeq, Base
<1>2. CASE next \in b + 1 .. n /\ its[next].parent = at
  BY <1>1, <1>2
<1>3. CASE next = Following(b, at)
  BY <1>1, <1>3 DEF Following
<1> QED
  BY <1>1, <1>2, <1>3 DEF Visits

LEMMA NextVisit ==
  ASSUME TreeInv, NEW chance, Visit(chance)
  PROVE  TreeInv'
<1>1. PICK b \in Nat : Walking(b)
  BY DEF TreeInv
<1>2. PICK n, c, at : n \in Nat /\ n = Len(items) /\ c = current /\ at = PlaceOf(items, b, c) /\ b <= n /\ c # 0
  BY <1>1 DEF TreeInv, Tree, Items, SomeSeq, Walking, Base, Visit
<1>3. /\ at \in 1 .. b /\ c \in 1 .. n
      /\ Shallow(items, b, at)
      /\ items[c].level = 1 => at = c /\ \A j \in 1 .. n : items[j].parent # c
      /\ PartitionsTo(b, Done(b)) = IF items[c].level = 1 THEN PartitionsTo(b, at) \ {at} ELSE PartitionsTo(b, at)
  BY <1>1, <1>2, WalkIsAt DEF TreeInv
<1>4. /\ Tree(items) /\ SomeSeq(volumes) /\ Entered(items, volumes) /\ Base(items, b)
      /\ SomeSeq(tried) /\ (\A i, j \in DOMAIN tried : tried[i] = tried[j] => i = j)
      /\ Range(tried) = PartitionsTo(b, Done(b))
  BY <1>1 DEF TreeInv, Walking
<1>5. PICK its : its = items'
  OBVIOUS
<1>6. /\ Tree(its) /\ SomeSeq(volumes') /\ Entered(its, volumes')
      /\ Base(its, b) /\ Len(its) \in Nat /\ Len(its) >= n
      /\ \A j \in 1 .. n : its[j].level = items[j].level /\ its[j].parent = items[j].parent
      /\ Shallow(its, b, at)
  <2>1. CASE its = items /\ volumes' = volumes
    BY <1>2, <1>3, <1>4, <2>1
  <2>2. CASE ~ (its = items /\ volumes' = volumes)
    <3>1. /\ items[c].level = 1
          /\ Mount(items[c].disk, items[c].nr, chance)
          /\ IF Len(volumes') = Len(volumes) THEN its = items
             ELSE \E k \in 0 .. Entries(Root) :
                    its = ListDir([items EXCEPT ![c].volume = Len(volumes')], c, k)
      BY <1>2, <1>5, <2>2 DEF Visit, volumeVars
    <3>2. \/ volumes' = volumes
          \/ /\ SomeSeq(volumes') /\ Len(volumes') = Len(volumes) + 1
             /\ \A i \in 1 .. Len(volumes) : volumes'[i] = volumes[i]
             /\ volumes'[Len(volumes')].disk = items[c].disk /\ volumes'[Len(volumes')].nr = items[c].nr
      BY <1>4, <3>1, MountAdds
    <3>3. PICK vs, v : vs = volumes' /\ v = Len(vs)
      OBVIOUS
    <3>4. volumes' # volumes
      BY <2>2, <3>1
    <3>5. /\ SomeSeq(vs) /\ v = Len(volumes) + 1 /\ \A i \in 1 .. Len(volumes) : vs[i] = volumes[i]
          /\ vs[v].disk = items[c].disk /\ vs[v].nr = items[c].nr
      BY <3>2, <3>3, <3>4
    <3>6. Len(volumes) \in Nat /\ v \in Nat /\ v # Len(volumes) /\ v \in 1 .. Len(vs) /\ Len(vs) >= Len(volumes)
      <4>1. PICK l \in Nat : l = Len(volumes)
        BY <1>4 DEF SomeSeq
      <4>2. v = l + 1
        BY <3>5, <4>1
      <4> QED
        BY <3>3, <4>1, <4>2
    <3>7. PICK k \in 0 .. Entries(Root) : its = ListDir([items EXCEPT ![c].volume = v], c, k)
      BY <3>1, <3>3, <3>6
    <3>8. items[c].inode = Root
      BY <1>2, <1>3, <1>4, <3>1 DEF Entered
    <3>9. Grows(items, c, v, its)
      <4>1. k \in 0 .. Entries(items[c].inode) /\ Items(items) /\ c \in 1 .. Len(items)
        BY <1>2, <1>3, <1>4, <3>8 DEF Tree
      <4> QED
        BY <3>7, <4>1, SetAndListed
    <3>10. items[c].level >= 1 /\ c \in 1 .. Len(items)
      BY <1>2, <1>3, <3>1
    <3>11. Entered(items, vs)
      BY <1>4, <3>5, <3>6, MoreVolumes
    <3>12. Entered(its, vs)
      <4>1. \A j \in 1 .. Len(items) : items[j].parent # c
        BY <1>2, <1>3, <3>1
      <4> QED
        BY <1>4, <3>5, <3>6, <3>9, <3>10, <3>11, <4>1, GrownEntered
    <3>13. Tree(its) /\ Base(its, b)
      <4>1. b \in 0 .. Len(items)
        BY <1>2
      <4> QED
        BY <1>4, <3>9, <3>10, <4>1, GrownTree
    <3>14. /\ Len(its) \in Nat /\ Len(its) >= n
           /\ \A j \in 1 .. n : its[j].level = items[j].level /\ its[j].parent = items[j].parent
           /\ \A j \in n + 1 .. Len(its) : its[j].parent = c /\ its[j].level \in {2, items[c].level + 1}
      BY <1>2, <3>9, <3>13 DEF Grows, Remains, Below, Tree, Items, SomeSeq
    <3>15. Shallow(its, b, at)
      <4>1. PICK m \in Nat : m = Len(its) /\ m >= n
        BY <3>14
      <4>2. at = c /\ its[c].level = 1 /\ c \in 1 .. b /\ c <= at
        BY <1>3, <3>1, <3>14
      <4>3. ASSUME NEW j \in b + 1 .. m
            PROVE  its[j].level = 2 /\ its[j].parent \in 1 .. b /\ its[j].parent <= at /\ its[its[j].parent].level = 1
        <5>1. CASE j \in b + 1 .. n
          <6>1. PICK p \in 1 .. b : p = items[j].parent /\ p <= at /\ items[p].level = 1 /\ items[j].level = 2
            BY <1>2, <1>3, <5>1 DEF Shallow
          <6>2. j \in 1 .. n /\ p \in 1 .. n
            BY <1>2, <5>1
          <6> QED
            BY <3>14, <6>1, <6>2
        <5>2. CASE j \in n + 1 .. m
          BY <3>1, <3>14, <4>1, <4>2, <5>2
        <5> QED
          BY <1>2, <4>1, <5>1, <5>2
      <4> QED
        BY <4>1, <4>3 DEF Shallow
    <3> QED
      BY <3>3, <3>5, <3>12, <3>13, <3>14, <3>15
  <2> QED
    BY <2>1, <2>2
<1>7. PICK next : next = current'
  OBVIOUS
<1>8. Visits(its, b, at, next)
  <2>1. next = NextVisited(its, c)
    BY <1>2, <1>5, <1>7 DEF Visit
  <2>2. c \in 1 .. Len(its) /\ at = PlaceOf(its, b, c)
    BY <1>2, <1>3, <1>6 DEF PlaceOf
  <2> QED
    BY <1>6, <2>1, <2>2, NextVisitedIs
<1>9. /\ next \in 0 .. Len(its)
      /\ at = IF next = 0 THEN b ELSE IF next <= b THEN next - 1 ELSE its[next].parent
  BY <1>3, <1>6, <1>8, WalkGoesOn
<1>10. PartitionsTo(b, at) = {i \in 1 .. b : its[i].level = 1 /\ i <= at}
  <2>1. \A i \in 1 .. b : i \in 1 .. n
    BY <1>2
  <2> QED
    BY <1>6, <2>1 DEF PartitionsTo
<1>11. /\ SomeSeq(tried') /\ (\A i, j \in DOMAIN tried' : tried'[i] = tried'[j] => i = j)
       /\ Range(tried') = PartitionsTo(b, at)
  <2>1. CASE items[c].level = 1
    <3>1. PICK t : t = tried'
      OBVIOUS
    <3>2. AppendedTo(t, tried, c)
      BY <1>2, <1>4, <2>1, <3>1, Appended DEF Visit
    <3>3. PICK k \in Nat : k = Len(tried)
      BY <1>4 DEF SomeSeq
    <3>4. /\ SomeSeq(t) /\ DOMAIN t = 1 .. k + 1 /\ t[k + 1] = c /\ \A i \in 1 .. k : t[i] = tried[i]
          /\ Range(t) = Range(tried) \cup {c} /\ DOMAIN tried = 1 .. k
      BY <1>4, <3>2, <3>3, ElementsOf DEF AppendedTo
    <3>5. c \in PartitionsTo(b, at) /\ Range(tried) = PartitionsTo(b, at) \ {c}
      BY <1>3, <1>4, <2>1 DEF PartitionsTo
    <3>6. \A i \in 1 .. k : tried[i] # c
      <4>1. Range(tried) = {tried[i] : i \in 1 .. k}
        BY <1>4, <3>3, ElementsOf
      <4> QED
        BY <3>5, <4>1
    <3>7. \A i, j \in 1 .. k + 1 : t[i] = t[j] => i = j
      <4>1. \A i \in 1 .. k + 1 : i = k + 1 \/ i \in 1 .. k
        OBVIOUS
      <4> QED
        BY <1>4, <3>4, <3>6, <4>1
    <3> QED
      BY <3>1, <3>4, <3>5, <3>7
  <2>2. CASE items[c].level # 1
    BY <1>2, <1>3, <1>4, <2>2 DEF Visit
  <2> QED
    BY <2>1, <2>2
<1>12. Walking(b)'
  BY <1>5, <1>6, <1>7, <1>9, <1>10, <1>11 DEF Walking, Done, PartitionsTo
<1> QED
  BY <1>5, <1>6, <1>12 DEF TreeInv

LEMMA NextSelect ==
  ASSUME TreeInv, NEW i \in DOMAIN items, NEW n, Select(i, n)
  PROVE  TreeInv'
<1>1. PICK b \in Nat : Walking(b)
  BY DEF TreeInv
<1>2. /\ Tree(items) /\ SomeSeq(volumes) /\ Entered(items, volumes) /\ Base(items, b) /\ Items(items)
      /\ DOMAIN items = 1 .. Len(items) /\ Len(items) \in Nat /\ b \in 0 .. Len(items)
  <2>1. Tree(items) /\ SomeSeq(volumes) /\ Entered(items, volumes) /\ Base(items, b) /\ Items(items)
    BY <1>1 DEF TreeInv, Walking, Tree
  <2>2. SomeSeq(items)
    BY <2>1 DEF Items
  <2>3. DOMAIN items = 1 .. Len(items) /\ Len(items) \in Nat
    BY <2>2, ElementsOf DEF SomeSeq
  <2> QED
    BY <2>1, <2>3 DEF Base
<1>3. /\ current = 0 /\ items[i].level > 1 /\ n \in 0 .. Entries(items[i].inode)
      /\ \A j \in 1 .. Len(items) : items[j].parent # i
  BY <1>2 DEF Select, Children
<1>4. PICK its : its = items'
  OBVIOUS
<1>5. its = ListDir(items, i, n) /\ UNCHANGED <<volumes, current, tried>>
  BY <1>4 DEF Select, volumeVars
<1>6. PICK v : v = items[i].volume
  OBVIOUS
<1>7. i \in 1 .. Len(items) /\ items[i].level \in Nat /\ items[i].level >= 1 /\ items[i].level >= 2
  BY <1>2, <1>3 DEF Tree
<1>8. Grows(items, i, v, its)
  BY <1>2, <1>3, <1>5, <1>6, <1>7, ListDirGrows
<1>9. v \in 1 .. Len(volumes) /\ volumes[v].disk = items[i].disk /\ volumes[v].nr = items[i].nr
  BY <1>2, <1>6, <1>7 DEF Entered, Leads
<1>10. Entered(its, volumes)
  BY <1>2, <1>3, <1>7, <1>8, <1>9, GrownEntered
<1>11. Tree(its) /\ Base(its, b)
  BY <1>2, <1>7, <1>8, GrownTree
<1>12. Walking(b)'
  <2>1. \A j \in 1 .. b : its[j].level = items[j].level
    <3>1. \A j \in 1 .. b : j \in 1 .. Len(items)
      BY <1>2
    <3> QED
      BY <1>8, <3>1 DEF Grows, Remains
  <2>2. PartitionsTo(b, b) = {j \in 1 .. b : its[j].level = 1 /\ j <= b}
    BY <2>1 DEF PartitionsTo
  <2>3. Len(its) \in Nat
    BY <1>11 DEF Tree, Items, SomeSeq
  <2>4. /\ SomeSeq(tried) /\ (\A j, k \in DOMAIN tried : tried[j] = tried[k] => j = k)
        /\ Range(tried) = PartitionsTo(b, b)
    BY <1>1, <1>3 DEF Walking, Done
  <2> QED
    BY <1>3, <1>4, <1>5, <1>11, <2>2, <2>3, <2>4 DEF Walking, Done, PartitionsTo
<1> QED
  BY <1>2, <1>4, <1>5, <1>10, <1>11, <1>12 DEF TreeInv

LEMMA NextTreeInv == TreeInv /\ [Next]_vars => TreeInv'
<1> SUFFICES ASSUME TreeInv, [Next]_vars PROVE TreeInv'
  OBVIOUS
<1>1. CASE UNCHANGED <<items, volumes, current, tried>>
  BY <1>1 DEF TreeInv, Walking, Done, PartitionsTo
<1>2. ASSUME NEW i \in DOMAIN items, NEW n \in 0 .. Entries(items[i].inode), Select(i, n)
      PROVE  TreeInv'
  BY <1>2, NextSelect
<1>3. ASSUME NEW i \in DOMAIN items, NEW open \in BOOLEAN, Copy(i, open)
      PROVE  TreeInv'
  BY <1>1, <1>3 DEF Copy, volumeVars
<1>4. ASSUME NEW fails \in BOOLEAN, CopyBlock(fails)
      PROVE  TreeInv'
  BY <1>1, <1>4 DEF CopyBlock, volumeVars
<1>5. CASE CopyDone
  BY <1>1, <1>5 DEF CopyDone, volumeVars
<1>6. ASSUME NEW chance \in Chances, Visit(chance)
      PROVE  TreeInv'
  BY <1>6, NextVisit
<1>7. CASE UNCHANGED vars
  BY <1>1, <1>7 DEF vars, volumeVars
<1> QED
  BY <1>2, <1>3, <1>4, <1>5, <1>6, <1>7 DEF Next

LEMMA TreeInvHolds == Spec => []TreeInv
BY InitTree, NextTreeInv, PTL DEF Spec

LEMMA InvIsTried == TreeInv => EveryItemTried
<1> SUFFICES ASSUME TreeInv PROVE EveryItemTried
  OBVIOUS
<1>1. PICK b \in Nat : Walking(b)
  BY DEF TreeInv
<1>2. IsInjective(tried)
  BY <1>1 DEF Walking, IsInjective
<1>3. ASSUME current = 0
      PROVE  Range(tried) = {i \in DOMAIN items : items[i].level = 1}
  <2>1. Range(tried) = {i \in 1 .. b : items[i].level = 1}
    BY <1>1, <1>3 DEF Walking, Done, PartitionsTo
  <2>2. PICK n \in Nat : n = Len(items) /\ DOMAIN items = 1 .. n /\ b \in 0 .. n
    <3>1. SomeSeq(items) /\ b \in 0 .. Len(items)
      BY <1>1 DEF TreeInv, Tree, Items, Walking, Base
    <3>2. PICK n \in Nat : n = Len(items)
      BY <3>1 DEF SomeSeq
    <3>3. DOMAIN items = 1 .. n
      BY ONLY <3>1, <3>2, ElementsOf
    <3>4. b \in 0 .. n
      BY ONLY <3>1, <3>2
    <3> QED
      BY ONLY <3>2, <3>3, <3>4
  <2>3. \A i \in 1 .. n : items[i].level = 1 => i \in 1 .. b
    <3>1. \A i \in b + 1 .. n : items[i].level # 1
      <4>1. \A i \in b + 1 .. n : items[i].level >= 2
        BY <1>1, <2>2 DEF Walking, Base
      <4> QED
        BY <4>1
    <3> QED
      BY <2>2, <3>1
  <2> QED
    BY <2>1, <2>2, <2>3
<1> QED
  BY <1>2, <1>3 DEF EveryItemTried

\* The walk over the tree that grows under it goes to each partition once: none is
\* mounted twice, and none is left out, whatever the disks and directories hold.
THEOREM WalkTriesEachOnce == Spec => []EveryItemTried
BY TreeInvHolds, InvIsTried, PTL

-----------------------------------------------------------------------------
(* The partition an item belongs to.                                       *)

LEMMA PartitionOfIs ==
  ASSUME TreeInv, NEW i \in 1 .. Len(items), items[i].level >= 1
  PROVE  items[PartitionOf(i)].disk = items[i].disk /\ items[PartitionOf(i)].nr = items[i].nr
<1>1. PICK n \in Nat : n = Len(items) /\ DOMAIN items = 1 .. n
  <2>1. SomeSeq(items)
    BY DEF TreeInv, Tree, Items
  <2> QED
    BY <2>1, ElementsOf DEF SomeSeq
<1> DEFINE up(j) == items[j].parent
           top(j) == items[j].level <= 1
           Of(f) == f = [j \in 1 .. n |-> IF top(j) THEN j ELSE f[up(j)]]
           of == CHOOSE of : of = [j \in DOMAIN items |-> IF items[j].level <= 1 THEN j ELSE of[items[j].parent]]
           Fun == [1 .. n -> 1 .. n]
           H == [k \in 1 .. n |-> [f \in Fun |-> [f EXCEPT ![k] = IF top(k) THEN k ELSE f[up(k)]]]]
<1>2. PartitionOf(i) = of[i]
  BY DEF PartitionOf
<1>3. \A j \in 1 .. n : ~ top(j) => up(j) \in 1 .. j - 1 /\ up(j) \in 1 .. n /\ items[j].level >= 2
  <2> SUFFICES ASSUME NEW j \in 1 .. n, ~ top(j)
               PROVE  up(j) \in 1 .. j - 1 /\ up(j) \in 1 .. n /\ items[j].level >= 2
    OBVIOUS
  <2>1. items[j].level \in Nat /\ up(j) \in 0 .. j - 1 /\ (items[j].level = 0 <=> up(j) = 0)
    BY <1>1 DEF TreeInv, Tree
  <2> HIDE DEF up
  <2> QED
    BY <2>1
<1> HIDE DEF up, top
<1>4. \A k \in 1 .. n : \A f \in Fun : /\ H[k][f] = [f EXCEPT ![k] = IF top(k) THEN k ELSE f[up(k)]]
                                     /\ H[k][f] \in Fun
  BY <1>3
<1> HIDE DEF H
<1>5. PICK g \in [0 .. n -> Fun] : \A k \in 1 .. n : g[k] = H[k][g[k - 1]]
  <2>1. PICK b \in Fun : TRUE
    <3>1. [j \in 1 .. n |-> j] \in Fun
      OBVIOUS
    <3> QED
      BY <3>1
  <2> HIDE DEF Fun
  <2>2. Stays(n, Fun, H)
    BY <1>4 DEF Stays
  <2>3. \E f : Stepwise(n, Fun, b, H, f)
    BY <2>2, StepwiseExists
  <2> QED
    BY <2>3 DEF Stepwise
<1> DEFINE P == {k \in Nat : k <= n => \A j \in 1 .. k : g[k][j] = IF top(j) THEN j ELSE g[k][up(j)]}
<1>6. Nat \subseteq P
  <2>1. 0 \in P
    OBVIOUS
  <2>2. ASSUME NEW k \in Nat, k \in P
        PROVE  k + 1 \in P
    <3> SUFFICES ASSUME k + 1 <= n, NEW j \in 1 .. k + 1
                 PROVE  g[k + 1][j] = IF top(j) THEN j ELSE g[k + 1][up(j)]
      OBVIOUS
    <3>1. PICK f \in Fun : f = g[k]
      OBVIOUS
    <3>2. PICK h : h = g[k + 1]
      OBVIOUS
    <3>3. k + 1 \in 1 .. n /\ (k + 1) - 1 = k
      OBVIOUS
    <3>4. h = [f EXCEPT ![k + 1] = IF top(k + 1) THEN k + 1 ELSE f[up(k + 1)]]
      <4>1. h = H[k + 1][f]
        BY ONLY <1>5, <3>1, <3>2, <3>3
      <4> HIDE DEF Fun
      <4>2. f \in Fun
        BY <3>1
      <4> QED
        BY ONLY <1>4, <3>3, <4>1, <4>2
    <3>5. ~ top(j) => up(j) \in 1 .. j - 1 /\ up(j) \in 1 .. n
      BY <1>3
    <3>6. ~ top(j) => h[up(j)] = f[up(j)]
      <4>1. ~ top(j) => up(j) # k + 1
        BY <3>5
      <4> QED
        BY <3>4, <3>5, <4>1
    <3>7. CASE j = k + 1
      <4>1. h[j] = IF top(j) THEN j ELSE f[up(j)]
        BY <3>3, <3>4, <3>7
      <4> QED
        BY <3>2, <3>6, <4>1
    <3>8. CASE j # k + 1
      <4>1. j \in 1 .. k /\ j \in 1 .. n
        BY <3>3, <3>8
      <4>2. h[j] = f[j]
        BY <3>4, <3>8, <4>1
      <4>3. f[j] = IF top(j) THEN j ELSE f[up(j)]
        BY <2>2, <3>1, <3>3, <4>1
      <4> QED
        BY <3>2, <3>6, <4>2, <4>3
    <3> QED
      BY <3>7, <3>8
  <2> HIDE DEF P
  <2> QED
    BY <2>1, <2>2, NumberInduction
<1>7. Of(g[n])
  <2>1. PICK f \in Fun : f = g[n]
    <3> HIDE DEF Fun
    <3>1. n \in 0 .. n
      BY ONLY n \in Nat
    <3>2. g[n] \in Fun
      BY ONLY <3>1, g \in [0 .. n -> Fun]
    <3> QED
      BY ONLY <3>2
  <2>2. n \in P
    BY ONLY <1>6, n \in Nat
  <2>3. \A j \in 1 .. n : f[j] = IF top(j) THEN j ELSE f[up(j)]
    BY <2>1, <2>2
  <2>4. Of(f)
    BY <2>3
  <2> QED
    BY <2>1, <2>4
<1>8. Of(of)
  <2>1. \A f : Of(f) <=> f = [j \in DOMAIN items |-> IF items[j].level <= 1 THEN j ELSE f[items[j].parent]]
    BY <1>1 DEF up, top
  <2> QED
    BY <1>7, <2>1
<1> HIDE DEF of
<1>9. \A j \in 1 .. n : of[j] = IF top(j) THEN j ELSE of[up(j)]
  BY <1>8
<1>10. \A j \in 1 .. n : ~ top(j) => items[j].disk = items[up(j)].disk /\ items[j].nr = items[up(j)].nr
  BY <1>1, <1>3 DEF TreeInv, Entered, EntryOf, up
<1> DEFINE Same(j) == items[of[j]].disk = items[j].disk /\ items[of[j]].nr = items[j].nr
           Q == {k \in Nat : k <= n => \A j \in 1 .. k : Same(j)}
<1>11. Nat \subseteq Q
  <2>1. 0 \in Q
    OBVIOUS
  <2>2. ASSUME NEW k \in Nat, k \in Q
        PROVE  k + 1 \in Q
    <3> HIDE DEF Same
    <3> SUFFICES ASSUME k + 1 <= n, NEW j \in 1 .. k + 1 PROVE Same(j)
      BY DEF Q
    <3>1. j \in 1 .. n /\ k <= n
      OBVIOUS
    <3>2. \A i_1 \in 1 .. k : Same(i_1)
      BY <2>2, <3>1 DEF Q
    <3>3. CASE top(j)
      BY <1>9, <3>1, <3>3 DEF Same
    <3>4. CASE ~ top(j)
      <4>1. up(j) \in 1 .. j - 1
        BY <1>3, <3>1, <3>4
      <4>2. up(j) \in 1 .. k
        BY <4>1
      <4>3. Same(up(j))
        BY ONLY <3>2, <4>2
      <4> QED
        BY <1>9, <1>10, <3>1, <3>4, <4>3 DEF Same
    <3> QED
      BY <3>3, <3>4
  <2> HIDE DEF Q
  <2> QED
    BY <2>1, <2>2, NumberInduction
<1>12. n \in Q
  BY ONLY <1>11, n \in Nat
<1> QED
  BY <1>1, <1>2, <1>12

LEMMA InvIsEntries == TreeInv => ItemsAreEntries
<1> SUFFICES ASSUME TreeInv, NEW i \in DOMAIN items, items[i].level > 1
             PROVE  LET parent == items[items[i].parent]
                        partition == items[PartitionOf(i)]
                    IN  /\ [name |-> items[i].name, inode |-> items[i].inode] \in Range(Directory[parent.inode])
                        /\ \A j \in Children(items[i].parent) : items[j].name = items[i].name => j = i
                        /\ items[i].volume \in DOMAIN volumes
                        /\ volumes[items[i].volume].disk = partition.disk
                        /\ volumes[items[i].volume].nr = partition.nr
  BY DEF ItemsAreEntries
<1>1. DOMAIN items = 1 .. Len(items) /\ DOMAIN volumes = 1 .. Len(volumes)
  BY ElementsOf DEF TreeInv, Tree, Items
<1>2. items[i].level \in Nat /\ items[i].level >= 2 /\ items[i].level >= 1
  BY <1>1 DEF TreeInv, Tree
<1>3. Leads(items[i], volumes) /\ EntryOf(items, i) /\ OnlyOne(items, i)
  BY <1>1, <1>2 DEF TreeInv, Entered
<1>4. items[PartitionOf(i)].disk = items[i].disk /\ items[PartitionOf(i)].nr = items[i].nr
  BY <1>1, <1>2, PartitionOfIs
<1> QED
  BY <1>1, <1>3, <1>4 DEF Leads, EntryOf, OnlyOne, Children

\* What the tree shows below a partition are the entries of its directories, each once,
\* and what is asked of an item goes to the volume of its own partition.
THEOREM TreeShowsEntries == Spec => []ItemsAreEntries
BY TreeInvHolds, InvIsEntries, PTL
=============================================================================
