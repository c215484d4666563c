----------------------------- MODULE Partitions -----------------------------
(***************************************************************************)
(* The partition tables of a disk, and the four walks over them: two in    *)
(* DeviceOpener::Open, one in Volume::CountSkyfsPartitions and one in      *)
(* DiskFunc.cpp, which lists the partitions in the window.  They come to   *)
(* the same entries in the same order, and number them in different ways.  *)
(*                                                                         *)
(* A table is the sequence of its entries up to the first empty one, since *)
(* no walk looks behind that, each with its type, start and size; a disk   *)
(* has a table in sector 0, and those of the extended partition.           *)
(***************************************************************************)
EXTENDS Integers, SequencesExt, FiniteSetsExt

CONSTANT MaxTables   \* how many tables of the extended partition are read: 50

ASSUME TablesAssumption == MaxTables \in Nat

Entry == [type : STRING, start : Nat, size : Nat]

LinkAt(table) == SelectInSeq(table, LAMBDA e : e.type = "extended")

\* The entries in front of the first one that leads to another table.
Before(table) == IF LinkAt(table) = 0 THEN table ELSE SubSeq(table, 1, LinkAt(table) - 1)
HasLink(table) == LinkAt(table) # 0
Link(table) == table[LinkAt(table)].start

Readable(disk, sector) == sector \in DOMAIN disk.tables \ disk.unreadable

\* One round of the loop over the tables of the extended partition that begins at
\* first: starts of links are relative to it, and those of partitions to their table.
LogicalTable(disk, first, w) ==
  LET at == first + w.rel
      table == disk.tables[at]
      here == [i \in 1 .. Len(Before(table)) |->
                 [type |-> table[i].type, primary |-> FALSE, start |-> at + table[i].start, size |-> table[i].size]]
  IN  IF w.end THEN w
      ELSE IF ~ Readable(disk, at) THEN [w EXCEPT !.end = TRUE, !.ok = FALSE]
      ELSE [rel |-> IF HasLink(table) THEN Link(table) ELSE w.rel,
            found |-> w.found \o here, ok |-> TRUE, end |-> ~ HasLink(table)]

\* What is found in the chain of tables, and whether all of them could be read.
Logicals(disk, first) ==
  LET walk[n \in 0 .. MaxTables] ==
        IF n = 0 THEN [rel |-> 0, found |-> <<>>, ok |-> TRUE, end |-> FALSE]
        ELSE LogicalTable(disk, first, walk[n - 1])
  IN  walk[MaxTables]

\* The partitions in the primary table, and whether they fill it.
Primaries(disk) ==
  IF ~ Readable(disk, 0) THEN <<>>
  ELSE LET table == disk.tables[0]
       IN  [i \in 1 .. Len(Before(table)) |->
              [type |-> table[i].type, primary |-> TRUE, start |-> table[i].start, size |-> table[i].size]]
Full(disk) == Len(Primaries(disk)) = 4

\* A walk: the partitions it comes to, and whether all tables could be read.
Walk(disk) ==
  IF ~ Readable(disk, 0) THEN [found |-> <<>>, ok |-> FALSE]
  ELSE IF Full(disk) \/ ~ HasLink(disk.tables[0]) THEN [found |-> Primaries(disk), ok |-> TRUE]
  ELSE LET logicals == Logicals(disk, Link(disk.tables[0]))
       IN  [found |-> Primaries(disk) \o logicals.found, ok |-> logicals.ok]

\* listPartitions: the numbers, from 0, of the partitions shown in the window.
Listed(disk) ==
  LET found == Walk(disk).found
  IN  {nr \in 0 .. Len(found) - 1 : found[nr + 1].type \in {"skyfs", "bfs", "bfs?"}}

\* count, at the place i: the SkyFS and BFS partitions up to there, from 0.
Count(found, i) == Cardinality({j \in 1 .. i : found[j].type \in {"skyfs", "bfs"}}) - 1

\* CountSkyfsPartitions, for a disk that can be read.  Those of a full primary
\* table are not counted.
CountSkyfsPartitions(disk, skyfs) ==
  IF Full(disk) THEN 0
  ELSE Cardinality({i \in 1 .. Len(Walk(disk).found) : Walk(disk).found[i].type = IF skyfs THEN "skyfs" ELSE "bfs"})

\* Where Open(int diskNr, ...) stops for the partition nr, if it does.
Stops(found, nr) ==
  {i \in 1 .. Len(found) : found[i].type = "bfs" /\ found[i].primary /\ Count(found, i) = nr - 1}

\* Mutant: logical partitions are counted like primary ones.
SavedLikePrimary(found, nr) ==
  IF Stops(found, nr) # {} THEN Stops(found, nr)
  ELSE {i \in 1 .. Len(found) : \/ found[i].type = "skyfs" /\ Count(found, i) = nr
                                \/ found[i].type = "bfs" /\ ~ found[i].primary /\ Count(found, i) = nr - 1}

\* The partition whose entry it saves as partitionInfo: one at most.  A primary
\* BFS partition is counted from 1, all others from 0.
Saved(found, nr) ==
  IF Stops(found, nr) # {} THEN Stops(found, nr)
  ELSE {i \in 1 .. Len(found) : \/ found[i].type = "skyfs" /\ Count(found, i) = nr
                                \/ found[i].type = "bfs" /\ ~ found[i].primary /\ Count(found, i) = nr}

\* The same in Open(const char *device, ...), which never stops: a later one
\* replaces an earlier one.  Here logical SkyFS partitions are counted from 0.
SavedOnDevice(found, nr) ==
  LET saved == {i \in 1 .. Len(found) :
                  Count(found, i) = IF found[i].type = "skyfs" /\ ~ found[i].primary THEN nr ELSE nr - 1}
      ours == {i \in saved : found[i].type \in {"skyfs", "bfs"}}
  IN  IF ours = {} THEN {} ELSE {Max(ours)}

=============================================================================
