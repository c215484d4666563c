------------------------------ MODULE MCVolume ------------------------------
EXTENDS Volume

\* A small and a large partition by turns.
SizeAt(i) == IF i % 2 = 1 THEN 60 ELSE 6000

Table(types, link) ==
  [i \in 1 .. Len(types) |-> [type |-> types[i], start |-> 10 * i, size |-> SizeAt(i + Len(link))]] \o link

\* One logical partition in each table of the chain; the extended partition
\* begins in sector 100.
Disk(primaries, logicals, unreadable) ==
  LET ext == 100
      link(s) == <<[type |-> "extended", start |-> s, size |-> 0]>>
      n == Len(logicals)
  IN  [tables |->
         (0 :> Table(primaries, IF n = 0 THEN <<>> ELSE link(ext)))
           @@ [s \in {ext * k : k \in 1 .. n} |->
                 Table(<<logicals[s \div ext]>>, IF s = ext * n THEN <<>> ELSE link(s))],
       unreadable |-> unreadable]

Type == {"bfs", "skyfs", "other"}

SomeDisks ==
  {Disk(p, <<>>, {}) :
     p \in {<<a, b>> : a, b \in Type} \cup {<<"other", "bfs", t, "bfs">> : t \in Type} \cup {<<"other", "bfs", "bfs">>}}
  \cup {Disk(p, l, {}) : p \in {<<"skyfs">>, <<"other", "bfs">>, <<"other">>},
                         l \in {<<"bfs">>, <<"skyfs", "bfs">>, <<"bfs", "skyfs">>}}
  \cup {Disk(<<"other", "bfs">>, <<"bfs", "bfs">>, {s}) : s \in {0, 100, 200}}

\* The file system of a partition has its size, except that of the large one.  An old
\* one may have been left over in front of the partitions.
SuperBlocks(ds, large, left) ==
  [v \in {<<d, k>> : d \in DOMAIN ds, k \in 0 .. 5} |->
     LET found == Walk(ds[v[1]]).found
     IN  IF v[2] \in 1 .. Len(found) /\ found[v[2]].type \in {"bfs", "skyfs"}
           THEN NewSuperBlock(found[v[2]].size + (IF v = large THEN 2 ELSE 0), 1024)
         ELSE IF v[2] = 0 /\ left THEN NewSuperBlock(60, 1024)
         ELSE NoSuper]

System(ds, k, left) == [disks |-> ds, super |-> SuperBlocks(ds, <<1, k>>, left)]

SomeSystems ==
  {System(<<disk>>, k, FALSE) : disk \in SomeDisks, k \in {0, 2}}
  \cup {System(<<Disk(p, <<>>, {})>>, 0, TRUE) :
          p \in {<<"other", "bfs", "skyfs", "bfs">>, <<"other", "bfs">>}}
  \cup {System(<<Disk(<<"other", "bfs">>, <<"bfs", "bfs">>, {s})>>, 0, TRUE) : s \in {0, 100, 200}}
  \cup {System(<<Disk(<<"other", "bfs">>, <<>>, {}), Disk(<<"skyfs">>, <<>>, {})>>, 0, FALSE)}

=============================================================================
