----------------------------- MODULE MCBrowser -----------------------------
EXTENDS Browser

Table(types) == [i \in DOMAIN types |-> [type |-> types[i], start |-> 10 * i, size |-> 6000]]

Disks ==
  <<[tables |-> (0 :> Table(<<"other", "bfs", "skyfs">>)), unreadable |-> {}],
    [tables |-> (0 :> Table(<<"skyfs">>)), unreadable |-> {}]>>

\* The super block of a partition of 6000 sectors; there is none on the whole disk.
SuperBlock == [magic |-> TRUE, blockSize |-> 1024, blockShift |-> 10, numBlocks |-> 3000,
               numAgs |-> 1, blocksPerAg |-> 1, agShift |-> 13, log |-> [group |-> 0, start |-> 2, length |-> 2048]]

OneSystem ==
  {[disks |-> Disks,
    super |-> [v \in {1, 2} \X (0 .. 3) |-> IF v[2] = 0 THEN [SuperBlock EXCEPT !.magic = FALSE] ELSE SuperBlock]]}

\* A name that begins with ! is in front of the two that every directory has.
Listing(name, inode) == [name |-> name, inode |-> inode]
Directories ==
  ("root" :> <<Listing(".", "root"), Listing("..", "root"), Listing("file", "f"), Listing("sub", "sub")>>)
    @@ ("sub" :> <<Listing("!", "link"), Listing(".", "sub"), Listing("..", "root"), Listing("empty", "e")>>)
Sizes == ("f" :> 3) @@ ("e" :> 0)
=============================================================================
