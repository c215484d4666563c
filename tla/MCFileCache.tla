---------------------------- MODULE MCFileCache ----------------------------
(* A page of four units holds two blocks, a chunk two pages, so a file of   *)
(* six blocks needs two chunks.  Extents end inside pages, inside chunks    *)
(* and behind the end of the file, and lie on the disk in reverse order.    *)
EXTENDS FileCache, SequencesExt

Blocks == 6

\* The file whose runs begin at the given blocks.
Layout(starts, size) ==
  LET s == SetToSortSeq(starts \cup {Blocks}, <)
  IN  [size |-> size,
       runs |-> [i \in 1 .. Len(s) - 1 |->
                   [start  |-> BlockSize * s[i],
                    disk   |-> BlockSize * s[i] + 40 * (Blocks - i),
                    length |-> BlockSize * (s[i + 1] - s[i])]]]

\* All ways to cut the blocks into runs; the smaller size leaves a block
\* that is allocated and not used.
AllLayouts == {Layout({0} \cup cuts, size) : cuts \in SUBSET (1 .. Blocks - 1), size \in {9, 12}}

AllRequests == ({-1, 0, 2, 4, 5, 8, 12} \X {1, 3, 4, 7, 8, 12})
=============================================================================
