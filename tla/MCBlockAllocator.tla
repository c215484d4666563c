-------------------------- MODULE MCBlockAllocator --------------------------
(* One block, as inodes ask for; two blocks or one; and a request that     *)
(* only two blocks of the bitmap together can satisfy.                     *)
EXTENDS BlockAllocator

SomeSizes == {<<1, 1>>, <<2, 1>>, <<3, 2>>}

\* Where a run is returned that is used, each use makes the count smaller; what
\* comes after it has left its range is not searched.
CountsInRange == \A g \in Group : freeBits[g] \in 0 .. NumBits(g)
=============================================================================
