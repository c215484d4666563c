----------------------------- MODULE BlockStore -----------------------------
(***************************************************************************)
(* What the block cache promises to the code that reads metadata through   *)
(* it (bfs/CachedBlock.h, bfs/BPlusTree.cpp): a holder that asks for a     *)
(* block either sees that block's disk contents, for as long as it keeps   *)
(* the block, or gets nothing.  No cache, no buffers and no other holder   *)
(* can be seen through this interface.                                     *)
(***************************************************************************)
CONSTANTS
  Holder,   \* objects that keep at most one block each
  Block,    \* the blocks of the volume
  Nothing   \* a holder that has no block

VARIABLES
  asked,    \* asked[h]: the block h keeps, or Nothing
  seen      \* seen[h]: the disk block whose bytes h reads, or Nothing

StoreVars == <<asked, seen>>

StoreInit ==
  /\ asked = [h \in Holder |-> Nothing]
  /\ seen  = [h \in Holder |-> Nothing]

\* A successful read shows the bytes of the block that was asked for.
Read(h, b) ==
  /\ asked' = [asked EXCEPT ![h] = b]
  /\ seen'  = [seen EXCEPT ![h] = b]

\* A release, or a request that cannot be served.
Clear(h) ==
  /\ asked' = [asked EXCEPT ![h] = Nothing]
  /\ seen'  = [seen EXCEPT ![h] = Nothing]

\* Ownership moves from one holder to an empty one.
Move(h, g) ==
  /\ asked[g] = Nothing
  /\ asked' = [asked EXCEPT ![g] = asked[h], ![h] = Nothing]
  /\ seen'  = [seen EXCEPT ![g] = seen[h], ![h] = Nothing]

StoreNext ==
  \E h \in Holder :
    \/ \E b \in Block : Read(h, b)
    \/ Clear(h)
    \/ \E g \in Holder \ {h} : Move(h, g)

StoreSpec == StoreInit /\ [][StoreNext]_StoreVars
=============================================================================
