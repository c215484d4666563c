----------------------------- MODULE BlockCache -----------------------------
(***************************************************************************)
(* The metadata block cache of bfs/Cache.cpp (struct block_cache) and the  *)
(* objects that hold its blocks: CachedBlock (bfs/CachedBlock.h) and       *)
(* CachedNode (bfs/BPlusTree.cpp).                                         *)
(*                                                                         *)
(* A cached block is found through a hash table, counts its references,    *)
(* and waits in the unused list, oldest release first, once nobody refers  *)
(* to it.  Blocks leave the cache only from that list.  A buffer is a      *)
(* malloc'd address that free() returns to the heap and that a later       *)
(* malloc may hand out again, so a holder that outlives its block would    *)
(* read another block's bytes: this is what the module is about.           *)
(*                                                                         *)
(* The program runs one thread over the cache (its locks are commented     *)
(* out), but many holders live at once: a tree keeps its header block for  *)
(* its whole life while node blocks come and go.                           *)
(*                                                                         *)
(* Left out: block contents other than "the bytes of disk block n", the    *)
(* counter `accessed` (RemoveUnusedBlocks is always called with LONG_MAX,  *)
(* so it never filters), and transactions (every function that would       *)
(* attach one to a block is a stub, so `transaction` stays NULL).          *)
(***************************************************************************)
EXTENDS Integers, Sequences, FiniteSets

CONSTANTS
  Holder,          \* CachedBlock and CachedNode objects
  MaxBlocks,       \* max_blocks: the volume's number of blocks
  KeyModulus,      \* 2^32: cached_block::Compare returns an int
  kMaxBlockCount,  \* the number of blocks the cache wants to stay within
  Addr,            \* addresses malloc can return for a block buffer
  MaxAllocations,  \* bound: calls of NewBlock that get a buffer
  Absent,          \* no entry in the hash table under a key
  NoBlock,         \* a holder with fBlock = NULL
  Free             \* an address that is not allocated

ASSUME SizesAssumption ==
  /\ MaxBlocks \in Nat \ {0}
  /\ KeyModulus \in Nat \ {0}
  /\ kMaxBlockCount \in Nat \ {0}
  /\ MaxAllocations \in Nat

ASSUME HolderAssumption == IsFiniteSet(Holder)

Block == 0 .. MaxBlocks - 1

\* Requests include a number just below and just above the volume.
Requested == -1 .. MaxBlocks

(***************************************************************************)
(* hash_lookup takes the first entry of the bucket whose Compare is 0.     *)
(* Compare subtracts two 64 bit block numbers and returns the difference   *)
(* as an int, so it is 0 for any two numbers that agree modulo 2^32, and   *)
(* the bucket (number mod 32) is then the same as well.                    *)
(***************************************************************************)
Key == 0 .. KeyModulus - 1

\* Mutant: Compare looks at half of the key's bits only.
KeyOfHalf(number) == number % (KeyModulus \div 2)

KeyOf(number) == number % KeyModulus

Entry == [number : Block, data : Addr, refs : Nat, unused : BOOLEAN]
Handle == [number : Block, data : Addr]

\* The three sentinels are none of the values they stand beside.
ASSUME SentinelAssumption ==
  /\ Absent \notin Entry
  /\ NoBlock \notin Handle
  /\ Free \notin Block

VARIABLES
  cache,   \* the block_cache: hash, unused list, allocated_block_count, heap
  held     \* held[h]: the holder's fBlockNumber and fBlock, or NoBlock

vars == <<cache, held>>

CacheState == [hash      : [Key -> Entry \cup {Absent}],
               unused    : Seq(Key),
               allocated : Nat,
               memory    : [Addr -> Block \cup {Free}]]

TypeOK ==
  /\ cache \in CacheState
  /\ held \in [Holder -> Handle \cup {NoBlock}]

Cached(c) == {k \in Key : c.hash[k] # Absent}

Unused(c) == {c.unused[i] : i \in 1 .. Len(c.unused)}

-----------------------------------------------------------------------------
(* The cache's own operations, each from one state of the cache to the     *)
(* next.                                                                   *)

\* Mutant: the buffers are freed, but the entries stay in the hash table.
RemoveUnusedBuffers(c, count) ==
  LET n       == IF count <= Len(c.unused) THEN count ELSE Len(c.unused)
      buffers == {c.hash[c.unused[i]].data : i \in 1 .. n}
  IN  [c EXCEPT !.unused = [i \in 1 .. Len(@) - n |-> @[i + n]],
                !.memory = [a \in Addr |-> IF a \in buffers THEN Free ELSE @[a]]]

\* block_cache::RemoveUnusedBlocks: drops the oldest `count` unused blocks,
\* or all of them, from list and hash, and frees their buffers.
RemoveUnusedBlocks(c, count) ==
  LET n       == IF count <= Len(c.unused) THEN count ELSE Len(c.unused)
      gone    == {c.unused[i] : i \in 1 .. n}
      buffers == {c.hash[k].data : k \in gone}
  IN  [hash      |-> [k \in Key |-> IF k \in gone THEN Absent ELSE c.hash[k]],
       unused    |-> [i \in 1 .. Len(c.unused) - n |-> c.unused[i + n]],
       allocated |-> c.allocated,
       memory    |-> [a \in Addr |-> IF a \in buffers THEN Free
                                                      ELSE c.memory[a]]]

\* The block list's Remove: the list without its element k.
Unlink(list, k) ==
  LET at == CHOOSE i \in 1 .. Len(list) : list[i] = k
  IN  [i \in 1 .. Len(list) - 1 |-> IF i < at THEN list[i] ELSE list[i + 1]]

\* The eviction at the head of block_cache::NewBlock.
MakeRoom(c) ==
  IF c.allocated >= kMaxBlockCount
    THEN RemoveUnusedBlocks(c, c.allocated - kMaxBlockCount + 1)
    ELSE c

\* Mutant: the disk is read one block too far.
ReadNextIntoCache(c, n, a) ==
  LET room  == MakeRoom(c)
      block == [number |-> n, data |-> a, refs |-> 0, unused |-> FALSE]
  IN  [room EXCEPT !.hash[KeyOf(n)] = block, !.allocated = @ + 1,
                   !.memory[a] = (n + 1) % MaxBlocks]

\* block_cache::NewBlock, hash_insert and a read_pos that fills the buffer.
ReadIntoCache(c, n, a) ==
  LET room  == MakeRoom(c)
      block == [number |-> n, data |-> a, refs |-> 0, unused |-> FALSE]
  IN  [hash      |-> [room.hash EXCEPT ![KeyOf(n)] = block],
       unused    |-> room.unused,
       allocated |-> room.allocated + 1,
       memory    |-> [room.memory EXCEPT ![a] = n]]

\* The same when read_pos comes up short: hash_remove and FreeBlock undo the
\* insertion, but not the count.
ReadFailed(c) == [MakeRoom(c) EXCEPT !.allocated = @ + 1]

\* Mutant: a block taken off the unused list is not counted again.
ReferenceUncounted(c, k) ==
  LET block == c.hash[k]
  IN  IF block.unused
        THEN [c EXCEPT !.hash[k] = [block EXCEPT !.unused = FALSE],
                       !.unused  = Unlink(c.unused, k)]
        ELSE [c EXCEPT !.hash[k] = [block EXCEPT !.refs = block.refs + 1]]

\* Mutant: the block stays in the unused list while it is in use.
ReferenceListed(c, k) ==
  LET block == c.hash[k]
  IN  [c EXCEPT !.hash[k] = [block EXCEPT !.refs = block.refs + 1, !.unused = FALSE]]

\* The end of get_cached_block: take the block off the unused list and count
\* the new reference.
Reference(c, k) ==
  LET block == c.hash[k]
  IN  [c EXCEPT
        !.hash[k] = [block EXCEPT !.refs = block.refs + 1, !.unused = FALSE],
        !.unused  = IF block.unused THEN Unlink(c.unused, k) ELSE c.unused]

\* Mutant: a block joins the unused list when one reference is left.
DereferenceEarly(c, k) ==
  LET block == c.hash[k]
      refs  == block.refs - 1
  IN  IF refs = 1
        THEN [c EXCEPT !.hash[k] = [block EXCEPT !.refs = refs, !.unused = TRUE],
                       !.unused  = Append(c.unused, k)]
        ELSE [c EXCEPT !.hash[k] = [block EXCEPT !.refs = refs]]

\* Mutant: the latest release comes first in the unused list.
DereferenceFirst(c, k) ==
  LET block == c.hash[k]
      refs  == block.refs - 1
  IN  IF refs = 0
        THEN [c EXCEPT !.hash[k] = [block EXCEPT !.refs = refs, !.unused = TRUE],
                       !.unused  = <<k>> \o c.unused]
        ELSE [c EXCEPT !.hash[k] = [block EXCEPT !.refs = refs]]

\* The end of put_cached_block's lookup: one reference less, and the block
\* joins the unused list when that was the last.
Dereference(c, k) ==
  LET block == c.hash[k]
      refs  == block.refs - 1
  IN  IF refs = 0
        THEN [c EXCEPT !.hash[k] = [block EXCEPT !.refs = refs, !.unused = TRUE],
                       !.unused  = Append(c.unused, k)]
        ELSE [c EXCEPT !.hash[k] = [block EXCEPT !.refs = refs]]

\* Mutant: a release never trims the cache to its limit.
PutBlockOnly(c, number) ==
  IF c.hash[KeyOf(number)] = Absent THEN c ELSE Dereference(c, KeyOf(number))

\* put_cached_block
PutBlock(c, number) ==
  LET k    == KeyOf(number)
      left == Dereference(c, k)
  IN  IF c.hash[k] = Absent
        THEN c
        ELSE IF c.allocated > kMaxBlockCount
               THEN RemoveUnusedBlocks(left, c.allocated - kMaxBlockCount)
               ELSE left

\* The Unset() that SetTo and the destructor begin with.
Unset(c, handle) == IF handle = NoBlock THEN c ELSE PutBlock(c, handle.number)

-----------------------------------------------------------------------------
(* The holders' operations.  SetTo puts the block the holder has and gets  *)
(* another; the five ways that get can end are an action each.             *)

Init ==
  /\ cache = [hash      |-> [k \in Key |-> Absent],
              unused    |-> << >>,
              allocated |-> 0,
              memory    |-> [a \in Addr |-> Free]]
  /\ held = [h \in Holder |-> NoBlock]

\* get_cached_block refuses a number outside the volume.
SetToOutside(h, n) ==
  /\ n \notin Block
  /\ cache' = Unset(cache, held[h])
  /\ held' = [held EXCEPT ![h] = NoBlock]

\* The lookup finds an entry: its buffer is returned as it is.
SetToCached(h, n) ==
  LET c == Unset(cache, held[h])
      k == KeyOf(n)
  IN  /\ n \in Block
      /\ c.hash[k] # Absent
      /\ cache' = Reference(c, k)
      /\ held' = [held EXCEPT ![h] = [number |-> n, data |-> c.hash[k].data]]

\* The block is not cached and is read from the disk into a new buffer.
SetToRead(h, n) ==
  LET c == Unset(cache, held[h])
  IN  /\ n \in Block
      /\ c.hash[KeyOf(n)] = Absent
      /\ c.allocated < MaxAllocations
      /\ \E a \in Addr :
           /\ MakeRoom(c).memory[a] = Free
           /\ cache' = Reference(ReadIntoCache(c, n, a), KeyOf(n))
           /\ held' = [held EXCEPT ![h] = [number |-> n, data |-> a]]

\* The same, but the disk read fails.
SetToReadFails(h, n) ==
  LET c == Unset(cache, held[h])
  IN  /\ n \in Block
      /\ c.hash[KeyOf(n)] = Absent
      /\ c.allocated < MaxAllocations
      /\ \E a \in Addr : MakeRoom(c).memory[a] = Free
      /\ cache' = ReadFailed(c)
      /\ held' = [held EXCEPT ![h] = NoBlock]

\* The same, but Allocate() returns NULL once room has been made.
SetToNoMemory(h, n) ==
  LET c == Unset(cache, held[h])
  IN  /\ n \in Block
      /\ c.hash[KeyOf(n)] = Absent
      /\ cache' = MakeRoom(c)
      /\ held' = [held EXCEPT ![h] = NoBlock]

\* The destructor, and CachedNode::Unset.
Release(h) ==
  /\ held[h] # NoBlock
  /\ cache' = Unset(cache, held[h])
  /\ held' = [held EXCEPT ![h] = NoBlock]

\* Mutant: the constructor does not Keep(), and both objects put the block.
TransferShared(h, g) ==
  /\ held[g] = NoBlock
  /\ held' = [held EXCEPT ![g] = held[h]]
  /\ UNCHANGED cache

\* The constructor CachedBlock(CachedBlock *): g takes h's block over, and
\* Keep() makes h forget it without a put.
Transfer(h, g) ==
  /\ held[g] = NoBlock
  /\ held' = [held EXCEPT ![g] = held[h], ![h] = NoBlock]
  /\ UNCHANGED cache

SetTo(h, n) ==
  \/ SetToOutside(h, n)
  \/ SetToCached(h, n)
  \/ SetToRead(h, n)
  \/ SetToReadFails(h, n)
  \/ SetToNoMemory(h, n)

Next ==
  \E h \in Holder :
    \/ \E n \in Requested : SetTo(h, n)
    \/ Release(h)
    \/ \E g \in Holder \ {h} : Transfer(h, g)

Spec == Init /\ [][Next]_vars

-----------------------------------------------------------------------------
(* Properties.                                                             *)

HoldersOf(k) == {h \in Holder : held[h] # NoBlock /\ KeyOf(held[h].number) = k}

\* An entry counts exactly the holders that have not released it yet, over
\* any sequence of gets, puts, transfers and failures
\* (block->ref_count in get_cached_block and put_cached_block).
ReferenceCounts ==
  \A k \in Cached(cache) : cache.hash[k].refs = Cardinality(HoldersOf(k))

\* The unused list holds each unreferenced entry once and nothing else, and
\* the entry's flag agrees with the list: what RemoveUnusedBlocks may free.
UnusedList ==
  /\ \A i, j \in 1 .. Len(cache.unused) : cache.unused[i] = cache.unused[j] => i = j
  /\ Unused(cache) = {k \in Cached(cache) : cache.hash[k].refs = 0}
  /\ \A k \in Cached(cache) : cache.hash[k].unused <=> k \in Unused(cache)

\* No entry shares its buffer with another or has a freed one, every allocated
\* buffer belongs to an entry, also after a failed read (FreeBlock), and the
\* buffer holds the bytes of the entry's block.
BuffersOwned ==
  /\ \A k, l \in Cached(cache) : cache.hash[k].data = cache.hash[l].data => k = l
  /\ {a \in Addr : cache.memory[a] # Free} = {cache.hash[k].data : k \in Cached(cache)}
  /\ \A k \in Cached(cache) :
       /\ KeyOf(cache.hash[k].number) = k
       /\ cache.memory[cache.hash[k].data] = cache.hash[k].number

\* What the cache has to agree on with itself and with its callers after any
\* sequence of gets, puts, transfers and failures.
CacheSound == TypeOK /\ ReferenceCounts /\ UnusedList /\ BuffersOwned

\* No use after free: while an object keeps a block, its entry stays in the
\* cache with the very buffer the object points to.
HeldBlocksStay ==
  \A h \in Holder : held[h] # NoBlock =>
    /\ KeyOf(held[h].number) \in Cached(cache)
    /\ cache.hash[KeyOf(held[h].number)].data = held[h].data

\* What an object reads through its pointer is the disk block it asked for.
HoldersReadTheirBlock ==
  \A h \in Holder : held[h] # NoBlock => cache.memory[held[h].data] = held[h].number

\* The cache exceeds kMaxBlockCount only by blocks that are all in use.
StaysWithinLimit ==
  Cardinality(Cached(cache)) > kMaxBlockCount => cache.unused = << >>

\* One unused block is listed before another.
Before(c, k, l) ==
  \E i, j \in 1 .. Len(c.unused) : i < j /\ c.unused[i] = k /\ c.unused[j] = l

\* Eviction takes the blocks whose last release is longest ago: when an
\* unused block leaves the cache, those listed before it have left it or are in
\* use again, and a block that is released queues behind all that wait.
OldestLeaveFirst ==
  [][/\ \A k, l \in Unused(cache) :
          Before(cache, k, l) /\ l \notin Cached(cache') => k \notin Unused(cache')
     /\ \A k \in Unused(cache) \cap Unused(cache'), l \in Unused(cache') \ Unused(cache) :
          Before(cache', k, l)]_vars

\* Reading through the cache cannot be told from reading the disk.
Store == INSTANCE BlockStore WITH
  Nothing <- NoBlock,
  asked <- [h \in Holder |-> IF held[h] = NoBlock THEN NoBlock ELSE held[h].number],
  seen  <- [h \in Holder |-> IF held[h] = NoBlock THEN NoBlock
                                                  ELSE cache.memory[held[h].data]]

ImplementsStore == Store!StoreSpec
=============================================================================
