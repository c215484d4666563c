# Verification of the BFS browser for Windows

ReadBFSWindows is a Windows program that browses BFS (BeOS and Haiku) volumes
and copies files from them. Most of it is the file system driver of Haiku
(`src/src/bfs`) with a replacement for the kernel functions it needs
(`src/src/System.cpp`, parts of `bfs/Cache.cpp`) and a tree view on top
(`src/src/TreeControl.cpp`). The modules in this directory model the parts of
it whose correctness depends on long sequences of calls, on failures, or on
boundary arithmetic, from the disk reads up to the window; TLC checks them on
small instances and TLAPS proves the block cache correct for all sizes.

Paths below are relative to the repository's `src/`.

## The system

| component | files | state | operations | what makes it correct |
|---|---|---|---|---|
| metadata block cache | `bfs/Cache.cpp` (1-456), `bfs/Cache.h`, `bfs/CachedBlock.h`, `bfs/Hash.cpp`, `bfs/DoublyLinkedList.h` | hash table, list of unused blocks, `allocated_block_count`, `ref_count` of every block | `block_cache_get_etc`, `block_cache_put`, `NewBlock`, `RemoveUnusedBlocks`; `CachedBlock::SetTo`, `Unset`, `Keep` | a block in use is never freed, a holder reads the block it asked for, references are counted exactly |
| file cache | `bfs/Cache.cpp` (460-1297), `System.cpp` (`readv_pos`) | pages by offset, busy or not | `file_cache_read` → `cache_io` → `satisfy_cache_io` → `read_into_cache` → `read_chunk_into_cache` → `pages_io` → `vfs_read_pages` | the caller's buffer gets the bytes of the file, pages in memory hold them |
| block allocator | `bfs/BlockAllocator.cpp` | bitmap on the disk, `fFirstFree` and `fFreeBits` of each group, `used_blocks` | `AllocateBlocks`, `Free`, `_Initialize`, (`chkbfs`) | no block is given out twice, a free range that satisfies a request is found |
| file data streams | `bfs/Inode.cpp` (1150-1960) | `data_stream` of an inode and its array blocks | `FindBlockRun`, `SetFileSize`, `_GrowStream`, `_ShrinkStream`, `TrimPreallocation` | every byte is found on its own block, data stays where it is, blocks are neither lost nor shared |
| inodes, attributes | `bfs/Inode.cpp` | inode block with its small data section, attribute directory, iterators | `WriteAttribute`, `RemoveAttribute`, `ReadAttribute`, `SetName`, `Free`, `AttributeIterator` | an attribute is in one place and reads as it was written, its index follows, iterators survive changes |
| B+trees | `bfs/BPlusTree.cpp` | nodes, duplicates, header; positions of iterators | `Insert`, `Remove`, `Replace`, `Find`, `TreeIterator` | search finds what was inserted, iterators survive changes |
| journal | `bfs/Journal.cpp`, `bfs/Journal.h` | log area and its pointers, running transaction, entries not yet written back | `Lock`, `Unlock`, `_TransactionDone`, `_WriteTransactionToLog`, `_blockNotify`, `FlushLogAndBlocks`, `ReplayLog` | all or nothing after a crash, a failure undoes its own transaction only |
| queries, indices | `bfs/Query.cpp`, `bfs/Index.cpp` | expression tree, current equation and iterator; entries of each index | `GetNextEntry`, `LiveUpdate`, `Index::Update` and its callers | every matching inode is found, no other, and listeners know the same |
| volume | `bfs/Volume.cpp` | handle, super block, flags | `DeviceOpener::Open`, `Mount`, `MountBFS`, `Unmount`, `Identify`, `Initialize`, `ValidateBlockRun` | only valid volumes are mounted, each with its own handle, failures leave none open |
| partitions | `bfs/Volume.cpp`, `DiskFunc.cpp` | none | the walks of `DeviceOpener::Open`, `CountSkyfsPartitions`, `listPartitions` | they give a partition the same number |
| locks | `bfs/Lock.h` | counts and owners | `Semaphore`, `RecursiveLock`, `SimpleLock`, `ReadWriteLock` | a lock is got and given back |
| file system interface | `SkyfsInterface.cpp` | none of its own | `skyfs_read_dir`, `skyfs_read_vnode`, `skyfs_read`, ... | thin |
| window | `TreeControl.cpp`, `DiskFunc.cpp`, `SupportFunctions.cpp` | tree items, vector of volumes | mount all, list a directory, show properties, copy | every partition is tried, items lead to their own volume, the copy ends with the file's bytes |

How they interact: the window lists the partitions of all disks, mounts a
`Volume` for each (which opens its device, starts the block cache and reads the super block and root inode), lists directories through
`TreeIterator`, and copies a file through `skyfs_read` → `Inode::ReadAt` →
`file_cache_read`. The file cache asks `get_file_map`, hence
`Inode::FindBlockRun`, where the file lies. B+trees, inodes, the bitmap and the
arrays of a data stream are read through `CachedBlock`. A grow calls
`Inode::_GrowStream`, which calls `BlockAllocator::AllocateBlocks` inside a
`Transaction` of the journal. An attribute that is written tells `Index::Update`,
which changes the tree of the index and tells the live queries.

What is hard here, and what is not: everything runs in the one thread of the
message loop. (`BlockAllocator::Initialize` would start a second, but `Mount`
does not call it in this build.) The locks of the cache are commented out. So
interleavings of threads are not where this code can go wrong. It goes wrong by
*sequences*: several holders of cached blocks that outlive each other, reads
that fail half way, requests cut at page, chunk, extent and file boundaries,
hints that survive the transaction they were computed in, a file that grows and
shrinks through three kinds of ranges, attributes that move between two places
under an iterator, a tree of items that grows under the walk over it, numbers of
partitions that are counted in several ways, and crashes.

The writing half of the driver is compiled but switched off at the bottom:
`write_pos`, `writev_pos`, `cache_start_transaction` and the functions that make
a cached block writable are stubs (`System.cpp` 206-356, `Cache.cpp`). The
block allocator, the growing of data streams, the changes to B+trees and
attributes, and the journal can
therefore not succeed in this build, and nothing in it creates queries. They are modelled as written, for working transactions, because
that code is what write support would be switched on with; the failing outcome
that the stubs produce is among the modelled ones (`AllocateFails`, `FreeFails`,
`GrowFails`).

## The modules

`BlockStore` is the abstract specification of the block cache: a holder asks for
a block and sees its bytes until it lets go, or gets nothing.

`BlockCache` is the block cache with its holders. `cache` is the
`block_cache` struct with the heap its buffers come from, so that a buffer that
is freed and handed out again is another block's; `held` is `fBlockNumber` and
`fBlock` of the `CachedBlock` and `CachedNode` objects. Its operators are the cache's
functions (`RemoveUnusedBlocks`, `MakeRoom` for the head of `NewBlock`,
`Reference` and `Dereference` for the ends of `get_cached_block` and
`put_cached_block`), each a function from one state of the cache to the next.
Its actions are the holders' calls; `SetTo` is split by how it ends: number
outside the volume, found in the cache, read from the disk, disk read failed,
no memory. `Compare` returns a 64 bit difference as `int`, so entries are found
by `KeyOf`, the number modulo `KeyModulus` (2^32 in the code).

`FileCache` is one `file_cache_read` after another on one file. `file` is its
block runs on the disk, `pages` and `memory` the page cache, `user` the
caller's buffer; `call`, `fill` and `io` are the locals of `cache_io`,
`read_into_cache` and `pages_io`. A unit stands for a fraction of a block; what
a place in memory holds is the position on the disk it was read from, so wrong
bytes are told from right ones. `MCFileCache` gives it all ways to cut a file of
six blocks into extents.

`BlockAllocator` is the bitmap of each group, the hints beside it, the
`used_blocks` of the super block, and the bitmap as last logged. The search of
`AllocateBlocks` is the operator `Answer`: its visits to the groups in order,
what each finds, and the first that finds something. Its lock makes each call
one step; `Commit`, `Abort` and `Mount` are the transaction around it.

`DataStream` is one inode's stream. `stream` is the `data_stream` struct, the
contents of the array blocks, and the set of free blocks; `grow` the locals of
`_GrowStream`, one round of whose loop is a step (`AddDirect`, `AddIndirect`,
`AddDouble`, `AddPiece`). The allocator is used by its contract, as
`BlockAllocator` checks it: any free run not longer than the maximum and not
shorter than the minimum. `FindBlockRun` is the lookup, with the `int32` arithmetic
that the code has in the double indirect range.

`Dictionary` is the abstract specification of a B+tree without duplicates: one
value per key; a call changes its own key when it ends, or fails and changes
nothing.

`BPlusTree` is the tree that directories are stored in. `tree` is the header and
the nodes of its stream; `op` the locals of the running `Insert` or `Remove`,
with the stack that `_SeekDown` filled; `iter` a `TreeIterator`. One turn of the
loop of `Insert` or `Remove` is a step (`InsertKey`, `InsertSplit`,
`RemoveKey`, `RemoveNode`, ...), so failures hit between two levels; the caller
then aborts its transaction, which brings back the nodes, but not the position of the
iterator. `Find`, `Replace` and the calls of the iterator are one step each:
the tree's lock keeps them out of a running loop. `SplitAt` is the arithmetic
that decides where a node is cut, including that it lags one key behind.
A neighbour that cannot be made writable is not told of a split or a removal, and an empty node
that cannot be freed stays where it is, and the call still succeeds (`Outcomes`): the tree is then
`damaged`. What the call still does to it is modelled; behind the call such a tree is not followed
(`MayStart`, and the constraint `Followed`).
`MCBPlusTree` gives the keys their lengths and inode numbers.

`Journal` is the transactions and the log. `disk` is the log area with the
blocks behind it and the super block that is on the disk; `super` its copy in
memory; `cache` what the block cache holds of each block: its contents now, those
of the transactions that ended, those at the start of an inner one, and the
entry it must be written for; `journal` the members of `Journal`, `io` the
locals of `_WriteTransactionToLog`. Its writes are steps of their own, and so are the new
end in the super block in memory (`MoveEnd`), the super block that is written
(`WriteSuper`) and the entry that is added with `fEntriesLock` (`AddEntry`), so that a
crash can come between any two of them, and the thread of the cache: `WriteBack` writes one
block to its place, and with the last one of an entry begins `notify`, the run of `_blockNotify`,
whose part with the lock (`Notify`) and whose flag and super block (`NotifyEnds`) are again steps of
their own. Either thread's super block write may fail. `Replay` is what `ReplayLog` finds. The write
in it is commented out in this build; the property is about what it would write,
and `CrashAndMount` about what it does.

`Expression` is what a query string is parsed to and how one equation is compared
with one value, patterns included. `Query` is the walk: the stack of equations,
the choice of one side of an AND by its score, the seek to the first key, and
what the rest of the expression says of each inode met; beside it are the
indices, the calls of `Index::Update`, and the listener of a live query with
what it was told. `RemoveInode` tells neither of the attributes that `Inode::Free` skips;
`abandoned` are the numbers whose entries stay. `Means`, which says whether an expression holds of an inode, is
the definition `Query` is measured by. `MCQuery` gives it nineteen expressions.

`Attributes` is the attributes of one inode: the packed small data section, the
files of the attribute directory, an iterator over both, and the index of the
names that have one. A write is one step; its two halves, that the attribute is
taken from one place and put to the other, are operators (`AddedSmallData`,
`MakeSpace`, `RemovedSmallData`), as is the correction of the iterators
(`Update`).

`Partitions` is the chain of partition tables and the walks over it. `Volume` is
the opening of devices with the system's handles, which are used again after
they were closed; `chance` says which of the calls in an operation fails.
`NewSuperBlock` is the arithmetic by which a new file system is laid out.

`Browser` is the window over the volumes: it extends `Volume` and
calls its `Mount` for the item that the walk over the tree has come to (`Visit`).
`items` is the tree control with the `TreeData` of its items. A message handler is
one step, except that a copy makes a step for each block.

`BlockCacheProofs` holds the proofs about `BlockCache`, the refinement included;
`FileCacheProofs`, `BlockAllocatorProofs`, `AttributesProofs`, `JournalProofs`,
`BPlusTreeProofs` (with the refinement of `Dictionary`) and `BrowserProofs` (with the proofs about `Volume`) those about the modules they extend.
`InductionLemmas` has what several of them need: least numbers, inductions and sums.

## The runs

| run | instance | what it shows |
|---|---|---|
| `block_cache` | 3 holders, 4 blocks, limit 2, 4 addresses, 7 allocations | reference counts, the unused list and the buffers agree in every state (`CacheSound`); no held block is evicted or misread; the limit is exceeded only by blocks in use; evictions go by age; the cache implements `BlockStore` |
| `file_cache` | every layout of a 3-page file, 42 requests, chunks of 2 pages, 2 extents in an array, one failure | plain reads copy the file's bytes and write nothing behind the request; pages hold the file, one for each place; reads of new pages return |
| `block_allocator` | 2 groups, 4 and 3 bits, bitmap blocks of 2 bits, one operation in a transaction, 1 abort | no block of the whole group is given out twice, nor one of the reserved area, whatever the hints say; the search misses nothing there and is shorter only if it must be; hints fit the bitmap; in the group with a shorter bitmap block runs stay within the group and the volume's count is what its groups count |
| `data_stream` | 1 direct run, indirect arrays of 4, double indirect of 2×4 runs of 2 blocks, sizes up to 21 units | every byte is found on its own block and stays on it through grow, failed grow, shrink and trim; maxima fit the ranges; arrays are written only in their blocks; a grow ends |
| `b_plus_tree` | 6 keys of up to a quarter node, 7 nodes, three of the keys removed and replaced, writes and allocations that fail; trees of four keys with an iterator | the tree implements `Dictionary`, also in a call that could not tell a neighbour or free a node; no node is filled beyond its end (`NodesFit`); but for such a call, between any two levels the leaves are one sorted chain, no node is lost or used twice, and the header's number of levels is every way's length; the iterator returns every key that stays, and none twice, unless its own node is split |
| `journal` | 3 blocks, a log of 7, entries of 2 or 3 blocks, 2 of them, nesting of 2, failing writes | with `_blockNotify` between any two steps, a crash between any two writes recovers what was logged and nothing else; the log begins with the oldest entry the journal knows, a clean disk has all; a failed transaction undoes itself only |
| `query` | 2 inodes, 19 expressions, 2 changes | a walk finds every inode the expression means and no other; a live query's listener knows the same; indices follow the inodes; all this but for the numbers of inodes whose removal left entries behind |
| `attributes` | 3 names, 5 values, a section of 7 units, 2 changes | an attribute is in one place; what is written at its beginning, or anywhere in a file, is read there, and the others read as before, whatever is moved to make room; its index follows; the iterator returns what stays, once |
| `volume` | disks of up to four primary and two logical partitions, one or two disks, 2 volumes, 3 handles, one failure in each operation | each mounted volume has a handle of its own, open on its partition or, where the opener gave up, on the whole disk, and failures leave none open; where the numbers agree, no volume is larger than its partition; a formatted volume can be mounted, its groups, bitmap and log fit together |
| `browser` | 2 disks with 4 partitions, two directories, anything may fail to be mounted or read | the walk over the growing tree tries each partition once and ends; each item is an entry of its directory and leads to its own volume; a copy to a file that was opened ends, and is the file unless a block could not be read |
| `siblings` | as `b_plus_tree`, 5 keys, no iterator | *violation*: a call succeeds although a neighbour was not told that its node was taken out |
| `journal_end` | 1 block, a log of 7, 2 entries that fit and are written | *violation*: a crash at the point where the transaction is said to be valid loses it, if `_blockNotify` came between the new `log_end` and the new entry |

A violation is a disagreement between the code and a sentence of its own
comments; `PROJECT.json` quotes the sentence under `findings`.

### Bounds, and why they are enough

* `block_cache`: with a limit of two, three holders can make every cached block
  a used one beyond the limit; with four blocks the unused list gets long
  enough to have an order. `MaxAllocations` bounds `allocated_block_count`,
  which the code only ever increases; seven allocations reuse every address.
  The proofs remove all these bounds for the safety properties.
* `file_cache`: a chunk is two pages and a page two blocks, so extents end inside
  blocks' pages, inside chunks, at their ends and behind the end of the file;
  `MaxFileIoVecs` of 2 makes the array overflow, `MaxTempIoVecs` of 1 makes the
  vectors be passed piecewise.
* `block_allocator`: a group has two bitmap blocks, so runs cross from one to the
  next; in the last group the second is shorter, so the code's `rangeStart` is wrong
  there. An abort of one operation already lets hints and bitmap drift apart; a second adds no
  kind of drift. Where used blocks are given out again, the counts of that group fall
  without end; the constraint `CountsInRange` ends a behaviour there.
* `data_stream`: the stream reaches all three ranges, and with double indirect
  arrays of four runs also the last entry of an array. `Tight` is
  the number of free blocks at which preallocation stops, and the volume is
  small enough that files reach it.
* `b_plus_tree`: a node holds two or three keys, none longer than a quarter of a node, as
  255 bytes are of 1024; six keys make three levels, so that splits and removals go
  through an index node that is not the root. Removing three keys of six
  is enough to empty leaves and the index nodes above them, up to the root. Seven nodes are few
  enough that allocations also fail.
  An abort does not move the iterators back, so with failures the index of an
  iterator that is never asked again can drift without bound: the trees with an
  iterator have the first four keys only, and no failures. That a free node which
  cannot be made writable is passed over, and one more appended (`MayPass`), is in the run
  `siblings` and in the proofs only; it multiplies the states of `b_plus_tree`.
* `journal`: with a log of seven blocks that begins in its middle, one of two
  entries goes round the end of the log while the other is not yet written back.
  The constraint `LogIsWhole` ends a behaviour where the code leaves its own
  rules: an entry that needs two arrays, ends exactly at the end of the log, is
  larger than the free part, or was not written, it or its super block. It also ends one where
  `_blockNotify` finds only one entry, and the next one has its `log_end` but is not added yet
  (the beginning then passes it; the run `journal_end` shows what that loses), and where the
  flag is set to clean for a log that has got a new end since that was tested. These are cases
  of the section on what was seen in the code; behind them there is nothing that could hold. All
  other orders of the two threads are in the run, also a `_blockNotify` between `log_end` and the
  new entry that leaves an older one.
* `query`: two inodes give every combination of who satisfies which side; the
  expressions have each operator, each kind of pattern, an OR in brackets and
  negated operators; two changes make a value go and come back.
* `attributes`: the section holds three short items or two long ones, so that a
  write, and a longer name, each push others out; two changes are enough for an
  item to be moved out and another one in under an iterator.
* `volume`: partitions of other systems in front, between and behind; a table
  that cannot be read at each place of the chain; a super block left over in front of the
  partitions, which is mounted when the opener gives up before it comes to the partition; more handles than volumes, so that a
  leaked one is seen; block sizes and device sizes that give one group and many.
* `browser`: a partition of another system in front, so that places and numbers
  differ; a second disk behind; a directory below a directory; files of no block and of one
  and a half.

`CHECK_DEADLOCK FALSE` is set for `DataStream`, where the caller aborts its
transaction after a failed grow and the model ends, in phase `failed`; for
`Attributes`, where nothing is done with a freed inode; and for `Volume` and `Browser`,
where all handles may be taken or nothing may be left to list or copy.

### Fairness and liveness

`FileCache` assumes weak fairness of the reader's own steps and nothing of the
caller: there is one thread, it is in the call until the call returns, and
`Sleep` returns by itself. `Browser` assumes weak fairness of `Working`, the steps
of a handler that is running, and nothing of the user, for the same reason. The other modules state safety only. A call of the
block cache, the allocator or the attributes is one step and cannot hang half way. That a grow ends is
stated as a bound on its rounds (`GrowEnds`), which is stronger than
termination and does not depend on fairness.

## The proofs

`BlockCacheProofs` proves, for any finite set of holders and any values of the
other constants, that the safety properties of `block_cache` are invariants, and
that it implements `BlockStore`:

| theorem | property |
|---|---|
| `CacheConsistent` | the inductive invariant `IInv` |
| `CacheIsSound` | `CacheSound`, the conjunction of the types and the next three |
| `CacheCountsReferences` | `ReferenceCounts` |
| `CacheListsUnused` | `UnusedList` |
| `CacheOwnsBuffers` | `BuffersOwned` |
| `HoldersKeepTheirBlock` | `HeldBlocksStay`: no use after free |
| `HoldersReadRight` | `HoldersReadTheirBlock`, for volumes of at most `KeyModulus` blocks |
| `CacheImplementsStore` | `ImplementsStore`, for volumes of at most `KeyModulus` blocks |
| `CacheStaysWithinLimit` | `StaysWithinLimit` |
| `CacheEvictsOldest` | `OldestLeaveFirst`, an action property |

Six more modules are about other components:

| theorem, in | property |
|---|---|
| `KeptPagesHoldTheFile`, `FileCacheProofs` | `PagesHoldTheFile` |
| `PlainReadsAreRight`, `FileCacheProofs` | `PlainReadsRight` |
| `AllocatorTypes`, `BlockAllocatorProofs` | `TypeOK` |
| `NothingAllocatedTwice`, `BlockAllocatorProofs` | `NoDoubleAllocation` |
| `HintsCountTheBitmap`, `BlockAllocatorProofs` | `HintsFitBitmap` |
| `AllocationSearchesAll`, `BlockAllocatorProofs` | `SearchIsThorough` |
| `EachInOnePlace`, `AttributesProofs` | `OnePlace` |
| `IndicesFollow`, `AttributesProofs` | `IndexFollows` |
| `WritesAreRead`, `AttributesProofs` | `WritesRead` |
| `IteratorReturnsAll`, `AttributesProofs` | `IteratorSeesAll` |
| `FailureIsUndone`, `JournalProofs` | `FailureUndone` |
| `LogIsRecoverable`, `JournalProofs` | `Recoverable` |
| `LogPointersAreRight`, `JournalProofs` | `LogPointers` |
| `TreeIsDictionary`, `BPlusTreeProofs` | `IsDictionary`, if `KeysAreShort` |
| `NothingOverflows`, `BPlusTreeProofs` | `NodesFit`, if `KeysAreShort` and `HalvesHaveRoom` |
| `VolumesOwnTheirDevice`, `BrowserProofs` | `OwnDevice` |
| `VolumesFitTheirPartition`, `BrowserProofs` | `FitsPartition` |
| `FormattedCanBeMounted`, `BrowserProofs` | `FormattedMounts` |
| `WalkTriesEachOnce`, `BrowserProofs` | `EveryItemTried` |
| `TreeShowsEntries`, `BrowserProofs` | `ItemsAreEntries` |
| `FinishedCopyIsWhole`, `BrowserProofs` | `CopyWhole` |

Assumptions of the block cache: the sizes are natural numbers, `Holder` is finite, and the sentinels
are none of the values they stand beside (`SizesAssumption`,
`HolderAssumption`, `SentinelAssumption`). `HoldersReadRight` and `CacheImplementsStore`
also assume `MaxBlocks <= KeyModulus`: on a larger volume two blocks whose numbers agree
modulo `KeyModulus` are confused.

The argument for the block cache: none of the properties is inductive alone. That a held block
stays in the cache depends on the unused list holding only blocks with
`ref_count` 0, that on the counts being exact, and that on every holder's block
being cached, also when two block numbers share a key. `IInv` is the
conjunction: a state of the cache is `Good` when its parts have their types,
the list is duplicate free and holds exactly the unreferenced entries
(`Listed`), and buffers and entries correspond one to one (`Owned`); it is
`Consistent` with the holders when each count is the number of holders of that key
(`Counted`) and each holder's buffer is its entry's (`Pinned`). The lemmas
follow the code: every operator of the cache keeps a state `Good`
(`RemoveUnusedGood`, `DereferenceGood`, `ReferenceGood`, `ReadGood`), and each
composition the actions make of them keeps it `Consistent`
(`UnsetConsistent`, `CachedConsistent`, `ReadConsistent`, ...).
`NextConsistent` has one case per action.
`OldestLeaveFirst` speaks of two states, and each step is put together of three parts, each of
which keeps the order: a put, after which one block more may wait behind the
others (`Joins`), blocks taken from the front (`Drops`), and one taken out of the middle to
be used (`Uses`). `OrderKept` is the lemma about the three in a row, `NextInOrder` finds them in every
action.

The refinement needs no invariant of its own: by `HoldersReadRight` what a
holder sees is the block it asked for, so both variables of `BlockStore` are the
same function of what is held (`SeenIsAsked`), and each action changes that
function as a `Read`, a `Clear` or a `Move` does. The limit needs one more,
`Within`: `allocated_block_count` is never below the number of cached blocks. So
what `put_cached_block` and `NewBlock` find the count to be too high by is at
least what the cache has too many of, and `RemoveUnusedBlocks` drops that many or
empties the list (`RemoveUnusedDrops`).

In these six:

* `FileCacheProofs` has the locals of the three loops in its invariant. The extents of
  a map are the file's runs, one after the other (`Maps`), so `pages_io` goes on where
  it stopped, in the file and on the disk (`ReadInv`); a chunk that is being filled is right
  up to where it has come (`RightUpto`), and what its first read has put behind its
  extent is overwritten, since `bytesLeft` is never less than what the vectors have room for.
  `CallInv` says the same of the caller's buffer and `PlainInv` of a read past the cache.
* `BlockAllocatorProofs` needs no invariant for what `AllocateBlocks` returns: the
  scan counts bits it has looked at, so the range is free whatever the hints say, and
  it remains that `rangeStart` is the bit where the range begins
  (`RangeStartRight`), or at least not behind it (`RangeStartWithin`). That the reserved area stays used is inductive as it is, and
  so are the hints with the types (`HintsInv`). That the search misses nothing is an induction
  over the bits of a scan and then over the groups. The theorems assume nothing
  about the sizes. Where a group has a shorter block of the bitmap behind a whole one, which only
  the last can and on most volumes has, the code's arithmetic is wrong (see below): the properties say of
  the groups that are `Whole` what they should, and of that one that its runs lie in it and
  that `used_blocks` agrees with its `fFreeBits`.
* `AttributesProofs` has one invariant, `Inv`, for its first theorems. `Placed` is
  `OnePlace` without the quantifiers over items: the section is a `Section` (it fits, each
  name is in it once, that of the file in front), each attribute is `Kept` in it or has a file, never
  both, and the directory is there when a file is. `Follow` says that each index the code has told of
  everything has the key of the `Entry`, wherever that is; it needs that no such value is
  empty, since `Index::Update` refuses an empty key. After `Free` `Emptied` takes its place.
  Sizes come first: how much of the section is used is a sum, and taking out, replacing or
  appending an item changes it by the item's size (`UsedWithout`, `UsedWith`). Then what each step of
  the code does to one attribute (`RemovedSmallDataIs`, `AddedSmallDataIs`, `FiledIs`), and
  that writes, removals and the room made for the name are made of these (`WrittenIs`,
  `RemovedIs`, `NameSetIs`), so that they move an attribute but keep the value of every
  other one (`Outcome`, `Unchanged`). The loop of `Free` is followed round by round: it ends with nothing
  left if the rounds are `Orderly`, where the iterator has no item behind it that it
  passed over. For the iterator `Tracking` is added: of what stayed in its place, an item has
  been returned once if the iterator has `Passed` it and not at all otherwise, and a file
  once if it is not behind the `last` one. What needs its proof is that no removal and no addition
  puts an item on the other side of the iterator (`RemovalWays`, `AdditionWays`, and `GoesOn` for
  what is made of them), though the place of an item counts the name and `fCurrentSmallData` does not,
  and that `Free`, when it leaves attributes, has skipped one in its first round (`FreedAll`).
  `AttributesAssumption` says that there are finitely many names, all different from
  that of the file, and that data are sequences of bytes.
* `JournalProofs` strengthens `FailureUndone` by `Undoable`: outside of transactions
  the blocks are as the last one left them, and are those of the last log entry
  unless there is a batch; inside of one, what a failure would go back to is what the
  transaction found, which needs that `fHasSubtransaction` is set just when there is
  a batch.

  `LogIsRecoverable` and `LogPointersAreRight` need a picture of the whole log that the
  code keeps nowhere (`Picture`): a set of `Heads`, the places of the run arrays between `log_start`
  and `log_end` of the super block on the disk, each ending where the next begins (`Chain`). The
  entries in memory are some of them in their order (`Live`): those in between that are
  written back already stay in the log until it is its turn. The newest head that lists a
  block has what was logged of it, and a block that no head lists is at its place (`Logged`).
  The two super blocks differ while one of the threads is on its way to write it: the one in
  memory has the new end first, and a new beginning (`Pointers`). Whoever writes the new end,
  `_WriteTransactionToLog` or a `_blockNotify` in between, makes the transaction an entry of the log
  (`Landed`), that is not in `fEntries` yet. What `_WriteTransactionToLog` still has to write goes
  behind all heads (`Writing`). `IInv` is the conjunction with the types. Every step keeps it: where the new
  end comes to the disk (`SuperLands`), what was written behind the heads is one more of them; a
  write-back of a block takes it off one entry only; and where `_blockNotify` writes a new
  beginning, it passes heads that have nothing left to recover. That the walk of `ReplayLog` ends at `log_end` and has
  found the newest copy of everything is an induction along the heads (`Come`). All of it
  holds while the code keeps the log whole (`ghost.whole`, the cases under `journal` above); behind that nothing does.
* `BPlusTreeProofs` proves that the tree implements `Dictionary` for every set of keys and
  every size of a node. What `Find` returns depends on the entries and overflow links of the nodes
  that can be reached, the shape. In a search tree (`SearchTree`) each of its nodes has a height and a set of
  keys that are looked for below it, its span; every way down is one lower and takes the part of
  the span between its two keys. So each key has one leaf (`Finds`, an induction over the way down), and what the tree
  shows is what its leaves hold. Between two turns of a loop the stored tree is no search
  tree: while `Insert` goes up (`Growing`), it lacks one entry, in the node on top of the stack, that the shape
  has already; while `Remove` goes up (`Shrinking`), one way of that node leads nowhere, and no key is
  looked for there. That a turn keeps this, for a split of a leaf, of an index node and of
  the root, and for a node that becomes empty, is the body of the proof. Nodes that are allocated are not in the
  tree, since the free ones are a list that comes to none twice (`FreeSound`). Links between neighbours are no
  part of a shape, so it does not matter here whether they could be told. Every turn but the last
  is a stutter of `Dictionary`, the last one its step, and a failure leaves what the
  transaction found (`DictionaryInv`).

  `KeysAreShort` is what a split needs to leave a key in both halves: with the code's sizes it
  holds of keys up to 248 bytes, and names can have 255. Behind that the code really
  goes wrong (see below). `NothingOverflows` adds the sizes: the sum that `SplitAt`
  compares is that of a prefix of the keys (`SumsOf`); the key it stops at is the first to reach half a node
  (`SplitAtLeast`), so the front, which is one key longer at most, and the rest (`RestFits`) have room. For that no
  key may need more than half a node with what rounding adds (`HalvesHaveRoom`), which holds of all
  names with the code's sizes.
* `BrowserProofs` begins with `Volume`, and strengthens `OwnDevice` by `VInv`: each volume's handle is its
  own and is open on its `Place`, or on the whole disk where its opener `GaveUp`, which the
  partition tables decide, so that no format or leftover super block changes it. The lemmas follow the handle: `Open` takes a closed
  one, what is not kept is closed again (`NotKept`), and a volume is added or taken
  out together with it. `SInv` adds what sizes depend on: the walks are those over the
  disks, each open handle is of a device that exists (`Opens`), and a volume fits the entry
  its size was compared with (`Fits`). Beside it are lemmas about `Partitions`: a walk finds
  a sequence of partitions however the tables are linked (`WalkIs`, an induction over the
  tables), no two of ours have the same number (`CountIsUnique`), and behind
  partitions that are all ours the number is the place (`CountBehindOurs`). `WrittenMounts` is the
  arithmetic of a new file system, for each of the four block sizes and any device.
  `SystemsAssumption` says that there is a first disk, that tables hold entries, and that what a walk
  finds can be opened.
* Of the window, `BrowserProofs` has the loop invariant of the copy (`Growing`): what is written and
  what is left make up the file, and the next block is not longer than what is
  left, so that a read never comes back short. A copy whose local file could not
  be opened is `Stuck`, and ends only if the file is empty.

  `WalkTriesEachOnce` and `TreeShowsEntries` share `TreeInv`. Parents are in front of their
  children (`Tree`), so the base the tree starts with, devices with their partitions
  behind them, stays in front however much is listed (`Base`). While the walk goes on,
  the only other items are in root directories of partitions it has been to
  (`Shallow`), and what was tried is the partitions in front of its place, and none
  behind (`Walking`); that `GetNextUpItem` finds the next place from any of the three levels is
  `NextVisitedIs`. When it has ended, that is all of them. Each item below a partition
  leads to a volume of its partition, is an entry of its parent's directory and the
  only child of that name (`Entered`): a volume is set at a partition before it is listed,
  and a directory with children is not listed. `PartitionOfIs` follows the recursive function
  `PartitionOf` up the tree. `TreesAssumption` says that a directory has each name once, as a
  B+tree without duplicates does. That the tree shows finitely many partitions
  of a disk follows from `WalkIs` (`ListedAreFinite`).

The induction theorems of the library take an operator as a parameter, which no installed
prover can instantiate. `InductionLemmas` derives from `WFMin`, which takes sets, inductions
whose claim is given as the set of numbers it holds of (`NumberInduction`, `SetInduction`, `StepwiseExists`); with
them the recursive functions of the models are proved about for every input. RECURSIVE operators
cannot be.

Only model-checked: of the components above, the liveness properties (`FreshReadsReturn`,
`HandlersReturn`), since TLAPS proves neither properties under fairness nor anything about
`ENABLED`; all of `DataStream` and `Query`; and of `BPlusTree` `TreeSound` and
`IteratorSeesAll`. What `Find` returns does not depend on the links between leaves or on
nodes that are lost, so the invariant of `TreeIsDictionary` says nothing about them, and the iterator
needs both. `StreamSound` does not hold for
all values of the constants, because of the two errors of the double indirect
range described below, so a theorem about it needs sizes that stay out of their reach. `Expression` and
`Query` have recursive operators, which TLAPS cannot reason about.

## Seen in the code and not turned into a run

* `Compare` (`bfs/Cache.cpp` 1306) cuts the difference of two block numbers to an `int`,
  so blocks 2^32 apart are the same to the cache; TLC shows it with `MaxBlocks` larger
  than `KeyModulus`.
* `_GrowStream` writes the entry of a run that begins a new double indirect array
  behind the array before it (`bfs/Inode.cpp` 1737), and `_ShrinkStream` leaves
  `max_double_indirect_range` too large when it ends at the end of a run
  (`bfs/Inode.cpp` 1825). The sizes of `data_stream` stay below both.
* After a split the first keys are in `other`, the new node in front, while
  `TreeIterator::Update` moves every iterator of the node to `other` and takes the number
  of keys left in the node from its index (`bfs/BPlusTree.cpp` 2161-2167), against its own
  comment "Adjust fCurrentKey to point to the same key as before." `IteratorSeesAll`
  excludes iterators whose node was split for this reason.
* `Insert` and `Remove` go on when a neighbour cannot be made writable (`bfs/BPlusTree.cpp` 1372,
  1743, 1748), against the comment "we have to update the right/left link of the siblings first",
  and `Remove` does not look at what `Free` returns (1751): links then lead to nodes that are freed, or empty
  nodes are in no list (the run `siblings`). If the stream got shorter, the link leads behind its
  end, `CheckNode` (`bfs/BPlusTree.h` 424) refuses the neighbour, and its keys cannot be found any more;
  if the node is used again, the next removal beside it writes into its links. `TreeSound` leaves out such trees.
* `newAllocated` is never set in `_SplitNode` (`bfs/BPlusTree.cpp` 1108), so the key dropped
  from an index node leaks. If all keys of an index node go to `other`, the key it then
  drops is read behind the last one (1124).
* `_UpdateIterators`, `_RemoveIterator` and `~BPlusTree` take a `SimpleLock`, whose `Lock`
  does not return in this build (`bfs/Lock.h` 546).
* `allocated_block_count` is never decreased (`bfs/Cache.cpp` 133), so once
  `kMaxBlockCount` blocks have been read in all, the cache empties its list on every
  release, however few blocks it holds.
* `AllocateBlocks` with `maximum == minimum` makes no second pass and therefore
  never looks in front of `start` in the first group (`bfs/BlockAllocator.cpp`
  567). `SearchIsThorough` excludes this case explicitly.
* `_ShrinkStream` frees the runs of an array of the double indirect range, but not
  the array's own blocks (`bfs/Inode.cpp` 1831). `KeepsWhatItNeeds` is limited to
  streams outside that range for this reason.
* After a failed grow, `SetFileSize` repairs the inode in memory while the abort
  brings back the one on the disk; preallocated blocks can be in one of them only.

In the file cache, the properties leave these out by their conditions:

* A long unaligned read loses its last bytes: what is left is compared with the
  size of a chunk, not with what the chunk provides (`bfs/Cache.cpp` 1124).
* A page that was read stays busy, so a second read of it waits forever (1078, 1228).
* A failed disk read is returned as success, with bytes that were never read (`System.cpp` 184).

In the writing half:

* With a last bitmap block shorter than the one before it, the search computes
  the start of a range, and where in the block it begins, from the wrong length, returns used
  blocks and misses free ones (`bfs/BlockAllocator.cpp` 589-601). The run `block_allocator` goes through
  this; its properties leave it out by `Whole`.
* Offsets behind 2 GiB overflow `int32` in the double indirect range (`bfs/Inode.cpp` 1196).
* Keys of 226, 226 and 255 bytes and a new one of 255 are all put into one node by
  the split, which then needs 1032 of its 1024 bytes and leaves the other one empty
  (`bfs/BPlusTree.cpp` 1030); TLC shows it with the sizes of the code and these four keys.
* A transaction of several run arrays writes all of them to the same place of the log
  (`bfs/Journal.cpp` 568-617); whether the log has room is not checked, the
  code is commented out (542-554); an entry that ends at the end of the log makes
  `log_end` the size of the log, which a replay never reaches (626); what fails to be
  written is printed only (587, 616), and a super block that could not be written (642) is returned
  to callers that go on; the replay writes nothing (391) and empties the
  log; after a wrap the device is not flushed, since `logStart` is 0 by then (664).
* `_blockNotify` between the new `log_end` (639) and `fEntries.Add` (654) finds no next entry
  if only one older entry is left, and moves `log_start` to the new end: the new
  entry is behind the beginning of the log, and the disk is marked clean (the run `journal_end`). It
  tests for an empty log and sets the flag (494-495) without a lock, so that it can clear the
  flag that `_WriteTransactionToLog` has just set (638). The model has the flag and the end of 638-640
  as one step; the flag that is lost between them is the same as one lost behind both.
* `fMaxTransactionSize` underflows for a small log (`bfs/Journal.cpp` 299). An inner
  transaction that fails is forgotten if the outer one succeeds (747).
* `Operator::Match` of an OR never asks its right side unless that has the
  better score (`bfs/Query.cpp` 1143); an OR returns an inode once for each side; a
  `?` behind a `*` needs one character more; an equation that cannot be
  prepared ends the query though others are left; what an inode without the
  attribute is compared with depends on the inodes asked before (764); a live
  rename is told as a new entry, and a new file that `x != y` holds of before it has a name is not told at all (1581). `Index::Update` refuses an empty new key, and the
  old entry stays.
* `Inode::Free` leaves every second small attribute and its index entries
  (`bfs/Inode.cpp` 2046), which a later inode of the same number gets; the runs `query` and
  `attributes` have both, and their properties leave out the inodes concerned. A write into the small data section ignores its
  position, which `WritesRead` leaves out; a small attribute that is pushed into a file by a write behind its
  beginning loses its first bytes; a shorter write leaves the end of a file while the
  index is told the new bytes only. `_MakeSpaceForSmallData` needs an item larger
  than the space that is missing. An iterator whose attribute directory was removed never sees
  a new one.

In the volume and the window:

* `DeviceOpener` ignores what `Open` returns, so the handle of the whole disk is
  used when the partition is not found (`bfs/Volume.cpp` 77-91, 679), and mounted if a super block is
  there, formatted or left over; `OwnDevice` says that it is used in no other case. Primary BFS
  partitions are counted from 1, others from 0, and the window passes places among
  all partitions, while the comment says "partitionNr x is the x'th skyfs partition" (1152);
  the size is not set when the entry is not found.
  A full primary table makes `listPartitions` and `CountSkyfsPartitions` return
  without closing the disk.
* A mount that fails leaks its block cache. SkyFS and BFS magic numbers may be mixed.
  `ValidateBlockRun` accepts a run one group behind the last (1722). The log has
  2048 blocks on any device, also on a smaller one, and with groups too small for
  the bitmap it lies across two of them.
* The copy loop never ends if the local file could not be opened
  (`TreeControl.cpp` 897), and writes the last block again when a read fails (909).
  `listDir` throws the first entry of a directory away, "this should be the '.' entry"
  (`DiskFunc.cpp` 78-80), but entries are sorted by their bytes, and a name that begins with a blank,
  `!` or `-` comes before it. A partition whose root could not be listed is not listed again.
  What `file.write` says of the local file is not looked at; `CopyWhole` is about what is handed to it. The copy uses
  the address of a temporary `Volume` (870): undefined, modelled as intact.

## Not modelled, and why

* Check functions (`chkbfs`): a read-only pass over all inodes that nothing in
  this build calls.
* B+tree duplicates (`_InsertDuplicate`, `_RemoveDuplicate`): only the trees of
  indices have them, and nothing in this build changes an index. `Query` has an
  index as the set of its entries.
* `Inode::Create` and `Remove`, beyond what they do to the indices (`Query`); the
  cookies of `Attribute.cpp`, which nothing calls.
* Entries of the journal with several arrays: the code overwrites one with the
  next, and no property of a log remains.
* Locks: in one thread a lock is free or its holder is the caller, and the one lock
  that hangs does so always.
* The dialog of properties, dragging and the labels of the window.
* Painting, dialogs, printing, the test application: no state a property could
  be about.
* Stubs without an effect (write functions of the caches, transaction
  functions, vnode functions): there is nothing they change; where a caller
  depends on their result, that result is in the caller's module.

## Plan

The order in which the modules were written: block cache and its proofs, file
cache, allocator, data streams, B+trees; then journal, queries, attributes, volume
and partitions, window. What would be added next:

1. B+tree duplicates, with a `Dictionary` that keeps a set for each key, and
   `Query` over that instead of a set of entries.
2. `BlockAllocator` and `DataStream` inside the transactions of `Journal`, for the
   drift between the inode in memory and on the disk after an abort.
3. Proofs: that the indices of `Query` follow their
   inodes (`IndicesFollow`), without recursive operators; that a stream has a block for
   each of its offsets (`StreamSound`); that the leaves of a B+tree are one chain (`LeafLevelSane`)
   and no node is lost (`NodesAccounted`).
4. B+trees behind a call that damaged them, with the checks of `CheckNode` on links.
