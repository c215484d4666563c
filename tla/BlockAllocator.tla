--------------------------- MODULE BlockAllocator ---------------------------
(***************************************************************************)
(* The block allocator of bfs/BlockAllocator.cpp: the block bitmap of each *)
(* allocation group, the hints the groups keep beside it (fFirstFree and   *)
(* fFreeBits), and the volume's count of used blocks.                      *)
(*                                                                         *)
(* AllocateBlocks and Free run under the allocator's lock, so each is one  *)
(* step.  The bitmap lies in the block cache and takes part in the         *)
(* transaction of the caller: an abort brings back the logged bitmap, but  *)
(* not the hints and not the count.                                        *)
(*                                                                         *)
(* In this port the functions that make a block writable are stubs that    *)
(* return NULL, which is the outcome AllocateFails and FreeFails model;    *)
(* that they can succeed is what the allocator's code is written for.      *)
(*                                                                         *)
(* Left out: the check functions of chkbfs, and the branch of _Initialize  *)
(* that reserves the log area when it is free, since no step frees it.     *)
(***************************************************************************)
EXTENDS Integers, FiniteSets, FiniteSetsExt

CONSTANTS
  BitsPerBlock,   \* bits in a block of the bitmap
  BlocksPerGroup, \* BlocksPerAllocationGroup: bitmap blocks of a group
  NumBlocks,      \* blocks of the volume
  Reserved,       \* Log().Start() + Log().Length()
  Starts,         \* where in a group callers want their blocks
  Sizes,          \* the <<maximum, minimum>> callers ask for
  MaxOps,         \* bound: allocations and frees in one transaction
  MaxAborts       \* bound: transactions aborted between two mounts

BitsPerGroup == BitsPerBlock * BlocksPerGroup
NumGroups == (NumBlocks + BitsPerGroup - 1) \div BitsPerGroup
Group == 0 .. NumGroups - 1

ASSUME SizesAssumption ==
  /\ BitsPerBlock \in Nat \ {0}
  /\ BlocksPerGroup \in Nat \ {0}
  /\ NumBlocks \in Nat \ {0}
  /\ Reserved \in 1 .. NumBlocks
  /\ Reserved <= BitsPerGroup
  /\ MaxOps \in Nat
  /\ MaxAborts \in Nat

\* Where _GrowStream asks for less than its minimum, the first pass answers.
ASSUME RequestsAssumption ==
  /\ Starts \subseteq Nat
  /\ Sizes \subseteq {s \in (Nat \ {0}) \X (Nat \ {0}) : s[2] <= s[1]}

\* fNumBits and fNumBlocks: the last group may have less than the others.
NumBits(g) ==
  IF g = NumGroups - 1 THEN NumBlocks - g * BitsPerGroup ELSE BitsPerGroup
NumBitmapBlocks(g) ==
  IF g = NumGroups - 1 THEN 1 + (NumBits(g) - 1) \div BitsPerBlock ELSE BlocksPerGroup

Bits(g) == 0 .. NumBits(g) - 1

\* AllocationBlock::SetTo: the last block of the bitmap may be shorter.
NumBlockBits(g, block) ==
  IF (block + 1) * BitsPerBlock > NumBits(g) THEN NumBits(g) % BitsPerBlock ELSE BitsPerBlock

\* A block_run
Run == [group : Group, start : Nat, length : Nat \ {0}]
BitsOf(run) == run.start .. run.start + run.length - 1

VARIABLES
  bitmap,     \* bitmap[g]: the used bits, as the block cache shows them
  logged,     \* the bitmap at the end of the last transaction
  firstFree,  \* fFirstFree, by group
  freeBits,   \* fFreeBits, by group
  usedBlocks, \* used_blocks of the super block
  aborts,     \* transactions aborted since the hints were computed
  failed,     \* the running transaction cannot be completed any more
  ops         \* allocations and frees in the running transaction

vars == <<bitmap, logged, firstFree, freeBits, usedBlocks, aborts, failed, ops>>

-----------------------------------------------------------------------------
(* AllocateBlocks as a search.  It visits every group twice, beginning at  *)
(* the caller's position: once for `maximum` blocks in a row, once for     *)
(* any range of at least `minimum`.                                        *)

Request == [group : Group, start : Nat, maximum : Nat, minimum : Nat]

\* The bit a group is scanned from: fFirstFree or the caller's start.
ScanStart(g, start) ==
  LET from == IF start < firstFree[g] THEN firstFree[g] ELSE start
      block == from \div BitsPerBlock
  IN  block * BitsPerBlock
        + IF block < NumBitmapBlocks(g) THEN from % NumBlockBits(g, block) ELSE 0

\* The ranges <<first, last>> that the scan counts: free bits from the first
\* one after a used bit, or from where it started.
Ranges(g, from) ==
  LET free == {b \in Bits(g) : from <= b /\ b \notin bitmap[g]}
      firsts == {b \in free : b = from \/ b - 1 \in bitmap[g]}
  IN  {r \in firsts \X free : r[1] <= r[2] /\ r[1] .. r[2] \subseteq free}

\* Mutant: the second pass does not look at the minimum.
EnoughOne(request, g, r, second) ==
  \/ r[2] - r[1] + 1 = request.maximum
  \/ second /\ (r[2] + 1 \in bitmap[g] \/ (r[2] + 1) % BitsPerBlock = 0 \/ r[2] + 1 = NumBits(g))

\* The scan ends with a range of the maximum, in the second pass also with one
\* of the minimum that a used bit or the end of the bitmap block ends.
Enough(request, g, r, second) ==
  LET length == r[2] - r[1] + 1
      next == r[2] + 1
  IN  \/ length = request.maximum
      \/ /\ second
         /\ length >= request.minimum
         /\ next \in bitmap[g] \/ next % BitsPerBlock = 0 \/ next = NumBits(g)

FirstEnough(request, g, from, second) ==
  LET ends == {r \in Ranges(g, from) : Enough(request, g, r, second)}
  IN  {r \in ends : \A s \in ends : r[2] <= s[2]}

\* Mutant: the range is placed in the first block of the bitmap.
RangeStartInBlock(g, first) == first % NumBlockBits(g, first \div BitsPerBlock)

\* rangeStart, from the block of the bitmap and the bit in it.
RangeStart(g, first) ==
  (first \div BitsPerBlock) * NumBlockBits(g, first \div BitsPerBlock)
    + (first % BitsPerBlock)

\* Mutant: the minimum is accepted from the second group on.
FindShort(request, i) ==
  LET g == (request.group + i) % NumGroups
  IN  IF freeBits[g] # 0 /\ (i = 0 => request.start < NumBits(g))
        THEN {[group |-> g, start |-> RangeStart(g, r[1]), length |-> r[2] - r[1] + 1] :
                r \in FirstEnough(request, g, ScanStart(g, IF i = 0 THEN request.start ELSE 0), i > 0)}
        ELSE {}

\* Mutant: the start is not reset for the next group.
FindFromStart(request, i) ==
  LET g == (request.group + i) % NumGroups
      second == i >= NumGroups
  IN  IF /\ request.start < NumBits(g)
         /\ freeBits[g] # 0
         /\ second => request.maximum # request.minimum
        THEN {[group |-> g, start |-> RangeStart(g, r[1]), length |-> r[2] - r[1] + 1] :
                r \in FirstEnough(request, g, ScanStart(g, request.start), second)}
        ELSE {}

\* What the i-th visit finds: at most one run.  Full groups are passed over,
\* and a second pass is made only for a smaller minimum.
Find(request, i) ==
  LET g == (request.group + i) % NumGroups
      start == IF i = 0 THEN request.start ELSE 0
      second == i >= NumGroups
  IN  IF /\ start < NumBits(g)
         /\ freeBits[g] # 0
         /\ second => request.maximum # request.minimum
        THEN {[group |-> g, start |-> RangeStart(g, r[1]), length |-> r[2] - r[1] + 1] :
                r \in FirstEnough(request, g, ScanStart(g, start), second)}
        ELSE {}

\* The run AllocateBlocks takes, as a set of at most one; {} is B_DEVICE_FULL.
Answer(request) ==
  LET visits == {i \in 0 .. 2 * NumGroups - 1 : Find(request, i) # {}}
  IN  UNION {Find(request, i) : i \in {j \in visits : \A k \in visits : j <= k}}

\* Requests of the volume's callers: AllocateForInode and Allocate pass any
\* group and a start that may be the end of a run.
Requests ==
  {[group |-> g, start |-> s, maximum |-> size[1], minimum |-> size[2]] :
     g \in Group, s \in Starts, size \in Sizes}

-----------------------------------------------------------------------------

\* Mutant: the hint skips the bit behind the run.
HintBehind(run) ==
  firstFree' = [firstFree EXCEPT
    ![run.group] = IF run.start = @ THEN run.start + run.length + 1 ELSE @]

\* AllocationGroup::Allocate, the hint.
HintAfterAllocate(run) ==
  firstFree' = [firstFree EXCEPT
    ![run.group] = IF run.start = @ THEN run.start + run.length ELSE @]

\* Mutant: a free below the hint does not lower it.
HintKept(run) == UNCHANGED firstFree

\* AllocationGroup::Free, the hint.
HintAfterFree(run) ==
  firstFree' = [firstFree EXCEPT ![run.group] = IF @ > run.start THEN run.start ELSE @]

\* The bits of a run that lie in the blocks of the bitmap up to `block`.
Written(run, block) == {b \in BitsOf(run) : b \div BitsPerBlock <= block}

\* The blocks of the bitmap that a run lies in; any may fail to be written.
FailingBlocks(run) == {b \div BitsPerBlock : b \in BitsOf(run)}

\* InitializeAndClearBitmap: an empty volume with its reserved area.
Init ==
  /\ bitmap = [g \in Group |-> IF g = 0 THEN 0 .. Reserved - 1 ELSE {}]
  /\ logged = bitmap
  /\ firstFree = [g \in Group |-> IF g = 0 THEN Reserved ELSE 0]
  /\ freeBits = [g \in Group |-> IF g = 0 THEN NumBits(g) - Reserved ELSE NumBits(g)]
  /\ usedBlocks = Reserved
  /\ aborts = 0
  /\ failed = FALSE
  /\ ops = 0

Running == ~ failed /\ ops < MaxOps

AllocateBlocks(request) ==
  /\ Running
  /\ \E run \in Answer(request) :
       /\ bitmap' = [bitmap EXCEPT ![run.group] = @ \cup BitsOf(run)]
       /\ HintAfterAllocate(run)
       /\ freeBits' = [freeBits EXCEPT ![run.group] = @ - run.length]
       /\ usedBlocks' = usedBlocks + run.length
  /\ ops' = ops + 1
  /\ UNCHANGED <<logged, aborts, failed>>

\* A block of the bitmap cannot be made writable: those before it are marked,
\* the hints are changed, used_blocks is not.
AllocateFails(request) ==
  /\ Running
  /\ \E run \in Answer(request) : \E block \in FailingBlocks(run) :
       /\ bitmap' = [bitmap EXCEPT ![run.group] = @ \cup Written(run, block - 1)]
       /\ HintAfterAllocate(run)
       /\ freeBits' = [freeBits EXCEPT ![run.group] = @ - run.length]
  /\ aborts < MaxAborts
  /\ failed' = TRUE
  /\ UNCHANGED <<logged, usedBlocks, aborts, ops>>

\* Mutant: the reserved area is not checked.
ValidAnywhere(run) == run.start + run.length <= NumBits(run.group)

\* The checks at the head of Free.
Valid(run) ==
  /\ run.start + run.length <= NumBits(run.group)
  /\ run.group = 0 => run.start >= Reserved

\* Callers free what they were given, or the end of it; here, any used run.
Free(run) ==
  /\ Running
  /\ Valid(run)
  /\ BitsOf(run) \subseteq bitmap[run.group]
  /\ bitmap' = [bitmap EXCEPT ![run.group] = @ \ BitsOf(run)]
  /\ HintAfterFree(run)
  /\ freeBits' = [freeBits EXCEPT ![run.group] = @ + run.length]
  /\ usedBlocks' = usedBlocks - run.length
  /\ ops' = ops + 1
  /\ UNCHANGED <<logged, aborts, failed>>

FreeFails(run) ==
  /\ Running
  /\ Valid(run)
  /\ BitsOf(run) \subseteq bitmap[run.group]
  /\ \E block \in FailingBlocks(run) :
       bitmap' = [bitmap EXCEPT ![run.group] = @ \ Written(run, block - 1)]
  /\ HintAfterFree(run)
  /\ freeBits' = [freeBits EXCEPT ![run.group] = @ + run.length]
  /\ aborts < MaxAborts
  /\ failed' = TRUE
  /\ UNCHANGED <<logged, usedBlocks, aborts, ops>>

\* The transaction ends and its blocks are logged.
Commit ==
  /\ ~ failed
  /\ ops > 0
  /\ logged' = bitmap
  /\ ops' = 0
  /\ UNCHANGED <<bitmap, firstFree, freeBits, usedBlocks, aborts, failed>>

\* It is aborted: the cache drops the changed blocks of the bitmap.
Abort ==
  /\ failed \/ ops > 0
  /\ aborts < MaxAborts
  /\ bitmap' = logged
  /\ aborts' = aborts + 1
  /\ failed' = FALSE
  /\ ops' = 0
  /\ UNCHANGED <<logged, firstFree, freeBits, usedBlocks>>

\* _Initialize: the next mount finds the logged bitmap and counts it.
Mount ==
  /\ bitmap' = logged
  /\ firstFree' = [g \in Group |->
       IF Bits(g) \subseteq logged[g] THEN -1 ELSE Min(Bits(g) \ logged[g])]
  /\ freeBits' = [g \in Group |-> Cardinality(Bits(g) \ logged[g])]
  /\ usedBlocks' = NumBlocks - SumFunction([g \in Group |-> Cardinality(Bits(g) \ logged[g])])
  /\ aborts' = 0
  /\ failed' = FALSE
  /\ ops' = 0
  /\ UNCHANGED logged

Runs == {run \in [group : Group, start : 0 .. BitsPerGroup, length : 1 .. BitsPerGroup] :
           run.start + run.length <= NumBits(run.group)}

Next ==
  \/ \E request \in Requests : AllocateBlocks(request)
  \/ \E request \in Requests : AllocateFails(request)
  \/ \E run \in Runs : Free(run)
  \/ \E run \in Runs : FreeFails(run)
  \/ Commit
  \/ Abort
  \/ Mount

Spec == Init /\ [][Next]_vars

-----------------------------------------------------------------------------
(* Properties.                                                             *)

\* Bitmap bits lie in their group, hints and counters in their range; after an
\* abort the counters may be negative.
TypeOK ==
  /\ bitmap \in [Group -> SUBSET (0 .. BitsPerGroup - 1)]
  /\ logged \in [Group -> SUBSET (0 .. BitsPerGroup - 1)]
  /\ \A g \in Group : bitmap[g] \cup logged[g] \subseteq Bits(g)
  /\ firstFree \in [Group -> -1 .. BitsPerGroup]
  /\ freeBits \in [Group -> Int]
  /\ usedBlocks \in Int
  /\ aborts \in 0 .. MaxAborts /\ failed \in BOOLEAN
  /\ ops \in 0 .. MaxOps

\* Nothing went wrong since the last mount.
Exact == aborts = 0 /\ ~ failed

FreeRun(g, start, length) ==
  start + length <= NumBits(g) /\ start .. start + length - 1 \cap bitmap[g] = {}

\* No block of the bitmap in the group is shorter than one before it.  Only the
\* last group can have such a block; there rangeStart is counted in blocks of its
\* size, and AllocateBlocks returns a run that it has not looked at.
Whole(g) == NumBits(g) <= BitsPerBlock \/ NumBits(g) % BitsPerBlock = 0

\* Whatever came before, aborts included, AllocateBlocks returns a run that lies
\* in its group and that is free, unless the group's bitmap ends with a shorter
\* block behind others; and the boot block, the bitmap and the log are never free,
\* on the disk or in the cache.
NoDoubleAllocation ==
  /\ \A request \in Requests : \A run \in Answer(request) :
       /\ run.start + run.length <= NumBits(run.group)
       /\ Whole(run.group) => FreeRun(run.group, run.start, run.length)
  /\ 0 .. Reserved - 1 \subseteq bitmap[0] \cap logged[0]

\* The run is never longer than asked for, nor shorter than the minimum.
LengthAsRequested ==
  \A request \in Requests : \A run \in Answer(request) :
    run.length \in request.minimum .. request.maximum

\* "the first scan through all allocation groups will look for the wanted
\* maximum": less is returned only when no other whole group, and nothing behind
\* the start in this one, has the maximum in a row.
ShorterOnlyIfNeeded ==
  Exact =>
    \A request \in Requests : \A run \in Answer(request) :
      run.length < request.maximum =>
        \A g \in Group, start \in 0 .. BitsPerGroup :
          Whole(g) /\ FreeRun(g, start, request.maximum) =>
            g = request.group /\ start < request.start

\* The volume is full for a request only when no whole group has its minimum in a
\* row.  With minimum = maximum there is no second pass ("it's not necessary"),
\* so what lies in front of the start of the request is never looked at.
FullIfNoRoom ==
  Exact =>
    \A request \in Requests :
      Answer(request) = {} /\ (request.minimum < request.maximum \/ request.start = 0) =>
        \A g \in Group, start \in 0 .. BitsPerGroup :
          Whole(g) => ~ FreeRun(g, start, request.minimum)

\* fFirstFree "doesn't have to be really free", but all bits before it are used,
\* and fFreeBits counts the bitmap, in a group whose bitmap is whole; used_blocks
\* is what fFreeBits leaves of the volume, whatever the groups.
HintsFitBitmap ==
  Exact =>
    /\ \A g \in Group : Whole(g) => /\ 0 .. firstFree[g] - 1 \subseteq bitmap[g]
                                    /\ freeBits[g] = Cardinality(Bits(g) \ bitmap[g])
    /\ usedBlocks = NumBlocks - SumFunction(freeBits)

\* What a request is promised, on a volume where nothing has gone wrong.
SearchIsThorough == LengthAsRequested /\ ShorterOnlyIfNeeded /\ FullIfNoRoom
=============================================================================
