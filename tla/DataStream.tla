----------------------------- MODULE DataStream -----------------------------
(***************************************************************************)
(* The data stream of an inode (bfs/Inode.cpp): which blocks of the volume *)
(* hold which bytes of a file.  The first runs stand in the inode itself   *)
(* (direct), the next in an array of blocks (indirect), and those behind   *)
(* them, all of the same length, in arrays that a third array lists        *)
(* (double indirect).  FindBlockRun looks a position up, _GrowStream adds  *)
(* runs until the stream is large enough, _ShrinkStream frees them.        *)
(*                                                                         *)
(* The inode's lock and the journal's keep other operations away, so a     *)
(* shrink is one step; a grow takes a step for every allocation, since any *)
(* of them may fail and leave the stream half grown.                       *)
(*                                                                         *)
(* The allocator is what module BlockAllocator shows of it: it returns     *)
(* free blocks, never more than asked for.  The volume is one group.       *)
(***************************************************************************)
EXTENDS Integers, FiniteSets, SequencesExt

CONSTANTS
  NumDirect,    \* NUM_DIRECT_BLOCKS
  RunsPerBlock, \* block_runs in a block
  ArrayBlocks,  \* NUM_ARRAY_BLOCKS, a power of two
  BlockSize,    \* bytes in a block
  NumBlocks,    \* blocks of the volume; block 0 is the boot block
  MaxRun,       \* MAX_BLOCK_RUN_LENGTH
  Prealloc,     \* blocks preallocated for a file, 0 for attributes
  Tight,        \* no preallocation with this many free blocks or fewer
  IntModulus,   \* 2^32, the values of an int32
  Layouts,      \* streams found on the disk, see Layout
  Sizes         \* sizes asked of SetFileSize

ASSUME DimensionsAssumption ==
  /\ {NumDirect, RunsPerBlock, ArrayBlocks, BlockSize, NumBlocks, MaxRun} \subseteq Nat \ {0}
  /\ {Prealloc, Tight} \subseteq Nat
  /\ Sizes \subseteq Nat
  /\ IntModulus \in Nat \ {0} /\ IntModulus % 2 = 0

Block == 1 .. NumBlocks - 1

\* A block_run, in a volume of one group
Run == [start : Block, length : 1 .. NumBlocks]
Zero == [start |-> 0, length |-> 0]
BlocksOf(run) == run.start .. run.start + run.length - 1
Blocks(runs) == UNION {BlocksOf(r) : r \in runs}

\* The contents of a block of an array of runs
Clear == [i \in 1 .. RunsPerBlock |-> Zero]

DirectSize == ArrayBlocks * BlockSize
IndirectSize == DirectSize * ArrayBlocks * RunsPerBlock
Int32(n) == ((n + IntModulus \div 2) % IntModulus) - IntModulus \div 2

RoundUp(n) == ((n + ArrayBlocks - 1) \div ArrayBlocks) * ArrayBlocks
InBlocks(bytes) == (bytes + BlockSize - 1) \div BlockSize
Bytes(runs) == BlockSize * FoldLeft(LAMBDA sum, run : sum + run.length, 0, runs)

Larger(m, n) == IF m > n THEN m ELSE n

VARIABLES
  stream, \* data_stream, the arrays it refers to, and the free blocks
  phase,  \* "idle", "growing", or "failed": the caller aborts its transaction
  grow    \* the local variables of _GrowStream; rounds counts its allocations

vars == <<stream, phase, grow>>

Idle == phase = "idle"
Growing == phase = "growing"

-----------------------------------------------------------------------------
(* Reading the arrays.                                                     *)

\* The runs in front of the first empty entry
Listed(entries) ==
  SelectInSeq(entries, LAMBDA run : run = Zero)

Prefix(entries) ==
  IF Listed(entries) = 0 THEN entries ELSE SubSeq(entries, 1, Listed(entries) - 1)

\* A block that is not an array reads as if it were empty.
EntriesAt(s, block) == IF block \in Block THEN s.arrays[block] ELSE Clear

\* The runs of the blocks of an array, each up to its first empty entry
ArrayRuns(s, array) ==
  FlattenSeq([i \in 1 .. array.length |-> Prefix(s.arrays[array.start + i - 1])])

DoubleArrays(s) == ArrayRuns(s, s.doubleIndirect)
DoubleRuns(s) ==
  FlattenSeq([i \in 1 .. Len(DoubleArrays(s)) |-> ArrayRuns(s, DoubleArrays(s)[i])])

DataRuns(s) == Prefix(s.direct) \o ArrayRuns(s, s.indirect) \o DoubleRuns(s)

ArrayRunsUsed(s) == ({s.indirect, s.doubleIndirect} \cup Range(DoubleArrays(s))) \ {Zero}

-----------------------------------------------------------------------------
(* FindBlockRun.                                                           *)

\* The run of a list, beginning at byte `base`, that `pos` lies in, and its
\* offset; {} if there is none.
InList(runs, base, pos) ==
  LET end(i) == base + Bytes(SubSeq(runs, 1, i))
      behind == {i \in 1 .. Len(runs) : end(i) > pos}
  IN  {[run |-> runs[i], offset |-> end(i - 1)] : i \in {j \in behind : \A k \in behind : j <= k}}

\* Mutant: the offset of the array is left out.
InDoubleIndirectFlat(s, pos) ==
  LET start == pos - s.maxIndirect
      current == (start % IndirectSize) \div DirectSize
      array == EntriesAt(s, s.doubleIndirect.start)[(start \div IndirectSize) + 1]
      run == EntriesAt(s, array.start + current \div RunsPerBlock)[(current % RunsPerBlock) + 1]
  IN  {r \in {[run |-> run, offset |-> s.maxIndirect + current * DirectSize]} : r.run # Zero}

\* The arithmetic is done in int32.
InDoubleIndirect(s, pos) ==
  LET start == pos - s.maxIndirect
      index == Int32(start \div Int32(IndirectSize))
      current == (start % Int32(IndirectSize)) \div DirectSize
      array == EntriesAt(s, s.doubleIndirect.start + index \div RunsPerBlock)[(index % RunsPerBlock) + 1]
      run == EntriesAt(s, array.start + current \div RunsPerBlock)[(current % RunsPerBlock) + 1]
  IN  {r \in {[run |-> run, offset |-> s.maxIndirect + Int32(index * IndirectSize) + current * DirectSize]} :
         r.run # Zero}

FindBlockRun(s, pos) ==
  IF s.maxDirect = 0 \/ pos < s.maxDirect
    THEN InList(Prefix(s.direct), 0, pos)
    ELSE IF s.maxDouble = 0 \/ pos < s.maxIndirect
           THEN InList(ArrayRuns(s, s.indirect), s.maxDirect, pos)
           ELSE InDoubleIndirect(s, pos)

\* Where a reader finds the byte at `pos`
BlockAt(s, pos) ==
  {f.run.start + (pos - f.offset) \div BlockSize : f \in FindBlockRun(s, pos)}

-----------------------------------------------------------------------------
(* _ShrinkStream.                                                          *)

\* Mutant: the run is cut in front of the block of the size.
CutShort(runs, base, size, i) ==
  LET offset == base + Bytes(SubSeq(runs, 1, i - 1))
      end == offset + BlockSize * runs[i].length
      keep == (size - offset) \div BlockSize
  IN  IF end <= size
        THEN runs[i]
        ELSE IF offset < size /\ keep > 0
               THEN [runs[i] EXCEPT !.length = keep]
               ELSE Zero

\* Mutant: a run is cut to nothing instead of being removed.
CutEmpty(runs, base, size, i) ==
  LET offset == base + Bytes(SubSeq(runs, 1, i - 1))
      end == offset + BlockSize * runs[i].length
      keep == (size - offset) \div BlockSize
  IN  IF end <= size THEN runs[i]
        ELSE IF offset < size THEN [runs[i] EXCEPT !.length = keep] ELSE Zero

\* Mutant: the run that contains the size is left as it is.
CutWhole(runs, base, size, i) ==
  IF base + Bytes(SubSeq(runs, 1, i - 1)) < size THEN runs[i] ELSE Zero

\* _FreeStreamArray on the i-th run of a list: the run that contains the size is
\* cut behind the block of the size, the ones after it are freed.
Cut(runs, base, size, i) ==
  LET offset == base + Bytes(SubSeq(runs, 1, i - 1))
      end == offset + BlockSize * runs[i].length
      keep == (size - offset) \div BlockSize + 1
  IN  IF end <= size
        THEN runs[i]
        ELSE IF offset < size /\ keep < runs[i].length
               THEN [runs[i] EXCEPT !.length = keep]
               ELSE IF offset < size THEN runs[i] ELSE Zero

CutRuns(runs, base, size) ==
  SelectSeq([i \in 1 .. Len(runs) |-> Cut(runs, base, size, i)], LAMBDA run : run # Zero)

\* The entries of the k-th block of an array that holds `runs` and nothing else
Entries(runs, k) ==
  [i \in 1 .. RunsPerBlock |->
     IF (k - 1) * RunsPerBlock + i <= Len(runs) THEN runs[(k - 1) * RunsPerBlock + i] ELSE Zero]

WithArray(arrays, array, runs) ==
  [b \in Block |-> IF b \in BlocksOf(array) THEN Entries(runs, b - array.start + 1) ELSE arrays[b]]

\* Mutant: the end of a run that was cut is not freed.
FreedWhole(old, new) ==
  Blocks({run \in Range(old) : \A n \in Range(new) : n.start # run.start})

Freed(old, new) == Blocks(Range(old)) \ Blocks(Range(new))

ShrinkDirect(s, size) ==
  LET runs == Prefix(s.direct)
      kept == CutRuns(runs, 0, size)
  IN  IF s.maxDirect > size
        THEN [s EXCEPT !.direct = [i \in 1 .. NumDirect |-> IF i <= Len(kept) THEN kept[i] ELSE Zero],
                       !.maxDirect = IF kept = runs THEN @ ELSE Bytes(kept),
                       !.free = @ \cup Freed(runs, kept)]
        ELSE s

ShrinkIndirect(s, size) ==
  LET runs == ArrayRuns(s, s.indirect)
      kept == CutRuns(runs, s.maxDirect, size)
      max == IF kept = runs THEN s.maxIndirect ELSE s.maxDirect + Bytes(kept)
      rest == [s EXCEPT !.arrays = WithArray(@, s.indirect, kept),
                        !.maxIndirect = max,
                        !.free = @ \cup Freed(runs, kept)]
  IN  IF s.maxIndirect <= size
        THEN s
        ELSE IF max = s.maxDirect
               THEN [rest EXCEPT !.free = @ \cup BlocksOf(s.indirect),
                                 !.indirect = Zero,
                                 !.maxIndirect = 0]
               ELSE rest

\* _FreeStaticStreamArray: the run that contains the size is not cut, and gives
\* the new maximum; when the size is at the end of a run there is none.  An
\* array whose runs are all freed is only taken out of the list.
RunsPerArray == ArrayBlocks * RunsPerBlock
UpTo(runs, first, last) == SubSeq(runs, first, IF last < Len(runs) THEN last ELSE Len(runs))

KeptDouble(s, size) ==
  Larger(0, (size - s.maxIndirect + DirectSize - 1) \div DirectSize)

ShrinkDouble(s, size) ==
  LET runs == DoubleRuns(s)
      arrays == DoubleArrays(s)
      keep == KeptDouble(s, size)
      kept == UpTo(runs, 1, keep)
      lists == [a \in 1 .. Len(arrays) |-> a]
      rest == [s EXCEPT
        !.arrays =
          WithArray(
            FoldLeft(LAMBDA all, a : WithArray(all, arrays[a],
                       UpTo(kept, (a - 1) * RunsPerArray + 1, a * RunsPerArray)), @, lists),
            s.doubleIndirect,
            UpTo(arrays, 1, (keep + RunsPerArray - 1) \div RunsPerArray)),
        !.maxDouble =
          IF size > s.maxIndirect /\ (size - s.maxIndirect) % DirectSize # 0 /\ keep <= Len(runs)
            THEN s.maxIndirect + keep * DirectSize
            ELSE @,
        !.free = @ \cup Freed(runs, kept)]
  IN  IF s.maxDouble <= size
        THEN s
        ELSE IF size <= s.maxIndirect
               THEN [rest EXCEPT !.free = @ \cup BlocksOf(s.doubleIndirect),
                                 !.arrays = WithArray(@, s.doubleIndirect, <<>>),
                                 !.doubleIndirect = Zero,
                                 !.maxDouble = 0]
               ELSE rest

Shrunk(s, size) ==
  [ShrinkDirect(ShrinkIndirect(ShrinkDouble(s, size), size), size) EXCEPT !.size = size]

-----------------------------------------------------------------------------
(* _GrowStream.                                                            *)

\* What Volume::Allocate may return.  Less than the minimum is asked for in the
\* double indirect range, and then exactly that is found.  Of the runs of one
\* length it is the first; that it may also be shorter than necessary stands
\* for all the states of the bitmap.
Allocations(free, requested, minimum) ==
  LET most == IF requested > MaxRun THEN MaxRun ELSE requested
      lengths == IF minimum <= most THEN minimum .. most ELSE {most}
      fits(n) == {b \in free : b .. b + n - 1 \subseteq free}
      starts(n) == {b \in fits(n) : \A f \in fits(n) : b <= f}
  IN  UNION {{[start |-> b, length |-> n] : b \in starts(n)} : n \in lengths}

Take(s, run) == [s EXCEPT !.free = @ \ BlocksOf(run)]

Mergeable(last, run) ==
  last.start + last.length = run.start /\ last.length + run.length <= MaxRun

\* Mutant: runs are merged wherever the new one lies.
ExtendedAlways(runs, run, perBlock) ==
  IF runs # <<>> /\ Len(runs) % perBlock # 0
    THEN [runs EXCEPT ![Len(runs)].length = @ + run.length]
    ELSE Append(runs, run)

\* The run is merged with the last one of its block or put behind it.
Extended(runs, run, perBlock) ==
  IF runs # <<>> /\ Len(runs) % perBlock # 0 /\ Mergeable(Last(runs), run)
    THEN [runs EXCEPT ![Len(runs)].length = @ + run.length]
    ELSE Append(runs, run)

\* The stream at the beginning: a file found on the disk.  Its first runs have
\* the lengths layout.lengths, behind them are layout.double runs of the double
\* indirect range, the arrays in between; layout.others is in use by other files.
LaidOut(layout) ==
  LET count == Len(layout.lengths)
      before(i) == FoldLeft(LAMBDA sum, n : sum + n, 0, SubSeq(layout.lengths, 1, i))
      runs == [i \in 1 .. count |->
                 [start |-> 1 + before(i - 1) + (i - 1) * layout.gap, length |-> layout.lengths[i]]]
      direct == UpTo(runs, 1, NumDirect)
      inArray == SubSeq(runs, NumDirect + 1, count)
      arrayAt(k) == [start |-> 1 + before(count) + count * layout.gap + k * ArrayBlocks,
                     length |-> ArrayBlocks]
      pieces == [j \in 1 .. layout.double |-> arrayAt(1 + (layout.double + RunsPerArray - 1) \div RunsPerArray + j)]
      lists == [a \in 1 .. (layout.double + RunsPerArray - 1) \div RunsPerArray |-> arrayAt(1 + a)]
      indirect == IF inArray = <<>> THEN Zero ELSE arrayAt(0)
      doubleIndirect == IF layout.double = 0 THEN Zero ELSE arrayAt(1)
      arrays ==
        FoldLeft(LAMBDA all, a : WithArray(all, lists[a],
                   UpTo(pieces, (a - 1) * RunsPerArray + 1, a * RunsPerArray)),
                 WithArray(WithArray([b \in Block |-> Clear], indirect, inArray), doubleIndirect, lists),
                 [a \in 1 .. Len(lists) |-> a])
  IN  [size |-> Bytes(runs \o pieces),
       direct |-> [i \in 1 .. NumDirect |-> IF i <= Len(direct) THEN direct[i] ELSE Zero],
       indirect |-> indirect,
       doubleIndirect |-> doubleIndirect,
       maxDirect |-> Bytes(direct),
       maxIndirect |-> IF inArray = <<>> THEN 0 ELSE Bytes(runs),
       maxDouble |-> IF layout.double = 0 THEN 0 ELSE Bytes(runs \o pieces),
       arrays |-> arrays,
       free |-> {b \in Block \ layout.others : b > FoldLeft(LAMBDA last, r : Larger(last, r.start + r.length - 1), 0,
                                  runs \o lists \o pieces \o <<indirect, doubleIndirect>>)}]

NoGrow == [target |-> 0, old |-> 0, needed |-> 0, requested |-> 0, minimum |-> 0,
           run |-> Zero, total |-> 0, list |-> 0, index |-> 0, rounds |-> 0]

Init ==
  /\ \E layout \in Layouts : stream = LaidOut(layout)
  /\ phase = "idle"
  /\ grow = NoGrow

\* The bytes still needed, and at least how many blocks a run must have: the
\* double indirect range can only take multiples of ArrayBlocks.
BytesNeeded(s, size) ==
  IF s.size < s.maxDouble THEN size - s.maxDouble
  ELSE IF s.size < s.maxIndirect THEN size - s.maxIndirect
  ELSE IF s.size < s.maxDirect THEN size - s.maxDirect
  ELSE size - s.size

\* SetFileSize for a larger size: preallocated blocks may already be enough.
GrowInside(size) ==
  /\ Idle
  /\ size > stream.size
  /\ size < stream.maxDirect \/ size < stream.maxIndirect \/ size < stream.maxDouble
  /\ stream' = [stream EXCEPT !.size = size]
  /\ UNCHANGED <<phase, grow>>

StartGrow(size) ==
  LET blocks == InBlocks(BytesNeeded(stream, size))
      preallocate == blocks < Prealloc /\ Cardinality(stream.free) > Tight
  IN  /\ Idle
      /\ size > stream.size
      /\ size >= stream.maxDirect /\ size >= stream.maxIndirect /\ size >= stream.maxDouble
      /\ IF blocks > Cardinality(stream.free)
           THEN /\ stream' = Shrunk(stream, stream.size)
                /\ phase' = "failed"
                /\ UNCHANGED grow
           ELSE /\ grow' = [NoGrow EXCEPT
                     !.target = size, !.old = stream.size, !.needed = blocks,
                     !.requested = IF preallocate THEN Prealloc ELSE blocks,
                     !.minimum = IF stream.size < stream.maxDouble THEN ArrayBlocks ELSE 1]
                /\ phase' = "growing"
                /\ UNCHANGED stream

\* One round of the loop begins: a run is allocated.
Round == Growing /\ grow.run = Zero /\ grow.needed > 0

\* Mutant: the request is not made a multiple of ArrayBlocks.
NextRequestExact(needed, minimum) ==
  [grow EXCEPT !.rounds = @ + 1, !.needed = needed,
               !.requested = Larger(0, needed), !.minimum = minimum]

NextRequest(needed, minimum) ==
  [grow EXCEPT !.rounds = @ + 1,
               !.needed = needed,
               !.requested = IF needed <= 0 THEN 0 ELSE IF minimum > 1 THEN RoundUp(needed) ELSE needed,
               !.minimum = minimum]

NewSize(needed, max) == IF needed > 0 THEN max ELSE grow.target

FitsDirect(s) == s.size <= s.maxDirect /\ \E i \in 1 .. NumDirect : s.direct[i] = Zero

FitsIndirect(s) ==
  /\ s.size <= s.maxIndirect \/ s.maxIndirect = 0
  /\ s.indirect # Zero => Len(ArrayRuns(s, s.indirect)) < RunsPerBlock * s.indirect.length

AddDirect ==
  /\ Round
  /\ FitsDirect(stream)
  /\ \E run \in Allocations(stream.free, grow.requested, grow.minimum) :
       LET needed == grow.needed - run.length
           max == stream.maxDirect + run.length * BlockSize
           runs == Extended(Prefix(stream.direct), run, NumDirect)
       IN  /\ stream' = [Take(stream, run) EXCEPT
                  !.direct = [i \in 1 .. NumDirect |-> IF i <= Len(runs) THEN runs[i] ELSE Zero],
                  !.maxDirect = max,
                  !.size = NewSize(needed, max)]
           /\ grow' = NextRequest(needed, grow.minimum)
           /\ UNCHANGED phase

\* The array is allocated with the first run.
NewArray(free) == Allocations(free, ArrayBlocks, ArrayBlocks)

AddIndirect ==
  /\ Round
  /\ ~ FitsDirect(stream) /\ FitsIndirect(stream)
  /\ \E run \in Allocations(stream.free, grow.requested, grow.minimum) :
     \E array \in IF stream.indirect = Zero THEN NewArray(stream.free \ BlocksOf(run)) ELSE {stream.indirect} :
       LET needed == grow.needed - run.length
           from == IF stream.indirect = Zero THEN stream.maxDirect ELSE stream.maxIndirect
           max == from + run.length * BlockSize
           runs == Extended(ArrayRuns(stream, stream.indirect), run, RunsPerBlock)
       IN  /\ stream' = [Take(Take(stream, run), array) EXCEPT
                  !.indirect = array,
                  !.arrays = WithArray(@, array, runs),
                  !.maxIndirect = max,
                  !.size = NewSize(needed, max)]
           /\ grow' = NextRequest(needed, grow.minimum)
           /\ UNCHANGED phase

\* Mutant: the length is read when the run has been distributed.
DoubleDoneLate(s, needed, length) == [s EXCEPT !.size = NewSize(needed, s.maxDouble)]

DoubleDone(s, needed, length) ==
  LET max == s.maxDouble + length * BlockSize
  IN  [s EXCEPT !.maxDouble = max, !.size = NewSize(needed, max)]

\* The blocks behind the last multiple of ArrayBlocks are freed again, and the
\* next run is asked for in such multiples.
AddDouble ==
  /\ Round
  /\ ~ FitsDirect(stream) /\ ~ FitsIndirect(stream)
  /\ stream.size <= stream.maxDouble \/ stream.maxDouble = 0
  /\ \E run \in Allocations(stream.free, grow.requested, grow.minimum) :
       LET rest == run.length % ArrayBlocks
           kept == [run EXCEPT !.length = @ - rest]
           needed == grow.needed - kept.length
           s == Take(stream, kept)
       IN  \E array \in IF s.doubleIndirect = Zero THEN NewArray(s.free) ELSE {s.doubleIndirect} :
             LET max == IF s.doubleIndirect = Zero THEN s.maxIndirect ELSE s.maxDouble
                 t == [Take(s, array) EXCEPT
                         !.doubleIndirect = array,
                         !.maxDouble = max,
                         !.arrays = IF s.doubleIndirect = Zero THEN WithArray(@, array, <<>>) ELSE @]
                 next == NextRequest(needed, IF rest > 0 THEN ArrayBlocks ELSE grow.minimum)
             IN  IF kept.length = 0
                   THEN stream' = DoubleDone(t, needed, 0) /\ grow' = next
                   ELSE /\ stream' = t
                        /\ grow' = [next EXCEPT
                             !.run = kept,
                             !.total = kept.length,
                             !.list = (max - t.maxIndirect) \div IndirectSize,
                             !.index = (max - t.maxIndirect) \div DirectSize]
  /\ UNCHANGED phase

\* Mutant: every run is given a block.
EntryBlockEach(array, index) == array.start + index

\* The block of an array for its run number `index`
EntryBlock(array, index) == array.start + index \div RunsPerBlock

\* The next ArrayBlocks of the run are entered in an array, which is allocated
\* when its first run comes.  `index` counts through all arrays; it is reset
\* only when the next block of the double indirect list begins.
AddPiece ==
  LET listBlock == stream.doubleIndirect.start + grow.list \div RunsPerBlock
      slot == (grow.list % RunsPerBlock) + 1
      listed == EntriesAt(stream, listBlock)[slot]
      index == grow.index + 1
      full == index % RunsPerArray = 0
      list == IF full THEN grow.list + 1 ELSE grow.list
      left == grow.run.length - ArrayBlocks
  IN  /\ Growing
      /\ grow.run # Zero
      /\ \E array \in IF listed = Zero THEN NewArray(stream.free) ELSE {listed} :
           LET s == [Take(stream, array) EXCEPT
                       !.arrays = IF listed = Zero
                                    THEN [WithArray(@, array, <<>>) EXCEPT ![listBlock][slot] = array]
                                    ELSE @]
               t == [s EXCEPT !.arrays[EntryBlock(array, grow.index)]
                                      [(grow.index % RunsPerBlock) + 1] =
                                [grow.run EXCEPT !.length = ArrayBlocks]]
           IN  IF left = 0
                 THEN /\ stream' = DoubleDone(t, grow.needed, grow.total)
                      /\ grow' = [grow EXCEPT !.run = Zero, !.total = 0, !.list = 0, !.index = 0]
                 ELSE /\ stream' = t
                      /\ grow' = [grow EXCEPT
                           !.run = [start |-> @.start + ArrayBlocks, length |-> left],
                           !.list = list,
                           !.index = IF full /\ list % RunsPerBlock = 0 THEN 0 ELSE index]
      /\ UNCHANGED phase

\* An allocation fails, for a run or for an array while a run is in hand:
\* SetFileSize shrinks the stream to its former size.
GrowFails ==
  /\ Growing
  /\ grow.needed > 0 \/ grow.run # Zero
  /\ \E run \in {Zero} \cup
        IF Round THEN Allocations(stream.free, grow.requested, grow.minimum) ELSE {} :
       /\ stream' = Shrunk(Take(stream, run), grow.old)
  /\ phase' = "failed"
  /\ grow' = NoGrow

EndGrow ==
  /\ Growing
  /\ grow.run = Zero /\ grow.needed <= 0
  /\ stream' = [stream EXCEPT !.size = grow.target]
  /\ phase' = "idle"
  /\ grow' = NoGrow

\* SetFileSize for a smaller size; TrimPreallocation for the size it has.
Shrink(size) ==
  /\ Idle
  /\ size <= stream.size
  /\ stream' = Shrunk(stream, size)
  /\ UNCHANGED <<phase, grow>>

GrowStep == AddDirect \/ AddIndirect \/ AddDouble \/ AddPiece \/ GrowFails \/ EndGrow

Next ==
  \/ \E size \in Sizes : GrowInside(size) \/ StartGrow(size)
  \/ \E size \in Sizes \cup {stream.size} : Shrink(size)
  \/ GrowStep

Spec == Init /\ [][Next]_vars

-----------------------------------------------------------------------------
(* Properties.                                                             *)

UsedRuns(s) == Range(DataRuns(s)) \cup ArrayRunsUsed(s)

\* The blocks neither free nor part of the stream: those of other files, and
\* those that nobody will ever find again.
Elsewhere(s) == Block \ (s.free \cup Blocks(UsedRuns(s)))

\* Runs lie in the volume and are not empty, and no counter is negative.
TypeOK ==
  /\ stream.size \in Nat
  /\ {stream.maxDirect, stream.maxIndirect, stream.maxDouble} \subseteq Nat
  /\ stream.direct \in [1 .. NumDirect -> Run \cup {Zero}]
  /\ stream.indirect \in Run \cup {Zero} /\ stream.doubleIndirect \in Run \cup {Zero}
  /\ \A b \in Block : stream.arrays[b] \in [1 .. RunsPerBlock -> Run \cup {Zero}]
  /\ stream.free \subseteq Block
  /\ phase \in {"idle", "growing", "failed"}
  /\ Growing => grow.run \in Run \cup {Zero} /\ grow.old <= grow.target

\* Every byte of the file is found, in the run that FindBlockRun returns and
\* at the offset it returns with it.
FindsEveryBlock ==
  \A block \in 0 .. InBlocks(stream.size) - 1 :
    \E f \in FindBlockRun(stream, block * BlockSize) :
      /\ f.run \in Run
      /\ block * BlockSize \in f.offset .. f.offset + f.run.length * BlockSize - 1

\* No block is used twice: not by two parts of the file, not by an array and
\* the file, and none of them is free for others.
NoBlockTwice ==
  /\ \A b, c \in 0 .. InBlocks(stream.size) - 1 :
       b # c => BlockAt(stream, b * BlockSize) \cap BlockAt(stream, c * BlockSize) = {}
  /\ \A b \in 0 .. InBlocks(stream.size) - 1 :
       BlockAt(stream, b * BlockSize) \cap (stream.free \cup Blocks(ArrayRunsUsed(stream))) = {}
  /\ Blocks(ArrayRunsUsed(stream)) \cap stream.free = {}

\* The maxima are where the ranges end, so that "is the stream already large
\* enough" is answered right.
RangesFit ==
  Idle =>
    /\ stream.maxDirect = Bytes(Prefix(stream.direct))
    /\ stream.maxIndirect =
         IF stream.indirect = Zero THEN 0
         ELSE stream.maxDirect + Bytes(ArrayRuns(stream, stream.indirect))
    /\ stream.maxDouble =
         IF stream.doubleIndirect = Zero THEN 0
         ELSE stream.maxIndirect + Bytes(DoubleRuns(stream))

\* Only blocks of the stream's own arrays are written as arrays.
NoStrayWrites ==
  \A b \in Block : stream.arrays[b] # Clear => b \in Blocks(ArrayRunsUsed(stream))

\* The stream's runs, arrays and maxima agree, whatever has been done to it.
StreamSound == TypeOK /\ NoBlockTwice /\ RangesFit /\ NoStrayWrites

\* What is in the file before and after a step stays on its block.
DataStays ==
  [][\A block \in 0 .. InBlocks(IF stream.size < stream'.size THEN stream.size ELSE stream'.size) - 1 :
       BlockAt(stream', block * BlockSize) = BlockAt(stream, block * BlockSize)]_vars

\* As long as the double indirect range is not in use, a stream that grows,
\* shrinks or is trimmed gives back every block it does not keep.
NothingLost ==
  [][phase' # "failed"
       /\ stream.doubleIndirect = Zero /\ stream'.doubleIndirect = Zero
     => Elsewhere(stream') = Elsewhere(stream)]_vars

\* A shrink keeps no more than one block behind the size, and in the double
\* indirect range no more than the rest of a run.
ShrinkTrims ==
  [][Idle /\ phase' = "idle" /\ stream'.size <= stream.size =>
       Bytes(DataRuns(stream')) - stream'.size <=
         IF stream'.doubleIndirect = Zero THEN BlockSize ELSE DirectSize]_vars

\* A stream has the blocks it needs, and no others have gone.
KeepsWhatItNeeds == NothingLost /\ ShrinkTrims

\* "we don't run into an endless loop": every round brings the stream a block
\* nearer to its size, but for one in which the allocator returned too little
\* for the double indirect range.
GrowEnds == grow.rounds <= InBlocks(grow.target) - grow.old \div BlockSize + 1
=============================================================================
