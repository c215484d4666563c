----------------------------- MODULE FileCache -----------------------------
(***************************************************************************)
(* Reading a file through the file cache of bfs/Cache.cpp: cache_io walks  *)
(* over the pages of a request, read_into_cache reads the gaps between     *)
(* cached pages chunk by chunk, pages_io translates a chunk into disk      *)
(* reads along the extents of the file, and every page that was read stays *)
(* in a hash table that outlives the inode.                                *)
(*                                                                         *)
(* One file and one reader: the program reads files from a single thread,  *)
(* the page table's key holds device and node, and the table keeps pages   *)
(* across inodes of the same node, so a later open meets the same pages.   *)
(*                                                                         *)
(* Positions are counted in a unit that divides the block size.  A unit of *)
(* memory holds the disk position it was read from, or Garbage when it     *)
(* comes from malloc.                                                      *)
(*                                                                         *)
(* vm_page_set_state, vm_page_put_page and vm_cache_remove_page are stubs: *)
(* a page stays PAGE_STATE_BUSY and in the table once it was inserted.     *)
(* Left out because of this: the copy out of a page that is not busy.      *)
(* Writing is a stub and left out as well.                                 *)
(***************************************************************************)
EXTENDS Integers, Sequences, FiniteSets, FiniteSetsExt

CONSTANTS
  PageSize,      \* B_PAGE_SIZE
  BlockSize,     \* the volume's block size
  MaxIoVecs,     \* MAX_IO_VECS: pages of a chunk
  MaxFileIoVecs, \* MAX_FILE_IO_VECS: extents get_file_map returns at once
  MaxTempIoVecs, \* MAX_TEMP_IO_VECS: pieces of memory one disk read fills
  Layouts,       \* the files to read: [size, runs]
  FilePages,     \* how many pages the longest of them has
  Requests,      \* the calls of file_cache_read: <<offset, size>>
  BufferSize,    \* the longest of them
  Failures,      \* bound: disk reads and map lookups that fail
  Garbage        \* what malloc leaves in a page

ASSUME SizesAssumption ==
  /\ {PageSize, BlockSize, MaxIoVecs, MaxFileIoVecs, MaxTempIoVecs} \subseteq Nat \ {0}
  /\ PageSize % BlockSize = 0
  /\ {FilePages, BufferSize, Failures} \subseteq Nat

\* A run of blocks: where it starts in the file and on the disk.
Run == [start : Nat, disk : Nat, length : Nat \ {0}]

\* The runs of a file follow each other from its start and cover it.
ASSUME LayoutsAssumption ==
  \A f \in Layouts :
    /\ f.size \in 1 .. FilePages * PageSize
    /\ f.runs \in Seq(Run) \ {<< >>}
    /\ f.runs[1].start = 0
    /\ \A i \in 1 .. Len(f.runs) - 1 :
         f.runs[i + 1].start = f.runs[i].start + f.runs[i].length
    /\ f.size <= f.runs[Len(f.runs)].start + f.runs[Len(f.runs)].length

ASSUME RequestsAssumption ==
  \A r \in Requests : r[1] \in Int /\ r[2] \in 1 .. BufferSize

VARIABLES
  file,     \* the inode's data_stream, fixed
  pages,    \* pages[o]: how many pages the table has for page offset o
  memory,   \* memory[p]: what the page of file position p holds for it
  user,     \* the caller's buffer
  call,     \* cache_io: its arguments and its place in the loop
  fill,     \* read_into_cache: the rest of the gap it reads
  io,       \* pages_io: the rest of the chunk it reads
  failures  \* disk errors so far

vars == <<file, pages, memory, user, call, fill, io, failures>>

Smaller(m, n) == IF m <= n THEN m ELSE n
Aligned(n, size) == (n \div size) * size
RoundedUp(n, size) == Aligned(n + size - 1, size)

Chunk == MaxIoVecs * PageSize
Positions == 0 .. FilePages * PageSize - 1
PageOffsets == {p \in Positions : p % PageSize = 0}

None == [active |-> FALSE]
Returned(offset, size, ok) == [active |-> FALSE, offset |-> offset, size |-> size, ok |-> ok]

Init ==
  /\ file \in Layouts
  /\ pages = [o \in PageOffsets |-> 0]
  /\ memory = [p \in Positions |-> Garbage]
  /\ user = [b \in 0 .. BufferSize - 1 |-> Garbage]
  /\ call = Returned(0, 0, TRUE)
  /\ fill = None
  /\ io = None
  /\ failures = 0

-----------------------------------------------------------------------------
(* get_file_map and FindBlockRun.                                          *)

\* FindBlockRun, by its effect: the run that holds a position of the file.
FindBlockRun(pos) ==
  CHOOSE i \in 1 .. Len(file.runs) :
    LET run == file.runs[i] IN run.start <= pos /\ pos < run.start + run.length

\* The extents from `offset` on: up to the one that completes `size` units or
\* reaches the end of the file, and no more than the array holds.  The last
\* one is cut to the file's blocks, counted from the start of its run.
FileMap(offset, size) ==
  LET first == FindBlockRun(offset)
      end(i) == file.runs[i].start + file.runs[i].length
      last == Min({i \in first .. Len(file.runs) :
                     end(i) >= offset + size \/ end(i) >= file.size})
      from(i) == IF i = first THEN offset ELSE file.runs[i].start
      length(i) == IF i = last /\ end(i) > file.size
                     THEN RoundedUp(file.size - file.runs[i].start, BlockSize)
                     ELSE end(i) - from(i)
      extent(i) == [disk |-> file.runs[i].disk + from(i) - file.runs[i].start,
                    length |-> length(i)]
      count == Smaller(last - first + 1, MaxFileIoVecs)
  IN  [extents  |-> [i \in 1 .. count |-> extent(first + i - 1)],
       overflow |-> last - first + 1 > MaxFileIoVecs]

-----------------------------------------------------------------------------
(* cache_io: the walk over the pages of the request.  `at` is the page to  *)
(* look up, `done` the part of the buffer that is filled.                  *)

\* file_cache_read: an offset outside the file reads nothing, a request that
\* goes past its end is cut.
Read(offset, size) ==
  /\ ~ call.active
  /\ IF offset < 0 \/ offset >= file.size
       THEN call' = Returned(offset, 0, TRUE)
       ELSE call' = [active |-> TRUE, offset |-> offset,
                     size |-> Smaller(size, file.size - offset),
                     at |-> Aligned(offset, PageSize), done |-> 0]
  /\ user' = [b \in DOMAIN user |-> Garbage]
  /\ UNCHANGED <<file, pages, memory, fill, io, failures>>

Walking == call.active /\ ~ fill.active

\* The place in the buffer where the page `at` begins, and its share.
Buffer == Max({call.at, call.offset}) - call.offset
BytesInPage ==
  Smaller(call.at + PageSize - Max({call.at, call.offset}), call.size - Buffer)

\* Mutant: the copy starts at the page, not at the offset in it.
FillFromPage(from, size) ==
  LET offset == Aligned(call.offset + from, PageSize)
  IN  [active |-> TRUE, offset |-> offset, size |-> RoundedUp(size, PageSize),
       skip |-> 0, buffer |-> from, left |-> size]

\* read_into_cache is entered for `size` units from buffer position `from`:
\* whole pages are read, and `size` units of them copied.
Fill(from, size) ==
  LET offset == call.offset + from
      skip == offset % PageSize
  IN  [active |-> TRUE, offset |-> offset - skip, size |-> RoundedUp(size + skip, PageSize),
       skip |-> skip, buffer |-> from, left |-> size]

\* Mutant: pages that are in memory are skipped like the others.
SkipAnyPage ==
  /\ Walking
  /\ Buffer + BytesInPage < call.size
  /\ call' = [call EXCEPT !.at = @ + PageSize]
  /\ UNCHANGED <<file, pages, memory, user, fill, io, failures>>

\* The page is not in memory and more pages follow.
SkipPage ==
  /\ Walking
  /\ pages[call.at] = 0
  /\ Buffer + BytesInPage < call.size
  /\ call' = [call EXCEPT !.at = @ + PageSize]
  /\ UNCHANGED <<file, pages, memory, user, fill, io, failures>>

\* The page is not in memory and is the last one: read all that is missing.
ReadRest ==
  /\ Walking
  /\ pages[call.at] = 0
  /\ Buffer + BytesInPage >= call.size
  /\ fill' = Fill(call.done, call.size - call.done)
  /\ UNCHANGED <<file, pages, memory, user, call, io, failures>>

\* The page is in memory: first satisfy the gap before it.
ReadGap ==
  /\ Walking
  /\ pages[call.at] > 0
  /\ call.done # Buffer
  /\ fill' = Fill(call.done, Buffer - call.done)
  /\ UNCHANGED <<file, pages, memory, user, call, io, failures>>

\* Then wait for the page, which is busy: Sleep and look it up again.
Sleep ==
  /\ Walking
  /\ pages[call.at] > 0
  /\ call.done = Buffer
  /\ UNCHANGED vars

Return(ok) == Returned(call.offset, call.size, ok)

-----------------------------------------------------------------------------
(* read_chunk_into_cache and pages_io.  Pages of a chunk that malloc puts  *)
(* side by side are one vector; `cuts` are the places where a new one      *)
(* begins.                                                                 *)

NumBytes == Smaller(fill.size, Chunk)

ChunkPages == {o \in PageOffsets : fill.offset <= o /\ o < fill.offset + NumBytes}

\* Memory after a disk read of `size` units at `disk` to place `pos` of the
\* chunk.
Filled(mem, pos, disk, size) ==
  [p \in Positions |->
     LET i == p - fill.offset - pos IN IF 0 <= i /\ i < size THEN disk + i ELSE mem[p]]

FreshMemory ==
  [p \in Positions |-> IF Aligned(p, PageSize) \in ChunkPages THEN Garbage ELSE memory[p]]

InsertPages == pages' = [o \in PageOffsets |-> pages[o] + (IF o \in ChunkPages THEN 1 ELSE 0)]

\* Where the vector of place `pos` begins.
VecStart(cuts, pos) == Max({c \in cuts \cup {0} : c <= pos})

\* Mutant: the length read is not cut to the extent.
StartChunkTrusting ==
  LET map == FileMap(fill.offset, NumBytes)
  IN  /\ fill.active /\ ~ io.active
      /\ InsertPages
      /\ memory' = Filled(FreshMemory, 0, map.extents[1].disk, NumBytes)
      /\ io' = [active |-> TRUE, finished |-> TRUE]
      /\ UNCHANGED <<file, user, call, fill, failures>>

\* Allocate the pages and read the first extent into them.  vfs_read_pages
\* reads as much as the vectors hold, whatever it was asked for.  bytesLeft is
\* computed from the offset in the current vector, not from all that was read.
StartChunk ==
  LET map == FileMap(fill.offset, NumBytes)
      length == map.extents[1].length
  IN  /\ fill.active /\ ~ io.active
      /\ InsertPages
      /\ memory' = Filled(FreshMemory, 0, map.extents[1].disk, NumBytes)
      /\ \E cuts \in SUBSET {c \in 1 .. NumBytes - 1 : c % PageSize = 0} :
           io' = [active |-> TRUE, cuts |-> cuts, extents |-> map.extents,
                  overflow |-> map.overflow, index |-> 1, disk |-> 0, fileLeft |-> 0,
                  pos |-> Smaller(length, NumBytes),
                  bytesLeft |-> NumBytes - (length - VecStart(cuts, length)),
                  finished |-> length >= NumBytes]
      /\ UNCHANGED <<file, user, call, fill, failures>>

\* The disk read fails: readv_pos returns 0, which is no error, and pages_io
\* takes it for the end of the file.
StartChunkFails ==
  /\ fill.active /\ ~ io.active
  /\ failures < Failures
  /\ failures' = failures + 1
  /\ InsertPages
  /\ memory' = FreshMemory
  /\ io' = [active |-> TRUE, finished |-> TRUE]
  /\ UNCHANGED <<file, user, call, fill>>

\* get_file_map fails: the error ends the call, and the pages stay, since
\* vm_cache_remove_page does nothing.
MapFails ==
  /\ fill.active /\ ~ io.active
  /\ failures < Failures
  /\ failures' = failures + 1
  /\ InsertPages
  /\ memory' = FreshMemory
  /\ call' = Return(FALSE)
  /\ fill' = None
  /\ UNCHANGED <<file, user, io>>

Reading == io.active /\ ~ io.finished

\* Mutant: the extent is not cut to what is left of the chunk.
NextWholeExtent ==
  /\ Reading
  /\ io.fileLeft = 0
  /\ io.index < Len(io.extents)
  /\ io' = [io EXCEPT !.index = @ + 1,
                      !.disk = io.extents[io.index + 1].disk,
                      !.fileLeft = io.extents[io.index + 1].length]
  /\ UNCHANGED <<file, pages, memory, user, call, fill, failures>>

\* The for loop over the extents takes the next one.
NextExtent ==
  /\ Reading
  /\ io.fileLeft = 0
  /\ io.index < Len(io.extents)
  /\ io' = [io EXCEPT !.index = @ + 1,
                      !.disk = io.extents[io.index + 1].disk,
                      !.fileLeft = Smaller(io.extents[io.index + 1].length, io.bytesLeft)]
  /\ UNCHANGED <<file, pages, memory, user, call, fill, failures>>

\* What the temporary vectors get of the current extent: at most
\* MaxTempIoVecs pieces of memory.
TempSize ==
  LET ends == {c \in io.cuts : c > io.pos} \cup ({NumBytes} \ {io.pos})
      filled == {e \in ends : Cardinality({x \in ends : x <= e}) <= MaxTempIoVecs}
  IN  Smaller(io.fileLeft, Max(filled \cup {io.pos}) - io.pos)

\* One turn of the while loop over the current extent.
ReadExtent ==
  /\ Reading
  /\ io.fileLeft > 0
  /\ memory' = Filled(memory, io.pos, io.disk, TempSize)
  /\ io' = [io EXCEPT !.pos = @ + TempSize,
                      !.bytesLeft = @ - TempSize,
                      !.disk = @ + TempSize,
                      !.fileLeft = @ - TempSize,
                      !.finished = TempSize < io.fileLeft /\ io.pos + TempSize = NumBytes]
  /\ UNCHANGED <<file, pages, user, call, fill, failures>>

\* The same when the disk fails: again no error.
ReadExtentFails ==
  /\ Reading
  /\ io.fileLeft > 0
  /\ failures < Failures
  /\ failures' = failures + 1
  /\ io' = [io EXCEPT !.finished = TRUE]
  /\ UNCHANGED <<file, pages, memory, user, call, fill>>

\* All extents are read.  When they did not fit the array, get more.
LastExtent == Reading /\ io.fileLeft = 0 /\ io.index = Len(io.extents)

Remap ==
  LET map == FileMap(fill.offset + io.pos, io.bytesLeft)
  IN  /\ LastExtent
      /\ io.overflow
      /\ io' = [io EXCEPT !.extents = map.extents, !.overflow = map.overflow, !.index = 1,
                          !.disk = map.extents[1].disk,
                          !.fileLeft = Smaller(map.extents[1].length, io.bytesLeft)]
      /\ UNCHANGED <<file, pages, memory, user, call, fill, failures>>

\* Mutant: the loop ends only when the vectors are full.
VectorsFull == io.active /\ io.finished

\* The vectors are full, the disk failed, or the file ends before the chunk.
ChunkDone == io.active /\ (io.finished \/ (LastExtent /\ ~ io.overflow))

\* Mutant: the caller's buffer takes all of the chunk.
CopiedAll ==
  [b \in DOMAIN user |->
     LET i == b - fill.buffer
     IN  IF 0 <= i /\ i < NumBytes - fill.skip THEN memory[fill.offset + fill.skip + i]
                                               ELSE user[b]]

\* Copy what the caller wants of the chunk and go on behind it.
Copied ==
  LET bytes == Smaller(fill.left, NumBytes - fill.skip)
  IN  [b \in DOMAIN user |->
         LET i == b - fill.buffer
         IN  IF 0 <= i /\ i < bytes THEN memory[fill.offset + fill.skip + i] ELSE user[b]]

AfterChunk ==
  [fill EXCEPT !.offset = @ + NumBytes, !.size = @ - NumBytes, !.skip = 0,
               !.left = IF NumBytes >= @ THEN 0 ELSE @ - (NumBytes - fill.skip),
               !.buffer = @ + NumBytes - fill.skip]

FinishChunk ==
  /\ ChunkDone
  /\ user' = Copied
  /\ io' = None
  /\ IF fill.size > NumBytes
       THEN fill' = AfterChunk /\ UNCHANGED call
       ELSE /\ fill' = None
            /\ call' = IF pages[call.at] > 0 /\ call.at >= fill.offset + NumBytes
                         THEN [call EXCEPT !.done = Buffer]
                         ELSE Return(TRUE)
  /\ UNCHANGED <<file, pages, memory, failures>>

-----------------------------------------------------------------------------

Step ==
  \/ SkipPage
  \/ ReadRest
  \/ ReadGap
  \/ Sleep
  \/ StartChunk
  \/ StartChunkFails
  \/ MapFails
  \/ NextExtent
  \/ ReadExtent
  \/ ReadExtentFails
  \/ Remap
  \/ FinishChunk

Next ==
  \/ \E r \in Requests : Read(r[1], r[2])
  \/ Step

\* The reader never blocks on anything but Sleep, which returns: a call that
\* can go on goes on.  Nobody is obliged to call.
Spec == Init /\ [][Next]_vars /\ WF_vars(Step)

-----------------------------------------------------------------------------
(* Properties.                                                             *)

TypeOK ==
  /\ pages \in [PageOffsets -> Nat]
  /\ memory \in [Positions -> Nat \cup {Garbage}]
  /\ user \in [0 .. BufferSize - 1 -> Nat \cup {Garbage}]
  /\ call.active => call.at \in PageOffsets /\ call.done \in 0 .. call.size
  /\ fill.active => /\ call.active
                    /\ fill.offset \in PageOffsets /\ fill.left \in 0 .. call.size
                    /\ fill.size \in Nat \ {0} /\ fill.size % PageSize = 0
  /\ Reading => /\ fill.active
                /\ io.pos \in 0 .. NumBytes
                /\ io.fileLeft \in 0 .. io.bytesLeft

\* Where the disk keeps a position of the file.
OnDisk(p) == LET run == file.runs[FindBlockRun(p)] IN run.disk + p - run.start

BufferRight == \A b \in 0 .. call.size - 1 : user[b] = OnDisk(call.offset + b)

Succeeded == ~ call.active /\ call.ok

\* The requests the program makes: whole pages at a time from a page boundary
\* (the copy loop of TreeControl.cpp), or something short.
Plain == \/ call.offset % PageSize = 0
         \/ (call.offset % PageSize) + call.size <= Chunk

\* A plain read that returns B_OK has filled the buffer with the bytes of the
\* file, however the file is cut into extents and the request into chunks
\* and disk reads (cache_io).
\* Also with failures, nothing is written behind the bytes asked for.
PlainReadsRight ==
  /\ Succeeded /\ Plain /\ failures = 0 => BufferRight
  /\ \A b \in DOMAIN user : b >= call.size => user[b] = Garbage

\* Whatever was asked for, the pages kept for later reads hold the bytes of
\* the file, though the first disk read of a chunk runs past its extent
\* (pages_io); and there is one page for an offset: "This function always
\* allocates all pages; it is the responsibility of the calling function to only
\* ask for yet uncached ranges".
PagesHoldTheFile ==
  /\ TypeOK
  /\ \A o \in PageOffsets : pages[o] <= 1
  /\ ~ io.active /\ failures = 0 =>
       \A p \in Positions :
         p < file.size /\ pages[Aligned(p, PageSize)] > 0 => memory[p] = OnDisk(p)

\* A read of pages that were not read before comes to its end.
AllFresh ==
  /\ Walking
  /\ \A o \in PageOffsets : call.at <= o /\ o < call.offset + call.size => pages[o] = 0

FreshReadsReturn == AllFresh ~> ~ call.active
=============================================================================
