------------------------------ MODULE Journal ------------------------------
(***************************************************************************)
(* The journal of bfs/Journal.cpp: transactions change blocks in the block *)
(* cache, several of them are batched, and the batch is written to the log *)
(* before any of its blocks may go to its own place on the disk.           *)
(*                                                                         *)
(* The log is a ring of blocks on the disk.  An entry is one block that    *)
(* lists the blocks of a transaction, followed by their contents; the      *)
(* super block says where the first entry begins and the last one ends.    *)
(* When all blocks of an entry have reached their place, the cache calls   *)
(* _blockNotify, and the beginning moves on.  The cache has a thread for   *)
(* that, which only fEntriesLock keeps out of anything: it writes one      *)
(* block after the other back, and calls _blockNotify itself.  A crash can *)
(* come between any two writes to the disk; the next mount replays the     *)
(* log.                                                                    *)
(*                                                                         *)
(* In this build the transactions of the block cache and the writing       *)
(* functions are stubs, and Mount does not call InitCheck.  The journal is *)
(* modelled as it is written, on a block cache whose transactions work     *)
(* (StartTransaction to EndTransaction, from how the journal uses them).   *)
(* Left out: allocations that fail.                                        *)
(***************************************************************************)
EXTENDS Integers, FiniteSets, SequencesExt

CONSTANTS
  NumBlocks,           \* blocks behind the log that transactions change
  LogSize,             \* fLogSize
  MaxRuns,             \* blocks that one run array lists
  MaxTransactionSize,  \* fMaxTransactionSize
  Content,             \* what a block may hold
  FirstStart,          \* where the log of a clean volume begins
  MaxNesting,          \* bound: transactions inside each other
  MaxEntries,          \* bound: how often the log is written
  MayFail              \* bound: whether writing to the log may fail

ASSUME LogAssumption ==
  /\ {NumBlocks, LogSize, MaxRuns, MaxTransactionSize, MaxNesting} \subseteq Nat \ {0}
  /\ MaxRuns < LogSize
  /\ MaxEntries \in Nat
  /\ FirstStart \in 0 .. LogSize - 1
  /\ MayFail \in BOOLEAN
  /\ 0 \in Content

VARIABLES
  disk,     \* the blocks of the log and those behind it; the super block
  super,    \* the super block in memory
  cache,    \* the blocks in memory, and what the cache knows of transactions
  journal,  \* the Journal object
  io,       \* the run of _WriteTransactionToLog or FlushLogAndBlocks
  notify,   \* the run of _blockNotify
  ghost     \* what the log holds for a recovery; the blocks as the outermost
            \* transaction found them; whether the log has been kept whole

vars == <<disk, super, cache, journal, io, notify, ghost>>

Block == 1 .. NumBlocks

\* A disk block: the head of a log entry, or contents.
RunArray(blocks) == [runs |-> blocks, data |-> 0]
Data(c) == [runs |-> <<>>, data |-> c]

\* The log comes first, and the blocks behind it.
Home(b) == LogSize + b - 1
Homes(area) == [b \in Block |-> area[Home(b)].data]

NoIo == [phase |-> "none"]
NoNotify == [phase |-> "none"]

-----------------------------------------------------------------------------
(* The log.                                                                *)

\* RunArrays: the blocks of a transaction in the order the cache gives them,
\* MaxRuns to an array.
RunArrays(blocks) ==
  LET all == SetToSeq(blocks)
      count == (Len(all) + MaxRuns - 1) \div MaxRuns
  IN  [i \in 1 .. count |-> SubSeq(all, (i - 1) * MaxRuns + 1, Min({i * MaxRuns, Len(all)}))]

\* Mutant: an entry goes on behind the end of the log.
LogArrayLinear(plan, blocks, contents) ==
  LET vecs == <<RunArray(blocks)>> \o [i \in 1 .. Len(blocks) |-> Data(contents[blocks[i]])]
  IN  [plan EXCEPT !.writes = Append(@, [at |-> plan.start, vecs |-> vecs]), !.position = plan.start + Len(vecs)]

\* One array of _WriteTransactionToLog: in one write, or in two when it comes
\* to the end of the log.  An array that ends there leaves the position behind
\* the end, and the next array begins where this one did.
LogArray(plan, blocks, contents) ==
  LET vecs == <<RunArray(blocks)>> \o [i \in 1 .. Len(blocks) |-> Data(contents[blocks[i]])]
      wrap == Max({1, LogSize - plan.start})
  IN  IF Len(vecs) <= wrap
        THEN [plan EXCEPT !.writes = Append(@, [at |-> plan.start, vecs |-> vecs]),
                          !.position = plan.start + Len(vecs)]
        ELSE [start |-> 0,
              position |-> Len(vecs) - wrap,
              writes |-> plan.writes \o <<[at |-> plan.start, vecs |-> SubSeq(vecs, 1, wrap)],
                                          [at |-> 0, vecs |-> SubSeq(vecs, wrap + 1, Len(vecs))]>>]

LogPlan(arrays, contents) ==
  LET plan[k \in 0 .. Len(arrays)] ==
        IF k = 0 THEN [start |-> super.end, position |-> super.end % LogSize, writes |-> <<>>]
        ELSE LogArray(plan[k - 1], arrays[k], contents)
  IN  plan[Len(arrays)]

\* What the writes to the log leave on the disk.
Written(area, write) ==
  [p \in DOMAIN area |-> IF p - write.at \in 0 .. Len(write.vecs) - 1
                           THEN write.vecs[p - write.at + 1]
                           ELSE area[p]]

FreeLogBlocks(sb) ==
  IF sb.start <= sb.end THEN LogSize - sb.end + sb.start ELSE sb.start - sb.end

\* _ReplayRunArray, with the blocks it finds for their places.  The walk through
\* the log is done at its end; it cannot go on at an array without blocks or one
\* that leads to itself.
ReplayRunArray(area, end, walk) ==
  LET runs == area[walk.at % LogSize].runs
      next == (walk.at + 1 + Len(runs)) % LogSize
      place(b) == (walk.at + (CHOOSE i \in 1 .. Len(runs) : runs[i] = b)) % LogSize
  IN  IF walk.at = end \/ runs = <<>> \/ next = walk.at THEN walk
      ELSE [at |-> next,
            home |-> [b \in Block |-> IF b \in ToSet(runs) THEN area[place(b)].data ELSE walk.home[b]]]

\* ReplayLog: from the beginning of the log to its end.
Replay(area, sb) ==
  LET walk[k \in 0 .. LogSize] ==
        IF k = 0 THEN [at |-> sb.start, home |-> Homes(area)]
        ELSE ReplayRunArray(area, sb.end, walk[k - 1])
  IN  [ok |-> walk[LogSize].at = sb.end, home |-> walk[LogSize].home]

-----------------------------------------------------------------------------
(* The transactions of the block cache.  A block that is changed keeps its *)
(* contents from before the transaction and before the sub-transaction;    *)
(* outside of transactions, parent and kept mean nothing and follow the    *)
(* blocks.                                                                 *)

StartSub(c) == [c EXCEPT !.parent = c.now, !.kept = c.changed]
StartTransaction == StartSub([cache EXCEPT !.changed = {}])
AbortSub == [cache EXCEPT !.now = cache.parent, !.changed = cache.kept]
AbortTransaction == [cache EXCEPT !.now = cache.ended, !.changed = {}]
EndTransaction(entry) ==
  [cache EXCEPT !.ended = cache.now, !.changed = {}, !.kept = {},
                !.pending = [b \in Block |-> IF b \in cache.changed THEN entry ELSE cache.pending[b]]]

-----------------------------------------------------------------------------
(* Transactions.                                                           *)

Free == io.phase = "none"

\* Transaction::Start and Lock.  A transaction inside another one is part of it.
Lock ==
  /\ Free
  /\ journal.depth < MaxNesting
  /\ journal' = [journal EXCEPT !.depth = @ + 1,
                                !.hasSub = IF journal.depth = 0 THEN @ \/ journal.unwritten ELSE @]
  /\ cache' = IF journal.depth > 0 THEN cache
              ELSE IF journal.unwritten THEN StartSub(cache) ELSE StartTransaction
  /\ UNCHANGED <<disk, super, io, notify, ghost>>

\* A block is made writable in the transaction, and is changed.
Write(b, c) ==
  /\ Free
  /\ journal.depth > 0
  /\ cache' = [cache EXCEPT !.now[b] = c, !.changed = @ \cup {b}]
  /\ UNCHANGED <<disk, super, journal, io, notify, ghost>>

\* Unlock of an inner transaction: how it ended is not looked at.
UnlockInner ==
  /\ Free
  /\ journal.depth > 1
  /\ journal' = [journal EXCEPT !.depth = @ - 1]
  /\ UNCHANGED <<disk, super, cache, io, notify, ghost>>

\* Mutant: a failed transaction takes the batch with it.
AbortedAll == AbortTransaction

Aborted == IF journal.hasSub THEN AbortSub ELSE AbortTransaction

\* _TransactionDone(false)
UnlockFailed ==
  /\ Free
  /\ journal.depth = 1
  /\ cache' = StartSub(Aborted)
  /\ journal' = [journal EXCEPT !.depth = 0]
  /\ UNCHANGED <<disk, super, io, notify, ghost>>

\* _TransactionDone(true): the transaction is left in the batch.
UnlockBatched ==
  /\ Free
  /\ journal.depth = 1
  /\ Cardinality(cache.changed) < MaxTransactionSize
  /\ journal' = [journal EXCEPT !.depth = 0, !.unwritten = TRUE]
  /\ cache' = StartSub(cache)
  /\ ghost' = [ghost EXCEPT !.before = cache.now]
  /\ UNCHANGED <<disk, super, io, notify>>

\* The beginning of _WriteTransactionToLog, up to its first write.
LogBegins(flush) ==
  LET arrays == RunArrays(cache.changed)
      plan == LogPlan(arrays, cache.now)
      length == Cardinality(cache.changed) + Len(arrays)
  IN  /\ journal.written < MaxEntries
      /\ journal' = [journal EXCEPT !.depth = 0, !.unwritten = FALSE, !.hasSub = FALSE, !.written = @ + 1]
      /\ io' = [phase |-> "log", writes |-> plan.writes, start |-> plan.start, position |-> plan.position,
                begin |-> super.end, length |-> length, flush |-> flush]
      /\ ghost' = [ghost EXCEPT !.whole =
                     @ /\ Len(arrays) = 1 /\ plan.position # LogSize /\ length < FreeLogBlocks(disk.super),
                                 !.before = cache.now]
      /\ cache' = StartSub(cache)
      /\ UNCHANGED <<disk, super, notify>>

\* _TransactionDone(true): the batch is large enough to be written.
UnlockLogged ==
  /\ Free
  /\ journal.depth = 1
  /\ Cardinality(cache.changed) >= MaxTransactionSize
  /\ LogBegins(FALSE)

\* FlushLogAndBlocks; called from inside a transaction it does nothing.
Flush ==
  /\ Free
  /\ journal.depth = 0
  /\ IF journal.unwritten /\ cache.changed # {}
       THEN LogBegins(TRUE)
       ELSE /\ io' = [phase |-> "flush"]
            /\ UNCHANGED <<disk, super, cache, journal, notify, ghost>>

\* One write to the log.  When it fails, that is only printed.
WriteLog ==
  /\ io.phase = "log"
  /\ io.writes # <<>>
  /\ \E done \in {TRUE, ~ MayFail} :
       /\ disk' = IF done THEN [disk EXCEPT !.area = Written(@, io.writes[1])] ELSE disk
       /\ ghost' = [ghost EXCEPT !.whole = @ /\ done]
  /\ io' = [io EXCEPT !.writes = Tail(@)]
  /\ UNCHANGED <<super, cache, journal, notify>>

\* Volume::WriteSuperBlock, done or failed.  From the first write on that has the
\* new end, the log holds the transaction.
WriteSuperBlock(sb, done, whole) ==
  /\ disk' = IF done THEN [disk EXCEPT !.super = sb] ELSE disk
  /\ ghost' = [ghost EXCEPT !.logged = IF done /\ io.phase = "super" THEN cache.now ELSE @,
                            !.whole = @ /\ whole]

\* The super block in memory gets the new end of the log, ...
MoveEnd ==
  /\ io.phase = "log"
  /\ io.writes = <<>>
  /\ super' = [super EXCEPT !.end = io.position, !.dirty = TRUE]
  /\ io' = [io EXCEPT !.phase = "super"]
  /\ UNCHANGED <<disk, cache, journal, notify, ghost>>

\* ... is written (that this failed is returned, to nobody), ...
WriteSuper ==
  /\ io.phase = "super"
  /\ \E done \in {TRUE, ~ MayFail} : WriteSuperBlock(super, done, done)
  /\ io' = [io EXCEPT !.phase = "add"]
  /\ UNCHANGED <<super, cache, journal, notify>>

\* ... and only then the entry is added, with fEntriesLock.
AddEntry ==
  /\ io.phase = "add"
  /\ journal' = [journal EXCEPT !.entries = Append(@, [id |-> journal.written, start |-> io.begin, length |-> io.length]),
                                !.used = @ + io.length]
  /\ io' = [io EXCEPT !.phase = "end"]
  /\ UNCHANGED <<disk, super, cache, notify, ghost>>

\* cache_end_transaction; blocks of older entries have to be at their place.
LogEnds ==
  /\ io.phase = "end"
  /\ \A b \in cache.changed : cache.pending[b] = 0
  /\ cache' = EndTransaction(journal.written)
  /\ io' = IF io.flush \/ io.position < io.start THEN [phase |-> "flush"] ELSE NoIo
  /\ UNCHANGED <<disk, super, journal, notify, ghost>>

\* FlushDevice returns when no block is left to be written.
FlushEnds ==
  /\ io.phase = "flush"
  /\ \A b \in Block : cache.pending[b] = 0
  /\ io' = NoIo
  /\ UNCHANGED <<disk, super, cache, journal, notify, ghost>>

-----------------------------------------------------------------------------
(* Writing back, and crashes.                                              *)

\* The cache writes a block, as the last transaction that has ended left it; it
\* may do so at any time.  With the last block of an entry, it calls _blockNotify.
WriteBack(b) ==
  LET entry == cache.pending[b]
  IN  /\ notify = NoNotify
      /\ entry # 0
      /\ disk' = [disk EXCEPT !.area[Home(b)] = Data(cache.ended[b])]
      /\ cache' = [cache EXCEPT !.pending[b] = 0]
      /\ notify' = IF \A o \in Block \ {b} : cache.pending[o] # entry THEN [phase |-> "entry", id |-> entry]
                   ELSE notify
      /\ UNCHANGED <<super, journal, io, ghost>>

\* Mutant: the log begins behind whatever entry is done.
BeginningAny(i) ==
  IF i < Len(journal.entries) THEN journal.entries[i + 1].start ELSE super.end

\* Only behind the oldest entry the log begins anew.
Beginning(i) ==
  LET e == journal.entries
  IN  IF i > 1 THEN super.start
      ELSE IF Len(e) = 1 THEN super.end
      ELSE (super.start + e[2].start - e[1].start) % LogSize

\* _blockNotify as long as it has fEntriesLock.  The only entry is not the newest
\* if that is just about to be added: then the beginning passes the newest.
Notify ==
  LET e == journal.entries
      i == CHOOSE j \in 1 .. Len(e) : e[j].id = notify.id
  IN  /\ notify.phase = "entry"
      /\ journal' = [journal EXCEPT !.entries = RemoveAt(@, i), !.used = @ - e[i].length]
      /\ super' = [super EXCEPT !.start = Beginning(i)]
      /\ notify' = IF i = 1 THEN [phase |-> "super", clean |-> super'.start = super.end] ELSE NoNotify
      /\ ghost' = [ghost EXCEPT !.whole = @ /\ ~ (Len(e) = 1 /\ io.phase \in {"super", "add"})]
      /\ UNCHANGED <<disk, cache, io>>

\* The rest of it: a log that has become empty makes the disk clean.  It may have
\* been empty when that was tested, and have a new end when the flag is set.
NotifyEnds ==
  LET empty == super.start = super.end
  IN  /\ notify.phase = "super"
      /\ \E clean \in {notify.clean, empty}, done \in {TRUE, ~ MayFail} :
           /\ super' = [super EXCEPT !.dirty = @ /\ ~ clean]
           /\ WriteSuperBlock(super', done, clean => empty)
      /\ notify' = NoNotify
      /\ UNCHANGED <<cache, journal, io>>

\* Nothing of the memory is left; a mount reads the disk.
Mounted(sb, home) ==
  /\ super' = sb
  /\ cache' = [now |-> home, ended |-> home, parent |-> home, changed |-> {}, kept |-> {},
               pending |-> [b \in Block |-> 0]]
  /\ journal' = [journal EXCEPT !.depth = 0, !.unwritten = FALSE, !.hasSub = FALSE, !.entries = <<>>, !.used = 0]
  /\ io' = NoIo
  /\ notify' = NoNotify
  /\ ghost' = [ghost EXCEPT !.logged = home, !.before = home]

\* A crash, and InitCheck at the next mount.  ReplayLog walks through the log,
\* but the write in _ReplayRunArray is commented out: what it finds stays
\* unwritten, and the log is empty all the same.
CrashAndMount ==
  LET sb == [start |-> disk.super.end, end |-> disk.super.end, dirty |-> FALSE]
  IN  /\ Replay(disk.area, disk.super).ok
      /\ disk' = IF disk.super.start = disk.super.end THEN disk ELSE [disk EXCEPT !.super = sb]
      /\ Mounted(disk'.super, Homes(disk.area))

Init ==
  LET home == [b \in Block |-> 0]
  IN  /\ disk = [area |-> [p \in 0 .. LogSize + NumBlocks - 1 |-> Data(0)],
                 super |-> [start |-> FirstStart, end |-> FirstStart, dirty |-> FALSE]]
      /\ super = disk.super
      /\ cache = [now |-> home, ended |-> home, parent |-> home, changed |-> {}, kept |-> {},
                  pending |-> [b \in Block |-> 0]]
      /\ journal = [depth |-> 0, unwritten |-> FALSE, hasSub |-> FALSE, entries |-> <<>>, used |-> 0, written |-> 0]
      /\ io = NoIo
      /\ notify = NoNotify
      /\ ghost = [logged |-> home, before |-> home, whole |-> TRUE]

Next ==
  \/ Lock
  \/ \E b \in Block, c \in Content : Write(b, c)
  \/ UnlockInner \/ UnlockFailed \/ UnlockBatched \/ UnlockLogged
  \/ Flush \/ WriteLog \/ MoveEnd \/ WriteSuper \/ AddEntry \/ LogEnds \/ FlushEnds
  \/ \E b \in Block : WriteBack(b)
  \/ Notify \/ NotifyEnds
  \/ CrashAndMount

Spec == Init /\ [][Next]_vars

-----------------------------------------------------------------------------
(* Properties.                                                             *)

TypeOK ==
  LET home == [Block -> Content]
      sb == [start : Nat, end : Nat, dirty : BOOLEAN]
  IN  /\ \A p \in 0 .. LogSize + NumBlocks - 1 :
           disk.area[p].runs \in Seq(Block) /\ disk.area[p].data \in Content
      /\ disk.super \in sb
      /\ super \in sb
      /\ cache.changed \cup cache.kept \subseteq Block
      /\ {cache.now, cache.ended, cache.parent} \subseteq home
      /\ cache.pending \in [Block -> 0 .. MaxEntries]
      /\ journal.depth \in 0 .. MaxNesting
      /\ io.phase \in {"none", "log", "super", "add", "end", "flush"}
      /\ notify.phase \in {"none", "entry", "super"}

\* Whatever the moment of a crash, the log and the blocks behind it hold all
\* that was logged, and nothing of a transaction that was not: half an entry, a
\* batch that is still open and blocks that were written early or late make no
\* difference.  This is what ReplayLog is for ("this will put the disk into a
\* consistent and clean state").  It holds while the log is kept whole: until
\* an entry needs two arrays, ends at the end of the log or is larger than the
\* space left, which the code does not check, or is not written; until the beginning
\* of the log passes an entry that is not yet added, or its flag is lost (Notify, NotifyEnds).
Recoverable == ghost.whole => Replay(disk.area, disk.super) = [ok |-> TRUE, home |-> ghost.logged]

\* The log begins with the oldest entry whose blocks the cache has not written, or
\* has not told the journal of, and fUsed is the length of the entries; a disk that
\* is marked clean has everything at its place.
LogPointers ==
  /\ TypeOK
  /\ ghost.whole =>
       LET e == journal.entries
       IN  /\ e # <<>> => super.start = e[1].start
           /\ journal.used = SumFunction([x \in ToSet(e) |-> x.length])
           /\ \A i \in 1 .. Len(e) :
                \/ \E b \in Block : cache.pending[b] = e[i].id
                \/ io.phase = "end" /\ i = Len(e)
                \/ notify.phase = "entry" /\ notify.id = e[i].id
           /\ ~ disk.super.dirty => Homes(disk.area) = ghost.logged

\* Bound: behaviours are followed until the log is not kept whole.
LogIsWhole == ghost.whole

\* A transaction that fails leaves the blocks as it found them, however many
\* succeeded before it in the batch or inside it.
FailureUndone == [][UnlockFailed => cache'.now = ghost.before]_vars

\* _WriteTransactionToLog says "at this point, we can finally end the transaction -
\* we're in a guaranteed valid state": a crash then would find the transaction.
EndIsValid == io.phase = "add" => Replay(disk.area, disk.super) = [ok |-> TRUE, home |-> cache.now]
=============================================================================
