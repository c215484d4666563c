--------------------------- MODULE JournalProofs ---------------------------
(***************************************************************************)
(* A transaction that fails leaves the blocks as it found them; the log's  *)
(* pointers are right; and a recovery finds what was logged: for any       *)
(* number of blocks, any size of the log and of a batch, and any nesting.  *)
(*                                                                         *)
(* The argument for failures: what one goes back to, the contents before   *)
(* the sub-transaction or those of the last transaction that ended, are    *)
(* those that the outermost transaction found.  Which of both it is        *)
(* depends on fHasSubtransaction, so this has to be set just when there is *)
(* a batch.                                                                *)
(*                                                                         *)
(* The argument for the log: while it is kept whole there is a set of      *)
(* Heads, the places of the run arrays of the entries from the beginning   *)
(* of the log to its end, as the super block on the disk has them (Chain); *)
(* the entries in memory begin at some of them, in their order (Live); and *)
(* the newest entry that lists a block has what was logged of it (Logged). *)
(* The super block on the disk is behind the one in memory: by the new end *)
(* of the log until either of its two writers has written it (Landed), and *)
(* by a new beginning (Pointers).  What is written behind the end of the   *)
(* log touches none of that, as it fits into the space that is left        *)
(* (Writing).  When the new end lands, what was written becomes an entry   *)
(* that recovery finds, whether or not it is among the entries in memory.  *)
(* Moving the beginning on takes away entries all of whose blocks are at   *)
(* their place.  A walk through the log goes from head to head, and having *)
(* passed all entries that list a block it has the block as it was logged. *)
(***************************************************************************)
EXTENDS Journal, InductionLemmas, SequenceTheorems, TLAPS

\* A transaction is being written to the log.
Logging == io.phase \in {"log", "super", "add", "end"}

\* The records of the cache and the journal have their fields.
Shape ==
  /\ cache = [now |-> cache.now, ended |-> cache.ended, parent |-> cache.parent,
              changed |-> cache.changed, kept |-> cache.kept, pending |-> cache.pending]
  /\ journal = [depth |-> journal.depth, unwritten |-> journal.unwritten, hasSub |-> journal.hasSub,
                entries |-> journal.entries, used |-> journal.used, written |-> journal.written]
  /\ ghost = [logged |-> ghost.logged, before |-> ghost.before, whole |-> ghost.whole]
  /\ \/ io = [phase |-> "flush"]
     \/ io = NoIo
     \/ /\ Logging
        /\ io = [phase |-> io.phase, writes |-> io.writes, start |-> io.start, position |-> io.position,
                 begin |-> io.begin, length |-> io.length, flush |-> io.flush]
  /\ journal.depth \in Nat
  /\ journal.unwritten \in BOOLEAN /\ journal.hasSub \in BOOLEAN

\* What a failure of the outermost transaction would go back to.
Saved == IF journal.hasSub THEN cache.parent ELSE cache.ended

\* Outside of transactions, the blocks are as the last one left them, and those of
\* the last entry unless there is a batch or its entry is being written.
Outside ==
  /\ cache.now = ghost.before
  /\ journal.hasSub => journal.unwritten
  /\ Logging => ~ journal.unwritten
  /\ ~ journal.unwritten /\ ~ Logging => cache.ended = ghost.before

\* Inside of one, a failure goes back to what it found.
Inside ==
  /\ Free
  /\ journal.hasSub = journal.unwritten
  /\ Saved = ghost.before

Undoable == Shape /\ (IF journal.depth = 0 THEN Outside ELSE Inside)

\* A mounted volume has no transaction open.
LEMMA InitUndoable == Init => Undoable
<1> SUFFICES ASSUME Init PROVE Undoable
  OBVIOUS
<1> DEFINE home == [b \in Block |-> 0]
           none == [b \in Block |-> 0]
<1>1. /\ cache = [now |-> home, ended |-> home, parent |-> home, changed |-> {}, kept |-> {}, pending |-> none]
      /\ journal = [depth |-> 0, unwritten |-> FALSE, hasSub |-> FALSE, entries |-> <<>>, used |-> 0, written |-> 0]
      /\ io = NoIo
      /\ ghost = [logged |-> home, before |-> home, whole |-> TRUE]
  BY DEF Init
<1> HIDE DEF home, none
<1> QED
  BY <1>1 DEF Undoable, Shape, Outside, NoIo, Logging

\* The steps of _WriteTransactionToLog from one phase to the next.
LEMMA NextPhase ==
  ASSUME Shape, Logging, NEW phase \in {"log", "super", "add", "end"}, io' = [io EXCEPT !.phase = phase]
  PROVE  /\ Logging' /\ io # NoIo
         /\ io' = [phase |-> io'.phase, writes |-> io'.writes, start |-> io'.start, position |-> io'.position,
                   begin |-> io'.begin, length |-> io'.length, flush |-> io'.flush]
  BY DEF Shape, Logging, NoIo

\* Undoable is inductive.
LEMMA NextUndoable == Undoable /\ [Next]_vars => Undoable'
<1> SUFFICES ASSUME Undoable, [Next]_vars PROVE Undoable'
  OBVIOUS
<1> USE DEF Undoable, Shape, Logging
<1>1. CASE UNCHANGED vars
  BY <1>1 DEF vars, Outside, Inside, Saved, Free
<1>2. CASE Lock
  <2>1. /\ Free /\ UNCHANGED <<io, ghost>>
        /\ journal' = [journal EXCEPT !.depth = journal.depth + 1,
                         !.hasSub = IF journal.depth = 0 THEN journal.hasSub \/ journal.unwritten ELSE journal.hasSub]
    BY <1>2 DEF Lock
  <2>2. /\ journal'.depth = journal.depth + 1 /\ journal'.unwritten = journal.unwritten
        /\ journal'.hasSub = IF journal.depth = 0 THEN journal.hasSub \/ journal.unwritten ELSE journal.hasSub
        /\ journal' = [depth |-> journal'.depth, unwritten |-> journal'.unwritten, hasSub |-> journal'.hasSub,
                       entries |-> journal'.entries, used |-> journal'.used, written |-> journal'.written]
    BY <2>1
  <2>3. CASE journal.depth > 0
    <3>1. cache' = cache
      BY <1>2, <2>3 DEF Lock
    <3> QED
      BY <2>1, <2>2, <2>3, <3>1 DEF Inside, Saved, Free, NoIo
  <2>4. CASE journal.depth = 0
    <3>1. /\ cache'.now = cache.now /\ cache'.ended = cache.ended /\ cache'.parent = cache.now
          /\ cache' = [now |-> cache'.now, ended |-> cache'.ended, parent |-> cache'.parent,
                       changed |-> cache'.changed, kept |-> cache'.kept, pending |-> cache'.pending]
      <4>1. cache' = [cache EXCEPT !.parent = cache.now, !.kept = cache.changed]
              \/ cache' = [[cache EXCEPT !.changed = {}] EXCEPT !.parent = cache.now, !.kept = {}]
        BY <1>2, <2>4 DEF Lock, StartSub, StartTransaction
      <4> QED
        BY <4>1
    <3> QED
      BY <2>1, <2>2, <2>4, <3>1 DEF Outside, Inside, Saved, Free, NoIo
  <2> QED
    BY <2>3, <2>4
<1>3. ASSUME NEW b \in Block, NEW c \in Content, Write(b, c)
      PROVE  Undoable'
  <2>1. /\ cache' = [cache EXCEPT !.now = [cache.now EXCEPT ![b] = c], !.changed = cache.changed \cup {b}]
        /\ journal.depth > 0
        /\ UNCHANGED <<journal, io, ghost>>
    BY <1>3 DEF Write
  <2>2. /\ cache'.ended = cache.ended /\ cache'.parent = cache.parent
        /\ cache' = [now |-> cache'.now, ended |-> cache'.ended, parent |-> cache'.parent,
                     changed |-> cache'.changed, kept |-> cache'.kept, pending |-> cache'.pending]
    BY <2>1
  <2> QED
    BY <2>1, <2>2 DEF Inside, Saved, Free
<1>4. CASE UnlockInner
  <2>1. /\ journal' = [journal EXCEPT !.depth = journal.depth - 1]
        /\ journal.depth > 1
        /\ UNCHANGED <<cache, io, ghost>>
    BY <1>4 DEF UnlockInner
  <2>2. /\ journal'.depth = journal.depth - 1 /\ journal'.depth \in Nat /\ journal'.depth # 0
        /\ journal'.unwritten = journal.unwritten /\ journal'.hasSub = journal.hasSub
        /\ journal' = [depth |-> journal'.depth, unwritten |-> journal'.unwritten, hasSub |-> journal'.hasSub,
                       entries |-> journal'.entries, used |-> journal'.used, written |-> journal'.written]
    BY <2>1
  <2> QED
    BY <2>1, <2>2 DEF Inside, Saved, Free
<1>5. CASE UnlockFailed
  <2>1. /\ journal' = [journal EXCEPT !.depth = 0]
        /\ journal.depth = 1 /\ Free
        /\ UNCHANGED <<io, ghost>>
        /\ cache' = [Aborted EXCEPT !.parent = Aborted.now, !.kept = Aborted.changed]
    BY <1>5 DEF UnlockFailed, StartSub
  <2>2. /\ Aborted.now = Saved /\ Aborted.ended = cache.ended
        /\ Aborted = [now |-> Aborted.now, ended |-> Aborted.ended, parent |-> Aborted.parent,
                      changed |-> Aborted.changed, kept |-> Aborted.kept, pending |-> Aborted.pending]
    BY DEF Aborted, AbortSub, AbortTransaction, Saved
  <2>3. /\ cache'.now = Saved /\ cache'.ended = cache.ended
        /\ cache' = [now |-> cache'.now, ended |-> cache'.ended, parent |-> cache'.parent,
                     changed |-> cache'.changed, kept |-> cache'.kept, pending |-> cache'.pending]
    BY <2>1, <2>2
  <2>4. /\ journal'.depth = 0 /\ journal'.unwritten = journal.unwritten /\ journal'.hasSub = journal.hasSub
        /\ journal' = [depth |-> journal'.depth, unwritten |-> journal'.unwritten, hasSub |-> journal'.hasSub,
                       entries |-> journal'.entries, used |-> journal'.used, written |-> journal'.written]
    BY <2>1
  <2> QED
    BY <2>1, <2>3, <2>4 DEF Outside, Inside, Saved, Free
<1>6. CASE UnlockBatched
  <2>1. /\ journal' = [journal EXCEPT !.depth = 0, !.unwritten = TRUE]
        /\ cache' = [cache EXCEPT !.parent = cache.now, !.kept = cache.changed]
        /\ ghost' = [ghost EXCEPT !.before = cache.now]
        /\ Free /\ UNCHANGED io
    BY <1>6 DEF UnlockBatched, StartSub
  <2>2. /\ cache'.now = ghost'.before
        /\ cache' = [now |-> cache'.now, ended |-> cache'.ended, parent |-> cache'.parent,
                     changed |-> cache'.changed, kept |-> cache'.kept, pending |-> cache'.pending]
        /\ ghost' = [logged |-> ghost'.logged, before |-> ghost'.before, whole |-> ghost'.whole]
    BY <2>1
  <2>3. /\ journal'.depth = 0 /\ journal'.unwritten = TRUE /\ journal'.hasSub = journal.hasSub
        /\ journal' = [depth |-> journal'.depth, unwritten |-> journal'.unwritten, hasSub |-> journal'.hasSub,
                       entries |-> journal'.entries, used |-> journal'.used, written |-> journal'.written]
    BY <2>1
  <2> QED
    BY <2>1, <2>2, <2>3 DEF Outside, Free, NoIo
<1>7. ASSUME NEW flush \in BOOLEAN, LogBegins(flush)
      PROVE  Undoable'
  <2>1. /\ journal' = [journal EXCEPT !.depth = 0, !.unwritten = FALSE, !.hasSub = FALSE,
                                      !.written = journal.written + 1]
        /\ cache' = [cache EXCEPT !.parent = cache.now, !.kept = cache.changed]
    BY <1>7 DEF LogBegins, StartSub
  <2>2. PICK whole : ghost' = [ghost EXCEPT !.whole = whole, !.before = cache.now]
    BY <1>7 DEF LogBegins
  <2>3. PICK writes, start, position, length :
          io' = [phase |-> "log", writes |-> writes, start |-> start, position |-> position,
                 begin |-> super.end, length |-> length, flush |-> flush]
    BY <1>7 DEF LogBegins
  <2>4. /\ cache'.now = ghost'.before
        /\ cache' = [now |-> cache'.now, ended |-> cache'.ended, parent |-> cache'.parent,
                     changed |-> cache'.changed, kept |-> cache'.kept, pending |-> cache'.pending]
        /\ ghost' = [logged |-> ghost'.logged, before |-> ghost'.before, whole |-> ghost'.whole]
    BY <2>1, <2>2
  <2>5. /\ journal'.depth = 0 /\ ~ journal'.unwritten /\ ~ journal'.hasSub
        /\ journal'.unwritten \in BOOLEAN /\ journal'.hasSub \in BOOLEAN
        /\ journal' = [depth |-> journal'.depth, unwritten |-> journal'.unwritten, hasSub |-> journal'.hasSub,
                       entries |-> journal'.entries, used |-> journal'.used, written |-> journal'.written]
    BY <2>1
  <2>6. io'.phase = "log"
        /\ io' = [phase |-> io'.phase, writes |-> io'.writes, start |-> io'.start, position |-> io'.position,
                  begin |-> io'.begin, length |-> io'.length, flush |-> io'.flush]
    BY <2>3
  <2>7. Shape'
    BY <2>4, <2>5, <2>6
  <2>8. Outside'
    BY <2>4, <2>5, <2>6 DEF Outside
  <2> QED
    BY <2>5, <2>7, <2>8
<1>8. CASE UnlockLogged
  BY <1>7, <1>8 DEF UnlockLogged
<1>9. CASE Flush
  <2>1. CASE journal.unwritten /\ cache.changed # {}
    BY <1>7, <1>9, <2>1 DEF Flush
  <2>2. CASE ~ (journal.unwritten /\ cache.changed # {})
    <3>1. /\ io' = [phase |-> "flush"] /\ UNCHANGED <<cache, journal, ghost>>
          /\ Free /\ journal.depth = 0
      BY <1>9, <2>2 DEF Flush
    <3> QED
      BY <3>1 DEF Outside, Free
  <2> QED
    BY <2>1, <2>2
<1>10. CASE WriteLog
  BY <1>10 DEF WriteLog, Outside, Inside, Free, NoIo
<1>11. CASE MoveEnd
  <2>1. /\ io' = [io EXCEPT !.phase = "super"] /\ io.phase = "log"
        /\ UNCHANGED <<cache, journal, ghost>>
    BY <1>11 DEF MoveEnd
  <2> QED
    BY <2>1, NextPhase DEF Outside, Inside, Free
<1>12. CASE WriteSuper
  <2>1. /\ io' = [io EXCEPT !.phase = "add"] /\ io.phase = "super"
        /\ UNCHANGED <<cache, journal>>
    BY <1>12 DEF WriteSuper
  <2>2. PICK logged, whole : ghost' = [ghost EXCEPT !.logged = logged, !.whole = whole]
    BY <1>12 DEF WriteSuper, WriteSuperBlock
  <2> QED
    BY <2>1, <2>2, NextPhase DEF Outside, Inside, Free
<1>13. CASE AddEntry
  <2>1. /\ io' = [io EXCEPT !.phase = "end"] /\ io.phase = "add"
        /\ UNCHANGED <<cache, ghost>>
    BY <1>13 DEF AddEntry
  <2>2. PICK entries, used : journal' = [journal EXCEPT !.entries = entries, !.used = used]
    BY <1>13 DEF AddEntry
  <2> QED
    BY <2>1, <2>2, NextPhase DEF Outside, Inside, Free
<1>14. CASE LogEnds
  <2>1. /\ cache'.now = cache.now /\ cache'.ended = cache.now /\ cache'.parent = cache.parent
        /\ cache' = [now |-> cache'.now, ended |-> cache'.ended, parent |-> cache'.parent,
                     changed |-> cache'.changed, kept |-> cache'.kept, pending |-> cache'.pending]
    <3> DEFINE left(p) == [b \in Block |-> IF b \in cache.changed THEN p ELSE cache.pending[b]]
    <3>1. cache' = [cache EXCEPT !.ended = cache.now, !.changed = {}, !.kept = {}, !.pending = left(journal.written)]
      BY <1>14 DEF LogEnds, EndTransaction
    <3> HIDE DEF left
    <3> QED
      BY <3>1
  <2>2. /\ io.phase = "end"
        /\ io' = [phase |-> "flush"] \/ io' = NoIo
        /\ UNCHANGED <<journal, ghost>>
    BY <1>14 DEF LogEnds
  <2> QED
    BY <2>1, <2>2 DEF Outside, Inside, Free, NoIo
<1>15. CASE FlushEnds
  BY <1>15 DEF FlushEnds, Outside, Inside, Free, NoIo
<1>16. ASSUME NEW b \in Block, WriteBack(b)
       PROVE  Undoable'
  BY <1>16 DEF WriteBack, Outside, Inside, Saved, Free, NoIo
<1>17. CASE Notify
  <2>1. PICK entries, used : journal' = [journal EXCEPT !.entries = entries, !.used = used]
    BY <1>17 DEF Notify
  <2>2. PICK whole : ghost' = [ghost EXCEPT !.whole = whole]
    BY <1>17 DEF Notify
  <2>3. UNCHANGED <<cache, io>>
    BY <1>17 DEF Notify
  <2> QED
    BY <2>1, <2>2, <2>3 DEF Outside, Inside, Saved, Free, NoIo
<1>18. CASE NotifyEnds
  <2>1. PICK logged, whole : ghost' = [ghost EXCEPT !.logged = logged, !.whole = whole]
    <3>1. PICK clean, done : WriteSuperBlock(super', done, clean => super.start = super.end)
      BY <1>18 DEF NotifyEnds
    <3> QED
      BY <3>1 DEF WriteSuperBlock
  <2>2. UNCHANGED <<cache, journal, io>>
    BY <1>18 DEF NotifyEnds
  <2> QED
    BY <2>1, <2>2 DEF Outside, Inside, Saved, Free, NoIo
<1>19. CASE CrashAndMount
  <2>1. PICK home, none :
          /\ cache' = [now |-> home, ended |-> home, parent |-> home, changed |-> {}, kept |-> {}, pending |-> none]
          /\ journal' = [journal EXCEPT !.depth = 0, !.unwritten = FALSE, !.hasSub = FALSE,
                                        !.entries = <<>>, !.used = 0]
          /\ io' = NoIo
          /\ ghost' = [ghost EXCEPT !.logged = home, !.before = home]
    BY <1>19 DEF CrashAndMount, Mounted
  <2> QED
    BY <2>1 DEF Outside, NoIo
<1> QED
  BY <1>1, <1>2, <1>3, <1>4, <1>5, <1>6, <1>8, <1>9, <1>10, <1>11, <1>12, <1>13, <1>14, <1>15, <1>16, <1>17, <1>18,
     <1>19 DEF Next

\* _TransactionDone(false) gives back exactly what the transaction found, whatever
\* succeeded before it in the batch or inside it.
THEOREM FailureIsUndone == Spec => FailureUndone
<1>1. Undoable /\ UnlockFailed => cache'.now = ghost.before
  BY DEF Undoable, Shape, Inside, Saved, UnlockFailed, Aborted, AbortSub, AbortTransaction, StartSub
<1>2. Undoable /\ [Next]_vars => [UnlockFailed => cache'.now = ghost.before]_vars
  BY <1>1
<1> QED
  BY <1>2, InitUndoable, NextUndoable, PTL DEF Spec, FailureUndone
-----------------------------------------------------------------------------
(* The log, and what of it a recovery finds.                               *)

Ring == 0 .. LogSize - 1
Wrap(p) == IF p < LogSize THEN p ELSE p - LogSize

\* How many blocks of the ring there are from p to r, and from its beginning on the disk.
Ahead(p, r) == IF p <= r THEN r - p ELSE r + LogSize - p
From(p) == Ahead(disk.super.start, p)

Listed(p) == disk.area[p].runs
Lists(p, b) == \E i \in 1 .. Len(Listed(p)) : Listed(p)[i] = b

Area == 0 .. LogSize + NumBlocks - 1
DiskBlock == [runs : Seq(Block), data : Content]
LogWrite == [at : Nat, vecs : Seq(DiskBlock)]
LogEntry == [id : Nat \ {0}, start : Nat, length : Nat]
SuperBlock == [start : Nat, end : Nat, dirty : BOOLEAN]
Contents == [Block -> Content]

Cache == [now : Contents, ended : Contents, parent : Contents,
          changed : SUBSET Block, kept : SUBSET Block, pending : [Block -> 0 .. MaxEntries]]
Io == [phase : {"log", "super", "add", "end"}, writes : Seq(LogWrite), start : Nat, position : Nat, begin : Nat,
       length : Nat, flush : BOOLEAN]
JournalState == [depth : 0 .. MaxNesting, unwritten : BOOLEAN, hasSub : BOOLEAN,
                 entries : Seq(LogEntry), used : Int, written : 0 .. MaxEntries]

Types ==
  /\ disk \in [area : [Area -> DiskBlock], super : SuperBlock]
  /\ super \in SuperBlock
  /\ cache \in Cache
  /\ journal \in JournalState
  /\ io = NoIo \/ io = [phase |-> "flush"] \/ io \in Io
  /\ notify = NoNotify \/ notify \in [phase : {"entry"}, id : Nat] \/ notify \in [phase : {"super"}, clean : BOOLEAN]
  /\ ghost \in [logged : Contents, before : Contents, whole : BOOLEAN]

\* Blocks that no transaction changes are those of the last entry.
Changes ==
  /\ \A b \in Block \ cache.changed : cache.now[b] = cache.ended[b]
  /\ journal.depth > 0 => \A b \in Block \ cache.kept : cache.parent[b] = cache.ended[b]
  /\ Logging => cache.changed # {} /\ journal.written > 0

\* The entry that _blockNotify is about to remove.
Notifies(id) == notify.phase = "entry" /\ notify.id = id

\* The entries in memory are those that have blocks to be written back, the one that
\* is just being ended, and the one that is just being removed.
Entries ==
  LET e == journal.entries
  IN  /\ \A k, l \in 1 .. Len(e) : k < l => e[k].id < e[l].id
      /\ \A k \in 1 .. Len(e) : /\ e[k].id <= journal.written
                                /\ io.phase \in {"log", "super", "add"} => e[k].id < journal.written
      /\ \A b \in Block : cache.pending[b] # 0 => \E k \in 1 .. Len(e) : e[k].id = cache.pending[b]
      /\ \A k \in 1 .. Len(e) : \/ \E b \in Block : cache.pending[b] = e[k].id
                                \/ io.phase = "end" /\ k = Len(e)
                                \/ Notifies(e[k].id)
      /\ io.phase = "end" => /\ e # <<>> /\ e[Len(e)].id = journal.written
                             /\ \A b \in Block : cache.pending[b] # journal.written
                             /\ ~ Notifies(journal.written)
      /\ notify.phase = "entry" => /\ \E k \in 1 .. Len(e) : Notifies(e[k].id)
                                   /\ \A b \in Block : ~ Notifies(cache.pending[b])

UsedIsSum == journal.used = SumFunction([x \in ToSet(journal.entries) |-> x.length])

\* The new end of the log has come to the disk.
Landed == io.phase \in {"super", "add", "end"} /\ disk.super.end = io.position

\* The super block in memory, and the one on the disk, which is behind it for as long
\* as its new end is not written, or its new beginning.
Pointers ==
  /\ super.end = IF io.phase = "super" THEN io.position ELSE disk.super.end
  /\ io.phase = "log" => super.end = io.begin
  /\ io.phase = "super" => io.begin # io.position /\ disk.super.end \in {io.begin, io.position}
  /\ io.phase \in {"add", "end"} => disk.super.end = io.position
  /\ journal.entries = <<>> => super.start = IF io.phase \in {"super", "add"} THEN io.begin ELSE super.end
  /\ journal.entries # <<>> => super.start = journal.entries[1].start
  /\ ~ super.dirty => super.start = super.end /\ journal.entries = <<>> /\ io.phase \notin {"super", "add"}
  /\ ~ disk.super.dirty => disk.super.start = disk.super.end
  /\ ghost.logged = IF Landed THEN cache.now ELSE cache.ended

\* Heads are where the entries of the log begin: from its beginning to its end each
\* of them leads to the next.
ChainTo(end, Heads) ==
  /\ Heads \subseteq Ring /\ disk.super.start \in Ring /\ end \in Ring
  /\ disk.super.start # end => disk.super.start \in Heads
  /\ \A p \in Heads : /\ Len(Listed(p)) > 0
                      /\ From(p) + Len(Listed(p)) < From(end)
                      /\ Wrap(p + 1 + Len(Listed(p))) \in Heads \cup {end}
  /\ \A p, r \in Heads : From(p) < From(r) => From(p) + Len(Listed(p)) < From(r)

\* The entries in memory are some of them, in their order; one that has come to the disk
\* and is not yet, or just, among them is the last.
LiveIf(landed, Heads) ==
  LET e == journal.entries
  IN  /\ \A k \in 1 .. Len(e) : e[k].start \in Heads
      /\ \A k, l \in 1 .. Len(e) : k < l => From(e[k].start) < From(e[l].start)
      /\ landed => /\ io.begin \in Heads
                   /\ \A p \in Heads : From(p) <= From(io.begin)
                   /\ \A b \in Block : b \in cache.changed <=> Lists(io.begin, b)
                   /\ io.phase # "end" => \A k \in 1 .. Len(e) : e[k].start # io.begin
      /\ io.phase = "end" => e[Len(e)].start = io.begin

\* The newest entry that lists a block has what was logged of it; without one, its
\* own place has.  A block that is not in an entry that waits for it is there already.
Newest(Heads, p, b) == p \in Heads /\ Lists(p, b) /\ \A r \in Heads : Lists(r, b) => From(r) <= From(p)
WaitsIf(landed, p, b) ==
  \/ landed /\ p = io.begin
  \/ \E k \in 1 .. Len(journal.entries) : journal.entries[k].start = p /\ cache.pending[b] = journal.entries[k].id

LoggedIf(landed, logged, Heads) ==
  /\ \A p \in Heads, b \in Block :
       Newest(Heads, p, b) =>
         /\ \A i \in 1 .. Len(Listed(p)) : Listed(p)[i] = b => disk.area[Wrap(p + i)].data = logged[b]
         /\ disk.area[Home(b)].data = logged[b] \/ WaitsIf(landed, p, b)
  /\ \A b \in Block : (\A p \in Heads : ~ Lists(p, b)) => disk.area[Home(b)].data = logged[b]
  /\ \A b \in Block : cache.pending[b] = 0 => disk.area[Home(b)].data = cache.ended[b]

\* The log as it is on the disk.
Chain(Heads) == ChainTo(disk.super.end, Heads)
Live(Heads) == LiveIf(Landed, Heads)
Waits(p, b) == WaitsIf(Landed, p, b)
Logged(Heads) == LoggedIf(Landed, ghost.logged, Heads)

\* What is written behind the end of the log until the super block is.
NewRuns == SetToSeq(cache.changed)
EntryBlock(blocks, contents, j) ==
  IF j = 0 THEN RunArray(SetToSeq(blocks)) ELSE Data(contents[SetToSeq(blocks)[j]])

Writing ==
  io.phase \in {"log", "super"} /\ ~ Landed =>
    /\ io.phase = "super" => io.writes = <<>>
    /\ io.length = Len(NewRuns) + 1
    /\ From(io.begin) + io.length < LogSize
    /\ io.position = Wrap(io.begin + io.length)
    /\ \A i \in 1 .. Len(io.writes) : \A t \in 1 .. Len(io.writes[i].vecs) :
         LET p == io.writes[i].at + t - 1
         IN  /\ p \in Ring /\ Ahead(io.begin, p) < io.length
             /\ io.writes[i].vecs[t] = EntryBlock(cache.changed, cache.now, Ahead(io.begin, p))
    /\ \A p \in Ring : Ahead(io.begin, p) < io.length =>
         \/ disk.area[p] = EntryBlock(cache.changed, cache.now, Ahead(io.begin, p))
         \/ \E i \in 1 .. Len(io.writes) : p - io.writes[i].at \in 0 .. Len(io.writes[i].vecs) - 1

\* The log is as a recovery needs it.
Picture == Pointers /\ Writing /\ \E Heads \in SUBSET Ring : Chain(Heads) /\ Live(Heads) /\ Logged(Heads)

LogInv == ghost.whole => Picture

IInv == Undoable /\ Types /\ Changes /\ Entries /\ UsedIsSum /\ LogInv

-----------------------------------------------------------------------------
(* Facts about the ring, sequences and the blocks of a transaction.        *)

\* What is assumed of the constants.
LEMMA Sizes ==
  /\ LogSize \in Nat \ {0} /\ NumBlocks \in Nat \ {0} /\ MaxRuns \in Nat \ {0} /\ MaxRuns < LogSize
  /\ MaxTransactionSize \in Nat \ {0} /\ MaxNesting \in Nat \ {0} /\ MaxEntries \in Nat
  BY LogAssumption

\* Up to twice the size of the ring, the remainder is one subtraction.
LEMMA ModIsWrap ==
  ASSUME NEW p \in Nat, p < 2 * LogSize
  PROVE  p % LogSize = Wrap(p) /\ Wrap(p) \in Ring
<1>1. PICK l \in Nat \ {0} : l = LogSize
  BY Sizes
<1>2. p % l = IF p < l THEN p ELSE p - l
  BY <1>1
<1> QED
  BY <1>1, <1>2 DEF Wrap, Ring

\* Distances in the ring.
LEMMA RingFacts ==
  ASSUME NEW s \in Ring, NEW p \in Ring
  PROVE  /\ Ahead(s, p) \in Ring
         /\ Ahead(s, p) = 0 <=> s = p
         /\ Wrap(s + Ahead(s, p)) = p
         /\ p \in Nat /\ p < LogSize
  BY Sizes DEF Ring, Ahead, Wrap

\* A place that is k further is k blocks further in the ring.
LEMMA AheadOfWrap ==
  ASSUME NEW s \in Ring, NEW p \in Ring, NEW k \in Nat, Ahead(s, p) + k < LogSize
  PROVE  Wrap(p + k) \in Ring /\ Ahead(s, Wrap(p + k)) = Ahead(s, p) + k
  BY Sizes DEF Ring, Ahead, Wrap

\* Places at the same distance are the same.
LEMMA SameDistance ==
  ASSUME NEW s \in Ring, NEW p \in Ring, NEW r \in Ring, Ahead(s, p) = Ahead(s, r)
  PROVE  p = r
  BY Sizes DEF Ring, Ahead

\* The distances when the ring begins later.
LEMMA LaterBeginning ==
  ASSUME NEW s \in Ring, NEW t \in Ring, NEW p \in Ring, Ahead(s, t) <= Ahead(s, p)
  PROVE  Ahead(t, p) = Ahead(s, p) - Ahead(s, t)
  BY Sizes DEF Ring, Ahead

\* Sets of blocks are finite.
LEMMA BlocksAreFinite ==
  ASSUME NEW S, S \subseteq Block
  PROVE  IsFiniteSet(S) /\ Cardinality(S) \in Nat
<1>1. IsFiniteSet(Block)
  BY Sizes, FS_Interval DEF Block
<1> QED
  BY <1>1, FS_Subset, FS_CardinalityType

\* SetToSeq gives each block once.
LEMMA RunsOfSet ==
  ASSUME NEW S, S \subseteq Block
  PROVE  /\ SetToSeq(S) \in Seq(Block) /\ Len(SetToSeq(S)) = Cardinality(S)
         /\ \A i, j \in 1 .. Len(SetToSeq(S)) : SetToSeq(S)[i] = SetToSeq(S)[j] => i = j
         /\ \A b \in Block : b \in S <=> \E i \in 1 .. Len(SetToSeq(S)) : SetToSeq(S)[i] = b
<1>1. PICK n \in Nat : n = Cardinality(S) /\ ExistsBijection(1 .. n, S)
  BY BlocksAreFinite, FS_CardinalityType
<1>2. PICK f \in Bijection(1 .. n, S) : TRUE
  BY <1>1 DEF ExistsBijection
<1>3. f \in [1 .. n -> S] /\ IsInjective(f)
  BY <1>2 DEF Bijection, Injection, IsInjective
<1>4. PICK g : g = SetToSeq(S)
  OBVIOUS
<1>5. g \in [1 .. n -> S] /\ IsInjective(g)
  BY <1>1, <1>3, <1>4 DEF SetToSeq
<1>6. g \in Surjection(1 .. n, S)
  <2>1. g \in Injection(1 .. n, S)
    BY <1>5 DEF Injection, IsInjective
  <2>2. IsFiniteSet(1 .. n) /\ Cardinality(1 .. n) = n
    BY FS_Interval
  <2> QED
    BY <1>1, <2>1, <2>2, BlocksAreFinite, FS_Injection
<1>7. \A b \in S : \E i \in 1 .. n : g[i] = b
  BY <1>6 DEF Surjection
<1>8. g \in Seq(Block) /\ Len(g) = n
  BY <1>5
<1> QED
  BY <1>1, <1>4, <1>5, <1>7, <1>8 DEF IsInjective

-----------------------------------------------------------------------------
(* What is written for an entry.                                           *)

\* RunArrays gives run arrays of blocks; if it gives one, that has them all.
LEMMA ArraysAre ==
  ASSUME NEW S, S \subseteq Block
  PROVE  /\ RunArrays(S) \in Seq(Seq(Block))
         /\ Len(RunArrays(S)) = 1 => RunArrays(S)[1] = SetToSeq(S)
<1>1. PICK all \in Seq(Block) : all = SetToSeq(S)
  BY RunsOfSet
<1>2. PICK n \in Nat : n = Len(all)
  BY <1>1
<1>3. PICK m \in Nat \ {0} : m = MaxRuns
  BY Sizes
<1>4. PICK c \in Nat : c = (n + m - 1) \div m
  BY <1>3
<1> DEFINE to(i) == Min({i * m, n})
           array(i) == SubSeq(all, (i - 1) * m + 1, to(i))
<1>5. RunArrays(S) = [i \in 1 .. c |-> array(i)]
  BY <1>1, <1>2, <1>3, <1>4 DEF RunArrays
<1>6. ASSUME NEW i \in 1 .. c
      PROVE  array(i) \in Seq(Block)
  <2>1. PICK x \in Nat : x = (i - 1) * m
    OBVIOUS
  <2>2. PICK y \in Nat : y = i * m
    OBVIOUS
  <2>3. to(i) \in Nat /\ to(i) <= n
    <3>1. to(i) = Min({y, n})
      BY <2>2
    <3>2. Min({y, n}) \in {y, n} /\ Min({y, n}) <= n
      BY MinIsLeast
    <3> QED
      BY <3>1, <3>2
  <2>4. PICK t \in Nat : t = to(i) /\ t <= n
    BY <2>3
  <2>5. SubSeq(all, x + 1, t) \in Seq(Block)
    <3>1. \A j \in x + 1 .. t : all[j] \in Block
      BY <1>2, <2>4
    <3> QED
      BY <3>1, SubSeqProperties
  <2> QED
    BY <2>1, <2>4, <2>5
<1> HIDE DEF array
<1>7. RunArrays(S) \in Seq(Seq(Block))
  BY <1>5, <1>6
<1>8. ASSUME Len(RunArrays(S)) = 1
      PROVE  RunArrays(S)[1] = all
  <2>1. c = 1
    BY <1>5, <1>8
  <2>2. n <= m
    BY <1>4, <2>1
  <2>3. RunArrays(S)[1] = array(1)
    BY <1>5, <2>1
  <2>4. array(1) = SubSeq(all, 1, Min({m, n}))
    <3>1. (1 - 1) * m + 1 = 1 /\ 1 * m = m
      OBVIOUS
    <3> QED
      BY <3>1 DEF array
  <2>5. Min({m, n}) = n
    <3>1. Min({m, n}) \in {m, n} /\ Min({m, n}) <= n /\ Min({m, n}) <= m
      BY MinIsLeast
    <3> QED
      BY <2>2, <3>1
  <2>6. SubSeq(all, 1, n) = all
    BY <1>2, SubSeqFull
  <2> QED
    BY <2>3, <2>4, <2>5, <2>6
<1> QED
  BY <1>1, <1>7, <1>8

Plan == [start : Nat, position : Nat, writes : Seq(LogWrite)]

\* What an array writes is its run array and then the data of its blocks.
LEMMA VecsAre ==
  ASSUME NEW blocks \in Seq(Block), NEW contents \in Contents
  PROVE  LET vecs == <<RunArray(blocks)>> \o [i \in 1 .. Len(blocks) |-> Data(contents[blocks[i]])]
         IN  /\ vecs \in Seq(DiskBlock) /\ Len(vecs) = Len(blocks) + 1
             /\ vecs[1] = RunArray(blocks)
             /\ \A i \in 1 .. Len(blocks) : vecs[i + 1] = Data(contents[blocks[i]])
<1> DEFINE tail == [i \in 1 .. Len(blocks) |-> Data(contents[blocks[i]])]
<1>1. RunArray(blocks) \in DiskBlock
  BY LogAssumption DEF RunArray, DiskBlock
<1>2. tail \in Seq(DiskBlock) /\ Len(tail) = Len(blocks)
  <2>1. PICK n \in Nat : n = Len(blocks)
    OBVIOUS
  <2>2. \A i \in 1 .. n : tail[i] \in DiskBlock
    BY <2>1 DEF Data, DiskBlock, Contents
  <2> QED
    BY <2>1, <2>2
<1> HIDE DEF tail
<1>3. <<RunArray(blocks)>> \in Seq(DiskBlock) /\ Len(<<RunArray(blocks)>>) = 1
  BY <1>1
<1>4. PICK vecs : vecs = <<RunArray(blocks)>> \o tail
  OBVIOUS
<1>5. /\ vecs \in Seq(DiskBlock) /\ Len(vecs) = Len(blocks) + 1
      /\ vecs[1] = RunArray(blocks)
      /\ \A i \in 1 .. Len(blocks) : vecs[i + 1] = tail[i]
  BY <1>2, <1>3, <1>4
<1> QED
  BY <1>4, <1>5 DEF tail

\* LogArray makes a plan of a plan.
LEMMA LogArrayIs ==
  ASSUME NEW plan \in Plan, NEW blocks \in Seq(Block), NEW contents \in Contents
  PROVE  LogArray(plan, blocks, contents) \in Plan
<1> DEFINE vecs == <<RunArray(blocks)>> \o [i \in 1 .. Len(blocks) |-> Data(contents[blocks[i]])]
<1>1. vecs \in Seq(DiskBlock)
  BY VecsAre
<1> HIDE DEF vecs
<1>2. PICK n \in Nat : n = Len(vecs)
  BY <1>1
<1>3. PICK s \in Nat : s = plan.start
  BY DEF Plan
<1>4. PICK w \in Nat \ {0} : w = Max({1, LogSize - s})
  <2>1. PICK k \in Int : k = LogSize - s
    BY Sizes
  <2>2. Max({1, k}) \in Nat \ {0}
    <3>1. \E x \in {1, k} : \A y \in {1, k} : x >= y
      <4>1. CASE k <= 1
        BY <4>1
      <4>2. CASE ~ (k <= 1)
        BY <4>2
      <4> QED
        BY <4>1, <4>2
    <3>2. Max({1, k}) \in {1, k} /\ \A y \in {1, k} : Max({1, k}) >= y
      BY <3>1 DEF Max
    <3> QED
      BY <3>2
  <2> QED
    BY <2>1, <2>2
<1>5. CASE n <= w
  <2>1. LogArray(plan, blocks, contents) =
          [plan EXCEPT !.writes = Append(plan.writes, [at |-> s, vecs |-> vecs]), !.position = s + n]
    BY <1>2, <1>3, <1>4, <1>5 DEF LogArray, vecs
  <2>2. PICK writes \in Seq(LogWrite) : writes = Append(plan.writes, [at |-> s, vecs |-> vecs])
    <3>1. plan.writes \in Seq(LogWrite)
      BY DEF Plan
    <3>2. [at |-> s, vecs |-> vecs] \in LogWrite
      BY <1>1 DEF LogWrite
    <3>3. PICK write \in LogWrite : write = [at |-> s, vecs |-> vecs]
      BY <3>2
    <3>4. PICK old \in Seq(LogWrite) : old = plan.writes
      BY <3>1
    <3>5. Append(old, write) \in Seq(LogWrite)
      OBVIOUS
    <3> QED
      BY <3>3, <3>4, <3>5
  <2>3. PICK position \in Nat : position = s + n
    OBVIOUS
  <2>4. LogArray(plan, blocks, contents) = [plan EXCEPT !.writes = writes, !.position = position]
    BY <2>1, <2>2, <2>3
  <2> QED
    BY <2>4 DEF Plan
<1>6. CASE ~ (n <= w)
  <2> DEFINE first == [at |-> s, vecs |-> SubSeq(vecs, 1, w)]
             second == [at |-> 0, vecs |-> SubSeq(vecs, w + 1, n)]
  <2>1. LogArray(plan, blocks, contents) =
          [start |-> 0, position |-> n - w, writes |-> plan.writes \o <<first, second>>]
    BY <1>2, <1>3, <1>4, <1>6 DEF LogArray, vecs
  <2>2. SubSeq(vecs, 1, w) \in Seq(DiskBlock) /\ SubSeq(vecs, w + 1, n) \in Seq(DiskBlock)
    BY <1>1, <1>2, <1>6
  <2>3. first \in LogWrite /\ second \in LogWrite
    BY <2>2 DEF LogWrite
  <2> HIDE DEF first, second
  <2>4. plan.writes \o <<first, second>> \in Seq(LogWrite)
    BY <2>3 DEF Plan
  <2>5. n - w \in Nat
    BY <1>6
  <2> QED
    BY <2>1, <2>4, <2>5 DEF Plan
<1> QED
  BY <1>5, <1>6

FirstPlan == [start |-> super.end, position |-> super.end % LogSize, writes |-> <<>>]

\* LogPlan gives a plan, and for one array what LogArray makes of it.
LEMMA PlanIs ==
  ASSUME NEW arrays \in Seq(Seq(Block)), NEW contents \in Contents, super.end \in Nat
  PROVE  /\ FirstPlan \in Plan /\ LogPlan(arrays, contents) \in Plan
         /\ Len(arrays) = 1 => LogPlan(arrays, contents) = LogArray(FirstPlan, arrays[1], contents)
<1>1. PICK n \in Nat : n = Len(arrays)
  OBVIOUS
<1>2. FirstPlan \in Plan
  <2>1. super.end % LogSize \in Nat
    BY Sizes
  <2>2. <<>> \in Seq(LogWrite)
    OBVIOUS
  <2> QED
    BY <2>1, <2>2 DEF FirstPlan, Plan
<1> DEFINE H == [k \in 1 .. n |-> [v \in Plan |-> LogArray(v, arrays[k], contents)]]
<1>3. \A k \in 1 .. n : \A v \in Plan : H[k][v] = LogArray(v, arrays[k], contents) /\ H[k][v] \in Plan
  BY <1>1, LogArrayIs
<1> HIDE DEF H
<1>4. PICK f \in [0 .. n -> Plan] : f[0] = FirstPlan /\ \A k \in 1 .. n : f[k] = H[k][f[k - 1]]
  <2>1. PICK first \in Plan : first = FirstPlan
    BY <1>2
  <2>2. Stays(n, Plan, H)
    BY <1>3 DEF Stays
  <2>3. \E f : Stepwise(n, Plan, first, H, f)
    BY <2>2, StepwiseExists
  <2> QED
    BY <2>1, <2>3 DEF Stepwise
<1>5. f = [k \in 0 .. n |-> IF k = 0 THEN FirstPlan ELSE LogArray(f[k - 1], arrays[k], contents)]
  <2>1. ASSUME NEW k \in 0 .. n
        PROVE  f[k] = IF k = 0 THEN FirstPlan ELSE LogArray(f[k - 1], arrays[k], contents)
    <3>1. CASE k = 0
      BY <1>4, <3>1
    <3>2. CASE k # 0
      <4>1. k \in 1 .. n /\ f[k - 1] \in Plan
        BY <3>2
      <4>2. f[k] = H[k][f[k - 1]] /\ H[k][f[k - 1]] = LogArray(f[k - 1], arrays[k], contents)
        BY <1>3, <1>4, <4>1
      <4> QED
        BY <3>2, <4>2
    <3> QED
      BY <3>1, <3>2
  <2> DEFINE G == [k \in 0 .. n |-> IF k = 0 THEN FirstPlan ELSE LogArray(f[k - 1], arrays[k], contents)]
  <2>2. DOMAIN f = 0 .. n /\ DOMAIN G = 0 .. n /\ \A k \in 0 .. n : f[k] = G[k]
    BY <2>1
  <2>3. f = G
    BY <2>2
  <2> QED
    BY <2>3
<1> DEFINE plan == CHOOSE plan : plan = [k \in 0 .. n |-> IF k = 0 THEN FirstPlan
                                                           ELSE LogArray(plan[k - 1], arrays[k], contents)]
<1>6. LogPlan(arrays, contents) = plan[n]
  BY <1>1 DEF LogPlan, FirstPlan
<1>7. plan = [k \in 0 .. n |-> IF k = 0 THEN FirstPlan ELSE LogArray(plan[k - 1], arrays[k], contents)]
  BY <1>5
<1> HIDE DEF plan
<1> DEFINE P == {k \in Nat : k <= n => plan[k] \in Plan}
<1>8. Nat \subseteq P
  <2>1. 0 \in P
    BY <1>2, <1>7
  <2>2. ASSUME NEW k \in Nat, k \in P
        PROVE  k + 1 \in P
    <3> SUFFICES ASSUME k + 1 <= n PROVE plan[k + 1] \in Plan
      OBVIOUS
    <3>1. plan[k] \in Plan
      BY <2>2
    <3>2. plan[k + 1] = LogArray(plan[k], arrays[k + 1], contents)
      BY <1>7
    <3> QED
      BY <1>1, <3>1, <3>2, LogArrayIs
  <2> HIDE DEF P
  <2> QED
    BY <2>1, <2>2, NumberInduction
<1>9. plan[n] \in Plan
  <2>1. n \in P
    BY ONLY <1>8, n \in Nat
  <2> QED
    BY <2>1
<1>10. n = 1 => plan[n] = LogArray(FirstPlan, arrays[1], contents)
  BY <1>7
<1> QED
  BY <1>1, <1>2, <1>6, <1>9, <1>10

-----------------------------------------------------------------------------
(* Types.                                                                  *)

\* The types hold when a volume is mounted.
LEMMA InitTypes == Init => Types
<1> SUFFICES ASSUME Init PROVE Types
  OBVIOUS
<1> DEFINE home == [b \in Block |-> 0]
           area == [p \in 0 .. LogSize + NumBlocks - 1 |-> Data(0)]
<1>1. home \in Contents /\ home \in [Block -> 0 .. MaxEntries]
  BY LogAssumption, Sizes DEF Contents
<1>2. Data(0) \in DiskBlock
  BY LogAssumption DEF Data, DiskBlock
<1>3. area \in [Area -> DiskBlock]
  BY <1>2 DEF Area
<1>4. FirstStart \in Nat
  BY LogAssumption
<1>5. /\ disk = [area |-> area, super |-> [start |-> FirstStart, end |-> FirstStart, dirty |-> FALSE]]
      /\ super = disk.super
      /\ cache = [now |-> home, ended |-> home, parent |-> home, changed |-> {}, kept |-> {}, pending |-> home]
      /\ journal = [depth |-> 0, unwritten |-> FALSE, hasSub |-> FALSE, entries |-> <<>>, used |-> 0, written |-> 0]
      /\ io = NoIo
      /\ notify = NoNotify
      /\ ghost = [logged |-> home, before |-> home, whole |-> TRUE]
  BY DEF Init
<1> HIDE DEF home, area
<1>6. disk \in [area : [Area -> DiskBlock], super : SuperBlock] /\ super \in SuperBlock
  BY <1>3, <1>4, <1>5 DEF SuperBlock
<1>7. cache \in Cache
  BY <1>1, <1>5 DEF Cache
<1>8. journal \in JournalState
  BY <1>5, Sizes DEF JournalState
<1> QED
  BY <1>1, <1>5, <1>6, <1>7, <1>8 DEF Types

\* The caches that follow this one.
Same(c, d) == c \in Cache /\ c.ended = d.ended /\ c.pending = d.pending

\* A sub-transaction that begins leaves the blocks as they are.
LEMMA StartSubTypes ==
  ASSUME NEW c \in Cache
  PROVE  /\ Same(StartSub(c), c)
         /\ StartSub(c).now = c.now /\ StartSub(c).parent = c.now
         /\ StartSub(c).changed = c.changed /\ StartSub(c).kept = c.changed
<1> DEFINE P == [Block -> 0 .. MaxEntries]
<1>1. c \in [now : Contents, ended : Contents, parent : Contents,
             changed : SUBSET Block, kept : SUBSET Block, pending : P]
  BY DEF Cache
<1>2. StartSub(c) = [c EXCEPT !.parent = c.now, !.kept = c.changed]
  BY DEF StartSub
<1> HIDE DEF P
<1>3. StartSub(c) \in [now : Contents, ended : Contents, parent : Contents, changed : SUBSET Block,
                       kept : SUBSET Block, pending : P]
  BY <1>1, <1>2
<1>4. StartSub(c) \in Cache
  BY <1>3 DEF P, Cache
<1> QED
  BY <1>1, <1>2, <1>4 DEF Same

\* What a transaction that starts or is aborted leaves of the cache.
LEMMA CacheTypes ==
  ASSUME Types
  PROVE  /\ Same(StartTransaction, cache) /\ Same(AbortSub, cache) /\ Same(AbortTransaction, cache)
         /\ StartTransaction.now = cache.now /\ StartTransaction.parent = cache.now
         /\ StartTransaction.changed = {} /\ StartTransaction.kept = {}
         /\ AbortSub.now = cache.parent /\ AbortSub.parent = cache.parent
         /\ AbortSub.changed = cache.kept /\ AbortSub.kept = cache.kept
         /\ AbortTransaction.now = cache.ended /\ AbortTransaction.changed = {}
<1> DEFINE P == [Block -> 0 .. MaxEntries]
<1>1. cache \in [now : Contents, ended : Contents, parent : Contents, changed : SUBSET Block, kept : SUBSET Block,
                 pending : P]
  BY DEF Types, Cache
<1> DEFINE started == [cache EXCEPT !.changed = {}]
           subbed == [cache EXCEPT !.now = cache.parent, !.changed = cache.kept]
           aborted == [cache EXCEPT !.now = cache.ended, !.changed = {}]
<1> HIDE DEF P
<1>2. {started, subbed, aborted} \subseteq [now : Contents, ended : Contents, parent : Contents, changed : SUBSET Block,
                                            kept : SUBSET Block, pending : P]
  BY <1>1
<1>3. {started, subbed, aborted} \subseteq Cache
  BY <1>2 DEF P, Cache
<1>4. /\ started.now = cache.now /\ started.ended = cache.ended /\ started.pending = cache.pending
      /\ started.changed = {}
  BY <1>1
<1>5. /\ subbed.now = cache.parent /\ subbed.ended = cache.ended /\ subbed.pending = cache.pending
      /\ subbed.parent = cache.parent /\ subbed.changed = cache.kept /\ subbed.kept = cache.kept
  BY <1>1
<1>6. /\ aborted.now = cache.ended /\ aborted.ended = cache.ended /\ aborted.pending = cache.pending
      /\ aborted.changed = {}
  BY <1>1
<1>7. StartTransaction = StartSub(started) /\ AbortSub = subbed /\ AbortTransaction = aborted
  BY DEF StartTransaction, AbortSub, AbortTransaction
<1> HIDE DEF started, subbed, aborted
<1> QED
  BY <1>3, <1>4, <1>5, <1>6, <1>7, StartSubTypes DEF Same

\* What the end of a transaction leaves of the cache.
LEMMA EndTypes ==
  ASSUME Types, NEW n \in 0 .. MaxEntries
  PROVE  /\ EndTransaction(n) \in Cache
         /\ EndTransaction(n).now = cache.now /\ EndTransaction(n).ended = cache.now
         /\ EndTransaction(n).parent = cache.parent
         /\ EndTransaction(n).changed = {} /\ EndTransaction(n).kept = {}
         /\ \A b \in Block : EndTransaction(n).pending[b] = IF b \in cache.changed THEN n ELSE cache.pending[b]
<1> DEFINE q == [b \in Block |-> IF b \in cache.changed THEN n ELSE cache.pending[b]]
<1>1. q \in [Block -> 0 .. MaxEntries]
  BY DEF Types, Cache
<1>2. EndTransaction(n) = [cache EXCEPT !.ended = cache.now, !.changed = {}, !.kept = {}, !.pending = q]
  BY DEF EndTransaction
<1>3. \A b \in Block : q[b] = IF b \in cache.changed THEN n ELSE cache.pending[b]
  OBVIOUS
<1> HIDE DEF q
<1> QED
  BY <1>1, <1>2, <1>3 DEF Types, Cache

-----------------------------------------------------------------------------
(* Transactions.                                                           *)

\* Nothing of what is logged, of the log or of the disk.
Quiet ==
  /\ UNCHANGED <<disk, super, notify>>
  /\ cache'.ended = cache.ended /\ cache'.pending = cache.pending
  /\ journal'.entries = journal.entries /\ journal'.used = journal.used
  /\ ghost'.logged = ghost.logged

Resting == ~ Logging

\* The phases of the input and output.
LEMMA PhaseFacts ==
  ASSUME Types
  PROVE  /\ io.phase \in {"none", "flush", "log", "super", "add", "end"}
         /\ ~ Resting => io \in Io
  BY DEF Types, NoIo, Io, Resting, Logging

\* Locking keeps the types.
LEMMA LockSteps ==
  ASSUME Undoable, Types, Changes, Lock
  PROVE  Types' /\ Changes' /\ Quiet /\ Resting /\ Resting' /\ UNCHANGED <<journal.written, ghost.whole>>
<1>1. /\ Free /\ journal.depth < MaxNesting
      /\ journal' = [journal EXCEPT !.depth = journal.depth + 1,
                       !.hasSub = IF journal.depth = 0 THEN journal.hasSub \/ journal.unwritten ELSE journal.hasSub]
      /\ cache' = IF journal.depth > 0 THEN cache ELSE IF journal.unwritten THEN StartSub(cache) ELSE StartTransaction
      /\ UNCHANGED <<disk, super, io, notify, ghost>>
  BY DEF Lock
<1>2. journal.depth \in Nat /\ journal \in JournalState /\ cache \in Cache /\ Resting /\ io.phase = "none"
  BY <1>1 DEF Types, JournalState, Free, Resting, Logging
<1>3. PICK has \in BOOLEAN :
        has = IF journal.depth = 0 THEN journal.hasSub \/ journal.unwritten ELSE journal.hasSub
  BY <1>2 DEF JournalState
<1>4. journal' = [journal EXCEPT !.depth = journal.depth + 1, !.hasSub = has]
  BY <1>1, <1>3
<1>5. /\ journal' \in JournalState /\ journal'.depth = journal.depth + 1
      /\ journal'.entries = journal.entries /\ journal'.used = journal.used /\ journal'.written = journal.written
  <2>1. journal.depth + 1 \in 0 .. MaxNesting
    BY <1>1, <1>2, Sizes
  <2> QED
    BY <1>2, <1>4, <2>1 DEF JournalState
<1>6. /\ Same(cache', cache)
      /\ \A b \in Block \ cache'.changed : cache'.now[b] = cache.ended[b]
      /\ \A b \in Block \ cache'.kept : cache'.parent[b] = cache.ended[b]
  <2>1. CASE journal.depth > 0
    BY <1>1, <1>2, <2>1 DEF Changes, Same, Logging
  <2>2. CASE journal.depth = 0 /\ journal.unwritten
    <3>1. cache' = StartSub(cache)
      BY <1>1, <2>2
    <3> QED
      BY <1>2, <3>1, StartSubTypes DEF Changes, Logging
  <2>3. CASE journal.depth = 0 /\ ~ journal.unwritten
    <3>1. cache' = StartTransaction
      BY <1>1, <2>3
    <3>2. cache.now = cache.ended
      BY <1>2, <2>3 DEF Undoable, Outside, Logging
    <3> QED
      BY <3>1, <3>2, CacheTypes
  <2> QED
    BY <1>2, <2>1, <2>2, <2>3
<1>7. Types'
  BY <1>1, <1>5, <1>6 DEF Types, Same
<1>8. Changes'
  BY <1>1, <1>2, <1>6 DEF Changes, Same, Logging
<1> QED
  BY <1>1, <1>2, <1>5, <1>6, <1>7, <1>8 DEF Quiet, Same, Resting, Logging

\* Writing a block of a transaction keeps the types.
LEMMA WriteSteps ==
  ASSUME Types, Changes, NEW b \in Block, NEW c \in Content, Write(b, c)
  PROVE  Types' /\ Changes' /\ Quiet /\ Resting /\ Resting' /\ UNCHANGED <<journal.written, ghost.whole>>
<1>1. /\ Free
      /\ cache' = [cache EXCEPT !.now = [cache.now EXCEPT ![b] = c], !.changed = cache.changed \cup {b}]
      /\ UNCHANGED <<disk, super, journal, io, notify, ghost>>
  BY DEF Write
<1>2. cache \in Cache /\ cache.now \in Contents /\ io.phase = "none"
  BY <1>1 DEF Types, Cache, Free
<1>3. PICK now \in Contents : now = [cache.now EXCEPT ![b] = c]
  BY <1>2 DEF Contents
<1>4. cache' = [cache EXCEPT !.now = now, !.changed = cache.changed \cup {b}]
  BY <1>1, <1>3
<1>5. /\ cache' \in Cache /\ cache'.ended = cache.ended /\ cache'.pending = cache.pending
      /\ cache'.now = now /\ cache'.changed = cache.changed \cup {b}
      /\ cache'.parent = cache.parent /\ cache'.kept = cache.kept
  BY <1>2, <1>4 DEF Cache
<1>6. \A o \in Block \ cache'.changed : now[o] = cache.ended[o]
  BY <1>2, <1>3, <1>5 DEF Changes, Contents
<1>7. Types'
  BY <1>1, <1>5 DEF Types
<1>8. Changes'
  BY <1>1, <1>2, <1>5, <1>6 DEF Changes, Logging
<1> QED
  BY <1>1, <1>2, <1>5, <1>7, <1>8 DEF Quiet, Resting, Logging

\* The end of an inner transaction keeps the types.
LEMMA UnlockInnerSteps ==
  ASSUME Types, Changes, UnlockInner
  PROVE  Types' /\ Changes' /\ Quiet /\ Resting /\ Resting' /\ UNCHANGED <<journal.written, ghost.whole>>
<1>1. /\ Free /\ journal.depth > 1
      /\ journal' = [journal EXCEPT !.depth = journal.depth - 1]
      /\ UNCHANGED <<disk, super, cache, io, notify, ghost>>
  BY DEF UnlockInner
<1>2. journal.depth \in 0 .. MaxNesting /\ journal \in JournalState /\ io.phase = "none" /\ MaxNesting \in Nat
  BY <1>1, Sizes DEF Types, JournalState, Free
<1>3. /\ journal' \in JournalState /\ journal'.depth = journal.depth - 1
      /\ journal'.entries = journal.entries /\ journal'.used = journal.used /\ journal'.written = journal.written
  BY <1>1, <1>2 DEF JournalState
<1>4. Types'
  BY <1>1, <1>3 DEF Types
<1>5. Changes'
  BY <1>1, <1>2, <1>3 DEF Changes, Logging
<1> QED
  BY <1>1, <1>2, <1>3, <1>4, <1>5 DEF Quiet, Resting, Logging

\* A transaction that fails keeps the types.
LEMMA UnlockFailedSteps ==
  ASSUME Types, Changes, UnlockFailed
  PROVE  Types' /\ Changes' /\ Quiet /\ Resting /\ Resting' /\ UNCHANGED <<journal.written, ghost.whole>>
<1>1. /\ Free /\ journal.depth = 1
      /\ journal' = [journal EXCEPT !.depth = 0]
      /\ cache' = StartSub(Aborted)
      /\ UNCHANGED <<disk, super, io, notify, ghost>>
  BY DEF UnlockFailed
<1>2. journal \in JournalState /\ cache \in Cache /\ io.phase = "none"
  BY <1>1 DEF Types, Free
<1>3. /\ journal' \in JournalState /\ journal'.depth = 0
      /\ journal'.entries = journal.entries /\ journal'.used = journal.used /\ journal'.written = journal.written
  BY <1>2, <1>1, Sizes DEF JournalState
<1>4. /\ Same(Aborted, cache)
      /\ \A b \in Block \ Aborted.changed : Aborted.now[b] = cache.ended[b]
  <2>1. CASE journal.hasSub
    BY <1>1, <2>1, CacheTypes DEF Aborted, Changes
  <2>2. CASE ~ journal.hasSub
    BY <1>1, <2>2, CacheTypes DEF Aborted, Changes
  <2> QED
    BY <2>1, <2>2
<1>5. Same(cache', cache) /\ cache'.now = Aborted.now /\ cache'.changed = Aborted.changed
  BY <1>1, <1>4, StartSubTypes DEF Same
<1>6. Types'
  BY <1>1, <1>3, <1>5 DEF Types, Same
<1>7. Changes'
  BY <1>1, <1>2, <1>3, <1>4, <1>5 DEF Changes, Same, Logging
<1> QED
  BY <1>1, <1>2, <1>3, <1>5, <1>6, <1>7 DEF Quiet, Same, Resting, Logging

\* A transaction that is left to the batch keeps the types.
LEMMA UnlockBatchedSteps ==
  ASSUME Types, Changes, UnlockBatched
  PROVE  Types' /\ Changes' /\ Quiet /\ Resting /\ Resting' /\ UNCHANGED <<journal.written, ghost.whole>>
<1>1. /\ Free
      /\ journal' = [journal EXCEPT !.depth = 0, !.unwritten = TRUE]
      /\ cache' = StartSub(cache)
      /\ ghost' = [ghost EXCEPT !.before = cache.now]
      /\ UNCHANGED <<disk, super, io, notify>>
  BY DEF UnlockBatched
<1>2. journal \in JournalState /\ cache \in Cache /\ io.phase = "none" /\ cache.now \in Contents
  BY <1>1 DEF Types, Free, Cache
<1>3. /\ journal' \in JournalState /\ journal'.depth = 0
      /\ journal'.entries = journal.entries /\ journal'.used = journal.used /\ journal'.written = journal.written
  <2>1. 0 \in 0 .. MaxNesting
    BY Sizes
  <2>2. PICK true \in BOOLEAN : true = TRUE
    OBVIOUS
  <2>3. journal' = [journal EXCEPT !.depth = 0, !.unwritten = true]
    BY <1>1, <2>2
  <2> QED
    BY <1>2, <2>1, <2>3 DEF JournalState
<1>4. Same(cache', cache) /\ cache'.now = cache.now /\ cache'.changed = cache.changed
  BY <1>1, <1>2, StartSubTypes
<1>5. /\ ghost' \in [logged : Contents, before : Contents, whole : BOOLEAN]
      /\ ghost'.logged = ghost.logged /\ ghost'.whole = ghost.whole
  BY <1>1, <1>2 DEF Types
<1>6. Types'
  BY <1>1, <1>3, <1>4, <1>5 DEF Types, Same
<1>7. Changes'
  BY <1>1, <1>2, <1>3, <1>4, <1>5 DEF Changes, Same, Logging
<1> QED
  BY <1>1, <1>2, <1>3, <1>4, <1>5, <1>6, <1>7 DEF Quiet, Same, Resting, Logging

\* A flush that begins or ends keeps the types.
LEMMA FlushSteps ==
  ASSUME Types, Changes, UNCHANGED <<disk, super, cache, journal, notify, ghost>>, Resting,
         io' = NoIo \/ io' = [phase |-> "flush"]
  PROVE  Types' /\ Changes' /\ Quiet /\ Resting' /\ UNCHANGED <<journal.written, ghost.whole>>
<1>1. Resting'
  BY DEF NoIo, Resting, Logging
<1>2. Types'
  BY DEF Types
<1>3. Changes'
  BY <1>1 DEF Changes, Resting, Logging
<1> QED
  BY <1>1, <1>2, <1>3 DEF Quiet, Resting, Logging

-----------------------------------------------------------------------------
(* The beginning of an entry.                                              *)

\* The blocks of an entry, as they are written one after the other.
LEMMA NewBlocksAre ==
  ASSUME Types, NEW vecs,
         vecs = <<RunArray(NewRuns)>> \o [i \in 1 .. Len(NewRuns) |-> Data(cache.now[NewRuns[i]])]
  PROVE  /\ vecs \in Seq(DiskBlock) /\ Len(vecs) = Len(NewRuns) + 1
         /\ \A t \in 1 .. Len(vecs) : vecs[t] = EntryBlock(cache.changed, cache.now, t - 1)
<1>1. NewRuns \in Seq(Block) /\ cache.now \in Contents
  BY RunsOfSet DEF Types, Cache, NewRuns
<1>2. /\ vecs \in Seq(DiskBlock) /\ Len(vecs) = Len(NewRuns) + 1
      /\ vecs[1] = RunArray(NewRuns)
      /\ \A i \in 1 .. Len(NewRuns) : vecs[i + 1] = Data(cache.now[NewRuns[i]])
  BY <1>1, VecsAre
<1>3. ASSUME NEW t \in 1 .. Len(vecs)
      PROVE  vecs[t] = EntryBlock(cache.changed, cache.now, t - 1)
  <2>1. CASE t = 1
    BY <1>2, <2>1 DEF EntryBlock, NewRuns
  <2>2. CASE t # 1
    <3>1. PICK i \in 1 .. Len(NewRuns) : i = t - 1
      BY <1>1, <1>2, <2>2
    <3>2. vecs[i + 1] = Data(cache.now[NewRuns[i]]) /\ t = i + 1 /\ i # 0
      BY <1>1, <1>2, <3>1
    <3> QED
      BY <3>1, <3>2 DEF EntryBlock, NewRuns
  <2> QED
    BY <2>1, <2>2
<1> QED
  BY <1>2, <1>3

\* The writes put every block of the entry behind the end of the log, round the end
\* of the ring if need be.
Places(writes, length) ==
  /\ \A i \in 1 .. Len(writes) : \A t \in 1 .. Len(writes[i].vecs) :
       LET p == writes[i].at + t - 1
       IN  /\ p \in Ring /\ Ahead(super.end, p) < length
           /\ writes[i].vecs[t] = EntryBlock(cache.changed, cache.now, Ahead(super.end, p))
  /\ \A p \in Ring : Ahead(super.end, p) < length =>
       \E i \in 1 .. Len(writes) : p - writes[i].at \in 0 .. Len(writes[i].vecs) - 1

\* The writes of an entry with one array cover the entry and nothing else.
LEMMA PlanPlaces ==
  ASSUME Types, disk.super.start \in Ring, disk.super.end \in Ring, super.end = disk.super.end,
         NEW plan, NEW length \in Nat,
         plan = LogArray(FirstPlan, NewRuns, cache.now), length = Len(NewRuns) + 1,
         length < FreeLogBlocks(disk.super), plan.position # LogSize
  PROVE  /\ From(super.end) + length < LogSize
         /\ plan.position = Wrap(super.end + length)
         /\ Places(plan.writes, length)
<1>1. PICK l \in Nat \ {0} : l = LogSize
  BY Sizes
<1>2. PICK s \in Nat : s = super.end /\ s < l
  BY <1>1 DEF Ring
<1>3. From(super.end) + length < l
  BY <1>1 DEF Ring, From, Ahead, FreeLogBlocks
<1>4. length < l
  <2>1. From(super.end) \in Nat
    BY <1>1 DEF Ring, From, Ahead
  <2> QED
    BY <1>3, <2>1
<1>5. PICK vecs : vecs = <<RunArray(NewRuns)>> \o [i \in 1 .. Len(NewRuns) |-> Data(cache.now[NewRuns[i]])]
  OBVIOUS
<1>6. /\ vecs \in Seq(DiskBlock) /\ Len(vecs) = length
      /\ \A t \in 1 .. length : vecs[t] = EntryBlock(cache.changed, cache.now, t - 1)
  BY <1>5, NewBlocksAre
<1>7. PICK w \in Nat \ {0} : w = l - s /\ w = Max({1, l - s})
  <2>1. PICK k \in Nat \ {0} : k = l - s
    BY <1>2
  <2>2. \E x \in {1, k} : \A y \in {1, k} : x >= y
    BY <2>1
  <2>3. Max({1, k}) \in {1, k} /\ \A y \in {1, k} : Max({1, k}) >= y
    BY <2>2 DEF Max
  <2>4. Max({1, k}) = k
    BY <2>3
  <2> QED
    BY <2>1, <2>4
<1>8. FirstPlan.start = s /\ FirstPlan.writes = <<>> /\ FirstPlan = [start |-> s, position |-> s % l, writes |-> <<>>]
  BY <1>1, <1>2 DEF FirstPlan
<1>9. ASSUME NEW p \in Ring
      PROVE  p \in Nat /\ p < l /\ Ahead(s, p) = IF s <= p THEN p - s ELSE p + l - s
  BY <1>1, <1>2, <1>9 DEF Ring, Ahead
<1>10. CASE length <= w
  <2> DEFINE write == [at |-> s, vecs |-> vecs]
  <2>1. plan = [FirstPlan EXCEPT !.writes = Append(<<>>, write), !.position = s + length]
    BY <1>1, <1>5, <1>6, <1>7, <1>8, <1>10 DEF LogArray
  <2> HIDE DEF write
  <2>2. plan.writes = <<write>> /\ plan.position = s + length
    <3>1. Append(<<>>, write) = <<write>>
      OBVIOUS
    <3>2. PICK one : one = <<write>>
      OBVIOUS
    <3>3. plan = [[start |-> s, position |-> s % l, writes |-> <<>>] EXCEPT !.writes = one, !.position = s + length]
      BY <1>8, <2>1, <3>1, <3>2
    <3> QED
      BY <3>2, <3>3
  <2>3. s + length < l
    BY <1>1, <1>7, <1>10, <2>2
  <2>4. plan.position = Wrap(s + length)
    BY <1>1, <2>2, <2>3 DEF Wrap
  <2>5. ASSUME NEW i \in 1 .. Len(plan.writes), NEW t \in 1 .. Len(plan.writes[i].vecs)
        PROVE  LET p == plan.writes[i].at + t - 1
               IN  /\ p \in Ring /\ Ahead(s, p) < length
                   /\ plan.writes[i].vecs[t] = EntryBlock(cache.changed, cache.now, Ahead(s, p))
    <3>1. plan.writes[i] = write
      BY <2>2
    <3>2. /\ t \in 1 .. length /\ plan.writes[i].at + t - 1 = s + t - 1
          /\ plan.writes[i].vecs[t] = EntryBlock(cache.changed, cache.now, t - 1)
      BY <1>6, <2>5, <3>1 DEF write
    <3>3. PICK p \in Ring : p = s + t - 1
      BY <1>1, <2>3, <3>2 DEF Ring
    <3>4. Ahead(s, p) = t - 1
      BY <1>9, <3>2, <3>3
    <3> QED
      BY <3>2, <3>3, <3>4
  <2>6. ASSUME NEW p \in Ring, Ahead(s, p) < length
        PROVE  \E i \in 1 .. Len(plan.writes) : p - plan.writes[i].at \in 0 .. Len(plan.writes[i].vecs) - 1
    <3>1. p - s \in 0 .. length - 1
      BY <1>7, <1>9, <1>10, <2>6
    <3>2. 1 \in 1 .. Len(plan.writes) /\ plan.writes[1].at = s /\ Len(plan.writes[1].vecs) = length
      BY <1>6, <2>2 DEF write
    <3> QED
      BY <3>1, <3>2
  <2> QED
    BY <1>1, <1>2, <1>3, <2>4, <2>5, <2>6 DEF Places
<1>11. CASE ~ (length <= w)
  <2> DEFINE first == [at |-> s, vecs |-> SubSeq(vecs, 1, w)]
             second == [at |-> 0, vecs |-> SubSeq(vecs, w + 1, length)]
  <2>1. plan = [start |-> 0, position |-> length - w, writes |-> <<>> \o <<first, second>>]
    BY <1>1, <1>5, <1>6, <1>7, <1>8, <1>11 DEF LogArray
  <2> HIDE DEF first, second
  <2>2. plan.writes = <<first, second>> /\ plan.position = length - w
    <3>1. <<>> \o <<first, second>> = <<first, second>>
      OBVIOUS
    <3> QED
      BY <2>1, <3>1
  <2>3. plan.position = Wrap(s + length)
    <3>1. s + length >= l /\ length - w = s + length - l
      BY <1>7, <1>11
    <3> QED
      BY <1>1, <2>2, <3>1 DEF Wrap
  <2> USE DEF first, second
  <2>4. /\ Len(first.vecs) = w /\ \A t \in 1 .. w : first.vecs[t] = EntryBlock(cache.changed, cache.now, t - 1)
        /\ Len(second.vecs) = length - w
        /\ \A t \in 1 .. length - w : second.vecs[t] = EntryBlock(cache.changed, cache.now, w + t - 1)
    <3>1. \A t \in 1 .. length : vecs[t] \in DiskBlock
      BY <1>6
    <3>2. Len(SubSeq(vecs, 1, w)) = w /\ \A t \in 1 .. w : SubSeq(vecs, 1, w)[t] = vecs[t]
      <4>1. \A t \in 1 .. w : vecs[t] \in DiskBlock
        BY <1>11, <3>1
      <4> QED
        BY <4>1, SubSeqProperties
    <3>3. /\ Len(SubSeq(vecs, w + 1, length)) = length - w
          /\ \A t \in 1 .. length - w : SubSeq(vecs, w + 1, length)[t] = vecs[w + t]
      <4>1. \A t \in w + 1 .. length : vecs[t] \in DiskBlock
        BY <3>1
      <4>2. /\ Len(SubSeq(vecs, w + 1, length)) = length - (w + 1) + 1
            /\ \A t \in 1 .. length - (w + 1) + 1 : SubSeq(vecs, w + 1, length)[t] = vecs[w + 1 + t - 1]
        BY <1>11, <4>1, SubSeqProperties
      <4> QED
        BY <4>2
    <3> QED
      BY <1>6, <1>11, <3>2, <3>3
  <2>5. ASSUME NEW i \in 1 .. Len(plan.writes), NEW t \in 1 .. Len(plan.writes[i].vecs)
        PROVE  LET p == plan.writes[i].at + t - 1
               IN  /\ p \in Ring /\ Ahead(s, p) < length
                   /\ plan.writes[i].vecs[t] = EntryBlock(cache.changed, cache.now, Ahead(s, p))
    <3>1. CASE i = 1
      <4>1. /\ t \in 1 .. w /\ plan.writes[i].at + t - 1 = s + t - 1
            /\ plan.writes[i].vecs[t] = EntryBlock(cache.changed, cache.now, t - 1)
        BY <2>2, <2>4, <2>5, <3>1
      <4>2. PICK p \in Ring : p = s + t - 1
        BY <1>1, <1>7, <4>1 DEF Ring
      <4>3. Ahead(s, p) = t - 1 /\ t - 1 < length
        BY <1>9, <1>11, <4>1, <4>2
      <4> QED
        BY <4>1, <4>2, <4>3
    <3>2. CASE i = 2
      <4>1. /\ t \in 1 .. length - w /\ plan.writes[i].at + t - 1 = t - 1
            /\ plan.writes[i].vecs[t] = EntryBlock(cache.changed, cache.now, w + t - 1)
        BY <2>2, <2>4, <2>5, <3>2
      <4>2. PICK p \in Ring : p = t - 1 /\ p < s
        <5>1. t \in Nat /\ 1 <= t /\ t <= length - w
          BY <4>1
        <5>2. t - 1 < s
          BY ONLY <1>2, <1>4, <1>7, <5>1
        <5> QED
          BY <1>1, <1>2, <5>1, <5>2 DEF Ring
      <4>3. Ahead(s, p) = w + t - 1 /\ w + t - 1 < length
        BY <1>7, <1>9, <1>11, <4>1, <4>2
      <4> QED
        BY <4>1, <4>2, <4>3
    <3> QED
      BY <2>2, <2>5, <3>1, <3>2
  <2>6. ASSUME NEW p \in Ring, Ahead(s, p) < length
        PROVE  \E i \in 1 .. Len(plan.writes) : p - plan.writes[i].at \in 0 .. Len(plan.writes[i].vecs) - 1
    <3>1. /\ 1 \in 1 .. Len(plan.writes) /\ plan.writes[1].at = s /\ Len(plan.writes[1].vecs) = w
          /\ 2 \in 1 .. Len(plan.writes) /\ plan.writes[2].at = 0 /\ Len(plan.writes[2].vecs) = length - w
      BY <2>2, <2>4
    <3>2. CASE s <= p
      <4>1. p - s \in 0 .. w - 1
        BY <1>7, <1>9, <3>2
      <4> QED
        BY <3>1, <4>1
    <3>3. CASE ~ (s <= p)
      <4>1. p - 0 \in 0 .. length - w - 1
        BY <1>7, <1>9, <2>6, <3>3
      <4> QED
        BY <3>1, <4>1
    <3> QED
      BY <3>2, <3>3
  <2> QED
    BY <1>1, <1>2, <1>3, <2>3, <2>5, <2>6 DEF Places
<1> QED
  BY <1>10, <1>11

\* The beginning of an entry keeps the types and, with a whole log, what is to be written.
LEMMA LogBeginsSteps ==
  ASSUME Types, Changes, Resting, cache.changed # {}, NEW flush \in BOOLEAN, LogBegins(flush),
         ghost.whole => disk.super.start \in Ring /\ disk.super.end \in Ring /\ super.end = disk.super.end
  PROVE  /\ Types' /\ Changes' /\ Quiet
         /\ io'.phase = "log" /\ io'.begin = super.end /\ journal'.written = journal.written + 1
         /\ ghost'.whole => ghost.whole /\ Writing'
<1>1. PICK arrays \in Seq(Seq(Block)) : arrays = RunArrays(cache.changed)
  BY ArraysAre DEF Types, Cache
<1>2. PICK now \in Contents : now = cache.now
  BY DEF Types, Cache
<1>3. PICK plan \in Plan : plan = LogPlan(arrays, now)
  BY <1>1, PlanIs DEF Types, SuperBlock
<1>4. PICK length \in Nat : length = Cardinality(cache.changed) + Len(arrays)
  <2>1. Cardinality(cache.changed) \in Nat
    BY BlocksAreFinite DEF Types, Cache
  <2> QED
    BY <1>1, <2>1
<1>5. /\ journal.written < MaxEntries
      /\ journal' = [journal EXCEPT !.depth = 0, !.unwritten = FALSE, !.hasSub = FALSE,
                                    !.written = journal.written + 1]
      /\ io' = [phase |-> "log", writes |-> plan.writes, start |-> plan.start,
                position |-> plan.position, begin |-> super.end, length |-> length, flush |-> flush]
      /\ ghost' = [ghost EXCEPT !.whole =
                     ghost.whole /\ Len(arrays) = 1 /\ plan.position # LogSize /\ length < FreeLogBlocks(disk.super),
                                !.before = now]
      /\ cache' = StartSub(cache)
      /\ UNCHANGED <<disk, super, notify>>
  BY <1>1, <1>2, <1>3, <1>4 DEF LogBegins
<1>6. /\ journal' \in JournalState /\ journal'.depth = 0 /\ journal'.written = journal.written + 1
      /\ journal'.entries = journal.entries /\ journal'.used = journal.used
  <2>1. journal \in JournalState /\ journal.written \in 0 .. MaxEntries /\ MaxEntries \in Nat
    BY Sizes DEF Types, JournalState
  <2>2. 0 \in 0 .. MaxNesting /\ journal.written + 1 \in 0 .. MaxEntries
    BY <1>5, <2>1, Sizes
  <2>3. PICK no \in BOOLEAN : no = FALSE
    OBVIOUS
  <2>4. PICK n \in 0 .. MaxEntries : n = journal.written + 1
    BY <2>2
  <2>5. journal' = [journal EXCEPT !.depth = 0, !.unwritten = no, !.hasSub = no, !.written = n]
    BY <1>5, <2>3, <2>4
  <2> QED
    BY <2>1, <2>2, <2>4, <2>5 DEF JournalState
<1>7. Same(cache', cache) /\ cache'.now = cache.now /\ cache'.changed = cache.changed
  BY <1>5, StartSubTypes DEF Types
<1>8. /\ ghost' \in [logged : Contents, before : Contents, whole : BOOLEAN]
      /\ ghost'.logged = ghost.logged
      /\ ghost'.whole => /\ ghost.whole /\ Len(arrays) = 1
                         /\ plan.position # LogSize /\ length < FreeLogBlocks(disk.super)
  <2>1. PICK whole \in BOOLEAN :
          whole = (ghost.whole /\ Len(arrays) = 1 /\ plan.position # LogSize /\ length < FreeLogBlocks(disk.super))
    OBVIOUS
  <2>2. ghost' = [ghost EXCEPT !.whole = whole, !.before = now]
    BY <1>5, <2>1
  <2> QED
    BY <2>1, <2>2 DEF Types
<1>9. io' \in Io /\ io'.phase = "log" /\ io'.begin = super.end
  <2>1. super.end \in Nat
    BY DEF Types, SuperBlock
  <2> QED
    BY <1>5, <2>1 DEF Io, Plan
<1>10. Types'
  BY <1>5, <1>6, <1>7, <1>8, <1>9 DEF Types, Same
<1>11. Changes'
  <2>1. journal.written \in Nat
    BY DEF Types, JournalState
  <2>2. \A b \in Block \ cache'.changed : cache'.now[b] = cache'.ended[b]
    BY <1>7 DEF Changes, Same
  <2>3. cache'.changed # {} /\ journal'.written > 0 /\ ~ (journal'.depth > 0)
    BY <1>6, <1>7, <2>1
  <2> QED
    BY <1>9, <2>2, <2>3 DEF Changes
<1>12. ASSUME ghost'.whole
       PROVE  Writing'
  <2>1. /\ ghost.whole /\ Len(arrays) = 1 /\ plan.position # LogSize /\ length < FreeLogBlocks(disk.super)
        /\ disk.super.start \in Ring /\ disk.super.end \in Ring /\ super.end = disk.super.end
    BY <1>8, <1>12
  <2>2. cache.changed \subseteq Block /\ super.end \in Nat
    BY DEF Types, Cache, SuperBlock
  <2>3. arrays[1] = NewRuns /\ length = Len(NewRuns) + 1
    BY <1>1, <1>4, <2>1, <2>2, ArraysAre, RunsOfSet DEF NewRuns
  <2>4. plan = LogArray(FirstPlan, NewRuns, cache.now)
    BY <1>2, <1>3, <2>1, <2>2, <2>3, PlanIs
  <2>5. From(super.end) + length < LogSize /\ plan.position = Wrap(super.end + length) /\ Places(plan.writes, length)
    BY <2>1, <2>3, <2>4, PlanPlaces
  <2>6. PICK writes \in Seq(LogWrite) : writes = plan.writes
    BY DEF Plan
  <2>7. io'.writes = writes /\ io'.length = length /\ io'.position = plan.position
    BY <1>5, <2>6
  <2>8. NewRuns' = NewRuns
    BY <1>7 DEF NewRuns
  <2>9. ASSUME NEW i \in 1 .. Len(writes), NEW t \in 1 .. Len(writes[i].vecs)
        PROVE  LET p == writes[i].at + t - 1
               IN  /\ p \in Ring /\ Ahead(super.end, p) < length
                   /\ writes[i].vecs[t] = EntryBlock(cache.changed, cache.now, Ahead(super.end, p))
    BY <2>5, <2>6, <2>8 DEF Places
  <2>10. ASSUME NEW p \in Ring, Ahead(super.end, p) < length
         PROVE  \E i \in 1 .. Len(writes) : p - writes[i].at \in 0 .. Len(writes[i].vecs) - 1
    BY <2>5, <2>6, <2>10 DEF Places
  <2>11. /\ cache'.changed = cache.changed /\ cache'.now = cache.now
         /\ io'.begin = super.end /\ disk' = disk /\ io'.phase = "log"
    BY <1>5, <1>7, <1>9
  <2>12. /\ io'.length = Len(NewRuns') + 1
         /\ From(io.begin)' + io'.length < LogSize
         /\ io'.position = Wrap(io'.begin + io'.length)
    BY <2>3, <2>5, <2>7, <2>8, <2>11 DEF From
  <2>13. \A i \in 1 .. Len(io'.writes) : \A t \in 1 .. Len(io'.writes[i].vecs) :
           LET p == io'.writes[i].at + t - 1
           IN  /\ p \in Ring /\ Ahead(io'.begin, p) < io'.length
               /\ io'.writes[i].vecs[t] = EntryBlock(cache'.changed, cache'.now, Ahead(io'.begin, p))
    BY <2>7, <2>9, <2>11
  <2>14. \A p \in Ring : Ahead(io'.begin, p) < io'.length =>
           \E i \in 1 .. Len(io'.writes) : p - io'.writes[i].at \in 0 .. Len(io'.writes[i].vecs) - 1
    BY <2>7, <2>10, <2>11
  <2> QED
    BY <2>11, <2>12, <2>13, <2>14 DEF Writing, Ring
<1> QED
  BY <1>5, <1>6, <1>7, <1>8, <1>9, <1>10, <1>11, <1>12 DEF Quiet, Same

-----------------------------------------------------------------------------
(* The writes to the log.                                                  *)

\* What a write leaves of the area.
LEMMA WrittenIs ==
  ASSUME NEW area \in [Area -> DiskBlock], NEW write \in LogWrite
  PROVE  /\ Written(area, write) \in [Area -> DiskBlock]
         /\ \A p \in Area : Written(area, write)[p] =
              IF p - write.at \in 0 .. Len(write.vecs) - 1 THEN write.vecs[p - write.at + 1] ELSE area[p]
<1>1. write.at \in Nat /\ write.vecs \in Seq(DiskBlock)
  BY DEF LogWrite
<1>2. ASSUME NEW p \in Area, p - write.at \in 0 .. Len(write.vecs) - 1
      PROVE  write.vecs[p - write.at + 1] \in DiskBlock
  <2>1. p \in Nat
    BY Sizes DEF Area
  <2>2. PICK t \in 1 .. Len(write.vecs) : t = p - write.at + 1
    BY <1>1, <1>2, <2>1
  <2> QED
    BY <1>1, <2>2
<1> QED
  BY <1>2 DEF Written

\* A write to the log keeps the types and what is to be written.
LEMMA WriteLogSteps ==
  ASSUME Types, Changes, WriteLog
  PROVE  /\ Types' /\ Changes'
         /\ UNCHANGED <<disk.super, super, cache, journal, notify>> /\ ghost'.logged = ghost.logged
         /\ io.phase = "log" /\ io'.phase = "log" /\ io.writes # <<>> /\ io.writes \in Seq(LogWrite)
         /\ io'.writes = Tail(io.writes) /\ io'.length = io.length /\ io'.position = io.position /\ io'.begin = io.begin
         /\ ghost'.whole => ghost.whole /\ disk'.area = Written(disk.area, io.writes[1])
<1>1. /\ io.phase = "log" /\ io.writes # <<>>
      /\ io' = [io EXCEPT !.writes = Tail(io.writes)]
      /\ UNCHANGED <<super, cache, journal, notify>>
  BY DEF WriteLog
<1>2. PICK done \in BOOLEAN :
        /\ disk' = IF done THEN [disk EXCEPT !.area = Written(disk.area, io.writes[1])] ELSE disk
        /\ ghost' = [ghost EXCEPT !.whole = ghost.whole /\ done]
  BY LogAssumption DEF WriteLog
<1>3. io \in Io /\ io.writes \in Seq(LogWrite)
  BY <1>1, PhaseFacts DEF Resting, Logging, Io
<1>4. Tail(io.writes) \in Seq(LogWrite) /\ io.writes[1] \in LogWrite
  BY <1>1, <1>3
<1>5. /\ io' \in Io /\ io'.phase = "log" /\ io'.writes = Tail(io.writes)
      /\ io'.length = io.length /\ io'.position = io.position /\ io'.begin = io.begin
  BY <1>1, <1>3, <1>4 DEF Io
<1>6. disk' \in [area : [Area -> DiskBlock], super : SuperBlock] /\ disk'.super = disk.super
  <2>1. PICK area \in [Area -> DiskBlock] : area = Written(disk.area, io.writes[1])
    BY <1>4, WrittenIs DEF Types
  <2>2. disk' = [disk EXCEPT !.area = area] \/ disk' = disk
    BY <1>2, <2>1
  <2> QED
    BY <2>2 DEF Types
<1>7. /\ ghost' \in [logged : Contents, before : Contents, whole : BOOLEAN]
      /\ ghost'.logged = ghost.logged /\ (ghost'.whole => ghost.whole /\ done)
  <2>1. PICK whole \in BOOLEAN : whole = (ghost.whole /\ done)
    OBVIOUS
  <2>2. ghost' = [ghost EXCEPT !.whole = whole]
    BY <1>2, <2>1
  <2> QED
    BY <2>1, <2>2 DEF Types
<1>8. ghost'.whole => disk'.area = Written(disk.area, io.writes[1])
  BY <1>2, <1>7 DEF Types
<1>9. Types'
  BY <1>1, <1>5, <1>6, <1>7 DEF Types
<1>10. Changes'
  BY <1>1, <1>5, <1>7 DEF Changes, Logging
<1> QED
  BY <1>1, <1>3, <1>5, <1>6, <1>7, <1>8, <1>9, <1>10

\* A write puts its blocks where they belong, and touches nothing else.
LEMMA WriteLogWrites ==
  ASSUME Types, Changes, WriteLog, Writing, ghost'.whole, io.begin \in Ring
  PROVE  /\ Writing'
         /\ \A p \in Area : p \notin Ring \/ Ahead(io.begin, p) >= io.length => disk'.area[p] = disk.area[p]
<1>1. /\ UNCHANGED <<disk.super, cache, journal>>
      /\ io.phase = "log" /\ io'.phase = "log" /\ io.writes # <<>> /\ io.writes \in Seq(LogWrite)
      /\ io'.writes = Tail(io.writes) /\ io'.length = io.length /\ io'.position = io.position /\ io'.begin = io.begin
      /\ disk'.area = Written(disk.area, io.writes[1])
  BY WriteLogSteps
<1>2. PICK writes \in Seq(LogWrite) : writes = io.writes /\ writes # <<>>
  BY <1>1
<1>3. PICK length \in Nat : length = io.length
  BY <1>1, PhaseFacts DEF Resting, Logging, Io
<1>4. PICK write \in LogWrite : write = writes[1]
  BY <1>2
<1>5. write.at \in Nat /\ write.vecs \in Seq(DiskBlock)
  BY DEF LogWrite
<1>6. disk.area \in [Area -> DiskBlock] /\ Ring \subseteq Area
  BY Sizes DEF Types, Ring, Area
<1>7. \A p \in Area : disk'.area[p] =
        IF p - write.at \in 0 .. Len(write.vecs) - 1 THEN write.vecs[p - write.at + 1] ELSE disk.area[p]
  <2>1. PICK area \in [Area -> DiskBlock] : area = disk.area
    BY <1>6
  <2>2. disk'.area = Written(area, write)
    BY <1>1, <1>2, <1>4, <2>1
  <2>3. \A p \in Area : Written(area, write)[p] =
          IF p - write.at \in 0 .. Len(write.vecs) - 1 THEN write.vecs[p - write.at + 1] ELSE area[p]
    BY WrittenIs
  <2> QED
    BY <2>1, <2>2, <2>3
<1>8. /\ io.length = Len(NewRuns) + 1
      /\ From(io.begin) + io.length < LogSize
      /\ io.position = Wrap(io.begin + io.length)
  BY <1>1 DEF Writing, Landed
<1>9. \A i \in 1 .. Len(writes) : \A t \in 1 .. Len(writes[i].vecs) :
        LET p == writes[i].at + t - 1
        IN  /\ p \in Ring /\ Ahead(io.begin, p) < length
            /\ writes[i].vecs[t] = EntryBlock(cache.changed, cache.now, Ahead(io.begin, p))
  BY <1>1, <1>2, <1>3 DEF Writing, Landed
<1>10. \A p \in Ring : Ahead(io.begin, p) < length =>
         \/ disk.area[p] = EntryBlock(cache.changed, cache.now, Ahead(io.begin, p))
         \/ \E i \in 1 .. Len(writes) : p - writes[i].at \in 0 .. Len(writes[i].vecs) - 1
  BY <1>1, <1>2, <1>3 DEF Writing, Landed
<1>11. ASSUME NEW p \in Area, p - write.at \in 0 .. Len(write.vecs) - 1
       PROVE  /\ p \in Ring /\ Ahead(io.begin, p) < length
              /\ write.vecs[p - write.at + 1] = EntryBlock(cache.changed, cache.now, Ahead(io.begin, p))
  <2>1. p \in Nat
    BY Sizes DEF Area
  <2>2. PICK t \in 1 .. Len(write.vecs) : t = p - write.at + 1 /\ write.at + t - 1 = p
    BY <1>5, <1>11, <2>1
  <2>3. 1 \in 1 .. Len(writes) /\ t \in 1 .. Len(writes[1].vecs) /\ writes[1].at + t - 1 = p
    BY <1>2, <1>4, <2>2
  <2>4. /\ p \in Ring /\ Ahead(io.begin, p) < length
        /\ writes[1].vecs[t] = EntryBlock(cache.changed, cache.now, Ahead(io.begin, p))
    BY <1>9, <2>3
  <2> QED
    BY <1>4, <2>2, <2>4
<1>12. ASSUME NEW p \in Area, p \notin Ring \/ Ahead(io.begin, p) >= length
       PROVE  disk'.area[p] = disk.area[p]
  <2>1. io.begin \in Nat /\ p \in Nat /\ Ahead(io.begin, p) \in Int
    BY Sizes DEF Ring, Area, Ahead
  <2>2. ~ (p - write.at \in 0 .. Len(write.vecs) - 1)
    BY <1>11, <1>12, <2>1
  <2> QED
    BY <1>7, <2>2
<1>13. PICK rest : rest = Tail(writes)
  OBVIOUS
<1>14. rest \in Seq(LogWrite) /\ Len(rest) = Len(writes) - 1
  BY <1>2, <1>13
<1>15. \A i \in 1 .. Len(rest) : rest[i] = writes[i + 1]
  BY <1>2, <1>13
<1>16. /\ \A i \in 1 .. Len(rest) : rest[i] = writes[i + 1] /\ i + 1 \in 1 .. Len(writes)
       /\ \A i \in 1 .. Len(writes) : i # 1 => i - 1 \in 1 .. Len(rest) /\ rest[i - 1] = writes[i]
  <2>1. PICK n \in Nat \ {0} : n = Len(writes)
    BY <1>2
  <2>2. Len(rest) = n - 1
    BY <1>14, <2>1
  <2>3. ASSUME NEW i \in 1 .. n, i # 1
        PROVE  i - 1 \in 1 .. n - 1 /\ rest[i - 1] = writes[i]
    <3>1. i - 1 \in 1 .. n - 1 /\ i - 1 + 1 = i
      BY <2>3
    <3> QED
      BY <1>15, <2>2, <3>1
  <2>4. ASSUME NEW i \in 1 .. n - 1
        PROVE  rest[i] = writes[i + 1] /\ i + 1 \in 1 .. n
    BY <1>15, <2>2
  <2> QED
    BY <2>1, <2>2, <2>3, <2>4
<1>17. \A i \in 1 .. Len(rest) : \A t \in 1 .. Len(rest[i].vecs) :
         LET p == rest[i].at + t - 1
         IN  /\ p \in Ring /\ Ahead(io.begin, p) < length
             /\ rest[i].vecs[t] = EntryBlock(cache.changed, cache.now, Ahead(io.begin, p))
  BY <1>9, <1>16
<1>18. ASSUME NEW p \in Ring, Ahead(io.begin, p) < length
       PROVE  \/ disk'.area[p] = EntryBlock(cache.changed, cache.now, Ahead(io.begin, p))
              \/ \E i \in 1 .. Len(rest) : p - rest[i].at \in 0 .. Len(rest[i].vecs) - 1
  <2>1. p \in Area
    BY <1>6
  <2>2. CASE p - write.at \in 0 .. Len(write.vecs) - 1
    BY <1>7, <1>11, <2>1, <2>2
  <2>3. CASE ~ (p - write.at \in 0 .. Len(write.vecs) - 1)
    <3>1. disk'.area[p] = disk.area[p]
      BY <1>7, <2>1, <2>3
    <3>2. CASE disk.area[p] = EntryBlock(cache.changed, cache.now, Ahead(io.begin, p))
      BY <3>1, <3>2
    <3>3. CASE \E i \in 1 .. Len(writes) : p - writes[i].at \in 0 .. Len(writes[i].vecs) - 1
      <4>1. PICK i \in 1 .. Len(writes) : p - writes[i].at \in 0 .. Len(writes[i].vecs) - 1
        BY <3>3
      <4>2. i # 1
        BY <1>4, <2>3, <4>1
      <4> QED
        BY <1>16, <4>1, <4>2
    <3> QED
      BY <1>10, <1>18, <3>2, <3>3
  <2> QED
    BY <2>2, <2>3
<1>19. io'.writes = rest /\ io'.length = length /\ io'.begin = io.begin /\ cache' = cache
  BY <1>1, <1>2, <1>3, <1>13
<1>20. Writing'
  <2>1. /\ io'.length = Len(NewRuns') + 1
        /\ From(io.begin)' + io'.length < LogSize
        /\ io'.position = Wrap(io'.begin + io'.length)
    BY <1>1, <1>8 DEF From, NewRuns
  <2>2. \A i \in 1 .. Len(io'.writes) : \A t \in 1 .. Len(io'.writes[i].vecs) :
          LET p == io'.writes[i].at + t - 1
          IN  /\ p \in Ring /\ Ahead(io'.begin, p) < io'.length
              /\ io'.writes[i].vecs[t] = EntryBlock(cache'.changed, cache'.now, Ahead(io'.begin, p))
    BY <1>17, <1>19
  <2>3. \A p \in Ring : Ahead(io'.begin, p) < io'.length =>
          \/ disk'.area[p] = EntryBlock(cache'.changed, cache'.now, Ahead(io'.begin, p))
          \/ \E i \in 1 .. Len(io'.writes) : p - io'.writes[i].at \in 0 .. Len(io'.writes[i].vecs) - 1
    BY <1>18, <1>19
  <2> QED
    BY <1>1, <2>1, <2>2, <2>3 DEF Writing, Ring
<1> QED
  BY <1>3, <1>12, <1>20

\* The entries in memory are a sequence of entries.
LEMMA EntriesAre ==
  ASSUME Types
  PROVE  /\ journal.entries \in Seq(LogEntry)
         /\ \A k \in 1 .. Len(journal.entries) :
              /\ journal.entries[k] \in LogEntry
              /\ journal.entries[k].id \in Nat \ {0} /\ journal.entries[k].start \in Nat
              /\ journal.entries[k].length \in Nat
<1>1. PICK e \in Seq(LogEntry) : e = journal.entries
  BY DEF Types, JournalState
<1>2. \A k \in 1 .. Len(e) : e[k] \in LogEntry
  BY <1>1
<1>3. \A x \in LogEntry : x.id \in Nat \ {0} /\ x.start \in Nat /\ x.length \in Nat
  BY DEF LogEntry
<1> QED
  BY <1>1, <1>2, <1>3

\* A step that changes neither the disk nor the entries keeps the log.
LEMMA QuietKeepsLog ==
  ASSUME Types, Entries, UsedIsSum, LogInv, Quiet, Resting,
         Resting' \/ (io'.phase = "log" /\ io'.begin = super.end /\ journal'.written = journal.written + 1),
         journal'.written \in Nat,
         journal'.written = journal.written \/ journal'.written = journal.written + 1,
         ghost'.whole => ghost.whole /\ Writing'
  PROVE  Entries' /\ UsedIsSum' /\ LogInv'
<1>1. /\ UNCHANGED <<disk, super, notify>>
      /\ cache'.ended = cache.ended /\ cache'.pending = cache.pending
      /\ journal'.entries = journal.entries /\ journal'.used = journal.used
      /\ ghost'.logged = ghost.logged
  BY DEF Quiet
<1>2. /\ io.phase \notin {"log", "super", "add", "end"} /\ journal.written \in Nat
      /\ io'.phase \notin {"super", "add", "end"}
      /\ io'.phase = "log" => io'.begin = super.end /\ journal'.written = journal.written + 1
  BY DEF Resting, Logging, Types, JournalState
<1>3. PICK e \in Seq(LogEntry) : e = journal.entries
  BY DEF Types, JournalState
<1>4. \A k \in 1 .. Len(e) : e[k].id \in Nat
  BY <1>3, EntriesAre
<1>5. Entries'
  <2>1. \A k \in 1 .. Len(e) : /\ e[k].id <= journal'.written
                               /\ io'.phase \in {"log", "super", "add"} => e[k].id < journal'.written
    <3>1. \A k \in 1 .. Len(e) : e[k].id <= journal.written
      BY <1>3 DEF Entries
    <3> QED
      BY <1>2, <1>4, <3>1
  <2>2. \A id : Notifies(id)' <=> Notifies(id)
    BY <1>1 DEF Notifies
  <2>3. /\ \A k, l \in 1 .. Len(e) : k < l => e[k].id < e[l].id
        /\ \A b \in Block : cache'.pending[b] # 0 => \E k \in 1 .. Len(e) : e[k].id = cache'.pending[b]
        /\ \A k \in 1 .. Len(e) : (\E b \in Block : cache'.pending[b] = e[k].id) \/ Notifies(e[k].id)
        /\ notify.phase = "entry" => /\ \E k \in 1 .. Len(e) : Notifies(e[k].id)
                                     /\ \A b \in Block : ~ Notifies(cache'.pending[b])
    BY <1>1, <1>2, <1>3 DEF Entries
  <2> QED
    BY <1>1, <1>2, <1>3, <2>1, <2>2, <2>3 DEF Entries
<1>6. UsedIsSum'
  BY <1>1 DEF UsedIsSum
<1>7. ASSUME ghost'.whole
      PROVE  Pointers' /\ \E Heads \in SUBSET Ring : Chain(Heads)' /\ Live(Heads)' /\ Logged(Heads)'
  <2>1. Pointers /\ \E Heads \in SUBSET Ring : Chain(Heads) /\ Live(Heads) /\ Logged(Heads)
    BY <1>7 DEF LogInv, Picture
  <2>2. PICK Heads \in SUBSET Ring : Chain(Heads) /\ Live(Heads) /\ Logged(Heads)
    BY <2>1
  <2>3. ~ Landed /\ ~ Landed'
    BY <1>2 DEF Landed
  <2>4. /\ \A p : From(p)' = From(p)
        /\ \A p : Listed(p)' = Listed(p)
        /\ \A p, b : Lists(p, b)' <=> Lists(p, b)
        /\ \A p, b : Newest(Heads, p, b)' <=> Newest(Heads, p, b)
        /\ \A p, b : Waits(p, b)' <=> Waits(p, b)
    BY <1>1, <2>3 DEF From, Listed, Lists, Newest, Waits, WaitsIf
  <2>5. Chain(Heads)'
    BY <1>1, <2>2, <2>4 DEF Chain, ChainTo, Ring, From, Listed
  <2>6. Live(Heads)'
    BY <1>1, <1>2, <2>2, <2>3, <2>4 DEF Live, LiveIf, From
  <2>7. Logged(Heads)'
    <3>1. \A p, b : WaitsIf(Landed, p, b)' <=> WaitsIf(Landed, p, b)
      BY <2>4 DEF Waits
    <3> QED
      BY <1>1, <2>2, <2>4, <3>1 DEF Logged, LoggedIf, Home, Ring
  <2>8. Pointers'
    BY <1>1, <1>2, <2>1, <2>3 DEF Pointers
  <2> QED
    BY <2>5, <2>6, <2>7, <2>8
<1>8. LogInv'
  BY <1>7 DEF LogInv, Picture, Ring
<1> QED
  BY <1>5, <1>6, <1>8

\* What is behind the end of the log.
LEMMA BehindTheEnd ==
  ASSUME NEW s \in Ring, NEW p \in Ring, NEW r \in Ring, NEW length \in Nat,
         Ahead(s, p) < Ahead(s, r), Ahead(s, r) + length < LogSize
  PROVE  Ahead(r, p) >= length
  BY Sizes DEF Ring, Ahead

\* The blocks of an entry are between the beginning and the end of the log.
LEMMA EntryIsInside ==
  ASSUME Types, NEW Heads, Chain(Heads), NEW p \in Heads
  PROVE  /\ p \in Ring /\ p \in Area /\ Listed(p) \in Seq(Block) /\ Len(Listed(p)) \in Nat \ {0}
         /\ From(p) \in Ring /\ From(disk.super.end) \in Ring /\ From(p) < From(disk.super.end)
         /\ \A i \in 0 .. Len(Listed(p)) :
              Wrap(p + i) \in Ring /\ From(Wrap(p + i)) = From(p) + i /\ From(p) + i < From(disk.super.end)
<1>1. p \in Ring /\ disk.super.start \in Ring /\ disk.super.end \in Ring
  BY DEF Chain, ChainTo
<1>2. p \in Area
  BY <1>1, Sizes DEF Ring, Area
<1>3. Listed(p) \in Seq(Block)
  BY <1>2 DEF Types, DiskBlock, Listed
<1>4. PICK n \in Nat : n = Len(Listed(p))
  BY <1>3
<1>5. n > 0 /\ From(p) + n < From(disk.super.end)
  BY <1>4 DEF Chain, ChainTo
<1>6. PICK a \in Ring : a = From(p)
  BY <1>1, RingFacts DEF From
<1>7. PICK z \in Ring : z = From(disk.super.end)
  BY <1>1, RingFacts DEF From
<1>8. ASSUME NEW i \in 0 .. n
      PROVE  Wrap(p + i) \in Ring /\ From(Wrap(p + i)) = From(p) + i /\ From(p) + i < From(disk.super.end)
  <2>1. i \in Nat /\ a + i < z /\ a + i < LogSize
    BY <1>5, <1>6, <1>7, Sizes DEF Ring
  <2> QED
    BY <1>1, <1>6, <1>7, <2>1, AheadOfWrap DEF From
<1>9. a < z
  BY <1>5, <1>6, <1>7, Sizes DEF Ring
<1> QED
  BY <1>1, <1>2, <1>3, <1>4, <1>5, <1>6, <1>7, <1>8, <1>9

\* The places of the blocks are behind the log.
LEMMA HomesAre ==
  ASSUME NEW b \in Block
  PROVE  Home(b) \in Area /\ Home(b) \notin Ring
  BY Sizes DEF Block, Home, Area, Ring

\* A write to the log is behind its end and changes no entry.
LEMMA WriteLogKeepsLog ==
  ASSUME Types, Changes, Entries, UsedIsSum, LogInv, WriteLog
  PROVE  Entries' /\ UsedIsSum' /\ LogInv'
<1>1. /\ UNCHANGED <<disk.super, super, cache, journal, notify>> /\ ghost'.logged = ghost.logged
      /\ io.phase = "log" /\ io'.phase = "log" /\ io'.begin = io.begin /\ io'.position = io.position
      /\ ghost'.whole => ghost.whole
  BY WriteLogSteps
<1>2. Entries' /\ UsedIsSum'
  BY <1>1 DEF Entries, UsedIsSum, Notifies
<1>3. ASSUME ghost'.whole
      PROVE  Pointers' /\ Writing' /\ \E Heads \in SUBSET Ring : Chain(Heads)' /\ Live(Heads)' /\ Logged(Heads)'
  <2>1. Writing /\ Pointers
    BY <1>1, <1>3 DEF LogInv, Picture
  <2>2. PICK Heads \in SUBSET Ring : Chain(Heads) /\ Live(Heads) /\ Logged(Heads)
    BY <1>1, <1>3 DEF LogInv, Picture
  <2>3. disk.super.start \in Ring /\ disk.super.end \in Ring /\ io.begin = disk.super.end
    BY <1>1, <2>1, <2>2 DEF Chain, ChainTo, Pointers
  <2>4. /\ Writing'
        /\ \A p \in Area : p \notin Ring \/ Ahead(io.begin, p) >= io.length => disk'.area[p] = disk.area[p]
    BY <1>3, <2>1, <2>3, WriteLogWrites
  <2>5. PICK length \in Nat : length = io.length /\ From(disk.super.end) + length < LogSize
    BY <1>1, <2>1, <2>3, PhaseFacts DEF Writing, Landed, Resting, Logging, Io
  <2>6. ASSUME NEW p \in Ring, From(p) < From(disk.super.end)
        PROVE  disk'.area[p] = disk.area[p]
    <3>1. Ahead(io.begin, p) >= length
      BY <2>3, <2>5, <2>6, BehindTheEnd DEF From
    <3>2. p \in Area
      BY Sizes DEF Ring, Area
    <3> QED
      BY <2>4, <2>5, <3>1, <3>2
  <2>7. \A b \in Block : disk'.area[Home(b)] = disk.area[Home(b)]
    BY <2>4, HomesAre
  <2>8. ASSUME NEW p \in Heads
        PROVE  /\ disk'.area[p] = disk.area[p]
               /\ \A i \in 1 .. Len(Listed(p)) : disk'.area[Wrap(p + i)] = disk.area[Wrap(p + i)]
    <3>1. /\ p \in Ring /\ \A i \in 0 .. Len(Listed(p)) :
              Wrap(p + i) \in Ring /\ From(Wrap(p + i)) = From(p) + i /\ From(p) + i < From(disk.super.end)
      BY <2>2, EntryIsInside
    <3>2. From(p) < From(disk.super.end) /\ Len(Listed(p)) \in Nat
      BY <2>2, EntryIsInside
    <3>3. \A i \in 1 .. Len(Listed(p)) : i \in 0 .. Len(Listed(p))
      BY <3>2
    <3> QED
      BY <2>6, <3>1, <3>2, <3>3
  <2>9. /\ \A p : From(p)' = From(p)
        /\ \A p \in Heads : Listed(p)' = Listed(p)
        /\ \A p \in Heads : \A b : Lists(p, b)' <=> Lists(p, b)
        /\ \A p, b : Waits(p, b)' <=> Waits(p, b)
    BY <1>1, <2>8 DEF From, Listed, Lists, Waits, WaitsIf, Landed
  <2>10. \A p, b : Newest(Heads, p, b)' <=> Newest(Heads, p, b)
    BY <2>9 DEF Newest
  <2>11. Chain(Heads)'
    BY <1>1, <2>2, <2>9 DEF Chain, ChainTo, Ring, From, Listed
  <2>12. Live(Heads)'
    BY <1>1, <2>2, <2>9 DEF Live, LiveIf, From, Landed
  <2>13. Logged(Heads)'
    <3>1. ASSUME NEW p \in Heads, NEW b \in Block, Newest(Heads, p, b)
          PROVE  /\ \A i \in 1 .. Len(Listed(p)) : Listed(p)[i] = b => disk'.area[Wrap(p + i)].data = ghost.logged[b]
                 /\ disk'.area[Home(b)].data = ghost.logged[b] \/ Waits(p, b)
      BY <2>2, <2>7, <2>8, <3>1 DEF Logged, LoggedIf, Waits, WaitsIf
    <3>2. \A b \in Block : (\A p \in Heads : ~ Lists(p, b)) => disk'.area[Home(b)].data = ghost.logged[b]
      BY <2>2, <2>7 DEF Logged, LoggedIf, Waits, WaitsIf
    <3>3. \A b \in Block : cache.pending[b] = 0 => disk'.area[Home(b)].data = cache.ended[b]
      BY <2>2, <2>7 DEF Logged, LoggedIf, Waits, WaitsIf
    <3> QED
      BY <1>1, <2>9, <2>10, <3>1, <3>2, <3>3 DEF Logged, LoggedIf, Waits, WaitsIf
  <2>14. Pointers'
    BY <1>1, <2>1 DEF Pointers, Landed
  <2> QED
    BY <2>4, <2>11, <2>12, <2>13, <2>14
<1>4. LogInv'
  BY <1>3 DEF LogInv, Picture, Ring
<1> QED
  BY <1>2, <1>4

-----------------------------------------------------------------------------
(* The end of an entry.                                                    *)

\* The elements of a sequence are finitely many.
LEMMA RangeIsFinite ==
  ASSUME NEW T, NEW f \in Seq(T), NEW n \in Nat, n = Len(f)
  PROVE  IsFiniteSet({f[k] : k \in 1 .. n})
<1> DEFINE R == {f[k] : k \in 1 .. n}
<1>1. f \in Surjection(1 .. n, R)
  BY DEF Surjection
<1>2. IsFiniteSet(1 .. n)
  BY FS_Interval
<1> QED
  BY <1>1, <1>2, FS_Surjection

\* The new entry is on the disk, behind the others.
LEMMA NewEntry ==
  ASSUME Types, Writing, io.phase \in {"log", "super"}, ~ Landed, io.writes = <<>>, cache.changed # {},
         disk.super.start \in Ring, io.begin \in Ring
  PROVE  /\ Listed(io.begin) = NewRuns /\ io.length = Len(NewRuns) + 1 /\ Len(NewRuns) \in Nat \ {0}
         /\ From(io.begin) + io.length < LogSize
         /\ io.position = Wrap(io.begin + io.length) /\ io.position # io.begin
         /\ \A i \in 1 .. Len(NewRuns) : disk.area[Wrap(io.begin + i)].data = cache.now[NewRuns[i]]
         /\ \A b \in Block : b \in cache.changed <=> Lists(io.begin, b)
<1>1. NewRuns \in Seq(Block) /\ Len(NewRuns) = Cardinality(cache.changed)
      /\ \A b \in Block : b \in cache.changed <=> \E i \in 1 .. Len(NewRuns) : NewRuns[i] = b
  BY RunsOfSet DEF Types, Cache, NewRuns
<1>2. PICK m \in Nat : m = Len(NewRuns)
  BY <1>1
<1>3. m > 0
  <2>1. PICK b \in Block : b \in cache.changed
    BY DEF Types, Cache
  <2>2. PICK i \in 1 .. m : NewRuns[i] = b
    BY <1>1, <1>2, <2>1
  <2> QED
    BY <2>2
<1>4. io.length = m + 1 /\ From(io.begin) + io.length < LogSize /\ io.position = Wrap(io.begin + io.length)
  BY <1>2 DEF Writing
<1>5. \A p \in Ring : Ahead(io.begin, p) < m + 1 =>
        disk.area[p] = EntryBlock(cache.changed, cache.now, Ahead(io.begin, p))
  <2>1. Len(io.writes) = 0
    OBVIOUS
  <2> QED
    BY <1>4, <2>1 DEF Writing
<1>6. From(io.begin) \in Nat /\ m + 1 < LogSize
  <2>1. From(io.begin) \in Ring
    BY RingFacts DEF From
  <2> QED
    BY <1>4, <2>1, Sizes DEF Ring
<1>7. ASSUME NEW i \in 0 .. m
      PROVE  disk.area[Wrap(io.begin + i)] = EntryBlock(cache.changed, cache.now, i)
  <2>1. Ahead(io.begin, io.begin) = 0
    BY RingFacts
  <2>2. Wrap(io.begin + i) \in Ring /\ Ahead(io.begin, Wrap(io.begin + i)) = i
    BY <1>6, <2>1, AheadOfWrap, Sizes
  <2> QED
    BY <1>5, <2>2
<1>8. Listed(io.begin) = NewRuns
  <2>1. Wrap(io.begin + 0) = io.begin
    BY Sizes DEF Wrap, Ring
  <2>2. disk.area[io.begin] = EntryBlock(cache.changed, cache.now, 0)
    BY <1>7, <2>1
  <2> QED
    BY <2>2 DEF EntryBlock, RunArray, Listed, NewRuns
<1>9. \A i \in 1 .. m : disk.area[Wrap(io.begin + i)].data = cache.now[NewRuns[i]]
  <2> SUFFICES ASSUME NEW i \in 1 .. m
               PROVE  disk.area[Wrap(io.begin + i)].data = cache.now[NewRuns[i]]
    OBVIOUS
  <2>1. i \in 0 .. m /\ i # 0
    OBVIOUS
  <2>2. disk.area[Wrap(io.begin + i)] = EntryBlock(cache.changed, cache.now, i)
    BY <1>7, <2>1
  <2> QED
    BY <2>1, <2>2 DEF EntryBlock, Data, NewRuns
<1>10. io.position # io.begin
  <2>1. Ahead(io.begin, io.begin) = 0
    BY RingFacts
  <2>2. Ahead(io.begin, Wrap(io.begin + (m + 1))) = m + 1
    BY <1>6, <2>1, AheadOfWrap
  <2> QED
    BY <1>4, <2>1, <2>2
<1> QED
  BY <1>1, <1>2, <1>3, <1>4, <1>8, <1>9, <1>10 DEF Lists

\* The new end in memory: the entry is on the disk, and no recovery looks for it yet.
LEMMA MoveEndKeepsLog ==
  ASSUME Types, Changes, Entries, UsedIsSum, LogInv, MoveEnd
  PROVE  Types' /\ Changes' /\ Entries' /\ UsedIsSum' /\ LogInv'
<1>1. /\ io.phase = "log" /\ io.writes = <<>>
      /\ super' = [super EXCEPT !.end = io.position, !.dirty = TRUE]
      /\ io' = [io EXCEPT !.phase = "super"]
      /\ UNCHANGED <<disk, cache, journal, notify, ghost>>
  BY DEF MoveEnd
<1>2. io \in Io
  BY <1>1, PhaseFacts DEF Resting, Logging
<1>3. /\ io' \in Io /\ io'.phase = "super" /\ io'.writes = io.writes /\ io'.begin = io.begin
      /\ io'.position = io.position /\ io'.length = io.length
  BY <1>1, <1>2 DEF Io
<1>4. PICK position \in Nat : position = io.position
  BY <1>2 DEF Io
<1>5. super' \in SuperBlock /\ super'.start = super.start /\ super'.end = io.position /\ super'.dirty
  <2>1. PICK true \in BOOLEAN : true = TRUE
    OBVIOUS
  <2>2. super' = [super EXCEPT !.end = position, !.dirty = true]
    BY <1>1, <1>4, <2>1
  <2> QED
    BY <1>4, <2>1, <2>2 DEF Types, SuperBlock
<1>6. Types'
  BY <1>1, <1>3, <1>5 DEF Types
<1>7. Changes' /\ UsedIsSum'
  BY <1>1, <1>3 DEF Changes, UsedIsSum, Logging
<1>8. Entries'
  BY <1>1, <1>3 DEF Entries, Notifies
<1>9. ASSUME ghost.whole
      PROVE  Picture'
  <2>1. Pointers /\ Writing
    BY <1>9 DEF LogInv, Picture
  <2>2. PICK Heads \in SUBSET Ring : Chain(Heads) /\ Live(Heads) /\ Logged(Heads)
    BY <1>9 DEF LogInv, Picture
  <2>3. disk.super.start \in Ring /\ io.begin \in Ring /\ io.begin = disk.super.end /\ io.begin = super.end
    BY <1>1, <2>1, <2>2 DEF Chain, ChainTo, Pointers
  <2>4. cache.changed # {} /\ ~ Landed
    BY <1>1 DEF Changes, Logging, Landed
  <2>5. io.position # io.begin
    BY <1>1, <2>1, <2>3, <2>4, NewEntry
  <2>6. ~ Landed'
    BY <1>1, <1>3, <2>3, <2>5 DEF Landed
  <2>7. Pointers'
    BY <1>1, <1>3, <1>5, <2>1, <2>3, <2>4, <2>5, <2>6 DEF Pointers
  <2>8. Writing'
    BY <1>1, <1>3, <2>1, <2>4, <2>6 DEF Writing, From, NewRuns, Ring
  <2>9. /\ \A p : From(p)' = From(p)
        /\ \A p : Listed(p)' = Listed(p)
        /\ \A p, b : Lists(p, b)' <=> Lists(p, b)
        /\ \A p, b : Newest(Heads, p, b)' <=> Newest(Heads, p, b)
        /\ \A p, b : WaitsIf(Landed, p, b)' <=> WaitsIf(Landed, p, b)
    BY <1>1, <2>4, <2>6 DEF From, Listed, Lists, Newest, WaitsIf
  <2>10. Chain(Heads)'
    BY <1>1, <2>2, <2>9 DEF Chain, ChainTo, Ring, From, Listed
  <2>11. Live(Heads)'
    BY <1>1, <1>3, <2>2, <2>4, <2>6, <2>9 DEF Live, LiveIf, From
  <2>12. Logged(Heads)'
    BY <1>1, <2>2, <2>9 DEF Logged, LoggedIf, Home, Ring
  <2>13. \E H \in SUBSET Ring : Chain(H)' /\ Live(H)' /\ Logged(H)'
    BY <2>10, <2>11, <2>12
  <2> QED
    BY <2>7, <2>8, <2>13 DEF Picture, Ring
<1> QED
  BY <1>1, <1>6, <1>7, <1>8, <1>9 DEF LogInv

\* The entry that is added keeps the types, the entries and their sum.
LEMMA AddEntrySteps ==
  ASSUME Types, Changes, Entries, UsedIsSum, AddEntry
  PROVE  /\ Types' /\ Changes' /\ Entries' /\ UsedIsSum'
         /\ io.phase = "add" /\ io'.phase = "end" /\ io'.begin = io.begin /\ io'.position = io.position
         /\ UNCHANGED <<disk, super, cache, ghost>>
         /\ Len(journal'.entries) = Len(journal.entries) + 1
         /\ journal'.entries[Len(journal.entries) + 1].start = io.begin
         /\ \A k \in 1 .. Len(journal.entries) : journal'.entries[k] = journal.entries[k]
<1>1. /\ io.phase = "add"
      /\ io' = [io EXCEPT !.phase = "end"]
      /\ journal' = [journal EXCEPT
           !.entries = Append(journal.entries, [id |-> journal.written, start |-> io.begin, length |-> io.length]),
           !.used = journal.used + io.length]
      /\ UNCHANGED <<disk, super, cache, notify, ghost>>
  BY DEF AddEntry
<1>2. io \in Io
  BY <1>1, PhaseFacts DEF Resting, Logging
<1>4. PICK length \in Nat : length = io.length
  BY <1>2 DEF Io
<1>5. PICK written \in Nat \ {0} : written = journal.written
  BY <1>1 DEF Changes, Logging, Types, JournalState
<1>6. PICK h \in Nat : h = io.begin
  BY <1>2 DEF Io
<1>7. PICK new \in LogEntry : new = [id |-> written, start |-> h, length |-> length]
  BY DEF LogEntry
<1>8. PICK e \in Seq(LogEntry) : e = journal.entries
  BY DEF Types, JournalState
<1>9. PICK n \in Nat : n = Len(e)
  BY <1>8
<1>10. PICK f : f = Append(e, new)
  OBVIOUS
<1>11. f \in Seq(LogEntry) /\ Len(f) = n + 1 /\ f[n + 1] = new /\ \A k \in 1 .. n : f[k] = e[k]
  BY <1>9, <1>10
<1>15. PICK used \in Int : used = journal.used + length
  BY DEF Types, JournalState
<1>16. journal' = [journal EXCEPT !.entries = f, !.used = used]
  BY <1>1, <1>4, <1>5, <1>6, <1>7, <1>8, <1>10, <1>15
<1>17. /\ journal' \in JournalState /\ journal'.entries = f /\ journal'.used = used
       /\ journal'.written = written /\ journal'.depth = journal.depth
  BY <1>5, <1>11, <1>16 DEF Types, JournalState
<1>18. io' \in Io /\ io'.phase = "end" /\ io'.begin = io.begin /\ io'.position = io.position
  BY <1>1, <1>2 DEF Io
<1>20. Types'
  BY <1>1, <1>17, <1>18 DEF Types
<1>21. Changes'
  BY <1>1, <1>5, <1>17, <1>18 DEF Changes, Logging
<1>22. \A k \in 1 .. n : e[k].id \in Nat /\ e[k].id < written
  BY <1>1, <1>5, <1>8, <1>9, EntriesAre DEF Entries
<1>23. Entries'
  <2>1. \A k, l \in 1 .. n + 1 : k < l => f[k].id < f[l].id
    <3> SUFFICES ASSUME NEW k \in 1 .. n + 1, NEW l \in 1 .. n + 1, k < l PROVE f[k].id < f[l].id
      OBVIOUS
    <3>1. k \in 1 .. n
      OBVIOUS
    <3>2. CASE l = n + 1
      BY <1>7, <1>11, <1>22, <3>1, <3>2
    <3>3. CASE l # n + 1
      BY <1>8, <1>9, <1>11, <3>1, <3>3 DEF Entries
    <3> QED
      BY <3>2, <3>3
  <2>2. \A k \in 1 .. n + 1 : f[k].id <= written
    <3> SUFFICES ASSUME NEW k \in 1 .. n + 1 PROVE f[k].id <= written
      OBVIOUS
    <3>1. k \in 1 .. n \/ k = n + 1
      OBVIOUS
    <3> QED
      BY <1>7, <1>11, <1>22, <3>1
  <2>3. \A b \in Block : cache.pending[b] # 0 => \E k \in 1 .. n : f[k].id = cache.pending[b]
    BY <1>8, <1>9, <1>11 DEF Entries
  <2>4. \A b \in Block : cache.pending[b] # 0 => \E k \in 1 .. n + 1 : f[k].id = cache.pending[b]
    <3>1. \A k \in 1 .. n : k \in 1 .. n + 1
      OBVIOUS
    <3> QED
      BY <2>3, <3>1
  <2>5. \A k \in 1 .. n + 1 : (\E b \in Block : cache.pending[b] = f[k].id) \/ k = n + 1 \/ Notifies(f[k].id)
    <3> SUFFICES ASSUME NEW k \in 1 .. n + 1, k # n + 1
                 PROVE  (\E b \in Block : cache.pending[b] = f[k].id) \/ Notifies(f[k].id)
      OBVIOUS
    <3>1. k \in 1 .. n /\ f[k] = e[k]
      BY <1>11
    <3>2. (\E b \in Block : cache.pending[b] = e[k].id) \/ Notifies(e[k].id)
      BY <1>1, <1>8, <1>9, <3>1 DEF Entries
    <3> QED
      BY <3>1, <3>2
  <2>6. f # <<>> /\ f[n + 1].id = written
    BY <1>7, <1>11
  <2>7. \A b \in Block : cache.pending[b] # written
    <3> SUFFICES ASSUME NEW b \in Block, cache.pending[b] = written PROVE FALSE
      OBVIOUS
    <3>1. PICK k \in 1 .. n : f[k].id = written
      BY <2>3
    <3> QED
      BY <1>11, <1>22, <3>1
  <2>8. /\ Len(journal'.entries) = n + 1 /\ journal'.entries = f /\ journal'.written = written
        /\ cache' = cache /\ io'.phase = "end" /\ io'.phase \notin {"log", "super", "add"} /\ notify' = notify
    BY <1>1, <1>11, <1>17, <1>18
  <2>9. notify.phase = "entry" => /\ \E k \in 1 .. n + 1 : Notifies(f[k].id)
                                  /\ \A b \in Block : ~ Notifies(cache.pending[b])
    <3> SUFFICES ASSUME notify.phase = "entry"
                 PROVE  /\ \E k \in 1 .. n + 1 : Notifies(f[k].id)
                        /\ \A b \in Block : ~ Notifies(cache.pending[b])
      OBVIOUS
    <3>1. PICK k \in 1 .. n : Notifies(e[k].id)
      BY <1>8, <1>9 DEF Entries
    <3>2. k \in 1 .. n + 1 /\ f[k] = e[k]
      BY <1>11
    <3> QED
      BY <3>1, <3>2 DEF Entries
  <2>10. ~ Notifies(written)
    <3> SUFFICES ASSUME Notifies(written) PROVE FALSE
      OBVIOUS
    <3>1. PICK k \in 1 .. n : Notifies(e[k].id)
      BY <1>8, <1>9 DEF Entries, Notifies
    <3>2. e[k].id = written
      BY <3>1 DEF Notifies
    <3> QED
      BY <1>5, <1>22, <3>2
  <2>11. \A id : Notifies(id)' <=> Notifies(id)
    BY <2>8 DEF Notifies
  <2> QED
    BY ONLY <2>1, <2>2, <2>4, <2>5, <2>6, <2>7, <2>8, <2>9, <2>10, <2>11 DEF Entries
<1>24. UsedIsSum'
  <2> DEFINE F == [x \in ToSet(f) |-> x.length]
             G == [x \in ToSet(e) |-> x.length]
  <2>1. /\ \A x \in ToSet(f) : x \in ToSet(e) \/ x = new
        /\ new \in ToSet(f) /\ new \notin ToSet(e)
        /\ \A x \in ToSet(e) : x \in ToSet(f)
    <3>1. ToSet(f) = {f[k] : k \in 1 .. n + 1} /\ ToSet(e) = {e[k] : k \in 1 .. n}
      BY <1>9, <1>11 DEF ToSet
    <3>2. \A k \in 1 .. n + 1 : k = n + 1 \/ k \in 1 .. n
      OBVIOUS
    <3>3. n + 1 \in 1 .. n + 1 /\ \A k \in 1 .. n : k \in 1 .. n + 1
      OBVIOUS
    <3>4. \A k \in 1 .. n : e[k] # new
      BY <1>7, <1>22
    <3> QED
      BY <1>11, <3>1, <3>2, <3>3, <3>4
  <2>2. IsFiniteSet(ToSet(f)) /\ \A x \in ToSet(f) : x.length \in Int
    <3>1. ToSet(f) = {f[k] : k \in 1 .. n + 1}
      BY <1>11 DEF ToSet
    <3>2. IsFiniteSet({f[k] : k \in 1 .. n + 1})
      BY <1>11, RangeIsFinite
    <3>3. \A k \in 1 .. n + 1 : f[k] \in LogEntry
      BY <1>11
    <3> QED
      BY <3>1, <3>2, <3>3 DEF LogEntry
  <2>3. DOMAIN F = ToSet(f) /\ DOMAIN G = DOMAIN F \ {new} /\ \A x \in DOMAIN G : G[x] = F[x]
    BY <2>1
  <2>4. F[new] = length /\ \A x \in DOMAIN F : F[x] \in Int
    BY <1>7, <2>1, <2>2
  <2>5. new \in DOMAIN F /\ IsFiniteSet(DOMAIN F)
    BY <2>1, <2>2
  <2> HIDE DEF F, G
  <2>6. SumFunction(F) = SumFunction(G) + length
    BY <2>3, <2>4, <2>5, SumWithout
  <2>7. journal.used = SumFunction(G)
    BY <1>8 DEF UsedIsSum, G
  <2> QED
    BY <1>15, <1>17, <2>6, <2>7 DEF UsedIsSum, F
<1> QED
  BY <1>1, <1>6, <1>7, <1>8, <1>9, <1>11, <1>17, <1>18, <1>20, <1>21, <1>23, <1>24

\* The entry that is added was the last of the log already.
LEMMA AddEntryKeepsLog ==
  ASSUME Types, Changes, Entries, UsedIsSum, LogInv, AddEntry
  PROVE  LogInv'
<1>1. /\ io.phase = "add" /\ io'.phase = "end" /\ io'.begin = io.begin /\ io'.position = io.position
      /\ UNCHANGED <<disk, super, cache, ghost>>
      /\ Len(journal'.entries) = Len(journal.entries) + 1
      /\ journal'.entries[Len(journal.entries) + 1].start = io.begin
      /\ \A k \in 1 .. Len(journal.entries) : journal'.entries[k] = journal.entries[k]
      /\ Types'
  BY AddEntrySteps
<1> SUFFICES ASSUME ghost.whole
             PROVE  Picture'
  BY <1>1 DEF LogInv
<1>2. Pointers
  BY DEF LogInv, Picture
<1>3. PICK Heads \in SUBSET Ring : Chain(Heads) /\ Live(Heads) /\ Logged(Heads)
  BY DEF LogInv, Picture
<1>4. Landed /\ Landed'
  BY <1>1, <1>2 DEF Landed, Pointers
<1>5. PICK n \in Nat : n = Len(journal.entries)
  BY EntriesAre
<1>6. PICK f \in Seq(LogEntry) : f = journal'.entries
  BY <1>1 DEF Types, JournalState
<1>7. /\ Len(f) = n + 1 /\ f[n + 1].start = io.begin
      /\ \A k \in 1 .. n : f[k] = journal.entries[k]
      /\ \A k \in 1 .. n + 1 : k \in 1 .. n \/ k = n + 1
      /\ n + 1 \in 1 .. n + 1 /\ \A k \in 1 .. n : k \in 1 .. n + 1
  BY <1>1, <1>5, <1>6
<1>8. /\ io.begin \in Heads /\ \A p \in Heads : From(p) <= From(io.begin)
      /\ \A b \in Block : b \in cache.changed <=> Lists(io.begin, b)
      /\ \A k \in 1 .. n : f[k].start \in Heads /\ f[k].start # io.begin
      /\ \A k, l \in 1 .. n : k < l => From(f[k].start) < From(f[l].start)
  BY <1>1, <1>3, <1>4, <1>5, <1>7 DEF Live, LiveIf
<1>9. \A p \in Heads : p \in Ring /\ From(p) \in Nat /\ disk.super.start \in Ring
  BY <1>3, EntryIsInside, Sizes DEF Ring, Chain, ChainTo
<1>10. /\ \A p : From(p)' = From(p)
       /\ \A p : Listed(p)' = Listed(p)
       /\ \A p, b : Lists(p, b)' <=> Lists(p, b)
       /\ \A p, b : Newest(Heads, p, b)' <=> Newest(Heads, p, b)
  BY <1>1 DEF From, Listed, Lists, Newest
<1>11. Chain(Heads)'
  BY <1>1, <1>3, <1>10 DEF Chain, ChainTo, Ring, From, Listed
<1>12. Live(Heads)'
  <2>1. ASSUME NEW k \in 1 .. n + 1, NEW l \in 1 .. n + 1, k < l
        PROVE  From(f[k].start) < From(f[l].start)
    <3>1. k \in 1 .. n
      BY <2>1
    <3>2. CASE l = n + 1
      <4>1. From(f[k].start) # From(io.begin)
        BY <1>8, <1>9, <3>1, SameDistance DEF From
      <4> QED
        BY <1>7, <1>8, <1>9, <3>1, <3>2, <4>1
    <3>3. CASE l \in 1 .. n
      BY <1>8, <2>1, <3>1, <3>3
    <3> QED
      BY <1>7, <3>2, <3>3
  <2>2. \A k \in 1 .. n + 1 : f[k].start \in Heads
    BY <1>7, <1>8
  <2>3. /\ journal'.entries = f /\ Len(journal'.entries) = n + 1 /\ cache' = cache /\ io'.phase = "end"
        /\ io'.begin = io.begin
    BY <1>1, <1>6, <1>7
  <2>4. \A k, l \in 1 .. n + 1 : k < l => From(f[k].start)' < From(f[l].start)'
    BY <1>6, <1>10, <2>1
  <2>5. (\A p \in Heads : From(p)' <= From(io.begin)') /\ \A b \in Block : b \in cache'.changed <=> Lists(io.begin, b)'
    BY <1>8, <1>10, <2>3
  <2> QED
    BY <1>7, <1>8, <2>2, <2>3, <2>4, <2>5 DEF Live, LiveIf, From, Lists, Listed
<1>13. ASSUME NEW p, NEW b, WaitsIf(Landed, p, b)
       PROVE  WaitsIf(Landed, p, b)'
  <2>1. CASE p = io.begin
    BY <1>1, <1>4, <2>1 DEF WaitsIf
  <2>2. CASE \E k \in 1 .. n : journal.entries[k].start = p /\ cache.pending[b] = journal.entries[k].id
    <3>1. PICK k \in 1 .. n : journal.entries[k].start = p /\ cache.pending[b] = journal.entries[k].id
      BY <2>2
    <3>2. k \in 1 .. n + 1 /\ f[k].start = p /\ cache'.pending[b] = f[k].id
      BY <1>1, <1>7, <3>1
    <3> QED
      BY <1>6, <1>7, <3>2 DEF WaitsIf
  <2> QED
    BY <1>5, <1>13, <2>1, <2>2 DEF WaitsIf
<1>14. Logged(Heads)'
  <2>1. ASSUME NEW p \in Heads, NEW b \in Block, Newest(Heads, p, b)
        PROVE  /\ \A i \in 1 .. Len(Listed(p)) : Listed(p)[i] = b => disk.area[Wrap(p + i)].data = ghost.logged[b]
               /\ disk.area[Home(b)].data = ghost.logged[b] \/ WaitsIf(Landed, p, b)'
    BY <1>3, <1>13, <2>1 DEF Logged, LoggedIf
  <2>2. /\ \A b \in Block : (\A p \in Heads : ~ Lists(p, b)) => disk.area[Home(b)].data = ghost.logged[b]
        /\ \A b \in Block : cache.pending[b] = 0 => disk.area[Home(b)].data = cache.ended[b]
    BY <1>3 DEF Logged, LoggedIf
  <2> QED
    BY <1>1, <1>10, <2>1, <2>2 DEF Logged, LoggedIf
<1>15. Pointers'
  <2>1. f # <<>> /\ super.start = f[1].start
    <3>1. CASE n = 0
      <4>1. journal.entries = <<>>
        <5>1. PICK e \in Seq(LogEntry) : e = journal.entries
          BY EntriesAre
        <5>2. Len(e) = 0
          BY <1>5, <3>1, <5>1
        <5> QED
          BY <5>1, <5>2
      <4>2. super.start = io.begin
        BY <1>1, <1>2, <4>1 DEF Pointers
      <4> QED
        BY <1>7, <3>1, <4>2
    <3>2. CASE n # 0
      <4>1. journal.entries # <<>> /\ 1 \in 1 .. n
        BY <1>5, <3>2
      <4>2. super.start = journal.entries[1].start
        BY <1>2, <4>1 DEF Pointers
      <4> QED
        BY <1>7, <4>1, <4>2
    <3> QED
      BY <3>1, <3>2
  <2> QED
    BY <1>1, <1>2, <1>4, <1>6, <2>1 DEF Pointers
<1>16. Writing'
  BY <1>1 DEF Writing
<1>17. \E H \in SUBSET Ring : Chain(H)' /\ Live(H)' /\ Logged(H)'
  BY <1>11, <1>12, <1>14
<1> QED
  BY <1>15, <1>16, <1>17 DEF Picture, Ring

-----------------------------------------------------------------------------
(* The super block comes to the disk.                                      *)

\* The entry that is being written counts from the moment on that the super block in
\* memory has the new end: with that one the log would be as follows.
Ready == io.phase \in {"super", "add", "end"}
Latest == IF Ready THEN cache.now ELSE cache.ended

Promised(Heads) == ChainTo(super.end, Heads) /\ LiveIf(Ready, Heads) /\ LoggedIf(Ready, Latest, Heads)

\* The blocks of an entry are between the beginning and the end of the log, whatever end.
LEMMA HeadIsInside ==
  ASSUME Types, NEW end, NEW Heads, ChainTo(end, Heads), NEW p \in Heads
  PROVE  /\ p \in Ring /\ Listed(p) \in Seq(Block) /\ Len(Listed(p)) \in Nat \ {0}
         /\ From(p) \in Nat /\ From(end) \in Nat /\ From(p) < From(end) /\ From(end) < LogSize
         /\ From(p) + Len(Listed(p)) < From(end)
         /\ \A i \in 0 .. Len(Listed(p)) : Wrap(p + i) \in Ring
<1>1. p \in Ring /\ disk.super.start \in Ring /\ end \in Ring
  BY DEF ChainTo
<1>2. p \in Area
  BY <1>1, Sizes DEF Ring, Area
<1>3. Listed(p) \in Seq(Block)
  BY <1>2 DEF Types, DiskBlock, Listed
<1>4. PICK n \in Nat : n = Len(Listed(p))
  BY <1>3
<1>5. n > 0 /\ From(p) + n < From(end)
  BY <1>4 DEF ChainTo
<1>6. PICK a \in Nat : a = From(p)
  BY <1>1, RingFacts, Sizes DEF From, Ring
<1>7. PICK z \in Nat : z = From(end) /\ z < LogSize
  <2>1. PICK s \in Ring : s = disk.super.start
    BY <1>1
  <2>2. Ahead(s, end) \in Ring
    BY <1>1, RingFacts
  <2>3. \A x \in Ring : x \in Nat /\ x < LogSize
    BY Sizes DEF Ring
  <2> QED
    BY <2>1, <2>2, <2>3 DEF From
<1>8. ASSUME NEW i \in 0 .. n
      PROVE  Wrap(p + i) \in Ring
  <2>1. i \in Nat /\ a + i < LogSize
    BY <1>5, <1>6, <1>7, Sizes
  <2> QED
    BY <1>1, <1>6, <2>1, AheadOfWrap DEF From
<1> QED
  BY <1>1, <1>3, <1>4, <1>5, <1>6, <1>7, <1>8

\* Of the entries that list a block one is the newest.
LEMMA NewestExists ==
  ASSUME Types, NEW end, NEW Heads, ChainTo(end, Heads), NEW b, \E p \in Heads : Lists(p, b)
  PROVE  \E p \in Heads : Newest(Heads, p, b)
<1> DEFINE S == {From(p) : p \in {r \in Heads : Lists(r, b)}}
<1>1. \A p \in Heads : From(p) \in Nat /\ From(p) <= LogSize
  BY HeadIsInside, Sizes
<1>2. S \subseteq Nat /\ S # {} /\ \A y \in S : y <= LogSize
  BY <1>1
<1>3. PICK x : x = Max(S)
  OBVIOUS
<1>4. x \in S /\ \A y \in S : y <= x
  <2> HIDE DEF S
  <2> QED
    BY <1>2, <1>3, MaxIsGreatest, Sizes
<1>5. PICK p \in Heads : Lists(p, b) /\ x = From(p)
  BY <1>4
<1> QED
  BY <1>4, <1>5 DEF Newest

\* Unless the entry still waits for the super block, the log is already like that.
LEMMA PromisedAlready ==
  ASSUME Pointers, ~ (io.phase = "super" /\ ~ Landed)
  PROVE  (Landed <=> Ready) /\ super.end = disk.super.end /\ ghost.logged = Latest
<1>1. Landed => Ready
  BY DEF Landed, Ready
<1>2. Ready => Landed
  BY DEF Landed, Ready, Pointers
<1> QED
  BY <1>1, <1>2 DEF Pointers, Landed, Latest

\* With the super block the entry becomes the last one, and the newest for its blocks.
LEMMA EntryIsPromised ==
  ASSUME Types, Changes, Picture, io.phase = "super", ~ Landed
  PROVE  \E Heads \in SUBSET Ring : Promised(Heads)
<1>1. Writing /\ Pointers
  BY DEF Picture
<1>2. /\ io.writes = <<>> /\ cache.changed # {} /\ super.end = io.position
      /\ disk.super.end = io.begin /\ Ready /\ Latest = cache.now /\ ghost.logged = cache.ended
  BY <1>1 DEF Writing, Pointers, Landed, Changes, Logging, Ready, Latest
<1>3. PICK Heads \in SUBSET Ring : Chain(Heads) /\ Live(Heads) /\ Logged(Heads)
  BY DEF Picture
<1>4. PICK h \in Ring : h = io.begin
  BY <1>2, <1>3 DEF Chain, ChainTo
<1>5. PICK s \in Ring : s = disk.super.start
  BY <1>3 DEF Chain, ChainTo
<1>6. PICK m \in Nat \ {0} : m = Len(NewRuns)
  BY <1>1, <1>2, <1>4, <1>5, NewEntry
<1>7. /\ Listed(h) = NewRuns /\ io.length = m + 1
      /\ From(h) + m + 1 < LogSize
      /\ super.end = Wrap(h + m + 1)
      /\ \A i \in 1 .. m : disk.area[Wrap(h + i)].data = cache.now[NewRuns[i]]
      /\ \A b \in Block : b \in cache.changed <=> Lists(h, b)
  <2>1. /\ Listed(h) = NewRuns /\ io.length = m + 1
        /\ From(h) + io.length < LogSize
        /\ super.end = Wrap(h + io.length)
        /\ \A i \in 1 .. m : disk.area[Wrap(h + i)].data = cache.now[NewRuns[i]]
        /\ \A b \in Block : b \in cache.changed <=> Lists(h, b)
    BY <1>1, <1>2, <1>4, <1>5, <1>6, NewEntry
  <2>2. h \in Nat /\ From(h) \in Nat
    BY <1>5, RingFacts, Sizes DEF Ring, From
  <2>3. h + (m + 1) = h + m + 1 /\ From(h) + (m + 1) = From(h) + m + 1
    BY <2>2
  <2> QED
    BY <2>1, <2>3
<1>8. PICK a \in Nat : a = From(h)
  BY <1>5, RingFacts, Sizes DEF Ring, From
<1>9. super.end \in Ring /\ From(super.end) = a + m + 1
  <2>1. PICK t \in Nat : t = m + 1
    OBVIOUS
  <2>2. h + t = h + m + 1 /\ a + t = a + m + 1
    BY <2>1, Sizes DEF Ring
  <2>3. a = Ahead(s, h) /\ a + t < LogSize
    BY <1>5, <1>7, <1>8, <2>2 DEF From
  <2>4. Wrap(h + t) \in Ring /\ Ahead(s, Wrap(h + t)) = a + t
    BY <2>3, AheadOfWrap
  <2> QED
    BY <1>5, <1>7, <2>2, <2>4 DEF From
<1> DEFINE New == Heads \cup {h}
<1>10. ASSUME NEW p \in Heads
       PROVE  /\ From(p) \in Nat /\ Len(Listed(p)) \in Nat \ {0} /\ From(p) + Len(Listed(p)) < a /\ From(p) < a
              /\ p # h
  <2>1. From(p) \in Nat /\ Len(Listed(p)) \in Nat \ {0} /\ From(p) < From(disk.super.end)
    BY <1>3, EntryIsInside, Sizes DEF Ring
  <2> QED
    BY <1>2, <1>3, <1>4, <1>8, <2>1 DEF Chain, ChainTo
<1>11. ChainTo(super.end, New)
  <2>1. New \subseteq Ring /\ disk.super.start \in Ring /\ super.end \in Ring
    BY <1>5, <1>9
  <2>2. disk.super.start # super.end => disk.super.start \in New
    BY <1>2, <1>3, <1>4 DEF Chain, ChainTo
  <2>3. ASSUME NEW p \in New
        PROVE  /\ Len(Listed(p)) > 0
               /\ From(p) + Len(Listed(p)) < From(super.end)
               /\ Wrap(p + 1 + Len(Listed(p))) \in New \cup {super.end}
    <3>1. CASE p = h
      <4>1. h \in Nat /\ h + 1 + m = h + m + 1 /\ a + m < a + m + 1
        BY Sizes DEF Ring
      <4> QED
        BY <1>6, <1>7, <1>8, <1>9, <3>1, <4>1
    <3>2. CASE p \in Heads
      <4>1. Wrap(p + 1 + Len(Listed(p))) \in Heads \cup {disk.super.end}
        BY <1>3, <3>2 DEF Chain, ChainTo
      <4>2. Len(Listed(p)) > 0 /\ From(p) + Len(Listed(p)) < a + m + 1
        BY <1>10, <3>2
      <4> QED
        BY <1>2, <1>4, <1>9, <4>1, <4>2
    <3> QED
      BY <3>1, <3>2
  <2>4. ASSUME NEW p \in New, NEW r \in New, From(p) < From(r)
        PROVE  From(p) + Len(Listed(p)) < From(r)
    <3>1. CASE p = h
      BY <1>8, <1>10, <2>4, <3>1
    <3>2. CASE p \in Heads /\ r = h
      BY <1>8, <1>10, <3>2
    <3>3. CASE p \in Heads /\ r \in Heads
      BY <1>3, <2>4, <3>3 DEF Chain, ChainTo
    <3> QED
      BY <3>1, <3>2, <3>3
  <2> HIDE DEF New
  <2> QED
    BY <2>1, <2>2, <2>3, <2>4 DEF ChainTo
<1>12. LiveIf(Ready, New)
  <2>1. \A k \in 1 .. Len(journal.entries) : journal.entries[k].start \in Heads
    BY <1>3 DEF Live, LiveIf
  <2>2. \A k, l \in 1 .. Len(journal.entries) : k < l => From(journal.entries[k].start) < From(journal.entries[l].start)
    BY <1>3 DEF Live, LiveIf
  <2>3. \A p \in New : From(p) <= From(io.begin)
    BY <1>4, <1>8, <1>10
  <2>4. \A k \in 1 .. Len(journal.entries) : journal.entries[k].start \in New /\ journal.entries[k].start # io.begin
    BY <1>4, <1>10, <2>1
  <2>5. io.begin \in New /\ \A b \in Block : b \in cache.changed <=> Lists(io.begin, b)
    BY <1>4, <1>7
  <2> HIDE DEF New
  <2> QED
    BY <2>2, <2>3, <2>4, <2>5 DEF LiveIf
<1>13. LoggedIf(Ready, Latest, New)
  <2>1. \A b \in Block \ cache.changed : ghost.logged[b] = cache.now[b]
    BY <1>2 DEF Changes
  <2>2. ASSUME NEW p \in New, NEW b \in Block, Newest(New, p, b)
        PROVE  /\ \A i \in 1 .. Len(Listed(p)) : Listed(p)[i] = b => disk.area[Wrap(p + i)].data = cache.now[b]
               /\ disk.area[Home(b)].data = cache.now[b] \/ WaitsIf(Ready, p, b)
    <3>1. CASE b \in cache.changed
      <4>1. Lists(h, b) /\ From(h) <= From(p)
        BY <1>7, <2>2, <3>1 DEF Newest
      <4>2. p = h
        BY <1>8, <1>10, <4>1
      <4>3. WaitsIf(Ready, h, b)
        BY <1>2, <1>4 DEF WaitsIf
      <4> QED
        BY <1>6, <1>7, <4>2, <4>3
    <3>2. CASE b \notin cache.changed
      <4>1. p \in Heads /\ Newest(Heads, p, b)
        BY <1>7, <2>2, <3>2 DEF Newest
      <4>2. /\ \A i \in 1 .. Len(Listed(p)) : Listed(p)[i] = b => disk.area[Wrap(p + i)].data = ghost.logged[b]
            /\ disk.area[Home(b)].data = ghost.logged[b] \/ WaitsIf(Landed, p, b)
        BY <1>3, <4>1 DEF Logged, LoggedIf
      <4>3. WaitsIf(Landed, p, b) => WaitsIf(Ready, p, b)
        BY DEF WaitsIf
      <4> QED
        BY <2>1, <3>2, <4>2, <4>3
    <3> QED
      BY <3>1, <3>2
  <2>3. ASSUME NEW b \in Block, \A p \in New : ~ Lists(p, b)
        PROVE  disk.area[Home(b)].data = cache.now[b]
    <3>1. b \notin cache.changed /\ \A p \in Heads : ~ Lists(p, b)
      BY <1>7, <2>3
    <3> QED
      BY <1>3, <2>1, <3>1 DEF Logged, LoggedIf
  <2>4. \A b \in Block : cache.pending[b] = 0 => disk.area[Home(b)].data = cache.ended[b]
    BY <1>3 DEF Logged, LoggedIf
  <2> HIDE DEF New
  <2> QED
    BY <1>2, <2>2, <2>3, <2>4 DEF LoggedIf
<1>14. New \in SUBSET Ring
  OBVIOUS
<1> QED
  BY <1>11, <1>12, <1>13, <1>14 DEF Promised

\* The log as it would be with the super block that is in memory.
LEMMA LogIsPromised ==
  ASSUME Types, Changes, Picture
  PROVE  \E Heads \in SUBSET Ring : Promised(Heads)
<1>1. CASE io.phase = "super" /\ ~ Landed
  BY <1>1, EntryIsPromised
<1>2. CASE ~ (io.phase = "super" /\ ~ Landed)
  <2>1. PICK Heads \in SUBSET Ring : Chain(Heads) /\ Live(Heads) /\ Logged(Heads)
    BY DEF Picture
  <2>2. (Landed <=> Ready) /\ super.end = disk.super.end /\ ghost.logged = Latest
    BY <1>2, PromisedAlready DEF Picture
  <2>3. ChainTo(super.end, Heads)
    BY <2>1, <2>2 DEF Chain
  <2>4. LiveIf(Ready, Heads)
    BY <2>1, <2>2 DEF Live, LiveIf
  <2>5. \A p, b : WaitsIf(Landed, p, b) <=> WaitsIf(Ready, p, b)
    BY <2>2 DEF WaitsIf
  <2>6. LoggedIf(Ready, Latest, Heads)
    BY <2>1, <2>2, <2>5 DEF Logged, LoggedIf
  <2> QED
    BY <2>3, <2>4, <2>6 DEF Promised
<1> QED
  BY <1>1, <1>2

\* Where the log begins by the super block in memory.
LEMMA BeginningIs ==
  ASSUME Types, Entries, Pointers, NEW Heads, Promised(Heads)
  PROVE  /\ super.start \in Heads \cup {super.end} /\ super.start \in Ring
         /\ journal.entries # <<>> \/ Ready => super.start \in Heads /\ super.start # super.end
         /\ \A k \in 1 .. Len(journal.entries) : From(super.start) <= From(journal.entries[k].start)
         /\ Ready => From(super.start) <= From(io.begin)
<1>1. PICK e \in Seq(LogEntry) : e = journal.entries
  BY EntriesAre
<1>2. PICK n \in Nat : n = Len(e)
  BY <1>1
<1>3. /\ \A k \in 1 .. n : e[k].start \in Heads
      /\ \A k, l \in 1 .. n : k < l => From(e[k].start) < From(e[l].start)
      /\ Ready => io.begin \in Heads /\ \A p \in Heads : From(p) <= From(io.begin)
  BY <1>1, <1>2 DEF Promised, LiveIf
<1>4. \A p \in Heads : p \in Ring /\ From(p) \in Nat /\ From(p) < From(super.end)
  BY HeadIsInside DEF Promised
<1>5. \A p \in Heads : p # super.end
  BY <1>4
<1>6. super.end \in Ring
  BY DEF Promised, ChainTo
<1>7. CASE e = <<>>
  <2>1. n = 0
    BY <1>2, <1>7
  <2>2. CASE Ready
    <3>1. io.phase \in {"super", "add"}
      BY <1>1, <1>7, <2>2 DEF Entries, Ready
    <3>2. super.start = io.begin
      BY <1>1, <1>7, <3>1 DEF Pointers
    <3> QED
      BY <1>1, <1>2, <1>3, <1>4, <1>5, <2>1, <2>2, <3>2
  <2>3. CASE ~ Ready
    <3>1. super.start = super.end
      BY <1>1, <1>7, <2>3 DEF Pointers, Ready
    <3> QED
      BY <1>1, <1>2, <1>6, <1>7, <2>1, <2>3, <3>1
  <2> QED
    BY <2>2, <2>3
<1>8. CASE e # <<>>
  <2>1. 1 \in 1 .. n
    BY <1>1, <1>2, <1>8
  <2>2. super.start = e[1].start /\ e[1].start \in Heads
    BY <1>1, <1>3, <1>8, <2>1 DEF Pointers
  <2>3. ASSUME NEW k \in 1 .. n
        PROVE  From(e[1].start) <= From(e[k].start)
    <3>1. CASE k = 1
      BY <1>3, <1>4, <2>1, <3>1
    <3>2. CASE k # 1
      <4>1. From(e[1].start) < From(e[k].start)
        BY <1>3, <2>1, <3>2
      <4> QED
        BY <1>3, <1>4, <2>1, <4>1
    <3> QED
      BY <3>1, <3>2
  <2> QED
    BY <1>1, <1>2, <1>3, <1>4, <1>5, <2>2, <2>3
<1> QED
  BY <1>7, <1>8

\* The super block of the memory comes to the disk.
SuperLands ==
  /\ disk'.area = disk.area /\ disk'.super = super'
  /\ super'.start = super.start /\ super'.end = super.end
  /\ UNCHANGED <<cache, journal>>
  /\ io'.phase = io.phase \/ (io.phase = "super" /\ io'.phase = "add")
  /\ io'.begin = io.begin /\ io'.position = io.position
  /\ ghost'.logged = Latest

\* Then the log has its new end, and its new beginning: the entries before that are all
\* at their places, and no block needs them.
LEMMA SuperWritten ==
  ASSUME Types, Entries, Pointers, NEW Heads \in SUBSET Ring, Promised(Heads), SuperLands
  PROVE  /\ \E New \in SUBSET Ring : Chain(New)' /\ Live(New)' /\ Logged(New)'
         /\ Landed' <=> Ready
         /\ super.start \in Ring /\ super.end \in Ring
         /\ \A p \in Ring : From(p) >= From(super.start) => From(p)' <= From(p)
<1>1. /\ disk'.area = disk.area /\ disk'.super.start = super.start /\ disk'.super.end = super.end
      /\ UNCHANGED <<cache, journal>>
      /\ io'.begin = io.begin /\ io'.position = io.position
      /\ ghost'.logged = Latest
      /\ io'.phase = "end" <=> io.phase = "end"
      /\ io'.phase \in {"super", "add", "end"} <=> Ready
  BY DEF SuperLands, Ready
<1>2. Landed' <=> Ready
  <2>1. Ready => super.end = io.position
    BY DEF Pointers, Ready
  <2> QED
    BY <1>1, <2>1 DEF Landed
<1>3. /\ super.start \in Heads \cup {super.end} /\ super.start \in Ring
      /\ journal.entries # <<>> \/ Ready => super.start \in Heads /\ super.start # super.end
      /\ \A k \in 1 .. Len(journal.entries) : From(super.start) <= From(journal.entries[k].start)
      /\ Ready => From(super.start) <= From(io.begin)
  BY BeginningIs
<1>4. ChainTo(super.end, Heads) /\ LiveIf(Ready, Heads) /\ LoggedIf(Ready, Latest, Heads)
  BY DEF Promised
<1>5. PICK e \in Seq(LogEntry) : e = journal.entries
  BY EntriesAre
<1>6. PICK n \in Nat : n = Len(e)
  BY <1>5
<1>7. PICK s \in Ring : s = disk.super.start
  BY <1>4 DEF ChainTo
<1>8. PICK h \in Ring : h = super.end
  BY <1>4 DEF ChainTo
<1>9. PICK z \in Nat : z = From(h) /\ z < LogSize
  <2>1. Ahead(s, h) \in Ring
    BY RingFacts
  <2>2. \A x \in Ring : x \in Nat /\ x < LogSize
    BY Sizes DEF Ring
  <2> QED
    BY <1>7, <2>1, <2>2 DEF From
<1>10. ASSUME NEW p \in Heads
       PROVE  /\ p \in Ring /\ From(p) \in Nat /\ Len(Listed(p)) \in Nat \ {0}
              /\ From(p) + Len(Listed(p)) < z /\ From(p) < z
  BY <1>4, <1>8, <1>9, HeadIsInside
<1>11. PICK t \in Ring : t = super.start
  BY <1>3
<1>12. PICK a \in Nat : a = From(t) /\ a <= z
  <2>1. From(t) \in Nat /\ From(t) <= z
    BY <1>3, <1>8, <1>9, <1>10, <1>11
  <2> QED
    BY <2>1
<1>13. ASSUME NEW p \in Ring, From(p) >= a
       PROVE  Ahead(t, p) = From(p) - a /\ From(p) \in Nat
  <2>1. Ahead(s, t) <= Ahead(s, p) /\ Ahead(s, t) \in Nat /\ Ahead(s, p) \in Nat
    BY <1>7, <1>12, <1>13, RingFacts, Sizes DEF From, Ring
  <2> QED
    BY <1>7, <1>12, <2>1, LaterBeginning DEF From
<1>14. Ahead(t, h) = z - a
  BY <1>9, <1>12, <1>13
<1>15. PICK New \in SUBSET Ring : \A p : p \in New <=> p \in Heads /\ From(p) >= a
  <2>1. {p \in Heads : From(p) >= a} \in SUBSET Ring
    BY <1>10
  <2> QED
    BY <2>1
<1>16. ASSUME NEW p \in New
       PROVE  p \in Heads /\ p \in Ring /\ Ahead(t, p) = From(p) - a /\ Ahead(t, p) \in Nat /\ From(p) \in Nat
  <2>1. p \in Heads /\ p \in Ring /\ From(p) >= a /\ From(p) \in Nat
    BY <1>10, <1>15
  <2> QED
    BY <1>12, <1>13, <2>1
<1>17. /\ \A p : From(p)' = Ahead(t, p)
       /\ \A p : Listed(p)' = Listed(p)
       /\ \A p, b : Lists(p, b)' <=> Lists(p, b)
  BY <1>1, <1>11 DEF From, Listed, Lists
<1>18. Chain(New)'
  <2>1. New \subseteq Ring /\ t \in Ring /\ h \in Ring
    OBVIOUS
  <2>2. t # h => t \in New
    BY <1>3, <1>8, <1>11, <1>12, <1>15
  <2>3. ASSUME NEW p \in New
        PROVE  /\ Len(Listed(p)) > 0
               /\ Ahead(t, p) + Len(Listed(p)) < Ahead(t, h)
               /\ Wrap(p + 1 + Len(Listed(p))) \in New \cup {h}
    <3>1. PICK l \in Nat \ {0} : l = Len(Listed(p)) /\ From(p) + l < z
      BY <1>10, <1>16
    <3>2. Ahead(t, p) + l < Ahead(t, h)
      BY <1>12, <1>14, <1>16, <3>1
    <3>3. Wrap(p + 1 + l) \in Heads \cup {h}
      BY <1>4, <1>8, <1>16, <3>1 DEF ChainTo
    <3>4. ASSUME Wrap(p + 1 + l) \in Heads
          PROVE  From(Wrap(p + 1 + l)) >= a
      <4>1. PICK x \in Nat : x = l + 1 /\ p + x = p + 1 + l
        <5>1. p \in Nat
          BY <1>16, Sizes DEF Ring
        <5> QED
          BY <5>1
      <4>2. PICK y \in Nat : y = From(p) /\ y >= a
        BY <1>15, <1>16
      <4>3. y + x < LogSize
        BY <1>9, <3>1, <4>1, <4>2, Sizes
      <4>4. y = Ahead(s, p) /\ p \in Ring
        BY <1>7, <1>16, <4>2 DEF From
      <4>5. Ahead(s, Wrap(p + x)) = y + x
        BY <4>3, <4>4, AheadOfWrap
      <4>6. From(Wrap(p + 1 + l)) = y + x
        BY <1>7, <4>1, <4>5 DEF From
      <4> QED
        BY <4>1, <4>2, <4>6
    <3> QED
      BY <1>15, <3>1, <3>2, <3>3, <3>4
  <2>4. ASSUME NEW p \in New, NEW r \in New, Ahead(t, p) < Ahead(t, r)
        PROVE  Ahead(t, p) + Len(Listed(p)) < Ahead(t, r)
    <3>1. From(p) < From(r)
      BY <1>12, <1>16, <2>4
    <3>2. From(p) + Len(Listed(p)) < From(r)
      BY <1>4, <1>16, <3>1 DEF ChainTo
    <3> QED
      BY <1>10, <1>12, <1>16, <3>2
  <2>5. disk'.super.start = t /\ disk'.super.end = h
    BY <1>1, <1>8, <1>11
  <2>6. ChainTo(h, New)'
    BY <1>17, <2>1, <2>2, <2>3, <2>4, <2>5 DEF ChainTo, Ring
  <2> QED
    BY <2>5, <2>6 DEF Chain, ChainTo
<1>19. \A k \in 1 .. n : e[k].start \in New
  BY <1>3, <1>4, <1>5, <1>6, <1>10, <1>11, <1>12, <1>15 DEF LiveIf
<1>20. Ready => /\ io.begin \in New
                /\ \A p \in New : Ahead(t, p) <= Ahead(t, io.begin)
  <2> SUFFICES ASSUME Ready
               PROVE  /\ io.begin \in New
                      /\ \A p \in New : Ahead(t, p) <= Ahead(t, io.begin)
    OBVIOUS
  <2>1. io.begin \in Heads /\ \A p \in Heads : From(p) <= From(io.begin)
    BY <1>4 DEF LiveIf
  <2>2. io.begin \in New
    BY <1>3, <1>10, <1>11, <1>12, <1>15, <2>1
  <2>3. ASSUME NEW p \in New
        PROVE  Ahead(t, p) <= Ahead(t, io.begin)
    <3>1. From(p) <= From(io.begin)
      BY <1>16, <2>1
    <3> QED
      BY <1>12, <1>16, <2>2, <3>1
  <2> QED
    BY <2>2, <2>3
<1>21. Live(New)'
  <2>1. ASSUME NEW k \in 1 .. n, NEW l \in 1 .. n, k < l
        PROVE  Ahead(t, e[k].start) < Ahead(t, e[l].start)
    <3>1. From(e[k].start) < From(e[l].start)
      BY <1>4, <1>5, <1>6, <2>1 DEF LiveIf
    <3> QED
      BY <1>12, <1>16, <1>19, <3>1
  <2>2. /\ Ready => /\ \A b \in Block : b \in cache.changed <=> Lists(io.begin, b)
                    /\ io.phase # "end" => \A k \in 1 .. n : e[k].start # io.begin
        /\ io.phase = "end" => e[n].start = io.begin
    BY <1>4, <1>5, <1>6 DEF LiveIf
  <2>3. journal'.entries = e /\ Len(journal'.entries) = n /\ cache' = cache
    BY <1>1, <1>5, <1>6
  <2>4. \A k \in 1 .. n : e[k].start \in New
    BY <1>19
  <2> QED
    BY ONLY <1>1, <1>2, <1>17, <1>20, <2>1, <2>2, <2>3, <2>4 DEF Live, LiveIf
<1>22. \A p, b : WaitsIf(Landed, p, b)' <=> WaitsIf(Ready, p, b)
  BY <1>1, <1>2 DEF WaitsIf
<1>23. ASSUME NEW p, NEW b, WaitsIf(Ready, p, b)
       PROVE  p \in New
  BY <1>5, <1>6, <1>19, <1>20, <1>23 DEF WaitsIf
<1>24. ASSUME NEW p \in New, NEW b \in Block, Newest(New, p, b)'
       PROVE  Newest(Heads, p, b)
  <2>1. p \in Heads /\ Lists(p, b)
    BY <1>16, <1>17, <1>24 DEF Newest
  <2>2. ASSUME NEW r \in Heads, Lists(r, b)
        PROVE  From(r) <= From(p)
    <3>1. From(r) \in Nat /\ From(p) \in Nat /\ From(p) >= a
      BY <1>10, <1>15, <2>1
    <3>2. CASE r \in New
      <4>1. Ahead(t, r) <= Ahead(t, p)
        BY <1>17, <1>24, <2>2, <3>2 DEF Newest
      <4>2. Ahead(t, r) = From(r) - a /\ Ahead(t, p) = From(p) - a
        BY <1>16, <3>2
      <4> QED
        BY <1>12, <3>1, <4>1, <4>2
    <3>3. CASE r \notin New
      <4>1. ~ (From(r) >= a)
        BY <1>15, <3>3
      <4> QED
        BY <1>12, <3>1, <4>1
    <3> QED
      BY <3>2, <3>3
  <2> QED
    BY <2>1, <2>2 DEF Newest
\* A block that only older entries list is at its place.
<1>25. ASSUME NEW b \in Block, \A p \in New : ~ Lists(p, b)
       PROVE  disk.area[Home(b)].data = Latest[b]
  <2>1. CASE \A p \in Heads : ~ Lists(p, b)
    BY <1>4, <2>1 DEF LoggedIf
  <2>2. CASE \E p \in Heads : Lists(p, b)
    <3>1. PICK p \in Heads : Newest(Heads, p, b)
      BY <1>4, <2>2, NewestExists
    <3>2. ~ WaitsIf(Ready, p, b)
      BY <1>23, <1>25, <3>1 DEF Newest
    <3> QED
      BY <1>4, <3>1, <3>2 DEF LoggedIf
  <2> QED
    BY <2>1, <2>2
<1>26. Logged(New)'
  <2>1. ASSUME NEW p \in New, NEW b \in Block, Newest(New, p, b)'
        PROVE  /\ \A i \in 1 .. Len(Listed(p)) : Listed(p)[i] = b => disk.area[Wrap(p + i)].data = Latest[b]
               /\ disk.area[Home(b)].data = Latest[b] \/ WaitsIf(Landed, p, b)'
    <3>1. Newest(Heads, p, b) /\ p \in Heads
      BY <1>16, <1>24, <2>1
    <3> QED
      BY <1>4, <1>22, <3>1 DEF LoggedIf
  <2>2. \A b \in Block : cache.pending[b] = 0 => disk.area[Home(b)].data = cache.ended[b]
    BY <1>4 DEF LoggedIf
  <2> QED
    BY <1>1, <1>17, <1>25, <2>1, <2>2 DEF Logged, LoggedIf
<1>27. ASSUME NEW p \in Ring, From(p) >= From(super.start)
       PROVE  From(p)' <= From(p)
  <2>1. From(p) >= a
    BY <1>11, <1>12, <1>27
  <2>2. Ahead(t, p) = From(p) - a /\ From(p) \in Nat
    BY <1>13, <2>1
  <2> QED
    BY <1>12, <1>17, <2>2
<1>28. super.start \in Ring /\ super.end \in Ring
  BY <1>8, <1>11
<1> QED
  BY <1>2, <1>18, <1>21, <1>26, <1>27, <1>28

\* The super block is written with the new end of the log.
LEMMA WriteSuperKeepsLog ==
  ASSUME Types, Changes, Entries, UsedIsSum, LogInv, WriteSuper
  PROVE  Types' /\ Changes' /\ Entries' /\ UsedIsSum' /\ LogInv'
<1>1. /\ io.phase = "super" /\ io' = [io EXCEPT !.phase = "add"]
      /\ UNCHANGED <<super, cache, journal, notify>>
  BY DEF WriteSuper
<1>2. PICK done \in BOOLEAN : WriteSuperBlock(super, done, done)
  BY LogAssumption DEF WriteSuper
<1>3. io \in Io
  BY <1>1, PhaseFacts DEF Resting, Logging
<1>4. io' \in Io /\ io'.phase = "add" /\ io'.begin = io.begin /\ io'.position = io.position
  BY <1>1, <1>3 DEF Io
<1>5. /\ disk' = IF done THEN [disk EXCEPT !.super = super] ELSE disk
      /\ ghost' = [ghost EXCEPT !.logged = IF done THEN cache.now ELSE ghost.logged,
                                !.whole = ghost.whole /\ done]
  BY <1>1, <1>2 DEF WriteSuperBlock
<1>6. /\ disk' \in [area : [Area -> DiskBlock], super : SuperBlock] /\ disk'.area = disk.area
      /\ done => disk'.super = super'
  BY <1>1, <1>5 DEF Types
<1>7. PICK logged \in Contents : logged = IF done THEN cache.now ELSE ghost.logged
  BY DEF Types, Cache
<1>8. PICK whole \in BOOLEAN : whole = (ghost.whole /\ done)
  OBVIOUS
<1>9. /\ ghost' \in [logged : Contents, before : Contents, whole : BOOLEAN]
      /\ ghost'.whole => ghost.whole /\ done
      /\ done => ghost'.logged = cache.now
  <2>1. ghost' = [ghost EXCEPT !.logged = logged, !.whole = whole]
    BY <1>5, <1>7, <1>8
  <2> QED
    BY <1>7, <1>8, <2>1 DEF Types
<1>10. Types'
  BY <1>1, <1>4, <1>6, <1>9 DEF Types
<1>11. Changes' /\ UsedIsSum'
  BY <1>1, <1>4 DEF Changes, UsedIsSum, Logging
<1>12. Entries'
  BY <1>1, <1>4 DEF Entries, Notifies
<1>13. ASSUME ghost'.whole
       PROVE  Picture'
  <2>1. Picture /\ Pointers /\ done
    BY <1>9, <1>13 DEF LogInv, Picture
  <2>2. PICK Heads \in SUBSET Ring : Promised(Heads)
    BY <2>1, LogIsPromised
  <2>3. SuperLands
    BY <1>1, <1>4, <1>6, <1>9, <2>1 DEF SuperLands, Latest, Ready
  <2>4. (Landed' <=> Ready) /\ \E New \in SUBSET Ring : Chain(New)' /\ Live(New)' /\ Logged(New)'
    BY <2>1, <2>2, <2>3, SuperWritten
  <2>5. Ready /\ Landed'
    BY <1>1, <2>4 DEF Ready
  <2>6. Pointers'
    <3>1. super.end = io.position /\ disk'.super = super
      BY <1>1, <1>6, <2>1 DEF Pointers
    <3>2. ~ super.dirty => super.start = super.end
      BY <2>1 DEF Pointers
    <3>3. journal.entries = <<>> => super.start = io.begin
      BY <1>1, <2>1 DEF Pointers
    <3>4. journal.entries # <<>> => super.start = journal.entries[1].start
      BY <2>1 DEF Pointers
    <3>5. super.dirty
      BY <1>1, <2>1 DEF Pointers
    <3> QED
      BY <1>1, <1>4, <1>9, <2>1, <2>5, <3>1, <3>2, <3>3, <3>4, <3>5 DEF Pointers
  <2>7. Writing'
    BY <2>5 DEF Writing
  <2> QED
    BY <2>4, <2>6, <2>7 DEF Picture, Ring
<1> QED
  BY <1>10, <1>11, <1>12, <1>13 DEF LogInv

\* The super block is written with the new beginning of the log.
LEMMA NotifyEndsKeepsLog ==
  ASSUME Types, Changes, Entries, UsedIsSum, LogInv, NotifyEnds
  PROVE  Types' /\ Changes' /\ Entries' /\ UsedIsSum' /\ LogInv'
<1>1. notify.phase = "super" /\ notify' = NoNotify /\ UNCHANGED <<cache, journal, io>>
  BY DEF NotifyEnds
<1>2. PICK clean \in BOOLEAN, done \in BOOLEAN :
         /\ super' = [super EXCEPT !.dirty = super.dirty /\ ~ clean]
         /\ WriteSuperBlock(super', done, clean => super.start = super.end)
  <2>1. notify.clean \in BOOLEAN
    BY <1>1 DEF Types, NoNotify
  <2> QED
    BY <2>1, LogAssumption DEF NotifyEnds
<1>3. /\ super' \in SuperBlock /\ super'.start = super.start /\ super'.end = super.end
      /\ super'.dirty <=> super.dirty /\ ~ clean
  <2>1. PICK dirty \in BOOLEAN : dirty = (super.dirty /\ ~ clean)
    OBVIOUS
  <2>2. super' = [super EXCEPT !.dirty = dirty]
    BY <1>2, <2>1
  <2> QED
    BY <2>1, <2>2 DEF Types, SuperBlock
<1>4. PICK sb \in SuperBlock : sb = super'
  BY <1>3
<1>5. /\ disk' = IF done THEN [disk EXCEPT !.super = sb] ELSE disk
      /\ ghost' = [ghost EXCEPT !.logged = IF done /\ io.phase = "super" THEN cache.now ELSE ghost.logged,
                                !.whole = ghost.whole /\ (clean => super.start = super.end)]
  BY <1>2, <1>4 DEF WriteSuperBlock
<1>6. /\ disk' \in [area : [Area -> DiskBlock], super : SuperBlock] /\ disk'.area = disk.area
      /\ done => disk'.super = super'
  BY <1>4, <1>5 DEF Types
<1>7. PICK logged \in Contents : logged = IF done /\ io.phase = "super" THEN cache.now ELSE ghost.logged
  BY DEF Types, Cache
<1>8. PICK whole \in BOOLEAN : whole = (ghost.whole /\ (clean => super.start = super.end))
  OBVIOUS
<1>9. /\ ghost' \in [logged : Contents, before : Contents, whole : BOOLEAN]
      /\ ghost'.whole => ghost.whole /\ (clean => super.start = super.end)
      /\ ghost'.logged = logged
  <2>1. ghost' = [ghost EXCEPT !.logged = logged, !.whole = whole]
    BY <1>5, <1>7, <1>8
  <2> QED
    BY <1>7, <1>8, <2>1 DEF Types
<1>10. Types'
  BY <1>1, <1>3, <1>6, <1>9 DEF Types
<1>11. Changes' /\ UsedIsSum'
  BY <1>1 DEF Changes, UsedIsSum, Logging
<1>12. ~ Notifies(journal.written) /\ \A id : ~ Notifies(id) /\ ~ Notifies(id)'
  BY <1>1 DEF Notifies, NoNotify
<1>13. Entries'
  BY <1>1, <1>12 DEF Entries, NoNotify
<1>14. ASSUME ghost'.whole
       PROVE  Picture'
  <2>1. Picture /\ Pointers /\ Writing
    BY <1>9, <1>14 DEF LogInv, Picture
  <2>2. PICK Heads \in SUBSET Ring : Promised(Heads)
    BY <2>1, LogIsPromised
  <2>3. ~ super'.dirty => super.start = super.end /\ journal.entries = <<>> /\ io.phase \notin {"super", "add"}
    <3>1. CASE ~ super.dirty
      BY <2>1, <3>1 DEF Pointers
    <3>2. CASE clean
      <4>1. super.start = super.end
        BY <1>9, <1>14, <3>2
      <4>2. ~ (journal.entries # <<>> \/ Ready)
        BY <2>1, <2>2, <4>1, BeginningIs
      <4> QED
        BY <4>1, <4>2 DEF Ready
    <3> QED
      BY <1>3, <3>1, <3>2
  <2>4. CASE done
    <3>1. ghost'.logged = Latest
      <4>1. CASE io.phase = "super"
        BY <1>7, <1>9, <2>4, <4>1 DEF Latest, Ready
      <4>2. CASE io.phase # "super"
        BY <1>7, <1>9, <2>1, <4>2, PromisedAlready
      <4> QED
        BY <4>1, <4>2
    <3>2. SuperLands
      BY <1>1, <1>3, <1>6, <2>4, <3>1 DEF SuperLands
    <3>3. /\ Landed' <=> Ready
          /\ \E New \in SUBSET Ring : Chain(New)' /\ Live(New)' /\ Logged(New)'
          /\ super.start \in Ring /\ super.end \in Ring
          /\ \A p \in Ring : From(p) >= From(super.start) => From(p)' <= From(p)
      BY <2>1, <2>2, <3>2, SuperWritten
    <3>4. disk'.super.start = super.start /\ disk'.super.end = super.end /\ disk'.super.dirty = super'.dirty
      BY <1>3, <1>6, <2>4
    <3>5. Pointers'
      <4>1. Ready' <=> Ready
        BY <1>1 DEF Ready
      <4>2. io.phase \in {"super", "add", "end"} => super.end = io.position
        BY <2>1 DEF Pointers
      <4>3. /\ io.phase = "log" => super.end = io.begin
            /\ io.phase = "super" => io.begin # io.position
            /\ journal.entries = <<>> => super.start = IF io.phase \in {"super", "add"} THEN io.begin ELSE super.end
            /\ journal.entries # <<>> => super.start = journal.entries[1].start
        BY <2>1 DEF Pointers
      <4>4. ghost'.logged = IF Landed' THEN cache'.now ELSE cache'.ended
        BY <1>1, <3>1, <3>3 DEF Latest
      <4> QED
        BY <1>1, <1>3, <2>3, <3>4, <4>2, <4>3, <4>4 DEF Pointers
    <3>6. Writing'
      <4> SUFFICES ASSUME io'.phase \in {"log", "super"}, ~ Landed' PROVE Writing'
        BY DEF Writing
      <4>1. io.phase = "log" /\ ~ Landed /\ io.begin = super.end
        BY <1>1, <2>1, <3>3 DEF Ready, Landed, Pointers
      <4>2. From(io.begin) >= From(super.start)
        <5>1. super.start = super.end \/ super.start \in Heads
          BY <2>1, <2>2, BeginningIs
        <5>2. \A p \in Heads : From(p) \in Nat /\ From(super.end) \in Nat /\ From(p) < From(super.end)
          BY <2>2, HeadIsInside DEF Promised
        <5>3. From(super.end) \in Nat
          <6>1. PICK s \in Ring : s = disk.super.start
            BY <2>2 DEF Promised, ChainTo
          <6>2. Ahead(s, super.end) \in Ring
            BY <3>3, RingFacts
          <6> QED
            BY <6>1, <6>2, Sizes DEF From, Ring
        <5> QED
          BY <4>1, <5>1, <5>2, <5>3
      <4>3. From(io.begin)' <= From(io.begin)
        BY <1>1, <3>3, <4>1, <4>2
      <4>4. PICK length \in Nat : length = io.length
        BY <4>1, PhaseFacts DEF Resting, Logging, Io
      <4>5. From(io.begin)' + length < LogSize
        <5>1. From(io.begin) + length < LogSize
          BY <2>1, <4>1, <4>4 DEF Writing
        <5>2. From(io.begin)' \in Nat /\ From(io.begin) \in Nat
          <6>1. PICK s \in Ring : s = disk.super.start
            BY <2>2 DEF Promised, ChainTo
          <6>2. PICK t \in Ring : t = disk'.super.start
            BY <3>3, <3>4
          <6>3. Ahead(s, io.begin) \in Ring /\ Ahead(t, io.begin) \in Ring
            BY <3>3, <4>1, RingFacts
          <6> QED
            BY <1>1, <6>1, <6>2, <6>3, Sizes DEF From, Ring
        <5> QED
          BY <4>3, <5>1, <5>2, Sizes
      <4>6. NewRuns' = NewRuns
        BY <1>1 DEF NewRuns
      <4>7. /\ io.length = Len(NewRuns) + 1
            /\ io.position = Wrap(io.begin + io.length)
            /\ \A i \in 1 .. Len(io.writes) : \A k \in 1 .. Len(io.writes[i].vecs) :
                 LET p == io.writes[i].at + k - 1
                 IN  /\ p \in Ring /\ Ahead(io.begin, p) < io.length
                     /\ io.writes[i].vecs[k] = EntryBlock(cache.changed, cache.now, Ahead(io.begin, p))
            /\ \A p \in Ring : Ahead(io.begin, p) < io.length =>
                 \/ disk'.area[p] = EntryBlock(cache.changed, cache.now, Ahead(io.begin, p))
                 \/ \E i \in 1 .. Len(io.writes) : p - io.writes[i].at \in 0 .. Len(io.writes[i].vecs) - 1
        BY <1>6, <2>1, <4>1 DEF Writing
      <4>8. From(io.begin)' + io.length < LogSize /\ io' = io /\ cache' = cache
        BY <1>1, <4>4, <4>5
      <4> QED
        BY <4>1, <4>6, <4>7, <4>8 DEF Writing, Ring
    <3> QED
      BY <3>3, <3>5, <3>6 DEF Picture, Ring
  <2>5. CASE ~ done
    <3>1. disk' = disk /\ ghost'.logged = ghost.logged
      BY <1>5, <1>7, <1>9, <2>5
    <3>2. (Landed' <=> Landed) /\ NewRuns' = NewRuns
      BY <1>1, <3>1 DEF Landed, NewRuns
    <3>3. Pointers'
      BY <1>1, <1>3, <2>1, <2>3, <3>1, <3>2 DEF Pointers
    <3>4. Writing'
      BY <1>1, <2>1, <3>1, <3>2 DEF Writing, From, Ring
    <3>5. PICK H \in SUBSET Ring : Chain(H) /\ Live(H) /\ Logged(H)
      BY <2>1 DEF Picture
    <3>6. /\ \A p : From(p)' = From(p)
          /\ \A p : Listed(p)' = Listed(p)
          /\ \A p, b : Lists(p, b)' <=> Lists(p, b)
          /\ \A p, b : Newest(H, p, b)' <=> Newest(H, p, b)
          /\ \A p, b : WaitsIf(Landed, p, b)' <=> WaitsIf(Landed, p, b)
      BY <1>1, <3>1, <3>2 DEF From, Listed, Lists, Newest, WaitsIf
    <3>7. Chain(H)'
      BY <3>1, <3>5, <3>6 DEF Chain, ChainTo, Ring, From, Listed
    <3>8. Live(H)'
      BY <1>1, <3>2, <3>5, <3>6 DEF Live, LiveIf, From
    <3>9. Logged(H)'
      BY <1>1, <3>1, <3>5, <3>6 DEF Logged, LoggedIf, Home, Ring
    <3>10. \E New \in SUBSET Ring : Chain(New)' /\ Live(New)' /\ Logged(New)'
      BY <3>7, <3>8, <3>9
    <3> QED
      BY <3>3, <3>4, <3>10 DEF Picture, Ring
  <2> QED
    BY <2>4, <2>5
<1> QED
  BY <1>10, <1>11, <1>13, <1>14 DEF LogInv

\* The end of an entry keeps the types, the entries and their sum.
LEMMA LogEndsSteps ==
  ASSUME Undoable, Types, Changes, Entries, UsedIsSum, LogInv, LogEnds
  PROVE  Types' /\ Changes' /\ Entries' /\ UsedIsSum' /\ LogInv'
<1>1. /\ io.phase = "end"
      /\ \A b \in cache.changed : cache.pending[b] = 0
      /\ cache' = EndTransaction(journal.written)
      /\ io' = [phase |-> "flush"] \/ io' = NoIo
      /\ UNCHANGED <<disk, super, journal, notify, ghost>>
  BY DEF LogEnds
<1>2. io'.phase \notin {"log", "super", "add", "end"}
  BY <1>1 DEF NoIo
<1>3. PICK w \in 0 .. MaxEntries : w = journal.written /\ w > 0
  BY <1>1 DEF Types, JournalState, Changes, Logging
<1>4. /\ cache' \in Cache
      /\ cache'.now = cache.now /\ cache'.ended = cache.now /\ cache'.changed = {}
      /\ \A b \in Block : cache'.pending[b] = IF b \in cache.changed THEN w ELSE cache.pending[b]
  BY <1>1, <1>3, EndTypes
<1>5. Types'
  BY <1>1, <1>4 DEF Types
<1>6. journal.depth = 0
  BY <1>1 DEF Undoable, Inside, Free
<1>7. Changes'
  BY <1>1, <1>2, <1>4, <1>6 DEF Changes, Logging
<1>8. PICK e \in Seq(LogEntry) : e = journal.entries
  BY EntriesAre
<1>9. PICK n \in Nat : n = Len(e)
  BY <1>8
<1>10. \A k \in 1 .. n : e[k].id \in Nat \ {0}
  BY <1>8, <1>9, EntriesAre
<1>11. n \in 1 .. n /\ e[n].id = w
  BY <1>1, <1>3, <1>8, <1>9 DEF Entries
<1>12. Entries'
  <2>1. \A b \in Block : cache'.pending[b] # 0 => \E k \in 1 .. n : e[k].id = cache'.pending[b]
    BY <1>4, <1>8, <1>9, <1>11 DEF Entries
  <2>2. ASSUME NEW k \in 1 .. n
        PROVE  (\E b \in Block : cache'.pending[b] = e[k].id) \/ Notifies(e[k].id)
    <3>1. CASE k = n
      <4>1. PICK b \in Block : b \in cache.changed
        BY <1>1 DEF Changes, Types, Cache, Logging
      <4>2. cache'.pending[b] = e[k].id
        BY <1>4, <1>11, <3>1, <4>1
      <4> QED
        BY <4>2
    <3>2. CASE k # n /\ ~ Notifies(e[k].id)
      <4>1. PICK b \in Block : cache.pending[b] = e[k].id
        BY <1>8, <1>9, <3>2 DEF Entries
      <4>2. cache'.pending[b] = e[k].id
        BY <1>1, <1>4, <1>10, <4>1
      <4> QED
        BY <4>2
    <3> QED
      BY <3>1, <3>2
  <2>3. /\ \A k, l \in 1 .. n : k < l => e[k].id < e[l].id
        /\ \A k \in 1 .. n : e[k].id <= w
    BY <1>3, <1>8, <1>9 DEF Entries
  <2>4. journal'.entries = e /\ Len(journal'.entries) = n /\ journal'.written = w /\ notify' = notify
    BY <1>1, <1>3, <1>8, <1>9
  <2>5. ASSUME notify.phase = "entry"
        PROVE  /\ \E k \in 1 .. n : Notifies(e[k].id)
               /\ \A b \in Block : ~ Notifies(cache'.pending[b])
    <3>1. /\ \E k \in 1 .. n : Notifies(e[k].id)
          /\ \A b \in Block : ~ Notifies(cache.pending[b])
          /\ ~ Notifies(w)
      BY <1>1, <1>3, <1>8, <1>9, <2>5 DEF Entries
    <3> QED
      BY <1>4, <3>1
  <2>6. \A id : Notifies(id)' <=> Notifies(id)
    BY <2>4 DEF Notifies
  <2> QED
    BY ONLY <1>2, <2>1, <2>2, <2>3, <2>4, <2>5, <2>6 DEF Entries
<1>13. UsedIsSum'
  BY <1>1 DEF UsedIsSum
<1>14. ASSUME ghost'.whole
       PROVE  Picture'
  <2>1. Pointers
    BY <1>1, <1>14 DEF LogInv, Picture
  <2>2. PICK Heads \in SUBSET Ring : Chain(Heads) /\ Live(Heads) /\ Logged(Heads)
    BY <1>1, <1>14 DEF LogInv, Picture
  <2>3. Landed /\ ~ Landed' /\ ghost.logged = cache.now
    BY <1>1, <1>2, <2>1 DEF Landed, Pointers
  <2>4. /\ \A p : From(p)' = From(p)
        /\ \A p : Listed(p)' = Listed(p)
        /\ \A p, b : Lists(p, b)' <=> Lists(p, b)
        /\ \A p, b : Newest(Heads, p, b)' <=> Newest(Heads, p, b)
    BY <1>1 DEF From, Listed, Lists, Newest
  <2>5. Chain(Heads)'
    BY <1>1, <2>2, <2>4 DEF Chain, ChainTo, Ring, From, Listed
  <2>6. Live(Heads)'
    BY <1>1, <1>2, <2>2, <2>3, <2>4 DEF Live, LiveIf, From
  <2>7. ASSUME NEW p \in Heads, NEW b \in Block, Newest(Heads, p, b), WaitsIf(Landed, p, b)
        PROVE  WaitsIf(Landed, p, b)'
    <3>1. e[n].start = io.begin /\ \A o \in Block : o \in cache.changed <=> Lists(io.begin, o)
      BY <1>1, <1>8, <1>9, <2>2, <2>3 DEF Live, LiveIf
    <3>2. CASE p = io.begin
      <4>1. b \in cache.changed
        BY <2>7, <3>1, <3>2 DEF Newest
      <4>2. e[n].start = p /\ cache'.pending[b] = e[n].id
        BY <1>4, <1>11, <3>1, <3>2, <4>1
      <4> QED
        BY <1>1, <1>8, <1>9, <1>11, <4>2 DEF WaitsIf
    <3>3. CASE \E k \in 1 .. n : e[k].start = p /\ cache.pending[b] = e[k].id
      <4>1. PICK k \in 1 .. n : e[k].start = p /\ cache.pending[b] = e[k].id
        BY <3>3
      <4>2. cache.pending[b] # 0
        BY <1>10, <4>1
      <4>3. b \notin cache.changed
        BY <1>1, <4>2
      <4>4. cache'.pending[b] = e[k].id
        BY <1>4, <4>1, <4>3
      <4> QED
        BY <1>1, <1>8, <1>9, <4>1, <4>4 DEF WaitsIf
    <3> QED
      BY <1>8, <1>9, <2>7, <3>2, <3>3 DEF WaitsIf
  <2>8. \A b \in Block : cache'.pending[b] = 0 => disk.area[Home(b)].data = cache'.ended[b]
    <3> SUFFICES ASSUME NEW b \in Block, cache'.pending[b] = 0 PROVE disk.area[Home(b)].data = cache'.ended[b]
      OBVIOUS
    <3>1. b \notin cache.changed /\ cache.pending[b] = 0
      BY <1>3, <1>4
    <3> QED
      BY <1>4, <2>2, <3>1 DEF Logged, LoggedIf, Changes
  <2>9. Logged(Heads)'
    <3>1. ASSUME NEW p \in Heads, NEW b \in Block, Newest(Heads, p, b)
          PROVE  /\ \A i \in 1 .. Len(Listed(p)) : Listed(p)[i] = b => disk.area[Wrap(p + i)].data = ghost.logged[b]
                 /\ disk.area[Home(b)].data = ghost.logged[b] \/ WaitsIf(Landed, p, b)'
      BY <2>2, <2>7, <3>1 DEF Logged, LoggedIf
    <3>2. \A b \in Block : (\A p \in Heads : ~ Lists(p, b)) => disk.area[Home(b)].data = ghost.logged[b]
      BY <2>2 DEF Logged, LoggedIf
    <3> QED
      BY <1>1, <2>4, <2>8, <3>1, <3>2 DEF Logged, LoggedIf
  <2>10. Pointers'
    BY <1>1, <1>2, <1>4, <2>1, <2>3 DEF Pointers
  <2>11. Writing'
    BY <1>2 DEF Writing
  <2>12. \E H \in SUBSET Ring : Chain(H)' /\ Live(H)' /\ Logged(H)'
    BY <2>5, <2>6, <2>9
  <2> QED
    BY <2>10, <2>11, <2>12 DEF Picture, Ring
<1>15. LogInv'
  BY <1>14 DEF LogInv
<1> QED
  BY <1>5, <1>7, <1>12, <1>13, <1>15

-----------------------------------------------------------------------------
(* Blocks come to their place.                                             *)

\* b is the last block that its entry waits for.
IsLast(b) == \A o \in Block \ {b} : cache.pending[o] # cache.pending[b]

\* Writing back a block keeps the types and the entries: the last block of an entry
\* leaves it to _blockNotify.
LEMMA WriteBackSteps ==
  ASSUME Types, Changes, Entries, UsedIsSum, NEW b \in Block, WriteBack(b)
  PROVE  /\ Types' /\ Changes' /\ Entries' /\ UsedIsSum'
         /\ cache.pending[b] # 0
         /\ UNCHANGED <<super, journal, io, ghost>>
         /\ cache'.now = cache.now /\ cache'.ended = cache.ended /\ cache'.changed = cache.changed
         /\ \A o \in Block : cache'.pending[o] = IF o = b THEN 0 ELSE cache.pending[o]
         /\ \A p \in Area : disk'.area[p] = IF p = Home(b) THEN Data(cache.ended[b]) ELSE disk.area[p]
         /\ disk'.super = disk.super
<1>1. /\ cache.pending[b] # 0
      /\ cache' = [cache EXCEPT !.pending = [cache.pending EXCEPT ![b] = 0]]
      /\ notify = NoNotify
      /\ notify' = IF IsLast(b) THEN [phase |-> "entry", id |-> cache.pending[b]] ELSE notify
      /\ UNCHANGED <<super, journal, io, ghost>>
  BY DEF WriteBack, IsLast
<1>2. PICK pending \in [Block -> 0 .. MaxEntries] : pending = [cache.pending EXCEPT ![b] = 0]
  <2>1. 0 \in 0 .. MaxEntries
    BY Sizes
  <2>2. cache.pending \in [Block -> 0 .. MaxEntries]
    BY DEF Types, Cache
  <2>3. [cache.pending EXCEPT ![b] = 0] \in [Block -> 0 .. MaxEntries]
    BY <2>1, <2>2
  <2> QED
    BY <2>3
<1>3. \A o \in Block : pending[o] = IF o = b THEN 0 ELSE cache.pending[o]
  BY <1>2 DEF Types, Cache
<1>4. /\ cache' \in Cache /\ cache'.now = cache.now /\ cache'.ended = cache.ended
      /\ cache'.changed = cache.changed /\ cache'.kept = cache.kept /\ cache'.parent = cache.parent
      /\ cache'.pending = pending
  BY <1>1, <1>2 DEF Types, Cache
<1>5. PICK id \in Nat \ {0} : id = cache.pending[b]
  BY <1>1 DEF Types, Cache
<1>6. /\ notify' = NoNotify \/ notify' \in [phase : {"entry"}, id : Nat]
      /\ \A i : ~ Notifies(i)
      /\ \A i : Notifies(i)' <=> IsLast(b) /\ i = id
      /\ notify'.phase = "entry" <=> IsLast(b)
  BY <1>1, <1>5 DEF Notifies, NoNotify
<1>7. PICK area \in [Area -> DiskBlock] : area = [disk.area EXCEPT ![Home(b)] = Data(cache.ended[b])]
  <2>1. disk.area \in [Area -> DiskBlock] /\ Data(cache.ended[b]) \in DiskBlock
    BY DEF Types, Cache, Contents, Data, DiskBlock
  <2>2. [disk.area EXCEPT ![Home(b)] = Data(cache.ended[b])] \in [Area -> DiskBlock]
    BY <2>1
  <2> QED
    BY <2>2
<1>8. \A p \in Area : area[p] = IF p = Home(b) THEN Data(cache.ended[b]) ELSE disk.area[p]
  BY <1>7 DEF Types
<1>9. /\ disk' \in [area : [Area -> DiskBlock], super : SuperBlock]
      /\ disk'.super = disk.super /\ disk'.area = area
  <2>1. disk' = [disk EXCEPT !.area = area]
    BY <1>7 DEF WriteBack
  <2> QED
    BY <2>1 DEF Types
<1>10. Types'
  BY <1>1, <1>4, <1>6, <1>9 DEF Types
<1>11. Changes' /\ UsedIsSum'
  BY <1>1, <1>4 DEF Changes, UsedIsSum, Logging
<1>12. PICK e \in Seq(LogEntry) : e = journal.entries
  BY EntriesAre
<1>13. PICK n \in Nat : n = Len(e)
  BY <1>12
<1>14. Entries'
  <2>1. \A o \in Block : pending[o] # 0 => \E k \in 1 .. n : e[k].id = pending[o]
    BY <1>3, <1>12, <1>13 DEF Entries
  <2>2. ASSUME NEW k \in 1 .. n
        PROVE  \/ \E o \in Block : pending[o] = e[k].id
               \/ io.phase = "end" /\ k = n
               \/ Notifies(e[k].id)'
    <3>1. CASE \E o \in Block : cache.pending[o] = e[k].id
      <4>1. PICK o \in Block : cache.pending[o] = e[k].id
        BY <3>1
      <4>2. CASE o # b
        BY <1>3, <4>1, <4>2
      <4>3. CASE o = b /\ IsLast(b)
        BY <1>5, <1>6, <4>1, <4>3
      <4>4. CASE o = b /\ ~ IsLast(b)
        <5>1. PICK x \in Block \ {b} : cache.pending[x] = cache.pending[b]
          BY <4>4 DEF IsLast
        <5>2. pending[x] = e[k].id
          BY <1>3, <4>1, <4>4, <5>1
        <5> QED
          BY <5>2
      <4> QED
        BY <4>2, <4>3, <4>4
    <3>2. CASE io.phase = "end" /\ k = n
      BY <3>2
    <3> QED
      BY <1>6, <1>12, <1>13, <3>1, <3>2 DEF Entries
  <2>3. io.phase = "end" => /\ e # <<>> /\ e[n].id = journal.written
                            /\ \A o \in Block : pending[o] # journal.written
                            /\ ~ Notifies(journal.written)'
    <3>1. io.phase = "end" => /\ e # <<>> /\ e[n].id = journal.written
                              /\ journal.written # 0 /\ \A o \in Block : cache.pending[o] # journal.written
      BY <1>12, <1>13 DEF Entries, Changes, Logging, Types, JournalState
    <3> QED
      BY <1>1, <1>3, <1>5, <1>6, <3>1
  <2>4. notify'.phase = "entry" => /\ \E k \in 1 .. n : Notifies(e[k].id)'
                                   /\ \A o \in Block : ~ Notifies(pending[o])'
    <3> SUFFICES ASSUME IsLast(b)
                 PROVE  /\ \E k \in 1 .. n : Notifies(e[k].id)'
                        /\ \A o \in Block : ~ Notifies(pending[o])'
      BY <1>6
    <3>1. PICK k \in 1 .. n : e[k].id = id
      BY <1>5, <1>12, <1>13 DEF Entries
    <3>2. \A o \in Block : pending[o] # id
      BY <1>3, <1>5 DEF IsLast
    <3> QED
      BY <1>6, <3>1, <3>2
  <2>5. /\ \A k, l \in 1 .. n : k < l => e[k].id < e[l].id
        /\ \A k \in 1 .. n : /\ e[k].id <= journal.written
                             /\ io.phase \in {"log", "super", "add"} => e[k].id < journal.written
    BY <1>12, <1>13 DEF Entries
  <2>6. /\ journal' = journal /\ journal'.entries = e /\ Len(journal'.entries) = n
        /\ cache'.pending = pending /\ io' = io
    BY <1>1, <1>4, <1>12, <1>13
  <2>7. \A i : Notifies(i)' <=> (notify'.phase = "entry" /\ notify'.id = i)
    BY DEF Notifies
  <2> QED
    BY ONLY <2>1, <2>2, <2>3, <2>4, <2>5, <2>6, <2>7 DEF Entries
<1> QED
  BY <1>1, <1>3, <1>4, <1>8, <1>9, <1>10, <1>11, <1>14

\* Writing back a block keeps the log: what it holds then is what was logged, unless
\* the entry that is just being ended has it.
LEMMA WriteBackKeepsLog ==
  ASSUME Types, Changes, Entries, UsedIsSum, LogInv, NEW b \in Block, WriteBack(b)
  PROVE  LogInv'
<1>1. /\ UNCHANGED <<super, journal, io, ghost>>
      /\ cache'.now = cache.now /\ cache'.ended = cache.ended /\ cache'.changed = cache.changed
      /\ \A o \in Block : cache'.pending[o] = IF o = b THEN 0 ELSE cache.pending[o]
      /\ \A p \in Area : disk'.area[p] = IF p = Home(b) THEN Data(cache.ended[b]) ELSE disk.area[p]
      /\ disk'.super = disk.super
  BY WriteBackSteps
<1> SUFFICES ASSUME ghost.whole
             PROVE  Picture'
  BY <1>1 DEF LogInv
<1>2. Pointers /\ Writing
  BY DEF LogInv, Picture
<1>3. PICK Heads \in SUBSET Ring : Chain(Heads) /\ Live(Heads) /\ Logged(Heads)
  BY DEF LogInv, Picture
<1>4. ASSUME NEW p \in Ring
      PROVE  disk'.area[p] = disk.area[p]
  <2>1. p \in Area
    BY Sizes DEF Ring, Area
  <2> QED
    BY <1>1, <2>1, HomesAre
<1>5. /\ disk'.area[Home(b)].data = cache.ended[b]
      /\ \A o \in Block : o # b => disk'.area[Home(o)] = disk.area[Home(o)]
  <2>1. disk'.area[Home(b)] = Data(cache.ended[b])
    BY <1>1, HomesAre
  <2>2. \A o \in Block : o # b => Home(o) # Home(b)
    BY Sizes DEF Home, Block
  <2>3. \A o \in Block : o # b => disk'.area[Home(o)] = disk.area[Home(o)]
    BY <1>1, <2>2, HomesAre
  <2> QED
    BY <2>1, <2>3 DEF Data
<1>6. cache.ended[b] = ghost.logged[b] \/ (Landed /\ b \in cache.changed)
  BY <1>2 DEF Changes, Pointers
<1>7. Landed' <=> Landed
  BY <1>1 DEF Landed
<1>8. \A p \in Heads : /\ p \in Ring /\ From(p) \in Nat /\ Len(Listed(p)) \in Nat
                       /\ \A i \in 0 .. Len(Listed(p)) : Wrap(p + i) \in Ring
  BY <1>3, EntryIsInside, Sizes DEF Ring
<1>9. /\ \A p : From(p)' = From(p)
      /\ \A p \in Heads : Listed(p)' = Listed(p)
      /\ \A p \in Heads : \A o : Lists(p, o)' <=> Lists(p, o)
  BY <1>1, <1>4, <1>8 DEF From, Listed, Lists
<1>10. \A p \in Heads : \A o : Newest(Heads, p, o)' <=> Newest(Heads, p, o)
  BY <1>9 DEF Newest
<1>11. Chain(Heads)'
  BY <1>1, <1>3, <1>9 DEF Chain, ChainTo, Ring, From, Listed
<1>12. Live(Heads)'
  <2>1. Landed => io.begin \in Heads
    BY <1>3 DEF Live, LiveIf
  <2> QED
    BY <1>1, <1>3, <1>7, <1>9, <2>1 DEF Live, LiveIf, From
\* What waited for another block still does.
<1>13. ASSUME NEW p, NEW o \in Block, o # b, WaitsIf(Landed, p, o)
       PROVE  WaitsIf(Landed, p, o)'
  BY <1>1, <1>7, <1>13 DEF WaitsIf
<1>14. ASSUME Landed, b \in cache.changed
       PROVE  /\ io.begin \in Heads /\ Lists(io.begin, b)
              /\ \A p \in Heads : Newest(Heads, p, b) => WaitsIf(Landed, p, b)'
  <2>1. io.begin \in Heads /\ Lists(io.begin, b) /\ \A p \in Heads : From(p) <= From(io.begin)
    BY <1>3, <1>14 DEF Live, LiveIf
  <2>2. ASSUME NEW p \in Heads, Newest(Heads, p, b)
        PROVE  WaitsIf(Landed, p, b)'
    <3>1. From(io.begin) <= From(p) /\ From(p) <= From(io.begin)
      BY <2>1, <2>2 DEF Newest
    <3>2. From(p) = From(io.begin)
      BY <1>8, <2>1, <3>1
    <3>3. disk.super.start \in Ring
      BY <1>3 DEF Chain, ChainTo
    <3>4. p = io.begin
      BY <1>8, <2>1, <3>2, <3>3, SameDistance DEF From
    <3> QED
      BY <1>1, <1>7, <1>14, <3>4 DEF WaitsIf
  <2> QED
    BY <2>1, <2>2
<1>15. Logged(Heads)'
  <2>1. ASSUME NEW p \in Heads, NEW o \in Block, Newest(Heads, p, o)
        PROVE  /\ \A i \in 1 .. Len(Listed(p)) : Listed(p)[i] = o => disk'.area[Wrap(p + i)].data = ghost.logged[o]
               /\ disk'.area[Home(o)].data = ghost.logged[o] \/ WaitsIf(Landed, p, o)'
    <3>1. /\ \A i \in 1 .. Len(Listed(p)) : Listed(p)[i] = o => disk.area[Wrap(p + i)].data = ghost.logged[o]
          /\ disk.area[Home(o)].data = ghost.logged[o] \/ WaitsIf(Landed, p, o)
      BY <1>3, <2>1 DEF Logged, LoggedIf
    <3>2. \A i \in 1 .. Len(Listed(p)) : disk'.area[Wrap(p + i)] = disk.area[Wrap(p + i)]
      <4>1. \A i \in 1 .. Len(Listed(p)) : i \in 0 .. Len(Listed(p))
        BY <1>8
      <4> QED
        BY <1>4, <1>8, <4>1
    <3>3. disk'.area[Home(o)].data = ghost.logged[o] \/ WaitsIf(Landed, p, o)'
      <4>1. CASE o # b
        BY <1>5, <1>13, <3>1, <4>1
      <4>2. CASE o = b
        BY <1>5, <1>6, <1>14, <2>1, <4>2
      <4> QED
        BY <4>1, <4>2
    <3> QED
      BY <3>1, <3>2, <3>3
  <2>2. ASSUME NEW o \in Block, \A p \in Heads : ~ Lists(p, o)
        PROVE  disk'.area[Home(o)].data = ghost.logged[o]
    <3>1. CASE o # b
      BY <1>3, <1>5, <2>2, <3>1 DEF Logged, LoggedIf
    <3>2. CASE o = b
      BY <1>5, <1>6, <1>14, <2>2, <3>2
    <3> QED
      BY <3>1, <3>2
  <2>3. \A o \in Block : cache'.pending[o] = 0 => disk'.area[Home(o)].data = cache.ended[o]
    BY <1>1, <1>3, <1>5 DEF Logged, LoggedIf
  <2> QED
    BY <1>1, <1>9, <1>10, <2>1, <2>2, <2>3 DEF Logged, LoggedIf
<1>16. Pointers'
  BY <1>1, <1>2, <1>7 DEF Pointers
<1>17. Writing'
  <2>1. NewRuns' = NewRuns
    BY <1>1 DEF NewRuns
  <2> QED
    BY <1>1, <1>2, <1>4, <1>7, <1>9, <2>1 DEF Writing, Ring
<1>18. \E H \in SUBSET Ring : Chain(H)' /\ Live(H)' /\ Logged(H)'
  BY <1>11, <1>12, <1>15
<1> QED
  BY <1>16, <1>17, <1>18 DEF Picture, Ring

\* RemoveAt leaves the others in their order.
LEMMA RemovedIs ==
  ASSUME NEW s \in Seq(LogEntry), NEW n \in Nat, n = Len(s), NEW i \in 1 .. n
  PROVE  /\ RemoveAt(s, i) \in Seq(LogEntry) /\ Len(RemoveAt(s, i)) = n - 1
         /\ \A k \in 1 .. n - 1 : RemoveAt(s, i)[k] = IF k < i THEN s[k] ELSE s[k + 1]
<1>1. PICK a : a = SubSeq(s, 1, i - 1)
  OBVIOUS
<1>2. PICK c : c = SubSeq(s, i + 1, n)
  OBVIOUS
<1>3. RemoveAt(s, i) = a \o c
  BY <1>1, <1>2 DEF RemoveAt
<1>4. a \in Seq(LogEntry) /\ Len(a) = i - 1 /\ \A k \in 1 .. i - 1 : a[k] = s[k]
  <2>1. \A k \in 1 .. i - 1 : s[k] \in LogEntry
    OBVIOUS
  <2> QED
    BY <1>1, <2>1, SubSeqProperties
<1>5. c \in Seq(LogEntry) /\ Len(c) = n - i /\ \A k \in 1 .. n - i : c[k] = s[i + k]
  <2>1. \A k \in i + 1 .. n : s[k] \in LogEntry
    OBVIOUS
  <2>2. /\ SubSeq(s, i + 1, n) \in Seq(LogEntry)
        /\ Len(SubSeq(s, i + 1, n)) = n - (i + 1) + 1
        /\ \A k \in 1 .. n - (i + 1) + 1 : SubSeq(s, i + 1, n)[k] = s[i + 1 + k - 1]
    BY <2>1, SubSeqProperties
  <2> QED
    BY <1>2, <2>2
<1>6. a \o c \in Seq(LogEntry) /\ Len(a \o c) = n - 1
  BY <1>4, <1>5
<1>7. ASSUME NEW k \in 1 .. n - 1
      PROVE  (a \o c)[k] = IF k < i THEN s[k] ELSE s[k + 1]
  <2>1. CASE k < i
    BY <1>4, <1>5, <2>1
  <2>2. CASE ~ (k < i)
    <3>1. (a \o c)[k] = c[k - (i - 1)]
      BY <1>4, <1>5, <2>2
    <3>2. PICK x \in 1 .. n - i : x = k - (i - 1) /\ i + x = k + 1
      BY <2>2
    <3> QED
      BY <1>5, <2>2, <3>1, <3>2
  <2> QED
    BY <2>1, <2>2
<1> QED
  BY <1>3, <1>6, <1>7

\* _blockNotify takes the entry out, and keeps the types, the entries and their sum.
LEMMA NotifySteps ==
  ASSUME Types, Changes, Entries, UsedIsSum, Notify
  PROVE  /\ Types' /\ Changes' /\ Entries' /\ UsedIsSum'
         /\ UNCHANGED <<disk, cache, io>>
         /\ ghost'.logged = ghost.logged
         /\ ghost'.whole => ghost.whole /\ ~ (Len(journal.entries) = 1 /\ io.phase \in {"super", "add"})
         /\ super'.end = super.end /\ super'.dirty = super.dirty
         /\ \E i \in 1 .. Len(journal.entries) :
              /\ Notifies(journal.entries[i].id) /\ super'.start = Beginning(i)
              /\ Len(journal'.entries) = Len(journal.entries) - 1
              /\ \A k \in 1 .. Len(journal.entries) - 1 :
                   journal'.entries[k] = IF k < i THEN journal.entries[k] ELSE journal.entries[k + 1]
<1>1. PICK e \in Seq(LogEntry) : e = journal.entries
  BY EntriesAre
<1>2. PICK n \in Nat : n = Len(e)
  BY <1>1
<1>3. \A k \in 1 .. n : e[k] \in LogEntry /\ e[k].id \in Nat \ {0} /\ e[k].start \in Nat /\ e[k].length \in Nat
  BY <1>1, <1>2, EntriesAre
<1>4. \A k, l \in 1 .. n : k < l => e[k].id < e[l].id
  BY <1>1, <1>2 DEF Entries
<1>5. PICK i : i = CHOOSE j \in 1 .. n : e[j].id = notify.id
  OBVIOUS
<1>6. notify.phase = "entry" /\ \A x : Notifies(x) <=> x = notify.id
  BY DEF Notify, Notifies
<1>7. i \in 1 .. n /\ e[i].id = notify.id
  <2>1. \E j \in 1 .. n : e[j].id = notify.id
    BY <1>1, <1>2, <1>6 DEF Entries
  <2> QED
    BY <1>5, <2>1
<1>8. \A j \in 1 .. n : e[j].id = notify.id => j = i
  BY <1>3, <1>4, <1>7
<1>9. PICK f : f = RemoveAt(e, i)
  OBVIOUS
<1>10. PICK m \in Nat : m = n - 1
  BY <1>7
<1>11. f \in Seq(LogEntry) /\ Len(f) = m /\ \A k \in 1 .. m : f[k] = IF k < i THEN e[k] ELSE e[k + 1]
  <2>1. /\ RemoveAt(e, i) \in Seq(LogEntry) /\ Len(RemoveAt(e, i)) = n - 1
        /\ \A k \in 1 .. n - 1 : RemoveAt(e, i)[k] = IF k < i THEN e[k] ELSE e[k + 1]
    BY <1>2, <1>7, RemovedIs
  <2> QED
    BY <1>9, <1>10, <2>1
<1>12. /\ journal' = [journal EXCEPT !.entries = f, !.used = journal.used - e[i].length]
       /\ super' = [super EXCEPT !.start = Beginning(i)]
       /\ notify' = IF i = 1 THEN [phase |-> "super", clean |-> super'.start = super.end] ELSE NoNotify
       /\ ghost' = [ghost EXCEPT !.whole = ghost.whole /\ ~ (n = 1 /\ io.phase \in {"super", "add"})]
       /\ UNCHANGED <<disk, cache, io>>
  BY <1>1, <1>2, <1>5, <1>9 DEF Notify
<1>13. PICK used \in Int : used = journal.used - e[i].length
  BY <1>3, <1>7 DEF Types, JournalState
<1>14. /\ journal' \in JournalState /\ journal'.entries = f /\ journal'.used = used
       /\ journal'.written = journal.written /\ journal'.depth = journal.depth
  <2>1. journal' = [journal EXCEPT !.entries = f, !.used = used]
    BY <1>12, <1>13
  <2> QED
    BY <1>11, <2>1 DEF Types, JournalState
<1>15. PICK start \in Nat : start = Beginning(i)
  <2>1. super.start \in Nat /\ super.end \in Nat
    BY DEF Types, SuperBlock
  <2>2. CASE i > 1
    BY <2>1, <2>2 DEF Beginning
  <2>3. CASE ~ (i > 1) /\ n = 1
    BY <1>1, <1>2, <2>1, <2>3 DEF Beginning
  <2>4. CASE ~ (i > 1) /\ n # 1
    <3>1. 1 \in 1 .. n /\ 2 \in 1 .. n
      BY <1>7, <2>4
    <3>2. PICK x \in Int : x = super.start + e[2].start - e[1].start
      BY <1>3, <2>1, <3>1
    <3>3. x % LogSize \in Nat
      BY Sizes
    <3>4. Beginning(i) = x % LogSize
      BY <1>1, <1>2, <2>4, <3>2 DEF Beginning
    <3> QED
      BY <3>3, <3>4
  <2> QED
    BY <2>2, <2>3, <2>4
<1>16. super' \in SuperBlock /\ super'.start = Beginning(i) /\ super'.end = super.end /\ super'.dirty = super.dirty
  <2>1. super' = [super EXCEPT !.start = start]
    BY <1>12, <1>15
  <2> QED
    BY <1>15, <2>1 DEF Types, SuperBlock
<1>17. /\ notify' = NoNotify \/ notify' \in [phase : {"super"}, clean : BOOLEAN]
       /\ \A x : ~ Notifies(x)'
       /\ notify'.phase # "entry"
  <2>1. PICK clean \in BOOLEAN : clean = (super'.start = super.end)
    OBVIOUS
  <2>2. notify' = NoNotify \/ notify' = [phase |-> "super", clean |-> clean]
    BY <1>12, <2>1
  <2>3. CASE notify' = NoNotify
    BY <2>3 DEF Notifies, NoNotify
  <2>4. CASE notify' = [phase |-> "super", clean |-> clean]
    BY <2>4 DEF Notifies
  <2> QED
    BY <2>2, <2>3, <2>4
<1>18. PICK whole \in BOOLEAN : whole = (ghost.whole /\ ~ (n = 1 /\ io.phase \in {"super", "add"}))
  OBVIOUS
<1>19. /\ ghost' \in [logged : Contents, before : Contents, whole : BOOLEAN]
       /\ ghost'.logged = ghost.logged /\ ghost'.whole = whole
  <2>1. ghost' = [ghost EXCEPT !.whole = whole]
    BY <1>12, <1>18
  <2> QED
    BY <1>18, <2>1 DEF Types
<1>20. Types'
  BY <1>12, <1>14, <1>16, <1>17, <1>19 DEF Types
<1>21. Changes'
  BY <1>12, <1>14 DEF Changes, Logging
<1>22. \A k \in 1 .. m : \E j \in 1 .. n : f[k] = e[j] /\ j # i /\ (j = n => k = m)
  <2> SUFFICES ASSUME NEW k \in 1 .. m PROVE \E j \in 1 .. n : f[k] = e[j] /\ j # i /\ (j = n => k = m)
    OBVIOUS
  <2>1. k \in 1 .. n /\ k + 1 \in 1 .. n /\ k # n
    BY <1>10
  <2>2. CASE k < i
    BY <1>11, <2>1, <2>2
  <2>3. CASE ~ (k < i)
    <3>1. k + 1 # i /\ (k + 1 = n => k = m)
      BY <1>7, <1>10, <2>3
    <3> QED
      BY <1>11, <2>1, <2>3, <3>1
  <2> QED
    BY <2>2, <2>3
<1>23. \A j \in 1 .. n : j = i \/ \E k \in 1 .. m : f[k] = e[j] /\ (j = n => k = m)
  <2> SUFFICES ASSUME NEW j \in 1 .. n, j # i PROVE \E k \in 1 .. m : f[k] = e[j] /\ (j = n => k = m)
    OBVIOUS
  <2>1. CASE j < i
    <3>1. j \in 1 .. m /\ j # n /\ f[j] = e[j]
      BY <1>7, <1>10, <1>11, <2>1
    <3> QED
      BY <3>1
  <2>2. CASE ~ (j < i)
    <3>1. PICK k \in 1 .. m : k = j - 1
      BY <1>7, <1>10, <2>2
    <3>2. ~ (k < i) /\ k + 1 = j /\ (j = n => k = m)
      BY <1>7, <1>10, <2>2, <3>1
    <3> QED
      BY <1>11, <3>1, <3>2
  <2> QED
    BY <2>1, <2>2
<1>24. \A k, l \in 1 .. m : k < l => f[k].id < f[l].id
  <2> SUFFICES ASSUME NEW k \in 1 .. m, NEW l \in 1 .. m, k < l PROVE f[k].id < f[l].id
    OBVIOUS
  <2>1. k \in 1 .. n /\ k + 1 \in 1 .. n /\ l \in 1 .. n /\ l + 1 \in 1 .. n
    BY <1>10
  <2>2. i \in Nat /\ k \in Nat /\ l \in Nat
    BY <1>7
  <2>3. CASE l < i
    <3>1. f[k] = e[k] /\ f[l] = e[l]
      BY <1>11, <2>2, <2>3
    <3> QED
      BY <1>4, <2>1, <3>1
  <2>4. CASE ~ (l < i) /\ k < i
    <3>1. f[k] = e[k] /\ f[l] = e[l + 1] /\ k < l + 1
      BY <1>11, <2>2, <2>4
    <3> QED
      BY <1>4, <2>1, <3>1
  <2>5. CASE ~ (l < i) /\ ~ (k < i)
    <3>1. f[k] = e[k + 1] /\ f[l] = e[l + 1] /\ k + 1 < l + 1
      BY <1>11, <2>2, <2>5
    <3> QED
      BY <1>4, <2>1, <3>1
  <2> QED
    BY <2>3, <2>4, <2>5
<1>25. Entries'
  <2>1. \A k \in 1 .. m : /\ f[k].id <= journal.written
                          /\ io.phase \in {"log", "super", "add"} => f[k].id < journal.written
    BY <1>1, <1>2, <1>22 DEF Entries
  <2>2. ASSUME NEW b \in Block, cache.pending[b] # 0
        PROVE  \E k \in 1 .. m : f[k].id = cache.pending[b]
    <3>1. PICK j \in 1 .. n : e[j].id = cache.pending[b]
      BY <1>1, <1>2, <2>2 DEF Entries
    <3>2. ~ Notifies(cache.pending[b])
      BY <1>6 DEF Entries
    <3>3. j # i
      BY <1>6, <1>7, <3>1, <3>2
    <3> QED
      BY <1>23, <3>1, <3>3
  <2>3. ASSUME NEW k \in 1 .. m
        PROVE  (\E b \in Block : cache.pending[b] = f[k].id) \/ (io.phase = "end" /\ k = m)
    <3>1. PICK j \in 1 .. n : f[k] = e[j] /\ j # i /\ (j = n => k = m)
      BY <1>22
    <3>2. ~ Notifies(e[j].id)
      BY <1>6, <1>8, <3>1
    <3> QED
      BY <1>1, <1>2, <3>1, <3>2 DEF Entries
  <2>4. io.phase = "end" => /\ f # <<>> /\ f[m].id = journal.written
                            /\ \A b \in Block : cache.pending[b] # journal.written
    <3> SUFFICES ASSUME io.phase = "end" PROVE f # <<>> /\ f[m].id = journal.written
      BY DEF Entries
    <3>1. e # <<>> /\ e[n].id = journal.written /\ ~ Notifies(journal.written)
      BY <1>1, <1>2 DEF Entries
    <3>2. n # 0
      BY <1>1, <1>2, <3>1
    <3>3. n \in 1 .. n /\ n # i
      BY <1>6, <1>7, <3>1, <3>2
    <3>4. PICK k \in 1 .. m : f[k] = e[n] /\ k = m
      BY <1>23, <3>3
    <3> QED
      BY <1>11, <3>1, <3>4
  <2>5. journal'.entries = f /\ Len(journal'.entries) = m /\ journal'.written = journal.written /\ cache' = cache /\ io' = io
    BY <1>11, <1>12, <1>14
  <2>6. \A x : ~ Notifies(x)'
    BY <1>17
  <2> QED
    BY ONLY <1>17, <1>24, <2>1, <2>2, <2>3, <2>4, <2>5, <2>6 DEF Entries
<1>26. UsedIsSum'
  <2> DEFINE F == [x \in ToSet(e) |-> x.length]
             G == [x \in ToSet(f) |-> x.length]
  <2>1. journal.used = SumFunction(F)
    BY <1>1 DEF UsedIsSum
  <2>2. /\ ToSet(e) = {e[k] : k \in 1 .. n} /\ ToSet(f) = {f[k] : k \in 1 .. m}
    BY <1>2, <1>11 DEF ToSet
  <2>3. e[i] \in ToSet(e) /\ ToSet(f) = ToSet(e) \ {e[i]}
    <3>1. \A x \in ToSet(f) : x \in ToSet(e) /\ x # e[i]
      BY <1>7, <1>8, <1>22, <2>2
    <3>2. \A x \in ToSet(e) : x # e[i] => x \in ToSet(f)
      BY <1>23, <2>2
    <3> QED
      BY <1>7, <2>2, <3>1, <3>2
  <2>4. IsFiniteSet(ToSet(e)) /\ \A x \in ToSet(e) : x.length \in Int
    <3>1. IsFiniteSet({e[k] : k \in 1 .. n})
      BY <1>1, <1>2, RangeIsFinite
    <3> QED
      BY <1>3, <2>2, <3>1
  <2>5. DOMAIN F = ToSet(e) /\ DOMAIN G = DOMAIN F \ {e[i]} /\ \A x \in DOMAIN G : G[x] = F[x]
    BY <2>3
  <2>6. e[i] \in DOMAIN F /\ F[e[i]] = e[i].length /\ IsFiniteSet(DOMAIN F) /\ \A x \in DOMAIN F : F[x] \in Int
    BY <2>3, <2>4
  <2>7. PICK z : z = e[i]
    OBVIOUS
  <2> HIDE DEF F, G
  <2>8. SumFunction(F) = SumFunction(G) + F[z] /\ SumFunction(G) \in Int
    BY <2>5, <2>6, <2>7, SumWithout
  <2>9. used = SumFunction(G)
    BY <1>3, <1>7, <1>13, <2>1, <2>6, <2>7, <2>8
  <2> QED
    BY <1>14, <2>9 DEF UsedIsSum, G
<1>27. /\ Len(journal.entries) = n /\ Len(journal'.entries) = n - 1
       /\ i \in 1 .. Len(journal.entries)
       /\ Notifies(journal.entries[i].id)
       /\ \A k \in 1 .. Len(journal.entries) - 1 :
            journal'.entries[k] = IF k < i THEN journal.entries[k] ELSE journal.entries[k + 1]
  BY <1>1, <1>2, <1>6, <1>7, <1>10, <1>11, <1>14
<1> QED
  BY <1>12, <1>16, <1>18, <1>19, <1>20, <1>21, <1>25, <1>26, <1>27

\* In memory the log begins behind the entry, if that was the oldest; on the disk it is as it was.
LEMMA NotifyKeepsLog ==
  ASSUME Types, Changes, Entries, UsedIsSum, LogInv, Notify
  PROVE  Types' /\ Changes' /\ Entries' /\ UsedIsSum' /\ LogInv'
<1>1. /\ Types' /\ Changes' /\ Entries' /\ UsedIsSum'
      /\ UNCHANGED <<disk, cache, io>>
      /\ ghost'.logged = ghost.logged
      /\ ghost'.whole => ghost.whole /\ ~ (Len(journal.entries) = 1 /\ io.phase \in {"super", "add"})
      /\ super'.end = super.end /\ super'.dirty = super.dirty
  BY NotifySteps
<1>2. PICK i \in 1 .. Len(journal.entries) :
        /\ Notifies(journal.entries[i].id) /\ super'.start = Beginning(i)
        /\ Len(journal'.entries) = Len(journal.entries) - 1
        /\ \A k \in 1 .. Len(journal.entries) - 1 :
             journal'.entries[k] = IF k < i THEN journal.entries[k] ELSE journal.entries[k + 1]
  BY NotifySteps
<1>3. PICK e \in Seq(LogEntry) : e = journal.entries
  BY EntriesAre
<1>4. PICK n \in Nat : n = Len(e) /\ i \in 1 .. n
  BY <1>3
<1>5. PICK m \in Nat : m = n - 1
  BY <1>4
<1>6. PICK f \in Seq(LogEntry) : f = journal'.entries
  BY <1>1 DEF Types, JournalState
<1>7. Len(f) = m /\ \A k \in 1 .. m : f[k] = IF k < i THEN e[k] ELSE e[k + 1]
  BY <1>2, <1>3, <1>4, <1>5, <1>6
<1> SUFFICES ASSUME ghost'.whole
             PROVE  Picture'
  BY <1>1 DEF LogInv
<1>8. Pointers /\ Writing /\ ~ (n = 1 /\ io.phase \in {"super", "add"})
  BY <1>1, <1>3, <1>4 DEF LogInv, Picture
<1>9. PICK Heads \in SUBSET Ring : Chain(Heads) /\ Live(Heads) /\ Logged(Heads)
  BY <1>1 DEF LogInv, Picture
<1>10. /\ \A k \in 1 .. n : e[k].start \in Heads
       /\ \A k, l \in 1 .. n : k < l => From(e[k].start) < From(e[l].start)
  BY <1>3, <1>4, <1>9 DEF Live, LiveIf
<1>11. Landed' <=> Landed
  BY <1>1 DEF Landed
<1>12. /\ \A p : From(p)' = From(p)
       /\ \A p : Listed(p)' = Listed(p)
       /\ \A p, b : Lists(p, b)' <=> Lists(p, b)
       /\ \A p, b : Newest(Heads, p, b)' <=> Newest(Heads, p, b)
  BY <1>1 DEF From, Listed, Lists, Newest
<1>13. Chain(Heads)'
  BY <1>1, <1>9, <1>12 DEF Chain, ChainTo, Ring, From, Listed
<1>14. \A k \in 1 .. m : k \in 1 .. n /\ k + 1 \in 1 .. n /\ k \in Nat
  BY <1>4, <1>5
<1>15. Live(Heads)'
  <2>1. \A k \in 1 .. m : f[k].start \in Heads
    BY <1>7, <1>10, <1>14
  <2>2. ASSUME NEW k \in 1 .. m, NEW l \in 1 .. m, k < l
        PROVE  From(f[k].start) < From(f[l].start)
    <3>1. CASE l < i
      <4>1. k < i
        BY <2>2, <3>1
      <4> QED
        BY <1>7, <1>10, <1>14, <2>2, <3>1, <4>1
    <3>2. CASE ~ (l < i) /\ k < i
      <4>1. k < l + 1
        BY <2>2
      <4> QED
        BY <1>7, <1>10, <1>14, <3>2, <4>1
    <3>3. CASE ~ (l < i) /\ ~ (k < i)
      <4>1. k + 1 < l + 1
        BY <2>2
      <4> QED
        BY <1>7, <1>10, <1>14, <3>3, <4>1
    <3> QED
      BY <3>1, <3>2, <3>3
  <2>3. ASSUME Landed, io.phase # "end", NEW k \in 1 .. m
        PROVE  f[k].start # io.begin
    <3>1. \A l \in 1 .. n : e[l].start # io.begin
      BY <1>3, <1>4, <1>9, <2>3 DEF Live, LiveIf
    <3> QED
      BY <1>7, <1>14, <3>1
  <2>4. io.phase = "end" => f[m].start = io.begin
    <3> SUFFICES ASSUME io.phase = "end" PROVE f[m].start = io.begin
      OBVIOUS
    <3>1. e[n].start = io.begin /\ e[n].id = journal.written /\ ~ Notifies(journal.written)
      BY <1>3, <1>4, <1>9 DEF Live, LiveIf, Entries
    <3>2. i # n
      BY <1>2, <1>3, <3>1
    <3>3. m \in 1 .. m /\ ~ (m < i) /\ m + 1 = n
      BY <1>4, <1>5, <3>2
    <3> QED
      BY <1>7, <3>1, <3>3
  <2>5. Landed => /\ io.begin \in Heads
                  /\ \A p \in Heads : From(p) <= From(io.begin)
                  /\ \A b \in Block : b \in cache.changed <=> Lists(io.begin, b)
    BY <1>9 DEF Live, LiveIf
  <2>6. journal'.entries = f /\ Len(journal'.entries) = m
    BY <1>6, <1>7
  <2> QED
    BY ONLY <1>1, <1>11, <1>12, <2>1, <2>2, <2>3, <2>4, <2>5, <2>6 DEF Live, LiveIf
<1>16. ASSUME NEW p, NEW b \in Block, WaitsIf(Landed, p, b)
       PROVE  WaitsIf(Landed, p, b)'
  <2>1. CASE Landed /\ p = io.begin
    BY <1>1, <1>11, <2>1 DEF WaitsIf
  <2>2. CASE \E k \in 1 .. n : e[k].start = p /\ cache.pending[b] = e[k].id
    <3>1. PICK k \in 1 .. n : e[k].start = p /\ cache.pending[b] = e[k].id
      BY <2>2
    <3>2. k # i
      <4>1. \A o \in Block : ~ Notifies(cache.pending[o])
        BY <1>2 DEF Entries, Notifies
      <4> QED
        BY <1>2, <1>3, <3>1, <4>1
    <3>3. \E l \in 1 .. m : f[l] = e[k]
      <4>1. CASE k < i
        <5>1. k \in 1 .. m
          BY <1>4, <1>5, <4>1
        <5> QED
          BY <1>7, <4>1, <5>1
      <4>2. CASE ~ (k < i)
        <5>1. PICK l \in 1 .. m : l = k - 1
          BY <1>4, <1>5, <3>2, <4>2
        <5>2. ~ (l < i) /\ l + 1 = k
          BY <1>4, <3>2, <4>2, <5>1
        <5> QED
          BY <1>7, <5>1, <5>2
      <4> QED
        BY <4>1, <4>2
    <3>4. PICK l \in 1 .. m : f[l] = e[k]
      BY <3>3
    <3> QED
      BY <1>1, <1>6, <1>7, <3>1, <3>4 DEF WaitsIf
  <2> QED
    BY <1>3, <1>4, <1>16, <2>1, <2>2 DEF WaitsIf
<1>17. Logged(Heads)'
  <2>1. ASSUME NEW p \in Heads, NEW b \in Block, Newest(Heads, p, b)
        PROVE  /\ \A k \in 1 .. Len(Listed(p)) : Listed(p)[k] = b => disk.area[Wrap(p + k)].data = ghost.logged[b]
               /\ disk.area[Home(b)].data = ghost.logged[b] \/ WaitsIf(Landed, p, b)'
    BY <1>9, <1>16, <2>1 DEF Logged, LoggedIf
  <2>2. /\ \A b \in Block : (\A p \in Heads : ~ Lists(p, b)) => disk.area[Home(b)].data = ghost.logged[b]
        /\ \A b \in Block : cache.pending[b] = 0 => disk.area[Home(b)].data = cache.ended[b]
    BY <1>9 DEF Logged, LoggedIf
  <2> QED
    BY <1>1, <1>12, <2>1, <2>2 DEF Logged, LoggedIf
<1>18. Pointers'
  <2>1. e # <<>> /\ super.start = e[1].start /\ 1 \in 1 .. n /\ super.dirty
    <3>1. e # <<>> /\ 1 \in 1 .. n
      BY <1>3, <1>4
    <3> QED
      BY <1>3, <1>8, <3>1 DEF Pointers
  <2>2. f = <<>> => super'.start = super.end /\ io.phase \notin {"super", "add"}
    <3> SUFFICES ASSUME f = <<>> PROVE super'.start = super.end /\ io.phase \notin {"super", "add"}
      OBVIOUS
    <3>1. m = 0
      BY <1>7
    <3>2. n = 1
      BY <1>5, <3>1
    <3>3. i \in 1 .. 1
      BY <1>4, <3>2
    <3>4. ~ (i > 1)
      BY <3>3
    <3> QED
      BY <1>2, <1>3, <1>4, <1>8, <3>2, <3>4 DEF Beginning
  <2>3. f # <<>> => super'.start = f[1].start
    <3> SUFFICES ASSUME f # <<>> PROVE super'.start = f[1].start
      OBVIOUS
    <3>1. m # 0
      BY <1>6, <1>7
    <3>2. 1 \in 1 .. m /\ n # 1 /\ 2 \in 1 .. n /\ 1 + 1 = 2
      BY <1>4, <1>5, <3>1
    <3>3. CASE i > 1
      <4>1. f[1] = e[1] /\ super'.start = super.start
        BY <1>2, <1>7, <3>2, <3>3 DEF Beginning
      <4> QED
        BY <2>1, <4>1
    <3>4. CASE ~ (i > 1)
      <4>1. f[1] = e[2]
        BY <1>4, <1>7, <3>2, <3>4
      <4>2. super'.start = (super.start + e[2].start - e[1].start) % LogSize
        BY <1>2, <1>3, <1>4, <3>2, <3>4 DEF Beginning
      <4>3. e[2].start \in Ring /\ e[1].start \in Ring
        BY <1>10, <2>1, <3>2
      <4>4. super.start + e[2].start - e[1].start = e[2].start /\ e[2].start \in Nat
        BY <2>1, <4>3, Sizes DEF Ring
      <4>5. e[2].start % LogSize = e[2].start
        <5>1. PICK x \in Nat : x = e[2].start /\ x < LogSize /\ x < 2 * LogSize
          BY <4>3, <4>4, Sizes DEF Ring
        <5>2. x % LogSize = Wrap(x)
          BY <5>1, ModIsWrap
        <5> QED
          BY <5>1, <5>2 DEF Wrap
      <4> QED
        BY <4>1, <4>2, <4>3, <4>4, <4>5
    <3> QED
      BY <3>3, <3>4
  <2> QED
    BY <1>1, <1>6, <1>8, <1>11, <2>1, <2>2, <2>3 DEF Pointers
<1>19. Writing'
  BY <1>1, <1>8, <1>11 DEF Writing, From, NewRuns, Ring
<1>20. \E H \in SUBSET Ring : Chain(H)' /\ Live(H)' /\ Logged(H)'
  BY <1>13, <1>15, <1>17
<1> QED
  BY <1>18, <1>19, <1>20 DEF Picture, Ring

-----------------------------------------------------------------------------
(* An empty log, at the beginning and after a crash.                       *)

EmptyLog ==
  /\ journal.entries = <<>> /\ journal.used = 0
  /\ super = disk.super /\ super.start = super.end /\ (ghost.whole => super.end \in Ring)
  /\ io = NoIo /\ notify = NoNotify
  /\ ghost.logged = cache.ended
  /\ \A b \in Block : cache.pending[b] = 0 /\ disk.area[Home(b)].data = cache.ended[b]

\* A log without entries is in order.
LEMMA EmptyLogIs == EmptyLog => Entries /\ UsedIsSum /\ LogInv
<1> SUFFICES ASSUME EmptyLog PROVE Entries /\ UsedIsSum /\ LogInv
  OBVIOUS
<1>1. /\ Len(journal.entries) = 0 /\ journal.entries = <<>>
      /\ io.phase = "none" /\ notify.phase = "none" /\ ~ Landed
  BY DEF EmptyLog, NoIo, NoNotify, Landed
<1>2. Entries
  <2>1. \A k \in 1 .. 0 : FALSE
    OBVIOUS
  <2>2. \A b \in Block : cache.pending[b] = 0
    BY DEF EmptyLog
  <2> QED
    BY <1>1, <2>1, <2>2 DEF Entries, Notifies
<1>3. UsedIsSum
  <2>1. PICK F : F = [x \in ToSet(journal.entries) |-> x.length]
    OBVIOUS
  <2>2. ToSet(journal.entries) = {}
    BY <1>1 DEF ToSet
  <2>3. DOMAIN F = {}
    BY <2>1, <2>2
  <2>4. IsFiniteSet(DOMAIN F) /\ \A x \in DOMAIN F : F[x] \in Int
    BY <2>3, FS_EmptySet
  <2>5. PICK h : Adds(h, F) /\ SumFunction(F) = h[DOMAIN F]
    BY <2>4, SumAdds
  <2>6. SumFunction(F) = 0
    BY <2>3, <2>5 DEF Adds
  <2> QED
    BY <2>1, <2>6 DEF EmptyLog, UsedIsSum
<1>4. ASSUME ghost.whole
      PROVE  Chain({}) /\ Live({}) /\ Logged({})
  <2>1. Chain({})
    BY <1>4 DEF EmptyLog, Chain, ChainTo
  <2>2. Live({})
    <3>1. \A k \in 1 .. 0 : FALSE
      OBVIOUS
    <3> QED
      BY <1>1, <3>1 DEF Live, LiveIf
  <2>3. Logged({})
    BY DEF EmptyLog, Logged, LoggedIf, Newest
  <2> QED
    BY <2>1, <2>2, <2>3
<1>5. LogInv
  <2>1. Writing
    BY <1>1 DEF Writing
  <2>2. {} \in SUBSET Ring
    OBVIOUS
  <2>3. Pointers
    BY <1>1 DEF EmptyLog, Pointers
  <2> QED
    BY <1>4, <2>1, <2>2, <2>3 DEF LogInv, Picture
<1> QED
  BY <1>2, <1>3, <1>5

\* The same of the next state.
LEMMA EmptyLogThen == EmptyLog' => Entries' /\ UsedIsSum' /\ LogInv'
  BY EmptyLogIs, PTL

\* The invariant holds when a volume is mounted.
LEMMA InitIInv == Init => IInv
<1> SUFFICES ASSUME Init PROVE IInv
  OBVIOUS
<1> DEFINE home == [b \in Block |-> 0]
           area == [p \in 0 .. LogSize + NumBlocks - 1 |-> Data(0)]
<1>1. \A b \in Block : home[b] = 0 /\ area[Home(b)].data = 0
  BY HomesAre DEF Area, Data
<1>2. /\ disk = [area |-> area, super |-> [start |-> FirstStart, end |-> FirstStart, dirty |-> FALSE]]
      /\ super = disk.super
      /\ cache = [now |-> home, ended |-> home, parent |-> home, changed |-> {}, kept |-> {}, pending |-> home]
      /\ journal = [depth |-> 0, unwritten |-> FALSE, hasSub |-> FALSE, entries |-> <<>>, used |-> 0, written |-> 0]
      /\ io = NoIo /\ notify = NoNotify
      /\ ghost = [logged |-> home, before |-> home, whole |-> TRUE]
  BY DEF Init
<1>3. FirstStart \in Ring
  BY LogAssumption DEF Ring
<1> HIDE DEF home, area
<1>4. EmptyLog
  BY <1>1, <1>2, <1>3 DEF EmptyLog
<1>5. Changes
  BY <1>2 DEF Changes, NoIo, Logging
<1> QED
  BY <1>4, <1>5, EmptyLogIs, InitTypes, InitUndoable DEF IInv

\* A recovery leaves an empty log.
LEMMA MountSteps ==
  ASSUME Types, LogInv, CrashAndMount
  PROVE  Types' /\ Changes' /\ Entries' /\ UsedIsSum' /\ LogInv'
<1>1. PICK home : home = Homes(disk.area)
  OBVIOUS
<1>2. home \in Contents /\ \A b \in Block : home[b] = disk.area[Home(b)].data
  <2>1. \A b \in Block : disk.area[Home(b)].data \in Content
    BY HomesAre DEF Types, DiskBlock
  <2> QED
    BY <1>1, <2>1 DEF Homes, Contents
<1>3. PICK none : none = [b \in Block |-> 0]
  OBVIOUS
<1>4. none \in [Block -> 0 .. MaxEntries] /\ \A b \in Block : none[b] = 0
  BY <1>3, Sizes
<1>5. /\ super' = disk'.super
      /\ cache' = [now |-> home, ended |-> home, parent |-> home, changed |-> {}, kept |-> {}, pending |-> none]
      /\ journal' = [journal EXCEPT !.depth = 0, !.unwritten = FALSE, !.hasSub = FALSE, !.entries = <<>>, !.used = 0]
      /\ io' = NoIo /\ notify' = NoNotify
      /\ ghost' = [ghost EXCEPT !.logged = home, !.before = home]
  BY <1>1, <1>3 DEF CrashAndMount, Mounted
<1>6. PICK h \in Nat : h = disk.super.end
  BY DEF Types, SuperBlock
<1>7. /\ disk' \in [area : [Area -> DiskBlock], super : SuperBlock] /\ disk'.area = disk.area
      /\ disk'.super.start = disk'.super.end /\ disk'.super.end = disk.super.end
  <2>1. CASE disk.super.start = disk.super.end
    <3>1. disk' = disk
      BY <2>1 DEF CrashAndMount
    <3> QED
      BY <2>1, <3>1 DEF Types
  <2>2. CASE disk.super.start # disk.super.end
    <3>1. PICK sb \in SuperBlock : sb = [start |-> h, end |-> h, dirty |-> FALSE]
      BY DEF SuperBlock
    <3>2. disk' = [disk EXCEPT !.super = sb]
      BY <1>6, <2>2, <3>1 DEF CrashAndMount, Types
    <3> QED
      BY <1>6, <3>1, <3>2 DEF Types
  <2> QED
    BY <2>1, <2>2
<1>8. cache' \in Cache
  BY <1>2, <1>4, <1>5 DEF Cache
<1>9. journal' \in JournalState /\ journal'.entries = <<>> /\ journal'.used = 0 /\ journal'.depth = 0
  <2>1. PICK no \in BOOLEAN : no = FALSE
    OBVIOUS
  <2>2. <<>> \in Seq(LogEntry)
    OBVIOUS
  <2>3. PICK e : e = <<>> /\ e \in Seq(LogEntry)
    BY <2>2
  <2>4. PICK d \in 0 .. MaxNesting : d = 0
    BY Sizes
  <2>5. PICK u \in Int : u = 0
    OBVIOUS
  <2>6. journal' = [journal EXCEPT !.depth = d, !.unwritten = no, !.hasSub = no, !.entries = e, !.used = u]
    BY <1>5, <2>1, <2>3, <2>4, <2>5
  <2>7. journal' \in JournalState /\ journal'.entries = e /\ journal'.used = u /\ journal'.depth = d
    BY <2>3, <2>6 DEF Types, JournalState
  <2> QED
    BY <2>3, <2>4, <2>5, <2>7
<1>10. /\ ghost' \in [logged : Contents, before : Contents, whole : BOOLEAN]
       /\ ghost'.logged = home /\ ghost'.whole = ghost.whole
  BY <1>2, <1>5 DEF Types
<1>11. Types'
  BY <1>5, <1>7, <1>8, <1>9, <1>10 DEF Types
<1>12. Changes'
  BY <1>5, <1>9, <1>10 DEF Changes, NoIo, Logging
<1>13. EmptyLog'
  <2>1. ghost'.whole => super'.end \in Ring
    BY <1>5, <1>7, <1>10 DEF LogInv, Picture, Chain, ChainTo
  <2>2. \A b \in Block : disk'.area[Home(b)].data = home[b]
    BY <1>2, <1>7
  <2> QED
    BY <1>4, <1>5, <1>7, <1>9, <1>10, <2>1, <2>2 DEF EmptyLog, Ring, Home
<1> QED
  BY <1>11, <1>12, <1>13, EmptyLogThen

-----------------------------------------------------------------------------
(* Every step keeps the log.                                               *)

\* The beginning of an entry keeps the log.
LEMMA LogBeginsKeepsLog ==
  ASSUME Types, Changes, Entries, UsedIsSum, LogInv, Free, cache.changed # {}, NEW flush \in BOOLEAN, LogBegins(flush)
  PROVE  Types' /\ Changes' /\ Entries' /\ UsedIsSum' /\ LogInv'
<1>1. Resting
  BY DEF Free, Resting, Logging
<1>2. ghost.whole => disk.super.start \in Ring /\ disk.super.end \in Ring /\ super.end = disk.super.end
  BY <1>1 DEF LogInv, Picture, Pointers, Chain, ChainTo, Resting, Logging
<1>3. /\ Types' /\ Changes' /\ Quiet
      /\ io'.phase = "log" /\ io'.begin = super.end /\ journal'.written = journal.written + 1
      /\ ghost'.whole => ghost.whole /\ Writing'
  BY <1>1, <1>2, LogBeginsSteps
<1>4. journal'.written \in Nat
  BY <1>3 DEF Types, JournalState
<1> QED
  BY <1>1, <1>3, <1>4, QuietKeepsLog

\* The same of a step that writes no entry to the log, before and after it.
LEMMA RestingKeepsLog ==
  ASSUME Types, Entries, UsedIsSum, LogInv,
         Types', Changes', Quiet, Resting, Resting', UNCHANGED <<journal.written, ghost.whole>>
  PROVE  Types' /\ Changes' /\ Entries' /\ UsedIsSum' /\ LogInv'
<1>1. io'.phase # "log" /\ io'.phase # "super"
  BY DEF Resting, Logging
<1>2. journal'.written \in Nat
  BY DEF Types, JournalState
<1>3. Writing'
  BY <1>1 DEF Writing
<1> QED
  BY <1>1, <1>2, <1>3, QuietKeepsLog

\* The invariant is inductive.
LEMMA NextIInv == IInv /\ [Next]_vars => IInv'
<1> SUFFICES ASSUME IInv, [Next]_vars
             PROVE  Types' /\ Changes' /\ Entries' /\ UsedIsSum' /\ LogInv'
  BY NextUndoable DEF IInv
<1> USE DEF IInv
<1>1. CASE UNCHANGED vars
  <2>1. UNCHANGED <<disk, super, cache, journal, io, notify, ghost>>
    BY <1>1 DEF vars
  <2>2. Types' /\ Changes' /\ Entries' /\ UsedIsSum'
    BY <2>1 DEF Types, Changes, Entries, Notifies, UsedIsSum, Logging
  <2>3. Landed' <=> Landed
    BY <2>1 DEF Landed
  <2>4. /\ \A p : From(p)' = From(p)
        /\ \A p, b : Lists(p, b)' <=> Lists(p, b)
        /\ \A p : Listed(p)' = Listed(p)
    BY <2>1 DEF From, Listed, Lists
  <2>5. Writing => Writing'
    BY <2>1, <2>3, <2>4 DEF Writing, Ring, NewRuns
  <2>6. Pointers => Pointers'
    BY <2>1, <2>3 DEF Pointers
  <2>7. ASSUME NEW Heads \in SUBSET Ring, Chain(Heads), Live(Heads), Logged(Heads)
        PROVE  Chain(Heads)' /\ Live(Heads)' /\ Logged(Heads)'
    <3>1. /\ \A p, b : Newest(Heads, p, b)' <=> Newest(Heads, p, b)
          /\ \A p, b : Waits(p, b)' <=> Waits(p, b)
      BY <2>1, <2>3, <2>4 DEF Newest, Waits, WaitsIf
    <3>2. Chain(Heads)'
      BY <2>1, <2>4, <2>7 DEF Chain, ChainTo, Ring
    <3>3. Live(Heads)'
      BY <2>1, <2>3, <2>4, <2>7 DEF Live, LiveIf
    <3>4. Logged(Heads)'
      BY <2>1, <2>3, <2>4, <2>7, <3>1 DEF Logged, LoggedIf, Waits, Home
    <3> QED
      BY <3>2, <3>3, <3>4
  <2>8. Picture => Picture'
    BY <2>5, <2>6, <2>7 DEF Picture, Ring
  <2> QED
    BY <2>1, <2>2, <2>8 DEF LogInv
<1>2. CASE Lock
  BY <1>2, LockSteps, RestingKeepsLog
<1>3. ASSUME NEW b \in Block, NEW c \in Content, Write(b, c)
      PROVE  Types' /\ Changes' /\ Entries' /\ UsedIsSum' /\ LogInv'
  BY <1>3, WriteSteps, RestingKeepsLog
<1>4. CASE UnlockInner
  BY <1>4, UnlockInnerSteps, RestingKeepsLog
<1>5. CASE UnlockFailed
  BY <1>5, UnlockFailedSteps, RestingKeepsLog
<1>6. CASE UnlockBatched
  BY <1>6, UnlockBatchedSteps, RestingKeepsLog
<1>7. CASE UnlockLogged
  <2>1. cache.changed # {}
    <3>1. Cardinality({}) = 0
      BY FS_EmptySet
    <3> QED
      BY <1>7, <3>1, Sizes DEF UnlockLogged
  <2> QED
    BY <1>7, <2>1, LogBeginsKeepsLog DEF UnlockLogged
<1>8. CASE Flush
  <2>1. CASE journal.unwritten /\ cache.changed # {}
    BY <1>8, <2>1, LogBeginsKeepsLog DEF Flush
  <2>2. CASE ~ (journal.unwritten /\ cache.changed # {})
    <3>1. io' = [phase |-> "flush"] /\ UNCHANGED <<disk, super, cache, journal, notify, ghost>> /\ Resting
      BY <1>8, <2>2 DEF Flush, Free, Resting, Logging
    <3> QED
      BY <3>1, FlushSteps, RestingKeepsLog
  <2> QED
    BY <2>1, <2>2
<1>9. CASE WriteLog
  BY <1>9, WriteLogSteps, WriteLogKeepsLog
<1>10. CASE MoveEnd
  BY <1>10, MoveEndKeepsLog
<1>11. CASE WriteSuper
  BY <1>11, WriteSuperKeepsLog
<1>12. CASE AddEntry
  BY <1>12, AddEntrySteps, AddEntryKeepsLog
<1>13. CASE LogEnds
  BY <1>13, LogEndsSteps
<1>14. CASE FlushEnds
  <2>1. io' = NoIo /\ UNCHANGED <<disk, super, cache, journal, notify, ghost>> /\ Resting
    BY <1>14 DEF FlushEnds, Resting, Logging
  <2> QED
    BY <2>1, FlushSteps, RestingKeepsLog
<1>15. ASSUME NEW b \in Block, WriteBack(b)
       PROVE  Types' /\ Changes' /\ Entries' /\ UsedIsSum' /\ LogInv'
  BY <1>15, WriteBackSteps, WriteBackKeepsLog
<1>16. CASE Notify
  BY <1>16, NotifyKeepsLog
<1>17. CASE NotifyEnds
  BY <1>17, NotifyEndsKeepsLog
<1>18. CASE CrashAndMount
  BY <1>18, MountSteps
<1> QED
  BY <1>1, <1>2, <1>3, <1>4, <1>5, <1>6, <1>7, <1>8, <1>9, <1>10, <1>11, <1>12, <1>13, <1>14, <1>15, <1>16, <1>17,
     <1>18 DEF Next

\* The invariant holds of every run.
LEMMA LogIsKept == Spec => []IInv
  BY InitIInv, NextIInv, PTL DEF Spec

\* The log begins with the oldest entry that is not at its place, fUsed is the sum of
\* the entries, and a disk that is marked clean has everything at its place: for a log
\* of any size, and any number of blocks and entries.
THEOREM LogPointersAreRight == Spec => []LogPointers
<1>1. IInv => LogPointers
  <2> SUFFICES ASSUME IInv PROVE LogPointers
    OBVIOUS
  <2> USE DEF IInv
  <2>1. TypeOK
    <3>1. \A p \in 0 .. LogSize + NumBlocks - 1 : disk.area[p].runs \in Seq(Block) /\ disk.area[p].data \in Content
      BY DEF Types, Area, DiskBlock
    <3>2. disk.super \in SuperBlock /\ super \in SuperBlock
      BY DEF Types
    <3>3. /\ cache.changed \cup cache.kept \subseteq Block
          /\ {cache.now, cache.ended, cache.parent} \subseteq [Block -> Content]
          /\ cache.pending \in [Block -> 0 .. MaxEntries]
      BY DEF Types, Cache, Contents
    <3>4. journal.depth \in 0 .. MaxNesting
      BY DEF Types, JournalState
    <3>5. /\ io.phase \in {"none", "log", "super", "add", "end", "flush"}
          /\ notify.phase \in {"none", "entry", "super"}
      BY PhaseFacts DEF Types, NoNotify
    <3> QED
      BY <3>1, <3>2, <3>3, <3>4, <3>5 DEF TypeOK, SuperBlock
  <2>2. \A k \in 1 .. Len(journal.entries) :
          \/ \E b \in Block : cache.pending[b] = journal.entries[k].id
          \/ io.phase = "end" /\ k = Len(journal.entries)
          \/ notify.phase = "entry" /\ notify.id = journal.entries[k].id
    BY DEF Entries, Notifies
  <2>3. ASSUME ghost.whole, ~ disk.super.dirty
        PROVE  Homes(disk.area) = ghost.logged
    <3>1. PICK Heads \in SUBSET Ring : Chain(Heads) /\ Logged(Heads)
      BY <2>3 DEF LogInv, Picture
    <3>2. disk.super.start = disk.super.end /\ disk.super.start \in Ring
      BY <2>3, <3>1 DEF LogInv, Picture, Pointers, Chain, ChainTo
    <3>3. Heads = {}
      <4> SUFFICES ASSUME NEW p \in Heads PROVE FALSE
        OBVIOUS
      <4>1. From(p) \in Nat /\ From(p) < From(disk.super.end)
        BY <3>1, EntryIsInside, Sizes DEF Ring
      <4>2. From(disk.super.end) = 0
        BY <3>2, RingFacts DEF From
      <4> QED
        BY <4>1, <4>2
    <3>4. \A b \in Block : disk.area[Home(b)].data = ghost.logged[b]
      BY <3>1, <3>3 DEF Logged, LoggedIf
    <3>5. ghost.logged \in [Block -> Content]
      BY DEF Types, Contents
    <3> QED
      BY <3>4, <3>5 DEF Homes
  <2>4. ghost.whole /\ journal.entries # <<>> => super.start = journal.entries[1].start
    BY DEF LogInv, Picture, Pointers
  <2>5. journal.used = SumFunction([x \in ToSet(journal.entries) |-> x.length])
    BY DEF UsedIsSum
  <2> QED
    BY <2>1, <2>2, <2>3, <2>4, <2>5 DEF LogPointers
<1> QED
  BY <1>1, LogIsKept, PTL

-----------------------------------------------------------------------------
(* A recovery.                                                             *)

Walk == [at : Ring, home : Contents]

\* A walk stays in the log.
LEMMA WalkStays ==
  ASSUME Types, NEW v \in Walk
  PROVE  ReplayRunArray(disk.area, disk.super.end, v) \in Walk
<1> DEFINE runs == disk.area[v.at % LogSize].runs
           next == (v.at + 1 + Len(runs)) % LogSize
           place(b) == (v.at + (CHOOSE i \in 1 .. Len(runs) : runs[i] = b)) % LogSize
           home == [b \in Block |-> IF b \in ToSet(runs) THEN disk.area[place(b)].data ELSE v.home[b]]
<1>1. ReplayRunArray(disk.area, disk.super.end, v) =
        IF v.at = disk.super.end \/ runs = <<>> \/ next = v.at THEN v ELSE [at |-> next, home |-> home]
  BY DEF ReplayRunArray
<1>2. v.at \in Ring /\ v.home \in Contents /\ v.at \in Nat
  BY Sizes DEF Walk, Ring
<1>3. \A x \in Int : x % LogSize \in Ring
  <2>1. PICK l \in Nat \ {0} : l = LogSize
    BY Sizes
  <2>2. \A x \in Int : x % l \in 0 .. l - 1
    BY <2>1
  <2> QED
    BY <2>1, <2>2 DEF Ring
<1>4. Ring \subseteq Area
  BY Sizes DEF Ring, Area
<1>5. \A x \in Int : disk.area[x % LogSize].runs \in Seq(Block) /\ disk.area[x % LogSize].data \in Content
  BY <1>3, <1>4 DEF Types, DiskBlock
<1>6. runs \in Seq(Block) /\ Len(runs) \in Nat
  BY <1>2, <1>5
<1> HIDE DEF runs
<1>7. v.at + 1 + Len(runs) \in Int
  BY <1>2, <1>6
<1>8. next \in Ring
  BY <1>3, <1>7
<1>9. ASSUME NEW b \in Block, b \in ToSet(runs)
      PROVE  disk.area[place(b)].data \in Content
  <2>1. \E i \in 1 .. Len(runs) : runs[i] = b
    BY <1>9 DEF ToSet
  <2>2. PICK i \in 1 .. Len(runs) : i = CHOOSE j \in 1 .. Len(runs) : runs[j] = b
    BY <2>1
  <2>3. v.at + i \in Int
    BY <1>2, <1>6
  <2> QED
    BY <1>5, <2>2, <2>3
<1> HIDE DEF next, place
<1>10. home \in Contents
  BY <1>2, <1>9 DEF Contents
<1> HIDE DEF home
<1>11. [at |-> next, home |-> home] \in Walk
  BY <1>8, <1>10 DEF Walk
<1> QED
  BY <1>1, <1>11

\* How far a walk has come: what no later entry lists is as it was logged.
Come(Heads, k, v) ==
  /\ v.at = disk.super.end \/ (v.at \in Heads /\ From(v.at) >= k)
  /\ \A b \in Block : (\A p \in Heads : Lists(p, b) => From(p) < From(v.at)) => v.home[b] = ghost.logged[b]

\* A step of the walk passes one head, and has the blocks that it lists.
LEMMA WalkComes ==
  ASSUME Types, NEW Heads, Chain(Heads), Logged(Heads), NEW v \in Walk, NEW k \in Nat, Come(Heads, k, v)
  PROVE  Come(Heads, k + 1, ReplayRunArray(disk.area, disk.super.end, v))
<1>1. CASE v.at = disk.super.end
  <2>1. ReplayRunArray(disk.area, disk.super.end, v) = v
    BY <1>1 DEF ReplayRunArray
  <2> QED
    BY <1>1, <2>1 DEF Come
<1>2. CASE v.at # disk.super.end
  <2>1. PICK p \in Heads : p = v.at /\ From(p) >= k
    BY <1>2 DEF Come
  <2>2. /\ p \in Ring /\ Listed(p) \in Seq(Block) /\ Len(Listed(p)) \in Nat \ {0}
        /\ From(p) \in Ring /\ From(disk.super.end) \in Ring /\ From(p) < From(disk.super.end)
        /\ From(p) + Len(Listed(p)) < From(disk.super.end)
    BY EntryIsInside DEF Chain, ChainTo
  <2>3. PICK l \in Nat \ {0} : l = LogSize
    BY Sizes
  <2>4. PICK n \in Nat \ {0} : n = Len(Listed(p))
    BY <2>2
  <2>5. PICK y \in Nat : y = From(p) /\ y + n + 1 < l /\ p \in Nat /\ p < l /\ y + n < From(disk.super.end)
    BY <2>2, <2>3, <2>4 DEF Ring
  <2>6. PICK x \in Nat : x = n + 1 /\ p + x = p + 1 + n /\ p + x < 2 * l /\ y + x < l
    BY <2>5
  <2>7. PICK next \in Ring : next = Wrap(p + x) /\ From(next) = y + x
    <3>1. disk.super.start \in Ring /\ Ahead(disk.super.start, p) = y
      BY <2>5 DEF Chain, ChainTo, From
    <3>2. Wrap(p + x) \in Ring /\ Ahead(disk.super.start, Wrap(p + x)) = y + x
      BY <2>2, <2>3, <2>6, <3>1, AheadOfWrap
    <3> QED
      BY <3>2 DEF From
  <2>8. next = (p + 1 + n) % l
    BY <2>3, <2>5, <2>6, <2>7, ModIsWrap
  <2>9. next # p
    BY <2>5, <2>6, <2>7
  <2>10. p % l = p
    BY <2>5
  <2> DEFINE place(b) == (p + (CHOOSE i \in 1 .. n : Listed(p)[i] = b)) % l
             home == [b \in Block |-> IF b \in ToSet(Listed(p)) THEN disk.area[place(b)].data ELSE v.home[b]]
  <2>11. ReplayRunArray(disk.area, disk.super.end, v) = [at |-> next, home |-> home]
    <3>1. disk.area[v.at % LogSize].runs = Listed(p) /\ Listed(p) # <<>> /\ v.at = p
      BY <2>1, <2>2, <2>3, <2>10 DEF Listed
    <3> DEFINE runs == disk.area[v.at % LogSize].runs
               goes == (v.at + 1 + Len(runs)) % LogSize
               found(b) == (v.at + (CHOOSE i \in 1 .. Len(runs) : runs[i] = b)) % LogSize
    <3>2. ReplayRunArray(disk.area, disk.super.end, v) =
            IF v.at = disk.super.end \/ runs = <<>> \/ goes = v.at THEN v
            ELSE [at |-> goes,
                  home |-> [b \in Block |-> IF b \in ToSet(runs) THEN disk.area[found(b)].data ELSE v.home[b]]]
      BY DEF ReplayRunArray
    <3>3. runs = Listed(p) /\ Len(runs) = n
      BY <2>4, <3>1
    <3> HIDE DEF runs
    <3>4. goes = next
      BY <2>3, <2>8, <3>1, <3>3
    <3>5. \A b : found(b) = place(b)
      BY <2>3, <3>1, <3>3
    <3> HIDE DEF goes, found, place
    <3>6. [b \in Block |-> IF b \in ToSet(runs) THEN disk.area[found(b)].data ELSE v.home[b]] = home
      BY <3>3, <3>5
    <3> QED
      BY <1>2, <2>9, <3>1, <3>2, <3>3, <3>4, <3>6
  <2>12. next = disk.super.end \/ (next \in Heads /\ From(next) >= k + 1)
    <3>1. next \in Heads \cup {disk.super.end}
      BY <2>4, <2>6, <2>7 DEF Chain, ChainTo
    <3> QED
      BY <2>1, <2>5, <2>6, <2>7, <3>1
  <2>13. ASSUME NEW b \in Block, \A r \in Heads : Lists(r, b) => From(r) < From(next)
         PROVE  home[b] = ghost.logged[b]
    <3>1. ASSUME NEW r \in Heads, Lists(r, b)
          PROVE  From(r) \in Nat /\ r \in Ring /\ From(r) <= y
      <4>1. From(r) \in Nat /\ r \in Ring
        BY EntryIsInside, Sizes DEF Ring
      <4>2. From(p) < From(r) => From(p) + n < From(r)
        BY <2>4 DEF Chain, ChainTo
      <4> QED
        BY <2>5, <2>6, <2>7, <2>13, <3>1, <4>1, <4>2
    <3>2. CASE Lists(p, b)
      <4>1. b \in ToSet(Listed(p)) /\ \E i \in 1 .. n : Listed(p)[i] = b
        BY <2>4, <3>2 DEF Lists, ToSet
      <4>2. PICK i \in 1 .. n : Listed(p)[i] = b /\ i = CHOOSE j \in 1 .. n : Listed(p)[j] = b
        BY <4>1
      <4>3. place(b) = (p + i) % l
        BY <4>2
      <4>4. p + i \in Nat /\ p + i < 2 * l
        BY <2>5
      <4>5. place(b) = Wrap(p + i)
        BY <2>3, <4>3, <4>4, ModIsWrap
      <4>6. Newest(Heads, p, b)
        BY <2>5, <3>1, <3>2 DEF Newest
      <4>7. disk.area[Wrap(p + i)].data = ghost.logged[b]
        BY <2>4, <4>2, <4>6 DEF Logged, LoggedIf
      <4> QED
        BY <4>1, <4>5, <4>7
    <3>3. CASE ~ Lists(p, b)
      <4>1. b \notin ToSet(Listed(p))
        BY <2>4, <3>3 DEF Lists, ToSet
      <4>2. ASSUME NEW r \in Heads, Lists(r, b)
            PROVE  From(r) < From(p)
        <5>1. From(r) \in Nat /\ r \in Ring /\ From(r) <= y
          BY <3>1, <4>2
        <5>2. r # p
          BY <3>3, <4>2
        <5>3. From(r) # From(p)
          BY <2>2, <5>1, <5>2, SameDistance DEF Chain, ChainTo, From
        <5> QED
          BY <2>5, <5>1, <5>3
      <4>3. v.home[b] = ghost.logged[b]
        BY <2>1, <4>2 DEF Come
      <4> QED
        BY <4>1, <4>3
    <3> QED
      BY <3>2, <3>3
  <2> HIDE DEF home
  <2> QED
    BY <2>11, <2>12, <2>13 DEF Come
<1> QED
  BY <1>1, <1>2

\* The walk as the definition of Replay has it.
Walks(f) ==
  f = [k \in 0 .. LogSize |->
         IF k = 0 THEN [at |-> disk.super.start, home |-> Homes(disk.area)]
         ELSE ReplayRunArray(disk.area, disk.super.end, f[k - 1])]

\* The walk of Replay exists, and stays in the log.
LEMMA WalkIs ==
  ASSUME Types, disk.super.start \in Ring
  PROVE  \E f :
           /\ Walks(f)
           /\ \A k \in 0 .. LogSize : f[k] \in Walk
           /\ Replay(disk.area, disk.super) = [ok |-> f[LogSize].at = disk.super.end, home |-> f[LogSize].home]
<1>1. PICK n \in Nat : n = LogSize
  BY Sizes
<1> DEFINE begin == [at |-> disk.super.start, home |-> Homes(disk.area)]
<1>2. begin \in Walk
  <2>1. \A b \in Block : disk.area[Home(b)].data \in Content
    BY HomesAre DEF Types, DiskBlock
  <2>2. Homes(disk.area) \in Contents
    BY <2>1 DEF Homes, Contents
  <2> QED
    BY <2>2 DEF Walk
<1> DEFINE H == [k \in 1 .. n |-> [v \in Walk |-> ReplayRunArray(disk.area, disk.super.end, v)]]
<1>3. \A k \in 1 .. n : \A v \in Walk : H[k][v] = ReplayRunArray(disk.area, disk.super.end, v) /\ H[k][v] \in Walk
  BY WalkStays
<1> HIDE DEF H
<1>4. PICK f \in [0 .. n -> Walk] : f[0] = begin /\ \A k \in 1 .. n : f[k] = H[k][f[k - 1]]
  <2>1. PICK first \in Walk : first = begin
    BY <1>2
  <2>2. Stays(n, Walk, H)
    BY <1>3 DEF Stays
  <2>3. \E f : Stepwise(n, Walk, first, H, f)
    BY <2>2, StepwiseExists
  <2> QED
    BY <2>1, <2>3 DEF Stepwise
<1>5. Walks(f)
  <2> DEFINE G == [k \in 0 .. n |-> IF k = 0 THEN begin ELSE ReplayRunArray(disk.area, disk.super.end, f[k - 1])]
  <2>1. ASSUME NEW k \in 0 .. n
        PROVE  f[k] = G[k]
    <3>1. CASE k = 0
      BY <1>4, <3>1
    <3>2. CASE k # 0
      <4>1. k \in 1 .. n /\ f[k - 1] \in Walk
        BY <3>2
      <4>2. f[k] = H[k][f[k - 1]] /\ H[k][f[k - 1]] = ReplayRunArray(disk.area, disk.super.end, f[k - 1])
        BY <1>3, <1>4, <4>1
      <4> QED
        BY <3>2, <4>2
    <3> QED
      BY <3>1, <3>2
  <2>2. DOMAIN f = 0 .. n /\ DOMAIN G = 0 .. n
    OBVIOUS
  <2> HIDE DEF G
  <2>3. f = [k \in 0 .. n |-> f[k]] /\ G = [k \in 0 .. n |-> G[k]]
    BY <2>2 DEF G
  <2>4. f = G
    BY <2>1, <2>3
  <2> QED
    BY <1>1, <2>4 DEF G, Walks
<1> DEFINE walk == CHOOSE walk : walk = [k \in 0 .. LogSize |->
                                   IF k = 0 THEN [at |-> disk.super.start, home |-> Homes(disk.area)]
                                   ELSE ReplayRunArray(disk.area, disk.super.end, walk[k - 1])]
<1>6. Walks(walk)
  BY <1>5 DEF Walks
<1>7. Replay(disk.area, disk.super) = [ok |-> walk[LogSize].at = disk.super.end, home |-> walk[LogSize].home]
  BY DEF Replay
<1> HIDE DEF walk
<1> DEFINE P == {k \in Nat : k <= n => walk[k] \in Walk}
<1>8. Nat \subseteq P
  <2>1. 0 \in P
    <3>1. walk[0] = begin
      BY <1>1, <1>6 DEF Walks
    <3> QED
      BY <1>2, <3>1
  <2>2. ASSUME NEW k \in Nat, k \in P
        PROVE  k + 1 \in P
    <3> SUFFICES ASSUME k + 1 <= n PROVE walk[k + 1] \in Walk
      OBVIOUS
    <3>1. walk[k] \in Walk
      BY <2>2
    <3>2. walk[k + 1] = ReplayRunArray(disk.area, disk.super.end, walk[k])
      BY <1>1, <1>6 DEF Walks
    <3> QED
      BY <3>1, <3>2, WalkStays
  <2> HIDE DEF P
  <2> QED
    BY <2>1, <2>2, NumberInduction
<1>9. \A k \in 0 .. LogSize : walk[k] \in Walk
  BY <1>1, <1>8
<1> QED
  BY <1>6, <1>7, <1>9

\* What a recovery finds at the end of its walk is what was logged.
LEMMA ReplayFindsLogged ==
  ASSUME Types, NEW Heads, Chain(Heads), Logged(Heads)
  PROVE  Replay(disk.area, disk.super) = [ok |-> TRUE, home |-> ghost.logged]
<1>1. disk.super.start \in Ring /\ disk.super.end \in Ring
  BY DEF Chain, ChainTo
<1>2. PICK f :
        /\ Walks(f)
        /\ \A k \in 0 .. LogSize : f[k] \in Walk
        /\ Replay(disk.area, disk.super) = [ok |-> f[LogSize].at = disk.super.end, home |-> f[LogSize].home]
  BY <1>1, WalkIs
<1>3. PICK n \in Nat : n = LogSize
  BY Sizes
<1> DEFINE P == {k \in Nat : k <= n => Come(Heads, k, f[k])}
<1>4. 0 \in P
  <2>1. f[0] = [at |-> disk.super.start, home |-> Homes(disk.area)]
    BY <1>2, <1>3 DEF Walks
  <2>2. From(disk.super.start) = 0
    BY <1>1, RingFacts DEF From
  <2>3. disk.super.start = disk.super.end \/ disk.super.start \in Heads
    BY DEF Chain, ChainTo
  <2>4. ASSUME NEW b \in Block, \A p \in Heads : Lists(p, b) => From(p) < 0
        PROVE  Homes(disk.area)[b] = ghost.logged[b]
    <3>1. ASSUME NEW p \in Heads PROVE ~ Lists(p, b)
      <4>1. From(p) \in Nat
        BY EntryIsInside, Sizes DEF Ring
      <4> QED
        BY <2>4, <4>1
    <3> QED
      BY <3>1 DEF Logged, LoggedIf, Homes
  <2>5. Come(Heads, 0, f[0])
    BY <2>1, <2>2, <2>3, <2>4 DEF Come
  <2> QED
    BY <2>5
<1>5. ASSUME NEW k \in Nat, k \in P
      PROVE  k + 1 \in P
  <2> SUFFICES ASSUME k + 1 <= n PROVE Come(Heads, k + 1, f[k + 1])
    OBVIOUS
  <2>1. f[k] \in Walk /\ Come(Heads, k, f[k])
    BY <1>2, <1>3, <1>5
  <2>2. f[k + 1] = ReplayRunArray(disk.area, disk.super.end, f[k])
    BY <1>2, <1>3 DEF Walks
  <2> QED
    BY <2>1, <2>2, WalkComes
<1>6. n \in P
  <2> HIDE DEF P
  <2>1. Nat \subseteq P
    BY <1>4, <1>5, NumberInduction
  <2> QED
    BY ONLY <1>3, <2>1, n \in Nat
<1>7. PICK v \in Walk : v = f[LogSize] /\ Come(Heads, n, v)
  BY <1>2, <1>3, <1>6
<1>8. \A p \in Heads : From(p) \in Nat /\ From(p) < n /\ From(p) < From(disk.super.end)
  <2> SUFFICES ASSUME NEW p \in Heads PROVE From(p) \in Nat /\ From(p) < n /\ From(p) < From(disk.super.end)
    OBVIOUS
  <2> QED
    BY <1>3, EntryIsInside, Sizes DEF Ring
<1>9. v.at = disk.super.end
  BY <1>7, <1>8 DEF Come
<1>10. \A b \in Block : v.home[b] = ghost.logged[b]
  BY <1>7, <1>8, <1>9 DEF Come
<1>11. v.home = ghost.logged
  <2>1. v.home \in Contents /\ ghost.logged \in Contents
    BY DEF Walk, Types
  <2>2. v.home = [b \in Block |-> v.home[b]] /\ ghost.logged = [b \in Block |-> ghost.logged[b]]
    BY <2>1 DEF Contents
  <2> QED
    BY <1>10, <2>2
<1> QED
  BY <1>2, <1>7, <1>9, <1>11

\* Whatever the moment of a crash, as long as the log is kept whole a recovery walks to
\* its end and finds every block as it was logged: for a log of any size, and any number
\* of blocks and entries.
THEOREM LogIsRecoverable == Spec => []Recoverable
<1>1. IInv => Recoverable
  <2> SUFFICES ASSUME IInv, ghost.whole
               PROVE  Replay(disk.area, disk.super) = [ok |-> TRUE, home |-> ghost.logged]
    BY DEF Recoverable
  <2>1. PICK Heads \in SUBSET Ring : Chain(Heads) /\ Logged(Heads)
    BY DEF IInv, LogInv, Picture
  <2> QED
    BY <2>1, ReplayFindsLogged DEF IInv
<1> QED
  BY <1>1, LogIsKept, PTL
=============================================================================
