------------------------------ MODULE Browser ------------------------------
(***************************************************************************)
(* The window: TreeControl.cpp, DiskFunc.cpp and SupportFunctions.cpp over *)
(* the volumes of module Volume.  When it opens it lists the partitions of *)
(* all disks in a tree, walks over that tree while it grows and mounts     *)
(* each partition; later it lists the directories that are selected, and   *)
(* copies files to the local folder.                                       *)
(*                                                                         *)
(* All of it happens in the handlers of one message loop: an action is a   *)
(* message, except that a copy is a step for each block it reads.  Every   *)
(* file system has the same files; the nodes of a directory are told apart *)
(* by whether they are directories or files.  Left out: dragging, labels   *)
(* and the windows that show properties (module Attributes has what they   *)
(* go through).                                                            *)
(***************************************************************************)
EXTENDS Volume

CONSTANTS
  Root,       \* the inode of the root directory
  Directory,  \* the entries of each directory in the order of its tree
  Size,       \* the size of each file
  Block       \* bytes read at a time: 4096

VARIABLES
  items,    \* the items of the tree, in the order they were added
  current,  \* where the walk over the tree is, 0 after it
  tried,    \* history: the items from which a volume was mounted, or could not be
  copy,     \* the copy that is made, and
  copied    \* one that was just finished

vars == <<volumeVars, items, current, tried, copy, copied>>

NoCopy == [inode |-> Root, open |-> FALSE, size |-> 0, left |-> 0, block |-> 0, offset |-> 0,
           buffer |-> <<>>, written |-> <<>>, failed |-> FALSE]

ASSUME BrowserAssumption ==
  /\ Root \in DOMAIN Directory /\ Block \in Nat \ {0}
  /\ \A f \in DOMAIN Size : Size[f] \in Nat /\ f \notin DOMAIN Directory

\* A directory has each name once; disks are numbered from 1.
ASSUME TreesAssumption ==
  /\ \A d \in DOMAIN Directory :
       /\ Directory[d] \in Seq(Range(Directory[d]))
       /\ \A i, j \in DOMAIN Directory[d] : Directory[d][i].name = Directory[d][j].name => i = j
       /\ \A e \in Range(Directory[d]) : e = [name |-> e.name, inode |-> e.inode]
  /\ \A s \in Systems : s.disks \in Seq(Range(s.disks))

-----------------------------------------------------------------------------
(* The tree control.                                                       *)

\* volume is 0 for an item that has none; entries are how many entries of its
\* directory were read when it was listed, a history.
Item(parent, level, name, disk, nr, volume, inode) ==
  [parent |-> parent, level |-> level, name |-> name, disk |-> disk, nr |-> nr,
   volume |-> volume, inode |-> inode, entries |-> 0]

\* The numbers of a set, the least one first.
InOrder(S) == [k \in 1 .. Cardinality(S) |-> CHOOSE x \in S : Cardinality({y \in S : y <= x}) = k]

Children(i) == {j \in DOMAIN items : items[j].parent = i}

\* The first of the items in a set that were added one after the other, or none.
FirstOf(is) == IF is = {} THEN 0 ELSE CHOOSE i \in is : \A j \in is : i <= j
Sibling(its, i) == FirstOf({j \in i + 1 .. Len(its) : its[j].parent = its[i].parent})

GetNextUpItem(its, item) ==
  LET up[i \in 0 .. Len(its)] ==
        IF i = 0 \/ its[i].parent = 0 THEN 0
        ELSE LET parent == its[i].parent
             IN  IF Sibling(its, parent) # 0 THEN Sibling(its, parent) ELSE up[parent]
  IN  up[item]

GetNext(its, item) ==
  LET child == FirstOf({j \in DOMAIN its : its[j].parent = item})
  IN  IF child # 0 THEN child
      ELSE IF Sibling(its, item) # 0 THEN Sibling(its, item)
      ELSE GetNextUpItem(its, item)

\* Mutant: the walk leaves the device after its first partition.
NextVisitedUp(its, item) ==
  IF its[item].level > 0 THEN GetNextUpItem(its, item) ELSE GetNext(its, item)

\* Where the walk goes from an item: not into the items of a root directory.
NextVisited(its, item) ==
  IF its[item].level = 2 THEN GetNextUpItem(its, item) ELSE GetNext(its, item)

\* The items of a disk, and those of the partitions that listPartitions finds on
\* it; before is how many items there are already.
DeviceItems(d, before) ==
  LET partitions == InOrder(Listed(disks[d]))
  IN  <<Item(0, 0, "device", d, 0, 0, Root)>>
        \o [k \in DOMAIN partitions |-> Item(before + 1, 1, "partition", d, partitions[k], 0, Root)]

-----------------------------------------------------------------------------
(* Directories.                                                            *)

IsDirectory(inode) == inode \in DOMAIN Directory
IsFile(inode) == inode \in DOMAIN Size

\* Mutant: an item has the volume that was mounted last.
ChildOfLast(its, i, entry) ==
  Item(i, IF IsDirectory(entry.inode) THEN its[i].level + 1 ELSE 2, entry.name,
       its[i].disk, its[i].nr, Len(volumes), entry.inode)

Child(its, i, entry) ==
  Item(i, IF IsDirectory(entry.inode) THEN its[i].level + 1 ELSE 2, entry.name,
       its[i].disk, its[i].nr, its[i].volume, entry.inode)

\* listDir: the first entry is thrown away, addChild drops . and ..; after
\* n entries one could not be read, or there are no more.
ListDir(its, i, n) ==
  IF ~ IsDirectory(its[i].inode) THEN its
  ELSE LET entries == Directory[its[i].inode]
           shown == InOrder({k \in 2 .. n : entries[k].name \notin {".", ".."}})
       IN  [its EXCEPT ![i].entries = n] \o [k \in DOMAIN shown |-> Child(its, i, entries[shown[k]])]

Entries(inode) == IF IsDirectory(inode) THEN Len(Directory[inode]) ELSE 0

-----------------------------------------------------------------------------
(* Messages.                                                               *)

\* WM_INITDIALOG, one item of the walk: a partition is mounted and its root
\* directory listed.
Visit(chance) ==
  /\ current # 0
  /\ IF items[current].level = 1
       THEN /\ Mount(items[current].disk, items[current].nr, chance)
            /\ tried' = Append(tried, current)
            /\ IF Len(volumes') = Len(volumes) THEN items' = items
               ELSE \E n \in 0 .. Entries(Root) :
                      items' = ListDir([items EXCEPT ![current].volume = Len(volumes')], current, n)
       ELSE UNCHANGED <<volumeVars, tried, items>>
  /\ current' = NextVisited(items', current)
  /\ UNCHANGED <<copy, copied>>

\* TVN_SELCHANGING
Select(i, n) ==
  /\ current = 0 /\ copy = NoCopy
  /\ items[i].level > 1 /\ Children(i) = {} /\ n \in 0 .. Entries(items[i].inode)
  /\ items' = ListDir(items, i, n)
  /\ copied' = NoCopy
  /\ UNCHANGED <<volumeVars, current, tried, copy>>

\* ID_copy: the file is opened; the local file is too, or cannot be.
Copy(i, open) ==
  LET size == Size[items[i].inode]
      block == IF size < Block THEN size ELSE Block
  IN  /\ current = 0 /\ copy = NoCopy
      /\ items[i].level > 1 /\ IsFile(items[i].inode)
      /\ copy' = [inode |-> items[i].inode, open |-> open, size |-> size, left |-> size, block |-> block, offset |-> 0,
                  buffer |-> [k \in 1 .. block |-> 0], written |-> <<>>, failed |-> FALSE]
      /\ copied' = NoCopy
      /\ UNCHANGED <<volumeVars, items, current, tried>>

\* Mutant: reading up to the end of the file gives nothing.
ReadBefore(pos, length) ==
  IF pos >= copy.size \/ pos + length >= copy.size THEN <<>>
  ELSE [k \in 1 .. length |-> pos + k]

\* Inode::ReadAt: the bytes from pos on, each known by its place.
Read(pos, length) ==
  IF pos >= copy.size THEN <<>>
  ELSE [k \in 1 .. (IF pos + length > copy.size THEN copy.size - pos ELSE length) |-> pos + k]

\* Mutant: every block is read from the beginning of the file.
BlockFromStart(c, read, fails) ==
  LET length == IF fails THEN c.block ELSE Len(read)
      buffer == IF fails THEN c.buffer ELSE read \o SubSeq(c.buffer, Len(read) + 1, Len(c.buffer))
      left == IF c.open THEN c.left - length ELSE c.left
  IN  [c EXCEPT !.buffer = buffer, !.left = left, !.failed = @ \/ fails,
                !.written = IF c.open THEN @ \o SubSeq(buffer, 1, length) ELSE @,
                !.block = IF left < length THEN left ELSE length]

\* One round of the loop.  What skyfs_read returns is ignored: when it fails, the
\* length and the buffer are still those of the round before.
BlockCopied(c, read, fails) ==
  LET length == IF fails THEN c.block ELSE Len(read)
      buffer == IF fails THEN c.buffer ELSE read \o SubSeq(c.buffer, Len(read) + 1, Len(c.buffer))
      left == IF c.open THEN c.left - length ELSE c.left
  IN  [c EXCEPT !.buffer = buffer, !.left = left, !.failed = @ \/ fails, !.offset = @ + length,
                !.written = IF c.open THEN @ \o SubSeq(buffer, 1, length) ELSE @,
                !.block = IF left < length THEN left ELSE length]

CopyBlock(fails) ==
  /\ copy.left > 0
  \* bound: where a copy that cannot be written reads
  /\ copy.offset <= copy.size
  /\ copy' = BlockCopied(copy, Read(copy.offset, copy.block), fails)
  /\ UNCHANGED <<volumeVars, items, current, tried, copied>>

CopyDone ==
  /\ copy # NoCopy /\ copy.left <= 0
  /\ copied' = copy
  /\ copy' = NoCopy
  /\ UNCHANGED <<volumeVars, items, current, tried>>

\* The items that are in the tree before the walk.
Devices ==
  LET all[d \in 0 .. Len(disks)] == IF d = 0 THEN <<>> ELSE all[d - 1] \o DeviceItems(d, Len(all[d - 1]))
  IN  all[Len(disks)]

Init ==
  /\ VolumeInit
  /\ items = Devices
  /\ current = IF items = <<>> THEN 0 ELSE 1
  /\ tried = <<>>
  /\ copy = NoCopy /\ copied = NoCopy

Next ==
  \/ \E chance \in Chances : ~ chance.readOnly /\ Visit(chance)
  \/ \E i \in DOMAIN items :
       \/ \E n \in 0 .. Entries(items[i].inode) : Select(i, n)
       \/ \E open \in BOOLEAN : Copy(i, open)
  \/ \E fails \in BOOLEAN : CopyBlock(fails)
  \/ CopyDone

Working == (\E chance \in Chances : Visit(chance)) \/ (\E fails \in BOOLEAN : CopyBlock(fails)) \/ CopyDone

\* A handler runs until it returns.
Spec == Init /\ [][Next]_vars /\ WF_vars(Working)

-----------------------------------------------------------------------------
(* Properties.                                                             *)

\* While the tree grows under the walk, no partition is mounted twice, and when
\* the walk is over each one has been tried: it does "continue with the next
\* partition or the next device" (TreeControl.cpp).
EveryItemTried ==
  /\ IsInjective(tried)
  /\ current = 0 => Range(tried) = {i \in DOMAIN items : items[i].level = 1}

\* The partition an item belongs to.
PartitionOf(i) ==
  LET of[j \in DOMAIN items] == IF items[j].level <= 1 THEN j ELSE of[items[j].parent]
  IN  of[i]

\* Every item below a partition is an entry of the directory of its parent, is
\* there once, and leads to the volume that was mounted from its partition.
ItemsAreEntries ==
  \A i \in DOMAIN items :
    items[i].level > 1 =>
      LET parent == items[items[i].parent]
          partition == items[PartitionOf(i)]
      IN  /\ [name |-> items[i].name, inode |-> items[i].inode] \in Range(Directory[parent.inode])
          /\ \A j \in Children(items[i].parent) : items[j].name = items[i].name => j = i
          /\ items[i].volume \in DOMAIN volumes
          /\ volumes[items[i].volume].disk = partition.disk
          /\ volumes[items[i].volume].nr = partition.nr

\* A finished copy is as long as the file, and the file's contents unless a
\* block could not be read.
CopyWhole ==
  copied # NoCopy =>
    /\ Len(copied.written) = copied.size
    /\ ~ copied.failed => copied.written = [k \in 1 .. copied.size |-> k]

\* The walk over the growing tree ends, and so does a copy to a file that could
\* be opened.
HandlersReturn == <>(current = 0) /\ (copy # NoCopy /\ copy.open ~> copy = NoCopy)
=============================================================================
