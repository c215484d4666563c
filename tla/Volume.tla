------------------------------- MODULE Volume -------------------------------
(***************************************************************************)
(* bfs/Volume.cpp: a partition is opened, its super block is read, and a   *)
(* volume is mounted, formatted, unmounted; the runs of blocks that other  *)
(* parts find on it are validated.                                         *)
(*                                                                         *)
(* A volume is asked for by the number of a partition.  The partition's    *)
(* entry, from which its size is taken, is looked up by DeviceOpener::Open *)
(* (module Partitions), and the partition itself by the system.  Handles   *)
(* are numbers that the system uses again once they are closed.            *)
(*                                                                         *)
(* The window calls Mount(int, int, uint32).  Nothing calls the other      *)
(* operations; they are modelled as they are written.  Left out: the block *)
(* cache and the journal of a volume that could not be mounted, which are  *)
(* never deleted; the journal and the bitmap, which are modules of their   *)
(* own; and the live queries, in module Query.                             *)
(***************************************************************************)
EXTENDS Partitions

CONSTANTS
  Systems,     \* disks, and the super blocks on them
  Number,      \* numbers of partitions that are asked for
  BlockSize,   \* block sizes of new file systems
  Garbage,     \* the sizes an entry may show that was never filled in
  MaxHandles,  \* bound: open handles
  MaxVolumes   \* bound: mounted volumes

Closed == <<0, 0>>
SectorSize == 512
LogLength == 2048
kDesiredAllocationGroups == 56

ASSUME VolumeAssumption ==
  /\ Number \subseteq Nat /\ BlockSize \subseteq {1024, 2048, 4096, 8192} /\ Garbage \subseteq Nat
  /\ MaxHandles \in Nat /\ MaxVolumes \in Nat

VARIABLES
  disks,     \* the tables of each disk
  walks,     \* what a walk over them finds, since they never change
  super,     \* the super block of each device <<d, k>>, the k-th partition of the disk d, or all of it
  handles,   \* the device of each handle
  volumes,   \* the mounted volumes
  formatted  \* devices on which a file system was made (bound: one)

volumeVars == <<disks, walks, super, handles, volumes, formatted>>

-----------------------------------------------------------------------------
(* Super blocks.                                                           *)

DivideRoundup(a, b) == (a + b - 1) \div b

NoSuper == [magic |-> FALSE, blockSize |-> 0, blockShift |-> 0, numBlocks |-> 0,
            numAgs |-> 0, blocksPerAg |-> 0, agShift |-> 0, log |-> [group |-> 0, start |-> 0, length |-> 0]]

\* disk_super_block::IsValid
IsValid(sb) ==
  /\ sb.magic
  /\ 2 ^ sb.blockShift = sb.blockSize
  /\ sb.numAgs >= 1 /\ sb.agShift >= 1 /\ sb.blocksPerAg >= 1
  /\ sb.numBlocks >= 10
  /\ sb.numAgs = DivideRoundup(sb.numBlocks, 2 ^ sb.agShift)

\* There is a first disk, on which OpenDevice opens a partition.  Each partition that a
\* walk finds can be opened, and it and the disk have something where a super block
\* would be.
ASSUME SystemsAssumption ==
  \A s \in Systems :
    /\ 1 \in DOMAIN s.disks /\ DOMAIN s.disks \subseteq Nat \ {0}
    /\ \A d \in DOMAIN s.disks :
         /\ \A t \in DOMAIN s.disks[d].tables : s.disks[d].tables[t] \in Seq(Entry)
         /\ \A k \in 0 .. Len(Walk(s.disks[d]).found) : <<d, k>> \in DOMAIN s.super

\* disk_super_block::Initialize: the groups are made larger until there are few
\* enough of them, or they are as large as a run can be long.
Groups(numBlocks, blockSize) ==
  LET bitsPerBlock == blockSize * 8
      bitmapBlocks == DivideRoundup(numBlocks, bitsPerBlock)
      first == Min({s \in 13 .. 16 : 2 ^ s >= bitsPerBlock})
      groups(shift) == DivideRoundup(bitmapBlocks, 2 ^ (shift - first))
      shift == Min({s \in first .. 16 : groups(s) <= kDesiredAllocationGroups \/ s = 16})
  IN  [numAgs |-> groups(shift), blocksPerAg |-> 2 ^ (shift - first), agShift |-> shift]

ToBlockRun(block, agShift) == [group |-> block \div 2 ^ agShift, start |-> block % 2 ^ agShift, length |-> 1]
ToBlock(run, agShift) == run.group * 2 ^ agShift + run.start

\* Mutant: every group has one block of the bitmap.
LogBehindGroups(sectors, blockSize) ==
  LET numBlocks == sectors \div (blockSize \div SectorSize)
      groups == Groups(numBlocks, blockSize)
  IN  [magic |-> TRUE, blockSize |-> blockSize, blockShift |-> Min({s \in 9 .. 13 : 2 ^ s >= blockSize}),
       numBlocks |-> numBlocks,
       numAgs |-> groups.numAgs, blocksPerAg |-> groups.blocksPerAg, agShift |-> groups.agShift,
       log |-> [ToBlockRun(groups.numAgs + 1, groups.agShift) EXCEPT !.length = LogLength]]

\* The super block that Volume::Initialize writes on a device of that size: the
\* log is behind the bitmap, and as long on every device.
NewSuperBlock(sectors, blockSize) ==
  LET numBlocks == sectors \div (blockSize \div SectorSize)
      groups == Groups(numBlocks, blockSize)
  IN  [magic |-> TRUE, blockSize |-> blockSize, blockShift |-> Min({s \in 9 .. 13 : 2 ^ s >= blockSize}),
       numBlocks |-> numBlocks,
       numAgs |-> groups.numAgs, blocksPerAg |-> groups.blocksPerAg, agShift |-> groups.agShift,
       log |-> [ToBlockRun(groups.numAgs * groups.blocksPerAg + 1, groups.agShift) EXCEPT !.length = LogLength]]

\* The group and the start may be one too large.
IsValidRun(sb, run) ==
  /\ run.group \in 0 .. sb.numAgs
  /\ run.start <= 2 ^ sb.agShift
  /\ run.length # 0
  /\ run.length + run.start <= 2 ^ sb.agShift

-----------------------------------------------------------------------------
(* DeviceOpener.  h is 0 when it has no handle.  The handle of the whole   *)
(* disk is closed before the partition is opened; if that fails, or nobody *)
(* looks at what Open returns, it is still the handle that is used.        *)

Fresh == Min({h \in 1 .. MaxHandles : handles[h] = Closed})

Opened(d, device, gaveUp, info, fails) ==
  IF fails = "disk" THEN [h |-> 0, handles |-> handles, info |-> {}]
  ELSE [h |-> Fresh, info |-> info,
        handles |-> IF gaveUp THEN [handles EXCEPT ![Fresh] = <<d, 0>>]
                    ELSE IF fails # "partition" /\ device[2] <= Len(walks[device[1]].found)
                      THEN [handles EXCEPT ![Fresh] = device]
                      ELSE handles]

\* Whether an opener returns before it comes to the partition.
GivesUp(d, nr) ==
  ~ Readable(disks[d], 0) \/ (Stops(walks[d].found, nr) = {} /\ (Full(disks[d]) \/ ~ walks[d].ok))
GivesUpOnDevice(d) == Full(disks[d]) \/ ~ walks[d].ok

\* Open(int diskNr, ...)
Open(d, nr, fails) ==
  LET found == walks[d].found
  IN  Opened(d, <<d, nr + 1>>, GivesUp(d, nr), {found[i] : i \in Saved(found, nr)}, fails)

\* Open(const char *device, ...), which then opens \Device\HardDisk0\Partition3.
OpenDevice(d, nr, fails) ==
  LET found == walks[d].found
  IN  Opened(d, <<1, 3>>, GivesUpOnDevice(d), {found[i] : i \in SavedOnDevice(found, nr)}, fails)

\* Mutant: the device is closed although the volume keeps it.
Unkept(o, ok) == IF o.h = 0 THEN o.handles ELSE [o.handles EXCEPT ![o.h] = Closed]

\* Keep, or what the destructor does.
Kept(o, ok) == IF ok \/ o.h = 0 THEN o.handles ELSE [o.handles EXCEPT ![o.h] = Closed]

\* GetSize
SizeOf(o, garbage) == IF o.info = {} THEN garbage ELSE (CHOOSE e \in o.info : TRUE).size

\* Identify; a handle that is closed cannot be read.
Identified(o) ==
  IF o.h = 0 \/ o.handles[o.h] = Closed THEN NoSuper ELSE super[o.handles[o.h]]

-----------------------------------------------------------------------------
(* Volumes.                                                                *)

\* What goes wrong, one thing at most: what cannot be opened, had or read, or a
\* bad directory of indices; or the caller asks for no writing.
Fails == {"nothing", "disk", "partition", "memory", "root", "indices"}
Chances == {c \in [fails : Fails, garbage : Garbage, readOnly : BOOLEAN] : c.readOnly => c.fails = "nothing"}

\* The part of the three Mount methods behind the opener.
MountOpened(o, d, nr, by, chance) ==
  LET sb == Identified(o)
      size == SizeOf(o, chance.garbage)
      ok == IsValid(sb) /\ size >= sb.numBlocks * (sb.blockSize \div SectorSize) /\ chance.fails \notin {"memory", "root"}
  IN  /\ handles' = Kept(o, ok)
      /\ volumes' = IF ~ ok THEN volumes
                    ELSE Append(volumes,
                           [disk |-> d, nr |-> nr, by |-> by, handle |-> o.h, sb |-> sb,
                            readOnly |-> chance.readOnly \/ chance.fails = "indices"])
      /\ UNCHANGED <<disks, walks, super, formatted>>

Bounded == Len(volumes) < MaxVolumes /\ \E h \in 1 .. MaxHandles : handles[h] = Closed

Mount(d, nr, chance) == Bounded /\ MountOpened(Open(d, nr, chance.fails), d, nr, "number", chance)
MountByName(d, nr, chance) == Bounded /\ MountOpened(OpenDevice(d, nr, chance.fails), d, nr, "name", chance)
\* Mount(const char *, ...) once more.
MountBFS(d, nr, chance) == Bounded /\ MountOpened(OpenDevice(d, nr, chance.fails), d, nr, "name", chance)

\* Initialize.  skyfsNr was never set, so it is any number; the super block is
\* written when all else is done, but before the transaction is.
Initialize(d, nr, blockSize, chance, done) ==
  LET o == OpenDevice(d, nr, chance.fails)
      sb == NewSuperBlock(SizeOf(o, chance.garbage), blockSize)
      written == IF o.h # 0 /\ o.handles[o.h] # Closed /\ IsValid(sb) /\ chance.fails \notin {"memory", "root"} /\ done
                   THEN {o.handles[o.h]} ELSE {}
  IN  /\ Bounded /\ formatted = {}
      /\ handles' = Kept(o, FALSE)
      /\ super' = [v \in DOMAIN super |-> IF v \in written THEN sb ELSE super[v]]
      /\ formatted' = formatted \cup written
      /\ UNCHANGED <<disks, walks, volumes>>

Unmount(i) ==
  /\ handles' = [handles EXCEPT ![volumes[i].handle] = Closed]
  /\ volumes' = RemoveAt(volumes, i)
  /\ UNCHANGED <<disks, walks, super, formatted>>

\* Panic, if the run is not valid.
ValidateBlockRun(i, run) ==
  /\ volumes' = [volumes EXCEPT ![i].readOnly = @ \/ ~ IsValidRun(volumes[i].sb, run)]
  /\ UNCHANGED <<disks, walks, super, handles, formatted>>

VolumeInit ==
  /\ \E system \in Systems :
       /\ disks = system.disks
       /\ walks = [d \in DOMAIN system.disks |-> Walk(system.disks[d])]
       /\ super = system.super
  /\ handles = [h \in 1 .. MaxHandles |-> Closed]
  /\ volumes = <<>>
  /\ formatted = {}

VolumeNext ==
  \/ \E d \in DOMAIN disks, nr \in Number, chance \in Chances :
       \/ Mount(d, nr, chance)
       \/ MountByName(d, nr, chance)
       \/ MountBFS(d, nr, chance)
       \/ \E blockSize \in BlockSize, done \in BOOLEAN :
            ~ chance.readOnly /\ Initialize(d, nr, blockSize, chance, done)
  \/ \E i \in DOMAIN volumes :
       \/ Unmount(i)
       \/ \E run \in {volumes[i].sb.log, [volumes[i].sb.log EXCEPT !.group = volumes[i].sb.numAgs + 1]} : ValidateBlockRun(i, run)

VolumeSpec == VolumeInit /\ [][VolumeNext]_volumeVars

-----------------------------------------------------------------------------
(* Properties.                                                             *)

\* A mounted volume has a handle of its own, open on the device it was asked
\* for, or on the whole disk if the opener gave up before it came to the partition
\* (a super block that was found there is mounted, new or left over); whatever could
\* not be mounted, or was unmounted, leaves none open.
OwnDevice ==
  /\ \A i, j \in DOMAIN volumes : volumes[i].handle = volumes[j].handle => i = j
  /\ \A i \in DOMAIN volumes :
       LET v == volumes[i]
       IN  \/ handles[v.handle] = IF v.by = "number" THEN <<v.disk, v.nr + 1>> ELSE <<1, 3>>
           \/ /\ handles[v.handle] = <<v.disk, 0>>
              /\ IF v.by = "number" THEN GivesUp(v.disk, v.nr) ELSE GivesUpOnDevice(v.disk)
  /\ \A h \in 1 .. MaxHandles : handles[h] # Closed => \E i \in DOMAIN volumes : volumes[i].handle = h

\* Where the numbers of the window and those of the opener agree: in front of
\* a primary BFS partition is exactly one partition of another system; in front
\* of any other there are SkyFS partitions only.
NumbersAgree(found, i) ==
  IF found[i].type = "bfs" /\ found[i].primary
    THEN Cardinality({j \in 1 .. i - 1 : found[j].type \notin {"skyfs", "bfs"}}) = 1
    ELSE \A j \in 1 .. i - 1 : found[j].type = "skyfs"

\* A disk without primary BFS partitions has as many SkyFS and BFS partitions as
\* CountSkyfsPartitions says, and each number below that finds one of its own.
CountedAreFound ==
  \A d \in DOMAIN disks :
    LET found == walks[d].found
        count == CountSkyfsPartitions(disks[d], TRUE) + CountSkyfsPartitions(disks[d], FALSE)
        ours == {i \in DOMAIN found : found[i].type \in {"skyfs", "bfs"}}
    IN  walks[d].ok /\ ~ Full(disks[d]) /\ (\A i \in ours : found[i].primary => found[i].type = "skyfs") =>
          /\ count = Cardinality(ours)
          /\ UNION {Saved(found, nr) : nr \in 0 .. count - 1} = ours

\* A volume that was mounted from an item of the window is not larger than the
\* partition of that item, where the numbers agree; and the counted partitions
\* are those that can be found.
FitsPartition ==
  /\ CountedAreFound
  /\ \A i \in DOMAIN volumes :
       LET v == volumes[i]
           found == walks[v.disk].found
       IN  /\ v.by = "number" /\ handles[v.handle][2] = v.nr + 1
           /\ found[v.nr + 1].type \in {"skyfs", "bfs"} /\ NumbersAgree(found, v.nr + 1)
           => v.sb.numBlocks * (v.sb.blockSize \div SectorSize) <= found[v.nr + 1].size

\* A file system made by Initialize can be mounted: its super block is valid,
\* its groups cover it and have a bit in their part of the bitmap for each of
\* their blocks, and the log lies behind the bitmap, in one group if it fits the
\* first one, and inside the device if that is large enough.
FormattedMounts ==
  \A v \in formatted :
    LET sb == super[v]
        bitmap == 1 + sb.numAgs * sb.blocksPerAg
    IN  /\ IsValid(sb)
        /\ sb.numAgs * 2 ^ sb.agShift >= sb.numBlocks
        /\ sb.blocksPerAg * sb.blockSize * 8 = 2 ^ sb.agShift
        /\ bitmap + LogLength <= 2 ^ sb.agShift => IsValidRun(sb, sb.log)
        /\ ToBlock(sb.log, sb.agShift) >= bitmap
        /\ sb.numBlocks >= bitmap + LogLength => ToBlock(sb.log, sb.agShift) + LogLength <= sb.numBlocks

=============================================================================
