------------------------ MODULE BlockAllocatorProofs ------------------------
(***************************************************************************)
(* AllocateBlocks never returns a block that is used, and the boot block,  *)
(* the bitmap and the log stay used, after any aborts; until the first of  *)
(* them the hints fit the bitmap and the search misses nothing: for any    *)
(* sizes of the volume and its groups and any requests.  Where a group's   *)
(* bitmap ends with a block shorter than others of it, which only the last *)
(* group's can, what is said of that group is less: its runs lie in it.    *)
(*                                                                         *)
(* The argument: a range that the scan counts is free by what the scan     *)
(* looks at, whatever the hints say; what can go wrong is rangeStart, the  *)
(* way back from a block of the bitmap and a bit in it to a block of the   *)
(* group.  It is right in all blocks of the bitmap but a last one that is  *)
(* shorter than the ones before it.  Hints that fit the bitmap pass over   *)
(* used blocks only, so the longest range of a group is counted whole, and *)
(* the groups are passed one after the other.                              *)
(***************************************************************************)
EXTENDS BlockAllocator, InductionLemmas, TLAPS

\* Groups and their sizes are numbers, and there is a first group.
LEMMA GroupTypes ==
  /\ BitsPerGroup \in Nat \ {0} /\ NumGroups \in Nat /\ 0 \in Group
  /\ \A g \in Group : g \in Nat /\ NumBits(g) \in Int
<1>1. BitsPerGroup \in Nat \ {0}
  BY SizesAssumption DEF BitsPerGroup
<1>2. PICK n \in Nat : n = NumBlocks + BitsPerGroup - 1
  BY <1>1, SizesAssumption
<1>3. PICK d \in Nat \ {0} : d = BitsPerGroup
  BY <1>1
<1>4. n >= d /\ NumGroups = n \div d
  BY <1>2, <1>3, SizesAssumption DEF NumGroups
<1>5. n \div d \in Nat /\ n \div d >= 1
  BY <1>4
<1>6. 0 \in Group /\ \A g \in Group : g \in Nat
  BY <1>4, <1>5 DEF Group
<1> QED
  BY <1>1, <1>4, <1>5, <1>6, SizesAssumption DEF NumBits

\* Numbers that are a block and a bit in it.
LEMMA BlockAndBit ==
  ASSUME NEW first \in Nat, NEW d \in Nat \ {0}
  PROVE  /\ first \div d \in Nat /\ first % d \in 0 .. d - 1
         /\ first = (first \div d) * d + (first % d)
         /\ first < d => first \div d = 0
<1>1. first \div d \in Nat /\ first % d \in 0 .. d - 1
  OBVIOUS
<1>2. first = d * (first \div d) + (first % d)
  OBVIOUS
<1>3. PICK q \in Nat : q = first \div d
  BY <1>1
<1>4. d * q = q * d
  OBVIOUS
<1>5. first < d => first \div d = 0
  OBVIOUS
<1> QED
  BY <1>1, <1>2, <1>3, <1>4, <1>5

LEMMA NextMultiple ==
  ASSUME NEW q \in Nat, NEW m \in Nat, NEW d \in Nat \ {0}, q * d < m * d
  PROVE  (q + 1) * d <= m * d
<1>1. q < m
  <2>1. ASSUME m <= q PROVE m * d <= q * d
    BY <2>1
  <2>2. m * d \in Nat /\ q * d \in Nat
    OBVIOUS
  <2> QED
    BY <2>1, <2>2
<1>2. PICK k \in Nat : m = q + 1 + k
  <2>1. m - (q + 1) \in Nat /\ m = q + 1 + (m - (q + 1))
    BY <1>1
  <2> QED
    BY <2>1
<1>3. m * d = (q + 1) * d + k * d /\ k * d \in Nat /\ (q + 1) * d \in Nat
  BY <1>2
<1> QED
  BY <1>3

\* rangeStart is where the range begins.
LEMMA RangeStartRight ==
  ASSUME NEW g \in Group, NEW first \in Bits(g), Whole(g)
  PROVE  RangeStart(g, first) = first
<1>1. PICK d \in Nat \ {0} : d = BitsPerBlock
  BY SizesAssumption
<1>2. PICK n \in Int : n = NumBits(g)
  BY GroupTypes
<1>3. first \in Nat /\ first < n
  BY <1>2 DEF Bits
<1>4. PICK q \in Nat : q = first \div d
  <2>1. first \div d \in Nat
    BY <1>3
  <2> QED
    BY <2>1
<1>5. PICK b \in Nat : b = first % d
  <2>1. first % d \in Nat
    BY <1>3
  <2> QED
    BY <2>1
<1>6. first = q * d + b /\ (first < d => q = 0)
  <2>1. first \in Nat
    BY <1>3
  <2>2. /\ first = (first \div d) * d + (first % d)
        /\ first < d => first \div d = 0
    BY <2>1, BlockAndBit
  <2> QED
    BY <1>4, <1>5, <2>2
<1>7. PICK size : size = NumBlockBits(g, q)
  OBVIOUS
<1>8. RangeStart(g, first) = q * size + b
  BY <1>1, <1>4, <1>5, <1>7 DEF RangeStart
<1>9. size = IF (q + 1) * d > n THEN n % d ELSE d
  BY <1>1, <1>2, <1>7 DEF NumBlockBits
<1>10. CASE n <= d
  <2>1. q = 0 /\ b = first
    <3>1. q = 0
      BY <1>3, <1>6, <1>10
    <3> QED
      BY <1>6, <3>1
  <2>2. size \in Int
    BY <1>9
  <2> QED
    BY <1>8, <2>1, <2>2
<1>11. CASE n % d = 0
  <2>1. n \in Nat
    BY <1>3
  <2>2. PICK m \in Nat : n = m * d
    <3>1. n \div d \in Nat /\ n = (n \div d) * d + (n % d)
      BY <2>1, BlockAndBit
    <3>2. PICK p \in Nat : p = n \div d
      BY <3>1
    <3>3. p * d \in Nat /\ n = p * d + 0
      BY <1>11, <3>1, <3>2
    <3>4. n = p * d
      BY <2>1, <3>3
    <3> QED
      BY <3>4
  <2>3. q * d < m * d
    <3>1. q * d \in Nat /\ m * d \in Nat
      OBVIOUS
    <3> QED
      BY <1>3, <1>6, <2>2, <3>1
  <2>4. (q + 1) * d <= n
    BY <2>2, <2>3, NextMultiple
  <2>5. size = d
    <3>1. (q + 1) * d \in Int
      OBVIOUS
    <3> QED
      BY <1>9, <2>4, <3>1
  <2> QED
    BY <1>6, <1>8, <2>5
<1> QED
  BY <1>1, <1>2, <1>10, <1>11 DEF Whole

\* Where it is wrong it is too low.
LEMMA RangeStartWithin ==
  ASSUME NEW g \in Group, NEW first \in Bits(g)
  PROVE  RangeStart(g, first) \in 0 .. first
<1>1. PICK d \in Nat \ {0} : d = BitsPerBlock
  BY SizesAssumption
<1>2. PICK n \in Int : n = NumBits(g)
  BY GroupTypes
<1>3. first \in Nat /\ first < n /\ n \in Nat
  BY <1>2 DEF Bits
<1>4. PICK q \in Nat, b \in Nat : q = first \div d /\ b = first % d /\ first = q * d + b
  <2>1. /\ first \div d \in Nat /\ first % d \in Nat
        /\ first = (first \div d) * d + (first % d)
    <3>1. first \in Nat
      BY <1>3
    <3> QED
      BY <3>1, BlockAndBit
  <2> QED
    BY <2>1
<1>5. PICK size \in 0 .. d : size = NumBlockBits(g, q)
  <2>1. n % d \in 0 .. d - 1
    BY <1>3, BlockAndBit
  <2> QED
    BY <1>1, <1>2, <2>1 DEF NumBlockBits
<1>6. RangeStart(g, first) = q * size + b
  BY <1>1, <1>4, <1>5 DEF RangeStart
<1>7. q * size \in Nat /\ q * size <= q * d
  <2>1. PICK k \in Nat : d = size + k
    <3>1. d - size \in Nat /\ d = size + (d - size)
      BY <1>5
    <3> QED
      BY <3>1
  <2>2. q * d = q * size + q * k /\ q * k \in Nat /\ q * size \in Nat
    BY <1>5, <2>1
  <2> QED
    BY <2>2
<1>8. q * d \in Nat
  OBVIOUS
<1> QED
  BY <1>4, <1>6, <1>7, <1>8

\* What a visit finds is a range of free blocks that the scan has counted.
From(request, i) == ScanStart((request.group + i) % NumGroups, IF i = 0 THEN request.start ELSE 0)

LEMMA FindsRange ==
  ASSUME NEW request \in Requests, NEW i \in 0 .. 2 * NumGroups - 1, NEW run \in Find(request, i)
  PROVE  \E g \in Group : \E r \in FirstEnough(request, g, From(request, i), i >= NumGroups) :
           /\ g = (request.group + i) % NumGroups
           /\ r \in Ranges(g, From(request, i))
           /\ run = [group |-> g, start |-> RangeStart(g, r[1]), length |-> r[2] - r[1] + 1]
           /\ RangeStart(g, r[1]) \in 0 .. r[1] /\ (Whole(g) => RangeStart(g, r[1]) = r[1])
           /\ r[1] \in Bits(g) /\ r[2] \in Bits(g) /\ r[1] <= r[2] /\ r[1] .. r[2] \cap bitmap[g] = {}
<1>1. PICK g : g = (request.group + i) % NumGroups
  OBVIOUS
<1>2. g \in Group
  <2>1. PICK n \in Nat \ {0} : n = NumGroups
    BY GroupTypes DEF Group
  <2>2. request.group + i \in Nat
    BY <2>1, GroupTypes DEF Requests
  <2> QED
    BY <1>1, <2>1, <2>2 DEF Group
<1>3. PICK r \in FirstEnough(request, g, From(request, i), i >= NumGroups) :
        run = [group |-> g, start |-> RangeStart(g, r[1]), length |-> r[2] - r[1] + 1]
  BY <1>1 DEF Find, From
<1>4. r \in Ranges(g, From(request, i))
  BY <1>3 DEF FirstEnough
<1>5. /\ r[1] \in Bits(g) /\ r[2] \in Bits(g) /\ r[1] <= r[2]
      /\ r[1] .. r[2] \cap bitmap[g] = {}
  BY <1>4 DEF Ranges
<1>6. RangeStart(g, r[1]) \in 0 .. r[1] /\ (Whole(g) => RangeStart(g, r[1]) = r[1])
  BY <1>2, <1>5, RangeStartRight, RangeStartWithin
<1> QED
  BY <1>1, <1>2, <1>3, <1>4, <1>5, <1>6

\* A run in its group, of free blocks if the bitmap of the group is whole.
IsFree(run) ==
  /\ run \in Run
  /\ run.start + run.length <= NumBits(run.group)
  /\ Whole(run.group) => FreeRun(run.group, run.start, run.length)

LEMMA FindsFree ==
  ASSUME NEW request \in Requests, NEW i \in 0 .. 2 * NumGroups - 1, NEW run \in Find(request, i)
  PROVE  IsFree(run)
<1>1. PICK g, r :
        /\ g \in Group
        /\ run = [group |-> g, start |-> RangeStart(g, r[1]), length |-> r[2] - r[1] + 1]
        /\ RangeStart(g, r[1]) \in 0 .. r[1] /\ (Whole(g) => RangeStart(g, r[1]) = r[1])
        /\ r[1] \in Bits(g) /\ r[2] \in Bits(g) /\ r[1] <= r[2] /\ r[1] .. r[2] \cap bitmap[g] = {}
  BY FindsRange
<1>2. PICK s : s = RangeStart(g, r[1])
  OBVIOUS
<1>3. r[1] \in Nat /\ r[2] \in Nat /\ NumBits(g) \in Int /\ r[2] < NumBits(g) /\ s \in 0 .. r[1]
  BY <1>1, <1>2, GroupTypes DEF Bits
<1>4. /\ s \in Nat /\ s + (r[2] - r[1] + 1) <= NumBits(g)
      /\ s = r[1] => s + (r[2] - r[1] + 1) - 1 = r[2]
      /\ r[2] - r[1] + 1 \in Nat \ {0}
  BY <1>1, <1>3
<1>5. run.group = g /\ run.start = s /\ run.length = r[2] - r[1] + 1
  BY <1>1, <1>2
<1>6. run \in Run
  BY <1>1, <1>2, <1>4 DEF Run
<1>7. Whole(g) => FreeRun(g, s, r[2] - r[1] + 1)
  BY <1>1, <1>2, <1>4 DEF FreeRun
<1> QED
  BY <1>4, <1>5, <1>6, <1>7 DEF IsFree

LEMMA AnswersFree == \A request \in Requests : \A run \in Answer(request) : IsFree(run)
  BY FindsFree DEF Answer

-----------------------------------------------------------------------------

\* The reserved area is used, on the disk and in the cache.
ReservedUsed ==
  /\ bitmap \in [Group -> SUBSET Int]
  /\ logged \in [Group -> SUBSET Int]
  /\ 0 .. Reserved - 1 \subseteq bitmap[0] \cap logged[0]

LEMMA InitReserved == Init => ReservedUsed
  BY GroupTypes DEF Init, ReservedUsed

\* Blocks that are used in addition do no harm.
LEMMA AddKeepsReserved ==
  ASSUME ReservedUsed, NEW g, NEW B \in SUBSET Int,
         bitmap' = [bitmap EXCEPT ![g] = @ \cup B], UNCHANGED logged
  PROVE  ReservedUsed'
  BY GroupTypes DEF ReservedUsed

\* Nor do blocks that are freed behind the reserved area.
LEMMA DropKeepsReserved ==
  ASSUME ReservedUsed, NEW run \in Runs, Valid(run), NEW B \in SUBSET BitsOf(run),
         bitmap' = [bitmap EXCEPT ![run.group] = @ \ B], UNCHANGED logged
  PROVE  ReservedUsed'
<1>1. run.group = 0 => B \cap 0 .. Reserved - 1 = {}
  <2>1. run.start \in Int /\ Reserved \in Int
    BY SizesAssumption DEF Runs
  <2> QED
    BY <2>1 DEF Valid, BitsOf
<1> QED
  BY <1>1, GroupTypes DEF ReservedUsed

LEMMA NextReserved == ReservedUsed /\ [Next]_vars => ReservedUsed'
<1> SUFFICES ASSUME ReservedUsed, [Next]_vars PROVE ReservedUsed'
  OBVIOUS
<1>1. CASE UNCHANGED vars
  BY <1>1 DEF vars, ReservedUsed
<1>2. ASSUME NEW request \in Requests, AllocateBlocks(request) \/ AllocateFails(request)
      PROVE  ReservedUsed'
  <2>1. PICK run, B : B \in SUBSET BitsOf(run) /\ bitmap' = [bitmap EXCEPT ![run.group] = @ \cup B]
    BY <1>2 DEF AllocateBlocks, AllocateFails, Written
  <2>2. B \in SUBSET Int
    BY <2>1 DEF BitsOf
  <2>3. UNCHANGED logged
    BY <1>2 DEF AllocateBlocks, AllocateFails
  <2> QED
    BY <2>1, <2>2, <2>3, AddKeepsReserved
<1>3. ASSUME NEW run \in Runs, Free(run) \/ FreeFails(run)
      PROVE  ReservedUsed'
  <2>1. PICK B \in SUBSET BitsOf(run) : bitmap' = [bitmap EXCEPT ![run.group] = @ \ B]
    BY <1>3 DEF Free, FreeFails, Written
  <2>2. Valid(run) /\ UNCHANGED logged
    BY <1>3 DEF Free, FreeFails
  <2> QED
    BY <2>1, <2>2, DropKeepsReserved
<1>4. CASE Commit
  BY <1>4, GroupTypes DEF Commit, ReservedUsed
<1>5. CASE Abort
  BY <1>5, GroupTypes DEF Abort, ReservedUsed
<1>6. CASE Mount
  BY <1>6, GroupTypes DEF Mount, ReservedUsed
<1> QED
  BY <1>1, <1>2, <1>3, <1>4, <1>5, <1>6 DEF Next

\* AllocateBlocks returns blocks that lie in its group, and that are free where no
\* block of the group's bitmap is shorter than one before it, whatever an abort has
\* done to the hints; and Free never frees the reserved area.
THEOREM NothingAllocatedTwice == Spec => []NoDoubleAllocation
<1>1. ReservedUsed => NoDoubleAllocation
  BY AnswersFree DEF ReservedUsed, NoDoubleAllocation, IsFree
<1> QED
  BY <1>1, InitReserved, NextReserved, PTL DEF Spec

-----------------------------------------------------------------------------
(* Sizes.                                                                  *)

\* Every group has bits, the last one what is left of the volume.
LEMMA GroupSizes ==
  /\ NumGroups \in Nat \ {0}
  /\ \A g \in Group : NumBits(g) \in 1 .. BitsPerGroup
  /\ NumBlocks = (NumGroups - 1) * BitsPerGroup + NumBits(NumGroups - 1)
<1>1. PICK d \in Nat \ {0} : d = BitsPerGroup
  BY GroupTypes
<1>2. PICK b \in Nat \ {0} : b = NumBlocks
  BY SizesAssumption
<1>3. PICK n \in Nat \ {0} : n = NumGroups
  BY GroupTypes DEF Group
<1>4. n = (b + d - 1) \div d
  BY <1>1, <1>2, <1>3 DEF NumGroups
<1>5. PICK m \in Nat : m = (b + d - 1) % d /\ m < d
  <2>1. b + d - 1 \in Nat
    OBVIOUS
  <2>2. (b + d - 1) % d \in 0 .. d - 1
    BY <2>1, BlockAndBit
  <2> QED
    BY <2>2
<1>6. b + d - 1 = n * d + m
  <2>1. b + d - 1 \in Nat
    OBVIOUS
  <2> QED
    BY <1>4, <1>5, <2>1, BlockAndBit
<1>7. n * d \in Int /\ (n - 1) * d = n * d - d
  OBVIOUS
<1>8. b - (n - 1) * d \in 1 .. d
  BY <1>5, <1>6, <1>7
<1>9. ASSUME NEW g \in Group
      PROVE  NumBits(g) = IF g = n - 1 THEN b - (n - 1) * d ELSE d
  BY <1>1, <1>2, <1>3 DEF NumBits
<1>10. \A g \in Group : NumBits(g) \in 1 .. d
  BY <1>8, <1>9
<1>11. n - 1 \in Group
  BY <1>3 DEF Group
<1>12. b = (n - 1) * d + (b - (n - 1) * d)
  BY <1>7
<1> QED
  BY <1>1, <1>2, <1>3, <1>9, <1>10, <1>11, <1>12

\* The groups together are the volume.
LEMMA GroupsAreTheVolume == SumFunction([g \in Group |-> NumBits(g)]) = NumBlocks
<1> DEFINE f == [g \in Group |-> NumBits(g)]
<1>1. PICK d \in Nat \ {0} : d = BitsPerGroup
  BY GroupTypes
<1>2. PICK n \in Nat \ {0} : n = NumGroups
  BY GroupSizes
<1>3. IsFiniteSet(Group) /\ Group = 0 .. n - 1
  BY <1>2, FS_Interval DEF Group
<1>4. PICK h : Adds(h, f) /\ SumFunction(f) = h[Group]
  <2>1. IsFiniteSet(DOMAIN f) /\ \A x \in DOMAIN f : f[x] \in Int
    BY <1>3, GroupTypes
  <2> QED
    BY <2>1, SumAdds
<1> DEFINE P == {k \in Nat : k <= n - 1 => h[0 .. k - 1] = k * d}
<1>5. Nat \subseteq P
  <2>1. 0 \in P
    <3>1. 0 .. 0 - 1 = {}
      OBVIOUS
    <3> QED
      BY <1>4, <3>1 DEF Adds
  <2>2. ASSUME NEW k \in Nat, k \in P
        PROVE  k + 1 \in P
    <3> SUFFICES ASSUME k + 1 <= n - 1 PROVE h[0 .. (k + 1) - 1] = (k + 1) * d
      OBVIOUS
    <3>1. h[0 .. k - 1] = k * d
      BY <2>2
    <3>2. 0 .. (k + 1) - 1 = (0 .. k - 1) \cup {k} /\ 0 .. k - 1 \in SUBSET DOMAIN f /\ k \in DOMAIN f \ (0 .. k - 1)
      BY <1>3
    <3>3. h[(0 .. k - 1) \cup {k}] = f[k] + h[0 .. k - 1]
      BY <1>4, <3>2 DEF Adds
    <3>4. f[k] = d
      BY <1>1, <1>2, <1>3 DEF NumBits
    <3>5. (k + 1) * d = d + k * d
      OBVIOUS
    <3> QED
      BY <3>1, <3>2, <3>3, <3>4, <3>5
  <2> HIDE DEF P
  <2> QED
    BY <2>1, <2>2, NumberInduction
<1>6. PICK m \in Nat : m = n - 1
  OBVIOUS
<1>7. h[0 .. m - 1] = m * d
  BY <1>5, <1>6
<1>8. Group = (0 .. m - 1) \cup {m} /\ 0 .. m - 1 \in SUBSET DOMAIN f /\ m \in DOMAIN f \ (0 .. m - 1)
  BY <1>3, <1>6
<1>9. h[(0 .. m - 1) \cup {m}] = f[m] + h[0 .. m - 1]
  BY <1>4, <1>8 DEF Adds
<1>10. f[m] = NumBits(m) /\ NumBits(m) \in Int /\ m * d \in Int
  BY <1>8, GroupTypes
<1>11. NumBlocks = m * d + NumBits(m)
  BY <1>1, <1>2, <1>6, GroupSizes
<1> QED
  BY <1>4, <1>7, <1>8, <1>9, <1>10, <1>11

-----------------------------------------------------------------------------
(* Counting.                                                               *)

LEMMA BitsAreFinite ==
  ASSUME NEW g \in Group
  PROVE  IsFiniteSet(Bits(g)) /\ Cardinality(Bits(g)) = NumBits(g)
<1>1. PICK n \in Nat \ {0} : n = NumBits(g)
  BY GroupSizes
<1>2. IsFiniteSet(0 .. n - 1) /\ Cardinality(0 .. n - 1) = n
  BY FS_Interval
<1> QED
  BY <1>1, <1>2 DEF Bits

\* A run has as many bits as it is long.
LEMMA RunIsAsLong ==
  ASSUME NEW run, run.start \in Int, run.length \in Nat
  PROVE  IsFiniteSet(BitsOf(run)) /\ Cardinality(BitsOf(run)) = run.length
<1>1. PICK s \in Int, l \in Nat : s = run.start /\ l = run.length
  OBVIOUS
<1>2. IsFiniteSet(s .. s + l - 1) /\ Cardinality(s .. s + l - 1) = l
  <2>1. PICK e \in Int : e = s + l - 1
    OBVIOUS
  <2>2. IsFiniteSet(s .. e) /\ Cardinality(s .. e) = IF s <= e THEN e - s + 1 ELSE 0
    BY FS_Interval
  <2> QED
    BY <2>1, <2>2
<1> QED
  BY <1>1, <1>2 DEF BitsOf

\* The part of a finite set that is not in a subset of it.
LEMMA CountTheRest ==
  ASSUME NEW S, IsFiniteSet(S), NEW T \in SUBSET S
  PROVE  /\ IsFiniteSet(T) /\ IsFiniteSet(S \ T)
         /\ Cardinality(T) \in Nat /\ Cardinality(S) \in Nat
         /\ Cardinality(S \ T) = Cardinality(S) - Cardinality(T)
<1>1. Cardinality(S) \in Nat /\ Cardinality(T) \in Nat /\ IsFiniteSet(T)
  BY FS_Subset, FS_CardinalityType
<1>2. S \cap T = T
  OBVIOUS
<1>3. IsFiniteSet(S \ T) /\ Cardinality(S \ T) = Cardinality(S) - Cardinality(S \cap T)
  BY FS_Difference
<1> QED
  BY <1>1, <1>2, <1>3

-----------------------------------------------------------------------------
(* The hints.                                                              *)

HintsInv == TypeOK /\ HintsFitBitmap

\* One group's count changes, and the sum with it.
LEMMA OneCountChanges ==
  ASSUME NEW f, DOMAIN f = Group, \A g \in Group : f[g] \in Int, NEW z \in Group, NEW k \in Int
  PROVE  SumFunction([f EXCEPT ![z] = f[z] + k]) = SumFunction(f) + k /\ SumFunction(f) \in Int
<1> DEFINE h == [f EXCEPT ![z] = f[z] + k]
<1>1. IsFiniteSet(Group)
  <2>1. PICK n \in Nat : n = NumGroups
    BY GroupTypes
  <2>2. IsFiniteSet(0 .. n - 1)
    BY FS_Interval
  <2> QED
    BY <2>1, <2>2 DEF Group
<1>2. /\ DOMAIN h = Group /\ h[z] = f[z] + k
      /\ \A g \in Group : h[g] \in Int
      /\ \A g \in Group \ {z} : h[g] = f[g]
  OBVIOUS
<1> HIDE DEF h
<1>3. SumFunction(h) - SumFunction(f) = h[z] - f[z]
  BY <1>1, <1>2, SumDiffers
<1>4. SumFunction(f) \in Int
  <2>1. \E a : Adds(a, f) /\ SumFunction(f) = a[DOMAIN f]
    BY <1>1, SumAdds
  <2> QED
    BY <2>1 DEF Adds
<1>5. SumFunction(h) \in Int
  <2>1. \E a : Adds(a, h) /\ SumFunction(h) = a[DOMAIN h]
    BY <1>1, <1>2, SumAdds
  <2> QED
    BY <2>1 DEF Adds
<1>6. f[z] \in Int
  OBVIOUS
<1> QED
  BY <1>2, <1>3, <1>4, <1>5, <1>6 DEF h

LEMMA InitHints == Init => HintsInv
<1> SUFFICES ASSUME Init PROVE HintsInv
  OBVIOUS
<1> DEFINE some == [g \in Group |-> IF g = 0 THEN 0 .. Reserved - 1 ELSE {}]
<1>1. PICK r \in Nat \ {0} : r = Reserved
  BY SizesAssumption
<1>2. r <= NumBits(0) /\ NumBits(0) \in 1 .. BitsPerGroup /\ 0 \in Group
  <2>1. NumBits(0) = IF NumGroups = 1 THEN NumBlocks ELSE BitsPerGroup
    <3>1. 0 * BitsPerGroup = 0
      BY GroupTypes
    <3>2. NumGroups - 1 = 0 <=> NumGroups = 1
      BY GroupTypes
    <3>3. NumBlocks \in Nat
      BY SizesAssumption
    <3> QED
      BY <3>1, <3>2, <3>3 DEF NumBits
  <2> QED
    BY <1>1, <2>1, SizesAssumption, GroupSizes, GroupTypes
<1>3. 0 .. r - 1 \subseteq Bits(0) /\ IsFiniteSet(0 .. r - 1) /\ Cardinality(0 .. r - 1) = r
  <2>1. PICK n \in Nat : n = NumBits(0)
    BY <1>2, GroupTypes
  <2>2. 0 .. r - 1 \subseteq 0 .. n - 1
    BY <1>2, <2>1
  <2>3. IsFiniteSet(0 .. r - 1) /\ Cardinality(0 .. r - 1) = r
    BY <1>1, FS_Interval
  <2> QED
    BY <2>1, <2>2, <2>3 DEF Bits
<1>4. bitmap = some /\ logged = some
  BY DEF Init
<1>5. \A g \in Group : /\ bitmap[g] = IF g = 0 THEN 0 .. r - 1 ELSE {}
                       /\ Bits(g) \subseteq 0 .. BitsPerGroup - 1
  <2>1. ASSUME NEW g \in Group PROVE Bits(g) \subseteq 0 .. BitsPerGroup - 1
    <3>1. PICK n \in Nat, m \in Nat : n = NumBits(g) /\ m = BitsPerGroup /\ n <= m
      BY GroupSizes, GroupTypes
    <3> QED
      BY <3>1 DEF Bits
  <2> QED
    BY <1>1, <1>4, <2>1
<1>6. TypeOK
  <2>1. \A g \in Group : bitmap[g] \subseteq Bits(g) /\ bitmap[g] \subseteq 0 .. BitsPerGroup - 1
    BY <1>3, <1>5
  <2>2. bitmap \in [Group -> SUBSET (0 .. BitsPerGroup - 1)]
    BY <1>4, <2>1
  <2>3. firstFree \in [Group -> -1 .. BitsPerGroup]
    <3>1. Reserved \in -1 .. BitsPerGroup /\ 0 \in -1 .. BitsPerGroup
      BY <1>1, <1>2, GroupTypes
    <3> QED
      BY <3>1 DEF Init
  <2>4. freeBits \in [Group -> Int]
    BY <1>1, GroupTypes DEF Init
  <2>5. usedBlocks \in Int /\ aborts \in 0 .. MaxAborts /\ failed \in BOOLEAN /\ ops \in 0 .. MaxOps
    <3>1. usedBlocks = r /\ aborts = 0 /\ failed = FALSE /\ ops = 0
      BY <1>1 DEF Init
    <3>2. usedBlocks \in Int /\ aborts \in 0 .. MaxAborts /\ ops \in 0 .. MaxOps
      BY <3>1, SizesAssumption
    <3>3. failed \in BOOLEAN
      BY <3>1
    <3> QED
      BY <3>2, <3>3
  <2>6. logged = bitmap
    BY <1>4
  <2> QED
    BY ONLY <2>1, <2>2, <2>3, <2>4, <2>5, <2>6 DEF TypeOK
<1>7. \A g \in Group : 0 .. firstFree[g] - 1 \subseteq bitmap[g]
  <2>1. \A g \in Group : firstFree[g] = IF g = 0 THEN r ELSE 0
    BY <1>1 DEF Init
  <2>2. 0 .. 0 - 1 = {}
    OBVIOUS
  <2> QED
    BY <1>5, <2>1, <2>2
<1>8. \A g \in Group : freeBits[g] = Cardinality(Bits(g) \ bitmap[g])
  <2>1. ASSUME NEW g \in Group, g # 0 PROVE freeBits[g] = Cardinality(Bits(g) \ bitmap[g])
    <3>1. Bits(g) \ bitmap[g] = Bits(g)
      BY <1>5, <2>1
    <3> QED
      BY <2>1, <3>1, BitsAreFinite DEF Init
  <2>2. freeBits[0] = Cardinality(Bits(0) \ bitmap[0])
    <3>1. Bits(0) \ bitmap[0] = Bits(0) \ (0 .. r - 1)
      BY <1>2, <1>5
    <3>2. Cardinality(Bits(0) \ (0 .. r - 1)) = NumBits(0) - r
      BY <1>2, <1>3, BitsAreFinite, CountTheRest
    <3> QED
      BY <1>1, <1>2, <3>1, <3>2 DEF Init
  <2> QED
    BY <2>1, <2>2
<1>9. usedBlocks = NumBlocks - SumFunction(freeBits)
  <2> DEFINE e == [g \in Group |-> NumBits(g)]
  <2>1. freeBits = [e EXCEPT ![0] = e[0] + (0 - r)]
    <3>1. NumBits(0) - r = NumBits(0) + (0 - r)
      BY <1>2
    <3>2. e[0] = NumBits(0)
      BY <1>2
    <3> QED
      BY <1>1, <3>1, <3>2 DEF Init
  <2>2. DOMAIN e = Group /\ (\A g \in Group : e[g] \in Int) /\ 0 - r \in Int
    BY GroupTypes
  <2>3. SumFunction(e) = NumBlocks
    BY GroupsAreTheVolume
  <2> HIDE DEF e
  <2>4. SumFunction([e EXCEPT ![0] = e[0] + (0 - r)]) = SumFunction(e) + (0 - r) /\ SumFunction(e) \in Int
    BY <1>2, <2>2, OneCountChanges
  <2>5. usedBlocks = r
    BY <1>1 DEF Init
  <2> QED
    BY <2>1, <2>3, <2>4, <2>5
<1> QED
  BY <1>6, <1>7, <1>8, <1>9 DEF HintsInv, HintsFitBitmap

\* What HintsFitBitmap says when nothing has gone wrong.
Fits ==
  /\ \A g \in Group : Whole(g) => /\ 0 .. firstFree[g] - 1 \subseteq bitmap[g]
                                  /\ freeBits[g] = Cardinality(Bits(g) \ bitmap[g])
  /\ usedBlocks = NumBlocks - SumFunction(freeBits)

LEMMA HintsFit == HintsFitBitmap <=> (Exact => Fits)
  BY DEF HintsFitBitmap, Fits

LEMMA BitsWithin == \A g \in Group : Bits(g) \subseteq 0 .. BitsPerGroup - 1
<1>1. ASSUME NEW g \in Group PROVE Bits(g) \subseteq 0 .. BitsPerGroup - 1
  <2>1. PICK n \in Nat, m \in Nat : n = NumBits(g) /\ m = BitsPerGroup /\ n <= m
    BY GroupSizes, GroupTypes
  <2> QED
    BY <2>1 DEF Bits
<1> QED
  BY <1>1

\* A run that ends in its group lies in it.
LEMMA RunInGroup ==
  ASSUME NEW run \in Run, run.start + run.length <= NumBits(run.group)
  PROVE  /\ run.group \in Group /\ run.start \in Nat /\ run.length \in Nat \ {0}
         /\ BitsOf(run) \subseteq Bits(run.group)
         /\ run.start + run.length \in 0 .. BitsPerGroup
         /\ IsFiniteSet(BitsOf(run)) /\ Cardinality(BitsOf(run)) = run.length
<1>1. run.group \in Group /\ run.start \in Nat /\ run.length \in Nat \ {0}
  BY DEF Run
<1>2. PICK s \in Nat, l \in Nat \ {0}, n \in Nat, d \in Nat :
        s = run.start /\ l = run.length /\ n = NumBits(run.group) /\ d = BitsPerGroup /\ n <= d
  BY <1>1, GroupSizes, GroupTypes
<1>3. BitsOf(run) \subseteq Bits(run.group) /\ run.start + run.length \in 0 .. BitsPerGroup
  BY <1>2 DEF BitsOf, Bits
<1>4. IsFiniteSet(BitsOf(run)) /\ Cardinality(BitsOf(run)) = run.length
  BY <1>1, RunIsAsLong
<1> QED
  BY <1>1, <1>3, <1>4

\* The hint after an allocation.
LEMMA AllocateKeepsHints ==
  ASSUME TypeOK, NEW run, IsFree(run),
         bitmap' = [bitmap EXCEPT ![run.group] = @ \cup BitsOf(run)],
         HintAfterAllocate(run),
         freeBits' = [freeBits EXCEPT ![run.group] = @ - run.length],
         usedBlocks' = usedBlocks + run.length,
         Fits
  PROVE  Fits'
<1> DEFINE z == run.group
           B == bitmap[z] \cup BitsOf(run)
<1>1. /\ z \in Group /\ run.start \in Nat /\ run.length \in Nat
      /\ BitsOf(run) \subseteq Bits(z) /\ (Whole(z) => BitsOf(run) \cap bitmap[z] = {})
      /\ IsFiniteSet(BitsOf(run)) /\ Cardinality(BitsOf(run)) = run.length
  <2>1. Whole(z) => BitsOf(run) \cap bitmap[z] = {}
    BY DEF FreeRun, BitsOf, IsFree
  <2> QED
    BY <2>1, RunInGroup DEF IsFree
<1>2. /\ DOMAIN bitmap = Group /\ \A g \in Group : bitmap[g] \subseteq Bits(g)
      /\ DOMAIN freeBits = Group /\ DOMAIN firstFree = Group
      /\ \A g \in Group : firstFree[g] \in Int /\ freeBits[g] \in Int
  BY GroupTypes DEF TypeOK
<1>3. /\ bitmap'[z] = B /\ \A g \in Group \ {z} : bitmap'[g] = bitmap[g]
      /\ freeBits'[z] = freeBits[z] - run.length /\ \A g \in Group \ {z} : freeBits'[g] = freeBits[g]
      /\ \A g \in Group \ {z} : firstFree'[g] = firstFree[g]
      /\ firstFree'[z] = IF run.start = firstFree[z] THEN run.start + run.length ELSE firstFree[z]
  BY <1>1, <1>2 DEF HintAfterAllocate
<1>4. ASSUME NEW g \in Group, Whole(g)
      PROVE  0 .. firstFree'[g] - 1 \subseteq bitmap'[g]
  <2>1. CASE g # z
    BY <1>3, <1>4, <2>1 DEF Fits
  <2>2. CASE g = z /\ run.start = firstFree[z]
    <3>1. 0 .. run.start + run.length - 1 \subseteq (0 .. firstFree[z] - 1) \cup BitsOf(run)
      BY <1>1, <2>2 DEF BitsOf
    <3>2. 0 .. firstFree[z] - 1 \subseteq bitmap[z]
      BY <1>1, <1>4, <2>2 DEF Fits
    <3>3. 0 .. firstFree'[z] - 1 \subseteq bitmap'[z]
      <4>1. firstFree'[z] = run.start + run.length /\ bitmap'[z] = bitmap[z] \cup BitsOf(run)
        BY <1>3, <2>2
      <4>2. 0 .. run.start + run.length - 1 \subseteq bitmap[z] \cup BitsOf(run)
        BY <3>1, <3>2
      <4>3. run.start + run.length - 1 = firstFree'[z] - 1
        BY <1>1, <4>1
      <4> QED
        BY <4>1, <4>2, <4>3
    <3> QED
      BY <2>2, <3>3
  <2>3. CASE g = z /\ run.start # firstFree[z]
    BY <1>3, <1>4, <2>3 DEF Fits
  <2> QED
    BY <2>1, <2>2, <2>3
<1>5. ASSUME NEW g \in Group, Whole(g)
      PROVE  freeBits'[g] = Cardinality(Bits(g) \ bitmap'[g])
  <2>1. CASE g # z
    BY <1>3, <1>5, <2>1 DEF Fits
  <2>2. CASE g = z
    <3>1. Bits(z) \ B = (Bits(z) \ bitmap[z]) \ BitsOf(run) /\ BitsOf(run) \in SUBSET (Bits(z) \ bitmap[z])
      BY <1>1, <1>5, <2>2
    <3>2. IsFiniteSet(Bits(z) \ bitmap[z])
      BY <1>1, <1>2, BitsAreFinite, CountTheRest
    <3>3. Cardinality(Bits(z) \ B) = Cardinality(Bits(z) \ bitmap[z]) - run.length
      BY <1>1, <3>1, <3>2, CountTheRest
    <3> QED
      BY <1>1, <1>3, <1>5, <2>2, <3>3 DEF Fits
  <2> QED
    BY <2>1, <2>2
<1>6. usedBlocks' = NumBlocks - SumFunction(freeBits')
  <2>1. PICK k \in Int : k = 0 - run.length
    BY <1>1
  <2>2. PICK f, y : f = freeBits /\ y = z
    OBVIOUS
  <2>3. DOMAIN f = Group /\ (\A g \in Group : f[g] \in Int) /\ y \in Group
    BY <1>1, <1>2, <2>2
  <2>4. freeBits' = [f EXCEPT ![y] = f[y] + k]
    <3>1. f[y] - run.length = f[y] + k
      BY <1>1, <2>1, <2>3
    <3>2. freeBits' = [f EXCEPT ![y] = f[y] - run.length]
      BY <2>2
    <3> QED
      BY ONLY <3>1, <3>2
  <2>5. SumFunction([f EXCEPT ![y] = f[y] + k]) = SumFunction(f) + k /\ SumFunction(f) \in Int
    BY ONLY <2>1, <2>3, OneCountChanges
  <2>6. NumBlocks \in Int /\ usedBlocks = NumBlocks - SumFunction(f)
    BY <2>2, SizesAssumption DEF Fits
  <2>7. usedBlocks' = usedBlocks - k
    BY <1>1, <2>1, <2>5, <2>6
  <2> QED
    BY ONLY <2>1, <2>4, <2>5, <2>6, <2>7
<1> QED
  BY <1>4, <1>5, <1>6 DEF Fits

\* The hint after a free.
LEMMA FreeKeepsHints ==
  ASSUME TypeOK, NEW run \in Run, run.start + run.length <= NumBits(run.group),
         BitsOf(run) \subseteq bitmap[run.group],
         bitmap' = [bitmap EXCEPT ![run.group] = @ \ BitsOf(run)],
         HintAfterFree(run),
         freeBits' = [freeBits EXCEPT ![run.group] = @ + run.length],
         usedBlocks' = usedBlocks - run.length,
         Fits
  PROVE  Fits'
<1> DEFINE z == run.group
           B == bitmap[z] \ BitsOf(run)
<1>1. /\ z \in Group /\ run.start \in Nat /\ run.length \in Nat
      /\ BitsOf(run) \subseteq Bits(z)
      /\ IsFiniteSet(BitsOf(run)) /\ Cardinality(BitsOf(run)) = run.length
  BY RunInGroup
<1>2. /\ DOMAIN bitmap = Group /\ \A g \in Group : bitmap[g] \subseteq Bits(g)
      /\ DOMAIN freeBits = Group /\ DOMAIN firstFree = Group
      /\ \A g \in Group : firstFree[g] \in Int /\ freeBits[g] \in Int
  BY GroupTypes DEF TypeOK
<1>3. /\ bitmap'[z] = B /\ \A g \in Group \ {z} : bitmap'[g] = bitmap[g]
      /\ freeBits'[z] = freeBits[z] + run.length /\ \A g \in Group \ {z} : freeBits'[g] = freeBits[g]
      /\ \A g \in Group \ {z} : firstFree'[g] = firstFree[g]
      /\ firstFree'[z] = IF firstFree[z] > run.start THEN run.start ELSE firstFree[z]
  BY <1>1, <1>2 DEF HintAfterFree
<1>4. ASSUME NEW g \in Group, Whole(g)
      PROVE  0 .. firstFree'[g] - 1 \subseteq bitmap'[g]
  <2>1. CASE g # z
    BY <1>3, <1>4, <2>1 DEF Fits
  <2>2. CASE g = z
    <3>1. 0 .. firstFree'[z] - 1 \subseteq 0 .. firstFree[z] - 1 /\ (0 .. firstFree'[z] - 1) \cap BitsOf(run) = {}
      BY <1>1, <1>2, <1>3, SMTT(60) DEF BitsOf
    <3> QED
      BY <1>1, <1>3, <1>4, <2>2, <3>1 DEF Fits
  <2> QED
    BY <2>1, <2>2
<1>5. ASSUME NEW g \in Group, Whole(g)
      PROVE  freeBits'[g] = Cardinality(Bits(g) \ bitmap'[g])
  <2>1. CASE g # z
    BY <1>3, <1>5, <2>1 DEF Fits
  <2>2. CASE g = z
    <3>1. (Bits(z) \ B) \ BitsOf(run) = Bits(z) \ bitmap[z] /\ BitsOf(run) \in SUBSET (Bits(z) \ B)
      BY <1>1
    <3>2. IsFiniteSet(Bits(z) \ B)
      BY <1>1, <1>2, BitsAreFinite, CountTheRest
    <3>3. Cardinality(Bits(z) \ bitmap[z]) = Cardinality(Bits(z) \ B) - run.length /\ Cardinality(Bits(z) \ B) \in Nat
      BY <1>1, <3>1, <3>2, CountTheRest
    <3>4. freeBits[z] = Cardinality(Bits(z) \ B) - run.length
      BY <1>1, <1>5, <2>2, <3>3 DEF Fits
    <3>5. freeBits[z] + run.length = Cardinality(Bits(z) \ B)
      BY <1>1, <1>2, <3>3, <3>4
    <3> QED
      BY <1>3, <2>2, <3>5
  <2> QED
    BY <2>1, <2>2
<1>6. usedBlocks' = NumBlocks - SumFunction(freeBits')
  <2>1. PICK k \in Int : k = run.length
    BY <1>1
  <2>2. PICK f, y : f = freeBits /\ y = z
    OBVIOUS
  <2>3. DOMAIN f = Group /\ (\A g \in Group : f[g] \in Int) /\ y \in Group
    BY <1>1, <1>2, <2>2
  <2>4. freeBits' = [f EXCEPT ![y] = f[y] + k]
    <3>1. f[y] + run.length = f[y] + k
      BY <1>1, <2>1, <2>3
    <3>2. freeBits' = [f EXCEPT ![y] = f[y] + run.length]
      BY <2>2
    <3> QED
      BY ONLY <3>1, <3>2
  <2>5. SumFunction([f EXCEPT ![y] = f[y] + k]) = SumFunction(f) + k /\ SumFunction(f) \in Int
    BY ONLY <2>1, <2>3, OneCountChanges
  <2>6. NumBlocks \in Int /\ usedBlocks = NumBlocks - SumFunction(f)
    BY <2>2, SizesAssumption DEF Fits
  <2>7. usedBlocks' = usedBlocks - k
    BY <1>1, <2>1, <2>5, <2>6
  <2> QED
    BY ONLY <2>1, <2>4, <2>5, <2>6, <2>7
<1> QED
  BY <1>4, <1>5, <1>6 DEF Fits

\* Types after bits of a run have been marked or cleared, all or some of them.
LEMMA RunKeepsTypes ==
  ASSUME TypeOK, NEW run \in Run, run.start + run.length <= NumBits(run.group),
         NEW B \in SUBSET BitsOf(run),
         \/ bitmap' = [bitmap EXCEPT ![run.group] = @ \cup B]
         \/ bitmap' = [bitmap EXCEPT ![run.group] = @ \ B],
         HintAfterAllocate(run) \/ HintAfterFree(run),
         \/ freeBits' = [freeBits EXCEPT ![run.group] = @ + run.length]
         \/ freeBits' = [freeBits EXCEPT ![run.group] = @ - run.length],
         usedBlocks' \in Int, aborts' \in 0 .. MaxAborts, failed' \in BOOLEAN, ops' \in 0 .. MaxOps,
         UNCHANGED logged
  PROVE  TypeOK'
<1>1. /\ run.group \in Group /\ run.start \in Nat
      /\ BitsOf(run) \subseteq Bits(run.group) /\ run.start + run.length \in 0 .. BitsPerGroup
      /\ run.length \in Nat \ {0}
  BY RunInGroup
<1>2. /\ bitmap' \in [Group -> SUBSET (0 .. BitsPerGroup - 1)]
      /\ \A g \in Group : bitmap'[g] \cup logged'[g] \subseteq Bits(g)
  <2>1. B \subseteq Bits(run.group) /\ Bits(run.group) \subseteq 0 .. BitsPerGroup - 1
    BY <1>1, BitsWithin
  <2>2. /\ bitmap \in [Group -> SUBSET (0 .. BitsPerGroup - 1)]
        /\ \A g \in Group : bitmap[g] \subseteq Bits(g) /\ logged[g] \subseteq Bits(g)
    BY DEF TypeOK
  <2>3. bitmap' \in [Group -> SUBSET (0 .. BitsPerGroup - 1)]
    BY <1>1, <2>1, <2>2
  <2>4. \A g \in Group : bitmap'[g] \subseteq Bits(g)
    BY <1>1, <2>1, <2>2
  <2> QED
    BY <2>2, <2>3, <2>4
<1>3. firstFree' \in [Group -> -1 .. BitsPerGroup]
  <2>1. run.start \in -1 .. BitsPerGroup /\ run.start + run.length \in -1 .. BitsPerGroup
    BY <1>1, GroupTypes
  <2>2. firstFree \in [Group -> -1 .. BitsPerGroup]
    BY DEF TypeOK
  <2> QED
    BY <1>1, <2>1, <2>2 DEF HintAfterAllocate, HintAfterFree
<1>4. freeBits' \in [Group -> Int]
  BY <1>1 DEF TypeOK
<1> QED
  BY <1>2, <1>3, <1>4 DEF TypeOK

\* _Initialize computes the hints and the count from the bitmap of the disk.
LEMMA MountKeepsHints == TypeOK /\ Mount => TypeOK' /\ Fits'
<1> SUFFICES ASSUME TypeOK, Mount PROVE TypeOK' /\ Fits'
  OBVIOUS
<1>1. /\ bitmap' = logged /\ logged' = logged
      /\ firstFree' = [g \in Group |-> IF Bits(g) \subseteq logged[g] THEN -1 ELSE Min(Bits(g) \ logged[g])]
      /\ freeBits' = [g \in Group |-> Cardinality(Bits(g) \ logged[g])]
      /\ usedBlocks' = NumBlocks - SumFunction([g \in Group |-> Cardinality(Bits(g) \ logged[g])])
      /\ aborts' = 0 /\ failed' = FALSE /\ ops' = 0
  BY DEF Mount
<1>2. ASSUME NEW g \in Group
      PROVE  logged[g] \in SUBSET Bits(g) /\ Cardinality(Bits(g) \ logged[g]) \in Nat
  <2>1. logged[g] \in SUBSET Bits(g)
    BY DEF TypeOK
  <2>2. Cardinality(Bits(g) \ logged[g]) \in Nat
    BY <2>1, BitsAreFinite, FS_Difference, FS_CardinalityType
  <2> QED
    BY <2>1, <2>2
<1>3. ASSUME NEW g \in Group
      PROVE  firstFree'[g] \in -1 .. BitsPerGroup /\ 0 .. firstFree'[g] - 1 \subseteq logged[g]
  <2>1. CASE Bits(g) \subseteq logged[g]
    <3>1. firstFree'[g] = -1
      BY <1>1, <2>1
    <3> QED
      BY <3>1, GroupTypes
  <2>2. CASE ~ (Bits(g) \subseteq logged[g])
    <3> DEFINE S == Bits(g) \ logged[g]
    <3>1. S \subseteq Nat /\ S # {}
      BY <2>2 DEF Bits
    <3>2. Min(S) \in S /\ \A y \in S : Min(S) <= y
      <4> HIDE DEF S
      <4> QED
        BY <3>1, MinIsLeast
    <3>3. firstFree'[g] = Min(S)
      BY <1>1, <2>2
    <3>4. PICK m \in Nat, n \in Nat, d \in Nat : m = Min(S) /\ n = NumBits(g) /\ d = BitsPerGroup /\ n <= d
      BY <3>1, <3>2, GroupSizes, GroupTypes
    <3>5. m \in 0 .. n - 1 /\ \A y \in 0 .. n - 1 : y \notin logged[g] => m <= y
      BY <3>2, <3>4 DEF Bits
    <3>6. m \in -1 .. d /\ 0 .. m - 1 \subseteq logged[g]
      BY <3>4, <3>5
    <3> QED
      BY <3>3, <3>4, <3>6
  <2> QED
    BY <2>1, <2>2
<1>5. usedBlocks' = NumBlocks - SumFunction(freeBits') /\ usedBlocks' \in Int
  <2>1. DOMAIN freeBits' = Group /\ \A g \in Group : freeBits'[g] \in Int
    BY <1>1, <1>2
  <2>2. usedBlocks' = NumBlocks - SumFunction(freeBits')
    BY <1>1
  <2>3. SumFunction(freeBits') \in Int
    BY <2>1, GroupTypes, OneCountChanges
  <2>4. NumBlocks \in Int
    BY SizesAssumption
  <2> QED
    BY <2>2, <2>3, <2>4
<1>6. Fits'
  <2>1. \A g \in Group : 0 .. firstFree'[g] - 1 \subseteq bitmap'[g]
    BY <1>1, <1>3
  <2>2. \A g \in Group : freeBits'[g] = Cardinality(Bits(g) \ bitmap'[g])
    BY <1>1
  <2>3. usedBlocks' = NumBlocks - SumFunction(freeBits')
    BY <1>5
  <2> QED
    BY <2>1, <2>2, <2>3 DEF Fits
<1>7. TypeOK'
  <2>1. firstFree' \in [Group -> -1 .. BitsPerGroup]
    <3>1. DOMAIN firstFree' = Group /\ firstFree' = [g \in Group |-> firstFree'[g]]
      BY <1>1
    <3> QED
      BY <1>3, <3>1
  <2>2. freeBits' \in [Group -> Int]
    <3>1. \A g \in Group : Cardinality(Bits(g) \ logged[g]) \in Int
      BY <1>2
    <3> QED
      BY <1>1, <3>1
  <2>3. /\ bitmap' \in [Group -> SUBSET (0 .. BitsPerGroup - 1)]
        /\ logged' \in [Group -> SUBSET (0 .. BitsPerGroup - 1)]
        /\ \A g \in Group : bitmap'[g] \cup logged'[g] \subseteq Bits(g)
    BY <1>1, <1>2 DEF TypeOK
  <2>4. aborts' \in 0 .. MaxAborts /\ ops' \in 0 .. MaxOps
    BY <1>1, SizesAssumption
  <2>5. failed' \in BOOLEAN
    BY <1>1
  <2> QED
    BY <1>5, <2>1, <2>2, <2>3, <2>4, <2>5 DEF TypeOK
<1> QED
  BY <1>6, <1>7

LEMMA NextHints == HintsInv /\ [Next]_vars => HintsInv'
<1> SUFFICES ASSUME HintsInv, [Next]_vars PROVE HintsInv'
  OBVIOUS
<1>1. TypeOK /\ (Exact => Fits)
  BY HintsFit DEF HintsInv
<1>2. TypeOK' /\ (Exact' => Fits') => HintsInv'
  BY DEF HintsInv, HintsFitBitmap, Fits
<1>3. MaxOps \in Nat /\ ops \in 0 .. MaxOps /\ aborts \in 0 .. MaxAborts /\ usedBlocks \in Int
  BY <1>1, SizesAssumption DEF TypeOK
<1>4. CASE UNCHANGED vars
  <2>1. TypeOK' <=> TypeOK
    BY <1>4 DEF vars, TypeOK
  <2>2. Exact' = Exact /\ Fits' = Fits
    BY <1>4 DEF vars, Exact, Fits
  <2> QED
    BY <1>1, <1>2, <2>1, <2>2
<1>5. ASSUME NEW request \in Requests, AllocateBlocks(request)
      PROVE  HintsInv'
  <2>1. PICK run \in Answer(request) :
          /\ bitmap' = [bitmap EXCEPT ![run.group] = @ \cup BitsOf(run)]
          /\ HintAfterAllocate(run)
          /\ freeBits' = [freeBits EXCEPT ![run.group] = @ - run.length]
          /\ usedBlocks' = usedBlocks + run.length
    BY <1>5 DEF AllocateBlocks
  <2>2. /\ ops < MaxOps /\ ops' = ops + 1 /\ aborts' = aborts /\ failed' = failed /\ logged' = logged
    BY <1>5 DEF AllocateBlocks, Running
  <2>3. IsFree(run)
    BY AnswersFree
  <2>4. run \in Run /\ run.length \in Int /\ run.start + run.length <= NumBits(run.group)
    BY <2>3 DEF IsFree, Run
  <2>5. TypeOK'
    <3>1. usedBlocks' \in Int /\ aborts' \in 0 .. MaxAborts /\ ops' \in 0 .. MaxOps
      BY <1>3, <2>1, <2>2, <2>4
    <3>2. failed' \in BOOLEAN
      BY <1>1, <2>2 DEF TypeOK
    <3> QED
      BY <1>1, <2>1, <2>2, <2>3, <2>4, <3>1, <3>2, RunKeepsTypes
  <2>6. Exact' => Exact
    BY <2>2 DEF Exact
  <2>7. Fits => Fits'
    BY <1>1, <2>1, <2>3, AllocateKeepsHints
  <2> QED
    BY <1>1, <1>2, <2>5, <2>6, <2>7
<1>6. ASSUME NEW request \in Requests, AllocateFails(request)
      PROVE  HintsInv'
  <2>1. PICK run, block :
          /\ run \in Answer(request)
          /\ bitmap' = [bitmap EXCEPT ![run.group] = @ \cup Written(run, block - 1)]
          /\ HintAfterAllocate(run)
          /\ freeBits' = [freeBits EXCEPT ![run.group] = @ - run.length]
    BY <1>6 DEF AllocateFails
  <2>2. /\ failed' = TRUE /\ ops' = ops /\ aborts' = aborts /\ logged' = logged /\ usedBlocks' = usedBlocks
    BY <1>6 DEF AllocateFails
  <2>3. IsFree(run)
    BY <2>1, AnswersFree
  <2>4. run \in Run /\ run.length \in Int /\ run.start + run.length <= NumBits(run.group)
    BY <2>3 DEF IsFree, Run
  <2>5. TypeOK'
    <3>1. usedBlocks' \in Int /\ aborts' \in 0 .. MaxAborts /\ ops' \in 0 .. MaxOps
      BY <1>3, <2>2
    <3>2. failed' \in BOOLEAN
      BY <2>2
    <3>3. Written(run, block - 1) \in SUBSET BitsOf(run)
      BY DEF Written
    <3> QED
      BY <1>1, <2>1, <2>2, <2>3, <2>4, <3>1, <3>2, <3>3, RunKeepsTypes
  <2> QED
    BY <1>2, <2>2, <2>5 DEF Exact
<1>7. ASSUME NEW run \in Runs, Free(run)
      PROVE  HintsInv'
  <2>1. /\ bitmap' = [bitmap EXCEPT ![run.group] = @ \ BitsOf(run)]
        /\ HintAfterFree(run)
        /\ freeBits' = [freeBits EXCEPT ![run.group] = @ + run.length]
        /\ usedBlocks' = usedBlocks - run.length
        /\ BitsOf(run) \subseteq bitmap[run.group]
        /\ run.start + run.length <= NumBits(run.group)
    BY <1>7 DEF Free, Valid
  <2>2. /\ ops < MaxOps /\ ops' = ops + 1 /\ aborts' = aborts /\ failed' = failed /\ logged' = logged
    BY <1>7 DEF Free, Running
  <2>3. run \in Run /\ run.length \in Int
    BY GroupTypes DEF Runs, Run
  <2>4. TypeOK'
    <3>1. usedBlocks' \in Int /\ aborts' \in 0 .. MaxAborts /\ ops' \in 0 .. MaxOps
      BY <1>3, <2>1, <2>2, <2>3
    <3>2. failed' \in BOOLEAN
      BY <1>1, <2>2 DEF TypeOK
    <3> QED
      BY <1>1, <2>1, <2>2, <2>3, <3>1, <3>2, RunKeepsTypes
  <2>5. Exact' => Exact
    BY <2>2 DEF Exact
  <2>6. Fits => Fits'
    BY <1>1, <2>1, <2>3, FreeKeepsHints
  <2> QED
    BY <1>1, <1>2, <2>4, <2>5, <2>6
<1>8. ASSUME NEW run \in Runs, FreeFails(run)
      PROVE  HintsInv'
  <2>1. PICK block :
        /\ bitmap' = [bitmap EXCEPT ![run.group] = @ \ Written(run, block - 1)]
        /\ HintAfterFree(run)
        /\ freeBits' = [freeBits EXCEPT ![run.group] = @ + run.length]
        /\ run.start + run.length <= NumBits(run.group)
    BY <1>8 DEF FreeFails, Valid
  <2>2. /\ failed' = TRUE /\ ops' = ops /\ aborts' = aborts /\ logged' = logged /\ usedBlocks' = usedBlocks
    BY <1>8 DEF FreeFails
  <2>3. run \in Run /\ run.length \in Int
    BY GroupTypes DEF Runs, Run
  <2>4. TypeOK'
    <3>1. usedBlocks' \in Int /\ aborts' \in 0 .. MaxAborts /\ ops' \in 0 .. MaxOps
      BY <1>3, <2>2
    <3>2. failed' \in BOOLEAN
      BY <2>2
    <3>3. Written(run, block - 1) \in SUBSET BitsOf(run)
      BY DEF Written
    <3> QED
      BY <1>1, <2>1, <2>2, <2>3, <3>1, <3>2, <3>3, RunKeepsTypes
  <2> QED
    BY <1>2, <2>2, <2>4 DEF Exact
<1>9. CASE Commit
  <2>1. Exact' = Exact /\ Fits' = Fits
    BY <1>9 DEF Commit, Exact, Fits
  <2>2. TypeOK'
    <3>1. /\ bitmap' = bitmap /\ logged' = bitmap /\ firstFree' = firstFree /\ freeBits' = freeBits
          /\ usedBlocks' = usedBlocks /\ aborts' = aborts /\ failed' = failed /\ ops' = 0
      BY <1>9 DEF Commit
    <3>2. ops' \in 0 .. MaxOps
      BY <1>3, <3>1
    <3> QED
      BY <1>1, <3>1, <3>2 DEF TypeOK
  <2> QED
    BY <1>1, <1>2, <2>1, <2>2
<1>10. CASE Abort
  <2>1. /\ bitmap' = logged /\ logged' = logged /\ firstFree' = firstFree /\ freeBits' = freeBits
        /\ usedBlocks' = usedBlocks /\ aborts' = aborts + 1 /\ failed' = FALSE /\ ops' = 0 /\ aborts < MaxAborts
    BY <1>10 DEF Abort
  <2>2. ~ Exact'
    BY <1>3, <2>1 DEF Exact
  <2>3. TypeOK'
    <3>1. ops' \in 0 .. MaxOps /\ aborts' \in 0 .. MaxAborts
      BY <1>3, <2>1, SizesAssumption
    <3> QED
      BY <1>1, <2>1, <3>1 DEF TypeOK
  <2> QED
    BY <1>2, <2>2, <2>3
<1>11. CASE Mount
  BY <1>1, <1>2, <1>11, MountKeepsHints
<1> QED
  BY <1>4, <1>5, <1>6, <1>7, <1>8, <1>9, <1>10, <1>11 DEF Next

\* Whatever fails and whatever is aborted, used bits lie in their group and the
\* hints in their range.
THEOREM AllocatorTypes == Spec => []TypeOK
<1>1. HintsInv => TypeOK
  BY DEF HintsInv
<1> QED
  BY <1>1, InitHints, NextHints, PTL DEF Spec

\* As long as nothing was aborted since the last mount, all bits before
\* fFirstFree are used and fFreeBits counts the bitmap, in every group whose bitmap
\* has no block shorter than one before it; and used_blocks is what fFreeBits
\* leaves of the volume.
THEOREM HintsCountTheBitmap == Spec => []HintsFitBitmap
<1>1. HintsInv => HintsFitBitmap
  BY DEF HintsInv
<1> QED
  BY <1>1, InitHints, NextHints, PTL DEF Spec

-----------------------------------------------------------------------------
(* The search.                                                             *)

\* Where the remainder of a sum is known.
LEMMA Remainder ==
  ASSUME NEW n \in Nat \ {0}, NEW g \in 0 .. n - 1, NEW x \in Nat,
         x = g \/ x = g + n \/ x = g + n + n
  PROVE  x % n = g
<1>1. PICK q \in Nat : q = x \div n
  BY BlockAndBit
<1>2. PICK r \in 0 .. n - 1 : r = x % n
  BY BlockAndBit
<1>3. x = q * n + r
  BY <1>1, <1>2, BlockAndBit
<1>4. q = 0 \/ q = 1 \/ q = 2 \/ q >= 3
  BY <1>1
<1>5. q >= 3 => q * n >= n + n + n
  <2>1. ASSUME q >= 3 PROVE q * n >= n + n + n
    <3>1. PICK k \in Nat : q = k + 3
      <4>1. q - 3 \in Nat /\ q = (q - 3) + 3
        BY <2>1
      <4> QED
        BY <4>1
    <3>2. q * n = k * n + n + n + n /\ k * n \in Nat
      BY <3>1
    <3> QED
      BY <3>2
  <2> QED
    BY <2>1
<1>6. (q = 0 => q * n = 0) /\ (q = 1 => q * n = n) /\ (q = 2 => q * n = n + n) /\ q * n \in Nat
  OBVIOUS
<1> QED
  BY <1>2, <1>3, <1>4, <1>5, <1>6

\* Each pass visits every group; the first visit is to the caller's.
LEMMA EveryGroupVisited ==
  ASSUME NEW h \in Group, NEW g \in Group
  PROVE  \E i \in 0 .. NumGroups - 1 :
           /\ (h + i) % NumGroups = g /\ (h + (NumGroups + i)) % NumGroups = g
           /\ g = h => i = 0
<1>1. PICK n \in Nat \ {0} : n = NumGroups
  BY GroupSizes
<1>2. h \in 0 .. n - 1 /\ g \in 0 .. n - 1
  BY <1>1 DEF Group
<1>3. PICK i \in 0 .. n - 1 : (h + i = g \/ h + i = g + n) /\ (g = h => i = 0)
  <2>1. CASE g >= h
    <3>1. g - h \in 0 .. n - 1 /\ h + (g - h) = g /\ (g = h => g - h = 0)
      BY <1>2, <2>1
    <3> QED
      BY <3>1
  <2>2. CASE g < h
    <3>1. g - h + n \in 0 .. n - 1 /\ h + (g - h + n) = g + n /\ g # h
      BY <1>2, <2>2
    <3> QED
      BY <3>1
  <2> QED
    BY <1>2, <2>1, <2>2
<1>4. (h + i) % n = g
  <2>1. h + i \in Nat /\ (h + i = g \/ h + i = g + n)
    BY <1>2, <1>3
  <2> QED
    BY <1>2, <2>1, Remainder
<1>5. (h + (n + i)) % n = g
  <2>1. h + (n + i) \in Nat /\ (h + (n + i) = g + n \/ h + (n + i) = g + n + n)
    BY <1>2, <1>3
  <2> QED
    BY <1>2, <2>1, Remainder
<1> QED
  BY <1>1, <1>3, <1>4, <1>5

\* The scan starts at fFirstFree or the caller's start, or before it.
LEMMA ScanStartRight ==
  ASSUME NEW g \in Group, Whole(g), NEW start \in Nat, firstFree[g] \in Int,
         NEW from \in Bits(g), from = IF start < firstFree[g] THEN firstFree[g] ELSE start
  PROVE  ScanStart(g, start) \in 0 .. from
<1>1. PICK d \in Nat \ {0} : d = BitsPerBlock
  BY SizesAssumption
<1>2. PICK n \in Nat \ {0} : n = NumBits(g)
  BY GroupSizes
<1>3. from \in Nat /\ from < n
  BY <1>2 DEF Bits
<1>4. PICK q \in Nat : q = from \div d
  BY <1>3, BlockAndBit
<1>5. PICK b \in 0 .. d - 1 : b = from % d
  BY <1>3, BlockAndBit
<1>6. from = q * d + b /\ (from < d => q = 0) /\ q * d \in Nat
  <2>1. from = (from \div d) * d + (from % d) /\ (from < d => from \div d = 0)
    BY <1>3, BlockAndBit
  <2>2. q * d \in Nat
    OBVIOUS
  <2> QED
    BY <1>4, <1>5, <2>1, <2>2
<1>7. ScanStart(g, start) = q * d + IF q < NumBitmapBlocks(g) THEN from % NumBlockBits(g, q) ELSE 0
  BY <1>1, <1>4 DEF ScanStart
<1>8. CASE q < NumBitmapBlocks(g)
  <2>1. RangeStart(g, from) = from
    BY RangeStartRight
  <2>2. ScanStart(g, start) = q * d + (from % NumBlockBits(g, q))
    BY <1>7, <1>8
  <2>3. NumBlockBits(g, q) = IF (q + 1) * d > n THEN n % d ELSE d
    BY <1>1, <1>2 DEF NumBlockBits
  <2>4. CASE n <= d
    <3>1. q = 0 /\ q * d = 0 /\ (q + 1) * d = d
      BY <1>3, <1>6, <2>4
    <3>2. NumBlockBits(g, q) = n
      <4>1. CASE n = d
        BY <2>3, <3>1, <4>1
      <4>2. CASE n < d
        <5>1. n % d = n
          BY <4>2, Remainder
        <5> QED
          BY <2>3, <3>1, <4>2, <5>1
      <4> QED
        BY <2>4, <4>1, <4>2
    <3>3. from % n = from
      BY <1>3, Remainder
    <3> QED
      BY <1>3, <2>2, <3>1, <3>2, <3>3
  <2>5. CASE n % d = 0
    <3>1. PICK m \in Nat : n = m * d
      <4>1. n \div d \in Nat /\ n = (n \div d) * d + (n % d)
        BY BlockAndBit
      <4>2. PICK p \in Nat : p = n \div d
        BY <4>1
      <4>3. p * d \in Nat /\ n = p * d + 0
        BY <2>5, <4>1, <4>2
      <4>4. n = p * d
        BY <4>3
      <4> QED
        BY <4>4
    <3>2. q * d < m * d
      BY <1>3, <1>6, <3>1
    <3>3. (q + 1) * d <= n
      BY <3>1, <3>2, NextMultiple
    <3>4. NumBlockBits(g, q) = d
      <4>1. (q + 1) * d \in Int
        OBVIOUS
      <4> QED
        BY <2>3, <3>3, <4>1
    <3> QED
      BY <1>3, <1>5, <1>6, <2>2, <3>4
  <2> QED
    BY <1>1, <1>2, <2>4, <2>5 DEF Whole
<1>9. CASE ~ (q < NumBitmapBlocks(g))
  BY <1>3, <1>5, <1>6, <1>7, <1>9
<1> QED
  BY <1>8, <1>9

LEMMA RequestTypes ==
  ASSUME NEW request \in Requests
  PROVE  /\ request.group \in Group /\ request.start \in Nat
         /\ request.maximum \in Nat \ {0} /\ request.minimum \in Nat \ {0}
         /\ request.minimum <= request.maximum
<1>1. PICK g \in Group, s \in Starts, size \in Sizes :
        request = [group |-> g, start |-> s, maximum |-> size[1], minimum |-> size[2]]
  BY DEF Requests
<1>2. s \in Nat /\ size \in (Nat \ {0}) \X (Nat \ {0}) /\ size[2] <= size[1]
  BY RequestsAssumption
<1> QED
  BY <1>1, <1>2

\* The range of free bits that a free bit lies in, seen from where the scan began.
LEMMA RangeBegins ==
  ASSUME NEW g, NEW from \in Nat, NEW s \in Nat, from <= s, s \notin bitmap[g]
  PROVE  \E f \in from .. s : f .. s \cap bitmap[g] = {} /\ (f = from \/ f - 1 \in bitmap[g])
<1> DEFINE S == {b \in from .. s : b .. s \cap bitmap[g] = {}}
<1>1. s \in S
  OBVIOUS
<1>2. S \subseteq Nat /\ S # {}
  BY <1>1
<1>3. PICK f \in S : \A b \in S : f <= b
  <2> HIDE DEF S
  <2> QED
    BY <1>2, LeastNumber
<1>4. CASE f = from
  BY <1>3, <1>4
<1>5. CASE f # from
  <2>1. f - 1 \in from .. s /\ f - 1 \notin S
    BY <1>3, <1>5
  <2>2. f - 1 .. s \subseteq {f - 1} \cup (f .. s)
    BY <1>3
  <2>3. f - 1 \in bitmap[g]
    BY <1>3, <2>1, <2>2
  <2> QED
    BY <1>3, <2>3
<1> QED
  BY <1>4, <1>5

\* Free bits from there on are a range that the scan counts.
LEMMA RangeCounted ==
  ASSUME NEW g \in Group, NEW from \in Nat, NEW f \in Nat, NEW e \in Nat,
         from <= f, f <= e, e < NumBits(g), f .. e \cap bitmap[g] = {}, f = from \/ f - 1 \in bitmap[g]
  PROVE  <<f, e>> \in Ranges(g, from)
<1> DEFINE free == {b \in Bits(g) : from <= b /\ b \notin bitmap[g]}
<1>1. f .. e \subseteq free
  <2>1. f .. e \subseteq Bits(g)
    BY GroupTypes DEF Bits
  <2> QED
    BY <2>1
<1>2. f \in free /\ e \in free
  BY <1>1
<1>3. f \in {b \in free : b = from \/ b - 1 \in bitmap[g]}
  BY <1>2
<1> HIDE DEF free
<1>4. <<f, e>> \in {r \in {b \in free : b = from \/ b - 1 \in bitmap[g]} \X free : r[1] <= r[2] /\ r[1] .. r[2] \subseteq free}
  BY <1>1, <1>2, <1>3
<1> QED
  BY <1>4 DEF Ranges, free

\* Where a range is enough, one of those that end first is taken.
LEMMA EnoughIsFound ==
  ASSUME NEW g, NEW from, NEW request, NEW second,
         NEW r \in Ranges(g, from), Enough(request, g, r, second)
  PROVE  FirstEnough(request, g, from, second) # {}
<1> DEFINE ends == {x \in Ranges(g, from) : Enough(request, g, x, second)}
           S == {x[2] : x \in ends}
<1>1. S \subseteq Nat
  BY DEF Ranges, Bits
<1>2. r[2] \in S
  OBVIOUS
<1>3. PICK m \in S : \A y \in S : m <= y
  <2> HIDE DEF S
  <2> QED
    BY <1>1, <1>2, LeastNumber
<1>4. PICK x \in ends : x[2] = m
  BY <1>3
<1>5. x \in FirstEnough(request, g, from, second)
  BY <1>3, <1>4 DEF FirstEnough
<1> QED
  BY <1>5

\* A visit to a group with a free run behind the start scans the group from the
\* run or before it.
LEMMA VisitScans ==
  ASSUME TypeOK, Fits, NEW g \in Group, Whole(g), NEW start \in Nat, NEW s \in Nat, NEW n \in Nat \ {0},
         start <= s, FreeRun(g, s, n)
  PROVE  /\ start < NumBits(g) /\ freeBits[g] # 0 /\ s + n <= NumBits(g) /\ NumBits(g) \in Nat
         /\ ScanStart(g, start) \in 0 .. s
         /\ s .. s + n - 1 \cap bitmap[g] = {}
<1>1. PICK b \in Nat \ {0} : b = NumBits(g)
  BY GroupSizes
<1>2. s + n <= b /\ s .. s + n - 1 \cap bitmap[g] = {}
  BY <1>1 DEF FreeRun
<1>3. s \in Bits(g) /\ s \notin bitmap[g] /\ s < b
  BY <1>1, <1>2 DEF Bits
<1>4. freeBits[g] # 0
  <2>1. IsFiniteSet(Bits(g) \ bitmap[g])
    BY BitsAreFinite, FS_Difference
  <2>2. Cardinality(Bits(g) \ bitmap[g]) # 0
    BY <1>3, <2>1, FS_EmptySet
  <2> QED
    BY <2>2 DEF Fits
<1>5. PICK h \in Int : h = firstFree[g]
  BY GroupTypes DEF TypeOK
<1>6. h <= s
  <2>1. 0 .. h - 1 \subseteq bitmap[g]
    BY <1>5 DEF Fits
  <2> QED
    BY <1>3, <2>1
<1>7. PICK from \in Nat : from = (IF start < h THEN h ELSE start) /\ from <= s
  <2>1. (IF start < h THEN h ELSE start) \in Nat /\ (IF start < h THEN h ELSE start) <= s
    BY <1>6
  <2> QED
    BY <2>1
<1>8. from \in Bits(g)
  BY <1>1, <1>3, <1>7 DEF Bits
<1>9. ScanStart(g, start) \in 0 .. from
  BY <1>5, <1>7, <1>8, ScanStartRight
<1> QED
  BY <1>1, <1>2, <1>3, <1>4, <1>7, <1>9

\* The first pass finds a run of the maximum.
LEMMA FirstPassFinds ==
  ASSUME TypeOK, Fits, NEW request \in Requests, NEW i \in 0 .. NumGroups - 1,
         NEW g \in Group, Whole(g), g = (request.group + i) % NumGroups,
         NEW s \in Nat, FreeRun(g, s, request.maximum), i = 0 => request.start <= s
  PROVE  Find(request, i) # {}
<1>1. PICK start \in Nat : start = (IF i = 0 THEN request.start ELSE 0) /\ start <= s
  BY RequestTypes
<1>2. PICK n \in Nat \ {0} : n = request.maximum
  BY RequestTypes
<1>3. /\ start < NumBits(g) /\ freeBits[g] # 0 /\ s + n <= NumBits(g) /\ NumBits(g) \in Nat
      /\ s .. s + n - 1 \cap bitmap[g] = {}
  BY <1>1, <1>2, VisitScans
<1>4. PICK from \in 0 .. s : from = ScanStart(g, start)
  BY <1>1, <1>2, VisitScans
<1>5. s \notin bitmap[g]
  BY <1>2, <1>3
<1>6. PICK f \in from .. s : f .. s \cap bitmap[g] = {} /\ (f = from \/ f - 1 \in bitmap[g])
  <2>1. from \in Nat /\ from <= s /\ s \in Nat
    BY <1>4
  <2> QED
    BY ONLY <1>5, <2>1, RangeBegins
<1> DEFINE e == f + n - 1
<1>7. /\ f \in Nat /\ e \in Nat /\ from \in Nat /\ from <= f /\ f <= e /\ e < NumBits(g)
      /\ f .. e \cap bitmap[g] = {}
  <2>1. /\ f \in Nat /\ e \in Nat /\ from \in Nat /\ from <= f /\ f <= e /\ e < NumBits(g)
        /\ f .. e \subseteq (f .. s) \cup (s .. s + n - 1)
    BY <1>2, <1>3, <1>4, <1>6
  <2> QED
    BY <1>3, <1>6, <2>1
<1>8. <<f, e>> \in Ranges(g, from)
  <2> HIDE DEF e
  <2> QED
    BY <1>6, <1>7, RangeCounted
<1>9. Enough(request, g, <<f, e>>, i >= NumGroups)
  BY <1>2, <1>7 DEF Enough
<1>10. FirstEnough(request, g, from, i >= NumGroups) # {}
  BY <1>8, <1>9, EnoughIsFound
<1>11. ~ (i >= NumGroups)
  BY GroupSizes
<1> QED
  BY <1>1, <1>3, <1>4, <1>10, <1>11 DEF Find

\* The second pass finds a run of the minimum.
LEMMA SecondPassFinds ==
  ASSUME TypeOK, Fits, NEW request \in Requests, request.minimum # request.maximum,
         NEW i \in NumGroups .. 2 * NumGroups - 1, NEW g \in Group, Whole(g), g = (request.group + i) % NumGroups,
         NEW s \in Nat, FreeRun(g, s, request.minimum)
  PROVE  Find(request, i) # {}
<1>1. PICK n \in Nat \ {0} : n = request.minimum
  BY RequestTypes
<1>2. i # 0 /\ i >= NumGroups
  BY GroupSizes
<1>3. /\ 0 < NumBits(g) /\ freeBits[g] # 0 /\ s + n <= NumBits(g) /\ NumBits(g) \in Nat
      /\ s .. s + n - 1 \cap bitmap[g] = {}
  BY <1>1, VisitScans
<1>4. PICK from \in 0 .. s : from = ScanStart(g, 0)
  BY <1>1, VisitScans
<1>5. s \notin bitmap[g]
  BY <1>1, <1>3
<1>6. PICK f \in from .. s : f .. s \cap bitmap[g] = {} /\ (f = from \/ f - 1 \in bitmap[g])
  <2>1. from \in Nat /\ from <= s /\ s \in Nat
    BY <1>4
  <2> QED
    BY ONLY <1>5, <2>1, RangeBegins
<1>7. PICK next \in Nat :
        /\ s + n <= next /\ next <= NumBits(g) /\ s .. next - 1 \cap bitmap[g] = {}
        /\ next \in bitmap[g] \/ next = NumBits(g)
  <2> DEFINE S == {b \in s .. NumBits(g) : b \in bitmap[g] \/ b = NumBits(g)}
  <2>1. S \subseteq Nat /\ NumBits(g) \in S
    BY <1>3
  <2>2. PICK m \in S : \A y \in S : m <= y
    <3> HIDE DEF S
    <3> QED
      BY <2>1, LeastNumber
  <2>3. s + n <= m
    BY <1>3, <2>2
  <2>4. s .. m - 1 \cap bitmap[g] = {}
    BY <1>3, <2>2
  <2> QED
    BY <2>2, <2>3, <2>4
<1> DEFINE e == next - 1
<1>8. /\ f \in Nat /\ e \in Nat /\ from \in Nat /\ from <= f /\ f <= e /\ e < NumBits(g)
      /\ f .. e \cap bitmap[g] = {} /\ e + 1 = next /\ e - f + 1 >= n
  <2>1. /\ f \in Nat /\ e \in Nat /\ from \in Nat /\ from <= f /\ f <= e /\ e < NumBits(g)
        /\ f .. e \subseteq (f .. s) \cup (s .. next - 1) /\ e + 1 = next /\ e - f + 1 >= n
    BY <1>1, <1>3, <1>4, <1>6, <1>7
  <2> QED
    BY <1>6, <1>7, <2>1
<1>9. <<f, e>> \in Ranges(g, from)
  <2> HIDE DEF e
  <2> QED
    BY <1>6, <1>8, RangeCounted
<1>10. Enough(request, g, <<f, e>>, i >= NumGroups)
  BY <1>1, <1>2, <1>7, <1>8 DEF Enough
<1>11. FirstEnough(request, g, from, i >= NumGroups) # {}
  BY <1>9, <1>10, EnoughIsFound
<1> QED
  BY <1>2, <1>3, <1>4, <1>11 DEF Find

\* A run is at least what its pass looks for, and never more than the maximum.
LEMMA FindsEnough ==
  ASSUME NEW request \in Requests, NEW i \in 0 .. 2 * NumGroups - 1, NEW run \in Find(request, i)
  PROVE  /\ run.length \in request.minimum .. request.maximum
         /\ i < NumGroups => run.length = request.maximum
<1>1. PICK max \in Nat \ {0}, min \in Nat \ {0} : max = request.maximum /\ min = request.minimum /\ min <= max
  BY RequestTypes
<1>2. PICK from : from = From(request, i)
  OBVIOUS
<1>3. PICK g \in Group : \E r \in FirstEnough(request, g, from, i >= NumGroups) :
        /\ r \in Ranges(g, from)
        /\ run = [group |-> g, start |-> RangeStart(g, r[1]), length |-> r[2] - r[1] + 1]
        /\ r[1] \in Bits(g) /\ r[2] \in Bits(g) /\ r[1] <= r[2]
  BY <1>2, FindsRange
<1>4. PICK r \in FirstEnough(request, g, from, i >= NumGroups) :
        /\ r \in Ranges(g, from)
        /\ run = [group |-> g, start |-> RangeStart(g, r[1]), length |-> r[2] - r[1] + 1]
        /\ r[1] \in Bits(g) /\ r[2] \in Bits(g) /\ r[1] <= r[2]
  BY <1>3
<1>5. PICK f \in Nat, e \in Nat : f = r[1] /\ e = r[2] /\ f <= e
  BY <1>4 DEF Bits
<1>6. run.length = e - f + 1
  BY <1>4, <1>5
<1>7. /\ e - f + 1 = max \/ (i >= NumGroups /\ e - f + 1 >= min)
      /\ \A x \in Ranges(g, from) : Enough(request, g, x, i >= NumGroups) => e <= x[2]
  BY <1>1, <1>5 DEF FirstEnough, Enough
<1>8. ASSUME e - f + 1 > max
      PROVE  FALSE
  <2> DEFINE m == f + max - 1
  <2>1. m \in f .. e /\ m < e /\ m - f + 1 = max
    BY <1>1, <1>5, <1>8
  <2>2. <<f, m>> \in Ranges(g, from)
    <3> DEFINE free == {b \in Bits(g) : from <= b /\ b \notin bitmap[g]}
    <3> HIDE DEF m
    <3>1. /\ f \in {b \in free : b = from \/ b - 1 \in bitmap[g]}
          /\ f .. e \subseteq free
      BY <1>4, <1>5 DEF Ranges
    <3> HIDE DEF free
    <3>2. m \in free /\ f <= m /\ f .. m \subseteq free
      BY <1>5, <2>1, <3>1
    <3>3. <<f, m>> \in {x \in {b \in free : b = from \/ b - 1 \in bitmap[g]} \X free : x[1] <= x[2] /\ x[1] .. x[2] \subseteq free}
      BY <3>1, <3>2
    <3> QED
      BY <3>3 DEF Ranges, free
  <2>3. Enough(request, g, <<f, m>>, i >= NumGroups)
    BY <1>1, <2>1 DEF Enough
  <2>4. e <= m
    BY <1>7, <2>2, <2>3
  <2> QED
    BY <1>5, <2>1, <2>4
<1>9. e - f + 1 \in min .. max /\ (i < NumGroups => e - f + 1 = max)
  <2>1. ~ (i < NumGroups /\ i >= NumGroups)
    BY GroupSizes
  <2> QED
    BY <1>1, <1>5, <1>7, <1>8, <2>1
<1> QED
  BY <1>1, <1>6, <1>9

\* The answer is what the first visit that finds something finds.
LEMMA AnswerIsFirst ==
  ASSUME NEW request \in Requests, NEW i \in 0 .. 2 * NumGroups - 1, Find(request, i) # {}
  PROVE  /\ Answer(request) # {}
         /\ \A run \in Answer(request) :
              \E j \in 0 .. 2 * NumGroups - 1 : j <= i /\ run \in Find(request, j)
<1> DEFINE visits == {j \in 0 .. 2 * NumGroups - 1 : Find(request, j) # {}}
<1>1. visits \subseteq Nat /\ i \in visits
  BY GroupSizes
<1>2. PICK m \in visits : \A k \in visits : m <= k
  <2> HIDE DEF visits
  <2> QED
    BY <1>1, LeastNumber
<1>3. m \in {j \in visits : \A k \in visits : j <= k} /\ Find(request, m) # {}
  BY <1>2
<1>4. Answer(request) = UNION {Find(request, j) : j \in {j \in visits : \A k \in visits : j <= k}}
  BY DEF Answer
<1>5. Answer(request) # {}
  <2>1. PICK run : run \in Find(request, m)
    BY <1>3
  <2> QED
    BY <1>3, <1>4, <2>1
<1>6. ASSUME NEW run \in Answer(request)
      PROVE  \E j \in 0 .. 2 * NumGroups - 1 : j <= i /\ run \in Find(request, j)
  <2>1. PICK j \in visits : (\A k \in visits : j <= k) /\ run \in Find(request, j)
    BY <1>4
  <2> QED
    BY <1>1, <2>1
<1> QED
  BY <1>5, <1>6

LEMMA LengthsRight == LengthAsRequested
  BY FindsEnough DEF LengthAsRequested, Answer

LEMMA MaximumBeforeLess == HintsInv => ShorterOnlyIfNeeded
<1> SUFFICES ASSUME TypeOK, Fits,
                    NEW request \in Requests, NEW run \in Answer(request), run.length < request.maximum,
                    NEW g \in Group, Whole(g), NEW s \in 0 .. BitsPerGroup, FreeRun(g, s, request.maximum),
                    g # request.group \/ ~ (s < request.start)
             PROVE  FALSE
  BY HintsFit DEF HintsInv, ShorterOnlyIfNeeded
<1>1. request.group \in Group /\ request.start \in Nat /\ request.maximum \in Nat
  BY RequestTypes
<1>2. PICK i \in 0 .. NumGroups - 1 : (request.group + i) % NumGroups = g /\ (g = request.group => i = 0)
  BY <1>1, EveryGroupVisited
<1>3. i = 0 => g = request.group
  <2>1. PICK n \in Nat \ {0} : n = NumGroups
    BY GroupSizes
  <2>2. request.group \in 0 .. n - 1
    BY <1>1, <2>1 DEF Group
  <2>3. (request.group + 0) % n = request.group
    BY <2>2, Remainder
  <2> QED
    BY <1>2, <2>1, <2>3
<1>4. i = 0 => request.start <= s
  BY <1>1, <1>3, GroupTypes
<1>5. Find(request, i) # {}
  <2>1. s \in Nat
    BY GroupTypes
  <2> QED
    BY <1>2, <1>4, <2>1, FirstPassFinds
<1>6. i \in 0 .. 2 * NumGroups - 1
  BY GroupSizes
<1>7. PICK j \in 0 .. 2 * NumGroups - 1 : j <= i /\ run \in Find(request, j)
  BY <1>5, <1>6, AnswerIsFirst
<1>8. j < NumGroups
  BY <1>7, GroupSizes
<1>9. run.length = request.maximum
  BY <1>7, <1>8, FindsEnough
<1> QED
  BY <1>1, <1>9

LEMMA FullOnlyIfNoRoom == HintsInv => FullIfNoRoom
<1> SUFFICES ASSUME TypeOK, Fits,
                    NEW request \in Requests, Answer(request) = {},
                    request.minimum < request.maximum \/ request.start = 0,
                    NEW g \in Group, Whole(g), NEW s \in 0 .. BitsPerGroup, FreeRun(g, s, request.minimum)
             PROVE  FALSE
  BY HintsFit DEF HintsInv, FullIfNoRoom
<1>1. /\ request.group \in Group /\ request.start \in Nat /\ request.minimum \in Nat /\ request.maximum \in Nat
      /\ request.minimum <= request.maximum /\ s \in Nat
  BY RequestTypes, GroupTypes
<1>2. PICK i \in 0 .. NumGroups - 1 :
        (request.group + i) % NumGroups = g /\ (request.group + (NumGroups + i)) % NumGroups = g
  BY <1>1, EveryGroupVisited
<1>3. i \in 0 .. 2 * NumGroups - 1 /\ NumGroups + i \in NumGroups .. 2 * NumGroups - 1
      /\ NumGroups + i \in 0 .. 2 * NumGroups - 1
  BY GroupSizes
<1>4. CASE request.minimum < request.maximum
  <2>1. Find(request, NumGroups + i) # {}
    BY <1>1, <1>2, <1>3, <1>4, SecondPassFinds
  <2> QED
    BY <1>3, <2>1, AnswerIsFirst
<1>5. CASE request.minimum = request.maximum
  <2>1. request.start <= s
    BY <1>1, <1>5
  <2>2. Find(request, i) # {}
    BY <1>1, <1>2, <1>5, <2>1, FirstPassFinds
  <2> QED
    BY <1>3, <2>2, AnswerIsFirst
<1> QED
  BY <1>1, <1>4, <1>5

\* On a volume where nothing was aborted since the last mount, AllocateBlocks
\* returns less than the maximum only when no group has the maximum in a row, and
\* nothing only when no group has the minimum in a row; a last group whose bitmap
\* ends with a shorter block behind others may have it.
THEOREM AllocationSearchesAll == Spec => []SearchIsThorough
<1>1. HintsInv => SearchIsThorough
  BY LengthsRight, MaximumBeforeLess, FullOnlyIfNoRoom DEF SearchIsThorough
<1> QED
  BY <1>1, InitHints, NextHints, PTL DEF Spec
=============================================================================
