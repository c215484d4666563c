-------------------------- MODULE FileCacheProofs --------------------------
(***************************************************************************)
(* The pages that the file cache keeps hold the bytes of the file, and a   *)
(* plain read returns them: for any page and block sizes, any lengths of   *)
(* the arrays, any file and any requests.                                  *)
(*                                                                         *)
(* The argument: the extents of a map are the runs of the file, one after  *)
(* the other, so what pages_io reads next always goes on where it stopped, *)
(* in the file and on the disk.  What the first read of a chunk has put    *)
(* behind its extent is overwritten, since bytesLeft is never less than    *)
(* what the vectors still have room for.  A chunk ends when the vectors    *)
(* are full or the file is at its end.                                     *)
(***************************************************************************)
EXTENDS FileCache, InductionLemmas, TLAPS

-----------------------------------------------------------------------------
(* The invariant.                                                          *)

\* Begin and end of a run in the file.
From(i) == file.runs[i].start
Upto(i) == file.runs[i].start + file.runs[i].length

\* The extents are the runs from `first` on, the first from `base` on.  The
\* last may be cut behind the end of the file; when there are more, none is.
Begin(first, base, j) == IF j = 1 THEN base ELSE From(first + j - 1)

Maps(x, overflow, first, base) ==
  /\ x \in Seq([disk : Nat, length : Nat]) /\ Len(x) > 0
  /\ first + Len(x) - 1 <= Len(file.runs)
  /\ From(first) <= base /\ base < Upto(first)
  /\ overflow => Upto(first + Len(x) - 1) < file.size
  /\ \A j \in 1 .. Len(x) :
       /\ x[j].disk = file.runs[first + j - 1].disk + Begin(first, base, j) - From(first + j - 1)
       /\ \/ Begin(first, base, j) + x[j].length = Upto(first + j - 1)
          \/ /\ j = Len(x) /\ ~ overflow
             /\ Upto(first + j - 1) > file.size
             /\ Begin(first, base, j) + x[j].length >= file.size

\* The map reaches the end of what was asked for, or of the file.
Reaches(x, overflow, first, base, end) ==
  \/ overflow
  \/ Begin(first, base, Len(x)) + x[Len(x)].length >= end
  \/ Begin(first, base, Len(x)) + x[Len(x)].length >= file.size

\* A request between Read and its return, and the gap it reads.
Calls == [active : {TRUE}, offset : Nat, size : Nat \ {0}, at : PageOffsets, done : Nat]
Fills == [active : {TRUE}, offset : PageOffsets, size : Nat \ {0}, skip : Nat, buffer : Nat, left : Nat]
Reads == [active : {TRUE}, cuts : SUBSET Nat, extents : Seq([disk : Nat, length : Nat]), overflow : BOOLEAN,
          index : Nat, disk : Nat, fileLeft : Nat, pos : Nat, bytesLeft : Nat, finished : {FALSE}]

NotRead(a, b) == \A o \in PageOffsets : a <= o /\ o < b => pages[o] = 0

\* While it walks, all pages of the request up to the place are not in memory;
\* or it sleeps.
CallInv ==
  call.active =>
    /\ call \in Calls
    /\ call.size <= BufferSize
    /\ call.offset + call.size <= file.size
    /\ Aligned(call.offset, PageSize) <= call.at /\ call.at < call.offset + call.size
    /\ \/ call.done = 0 /\ (fill.active \/ NotRead(Aligned(call.offset, PageSize), call.at))
       \/ ~ fill.active /\ pages[call.at] > 0 /\ call.done = Buffer

\* The gap ends with the page before the place, which is in memory, or with
\* the last page of the request.
FillEnd == fill.offset + fill.size

FillInv ==
  fill.active =>
    /\ call.active
    /\ call.done = 0
    /\ fill \in Fills
    /\ fill.size % PageSize = 0
    /\ fill.skip < PageSize
    /\ \/ FillEnd = call.at /\ pages[call.at] > 0
       \/ FillEnd = call.at + PageSize /\ call.offset + call.size <= FillEnd
    /\ NotRead(fill.offset + (IF io.active THEN NumBytes ELSE 0), FillEnd)
    /\ fill.left > 0 => fill.buffer + fill.left <= call.size
    /\ fill.left <= call.size

\* A plain read that fills the rest has what lies in front of the gap.
PlainInv ==
  fill.active /\ failures = 0 /\ Plain /\ FillEnd = call.at + PageSize =>
    /\ fill.buffer + fill.left = call.size
    /\ call.offset + fill.buffer = fill.offset + fill.skip
    /\ \A b \in 0 .. call.size - 1 : b < fill.buffer => user[b] = OnDisk(call.offset + b)
    /\ fill.skip # 0 => fill.size <= Chunk

\* A unit of the chunk that is read.
InChunk(p) == fill.offset <= p /\ p < fill.offset + NumBytes

\* What of the chunk is right already.
RightUpto(end) == failures = 0 => \A p \in Positions : fill.offset <= p /\ p < end /\ p < file.size => memory[p] = OnDisk(p)

\* Between two disk reads of pages_io.
Here == fill.offset + io.pos

ReadInv ==
  io.active =>
    /\ fill.active
    /\ io.finished \in BOOLEAN
    /\ io.finished => RightUpto(fill.offset + NumBytes)
    /\ ~ io.finished =>
         /\ io \in Reads
         /\ io.pos <= NumBytes /\ NumBytes - io.pos <= io.bytesLeft
         /\ io.fileLeft <= io.bytesLeft
         /\ io.index \in 1 .. Len(io.extents)
         /\ \A c \in io.cuts : c < NumBytes
         /\ RightUpto(Here)
         /\ \E first \in 1 .. Len(file.runs) : \E base \in Positions :
              /\ Maps(io.extents, io.overflow, first, base)
              /\ Reaches(io.extents, io.overflow, first, base, fill.offset + NumBytes)
              /\ LET begin == Begin(first, base, io.index)
                     end == begin + io.extents[io.index].length
                 IN  /\ Here + io.fileLeft <= end
                     /\ Here + io.fileLeft = end \/ io.fileLeft = io.bytesLeft
                     /\ io.fileLeft > 0 => begin <= Here /\ io.disk = io.extents[io.index].disk + Here - begin

MemoryInv ==
  failures = 0 =>
    \A p \in Positions :
      p < file.size /\ pages[Aligned(p, PageSize)] > 0 /\ ~ (io.active /\ InChunk(p)) => memory[p] = OnDisk(p)

Types ==
  /\ file \in Layouts
  /\ pages \in [PageOffsets -> {0, 1}]
  /\ memory \in [Positions -> Nat \cup {Garbage}]
  /\ user \in [0 .. BufferSize - 1 -> Nat \cup {Garbage}]
  /\ call.active \in BOOLEAN /\ call.size \in Nat /\ call.size <= BufferSize
  /\ fill.active \in BOOLEAN /\ io.active \in BOOLEAN
  /\ failures \in Nat

IInv == Types /\ CallInv /\ FillInv /\ PlainInv /\ ReadInv /\ MemoryInv /\ PlainReadsRight

-----------------------------------------------------------------------------
(* Multiples of the size of a page.                                        *)

Size == Nat \ {0}

LEMMA Multiple ==
  ASSUME NEW d \in Size, NEW n \in Nat
  PROVE  /\ n \div d \in Nat /\ n % d \in 0 .. d - 1 /\ n = (n \div d) * d + (n % d)
         /\ Aligned(n, d) \in Nat /\ Aligned(n, d) <= n /\ n < Aligned(n, d) + d
         /\ n % d = n - Aligned(n, d)
<1>1. n \div d \in Nat /\ n % d \in 0 .. d - 1
  BY DEF Size
<1>2. n = d * (n \div d) + (n % d)
  BY DEF Size
<1>3. PICK q \in Nat, r \in 0 .. d - 1 : q = n \div d /\ r = n % d
  BY <1>1
<1>4. d * q = q * d /\ q * d \in Nat
  BY DEF Size
<1>5. Aligned(n, d) = q * d /\ n = q * d + r
  BY <1>2, <1>3, <1>4 DEF Aligned
<1> QED
  BY <1>1, <1>3, <1>4, <1>5 DEF Size

LEMMA MultipleIs ==
  ASSUME NEW d \in Size, NEW n \in Nat
  PROVE  n % d = 0 <=> \E k \in Nat : n = k * d
<1>1. ASSUME n % d = 0 PROVE \E k \in Nat : n = k * d
  <2>1. PICK q \in Nat : q = n \div d
    BY Multiple
  <2>2. q * d \in Nat /\ n = q * d + 0
    BY <1>1, <2>1, Multiple DEF Size
  <2> QED
    BY <2>2
<1>2. ASSUME NEW k \in Nat, n = k * d PROVE n % d = 0
  <2>1. PICK q \in Nat, r \in 0 .. d - 1 : q = n \div d /\ r = n % d
    BY Multiple
  <2>2. k * d = q * d + r
    BY <1>2, <2>1, Multiple
  <2>3. CASE k = q
    <3>1. q * d \in Nat
      BY DEF Size
    <3> QED
      BY <2>1, <2>2, <2>3, <3>1
  <2>4. CASE k > q
    <3>1. PICK m \in Nat : k = q + m + 1
      <4>1. k - q - 1 \in Nat /\ k = q + (k - q - 1) + 1
        BY <2>4
      <4> QED
        BY <4>1
    <3>2. k * d = q * d + m * d + d /\ m * d \in Nat /\ q * d \in Nat
      BY <3>1 DEF Size
    <3> QED
      BY <2>1, <2>2, <3>2 DEF Size
  <2>5. CASE k < q
    <3>1. PICK m \in Nat : q = k + m + 1
      <4>1. q - k - 1 \in Nat /\ q = k + (q - k - 1) + 1
        BY <2>5
      <4> QED
        BY <4>1
    <3>2. q * d = k * d + m * d + d /\ m * d \in Nat /\ k * d \in Nat
      BY <3>1 DEF Size
    <3> QED
      BY <2>1, <2>2, <3>2 DEF Size
  <2> QED
    BY <2>3, <2>4, <2>5
<1> QED
  BY <1>1, <1>2

LEMMA MultiplesAdd ==
  ASSUME NEW d \in Size, NEW m \in Nat, NEW n \in Nat, m % d = 0, n % d = 0
  PROVE  /\ (m + n) % d = 0
         /\ m >= n => (m - n) % d = 0
         /\ m > n => m - n >= d /\ n + d <= m
<1>1. PICK a \in Nat, b \in Nat : m = a * d /\ n = b * d
  BY MultipleIs
<1>2. m + n = (a + b) * d
  BY <1>1 DEF Size
<1>3. (m + n) % d = 0
  BY <1>2, MultipleIs
<1>4. ASSUME m >= n PROVE (m - n) % d = 0 /\ (m > n => m - n >= d)
  <2>1. CASE a >= b
    <3>1. PICK c \in Nat : a = b + c
      <4>1. a - b \in Nat /\ a = b + (a - b)
        BY <2>1
      <4> QED
        BY <4>1
    <3>2. a * d = b * d + c * d /\ c * d \in Nat /\ b * d \in Nat
      BY <3>1 DEF Size
    <3>3. m - n = c * d /\ m - n \in Nat
      BY <1>1, <3>2
    <3>4. c >= 1 => c * d >= d
      <4>1. ASSUME c >= 1 PROVE c * d >= d
        <5>1. PICK e \in Nat : c = e + 1
          <6>1. c - 1 \in Nat /\ c = (c - 1) + 1
            BY <4>1
          <6> QED
            BY <6>1
        <5>2. c * d = e * d + d /\ e * d \in Nat
          BY <5>1 DEF Size
        <5> QED
          BY <5>2 DEF Size
      <4> QED
        BY <4>1
    <3>5. c = 0 => c * d = 0
      BY DEF Size
    <3> QED
      BY <3>3, <3>4, <3>5, MultipleIs DEF Size
  <2>2. CASE a < b
    <3>1. PICK c \in Nat : b = a + c + 1
      <4>1. b - a - 1 \in Nat /\ b = a + (b - a - 1) + 1
        BY <2>2
      <4> QED
        BY <4>1
    <3>2. b * d = a * d + c * d + d /\ c * d \in Nat /\ a * d \in Nat
      BY <3>1 DEF Size
    <3> QED
      BY <1>1, <1>4, <3>2 DEF Size
  <2> QED
    BY <2>1, <2>2
<1>5. m > n => m - n >= d /\ n + d <= m
  BY <1>4 DEF Size
<1> QED
  BY <1>3, <1>4, <1>5

\* The multiple at or before a number, and the one at or behind it.
LEMMA AlignedIs ==
  ASSUME NEW d \in Size, NEW n \in Nat
  PROVE  /\ Aligned(n, d) % d = 0
         /\ \A a \in Nat : a % d = 0 /\ a <= n /\ n < a + d => Aligned(n, d) = a
<1>1. Aligned(n, d) % d = 0
  <2>1. PICK q \in Nat : q = n \div d
    BY Multiple
  <2>2. Aligned(n, d) = q * d /\ Aligned(n, d) \in Nat
    BY <2>1, Multiple DEF Aligned
  <2> QED
    BY <2>2, MultipleIs
<1>2. ASSUME NEW a \in Nat, a % d = 0, a <= n, n < a + d
      PROVE  Aligned(n, d) = a
  <2>1. PICK b \in Nat : b = Aligned(n, d) /\ b <= n /\ n < b + d /\ b % d = 0
    BY <1>1, Multiple
  <2>2. a > b => b + d <= a
    BY <1>2, <2>1, MultiplesAdd
  <2>3. b > a => a + d <= b
    BY <1>2, <2>1, MultiplesAdd
  <2> QED
    BY <1>2, <2>1, <2>2, <2>3 DEF Size
<1> QED
  BY <1>1, <1>2

LEMMA RoundedUpIs ==
  ASSUME NEW d \in Size, NEW n \in Nat
  PROVE  /\ RoundedUp(n, d) \in Nat /\ RoundedUp(n, d) % d = 0
         /\ n <= RoundedUp(n, d) /\ RoundedUp(n, d) < n + d
         /\ \A a \in Nat : a % d = 0 /\ n <= a /\ a < n + d => RoundedUp(n, d) = a
<1>1. PICK m \in Nat : m = n + d - 1
  <2>1. n + d - 1 \in Nat
    BY DEF Size
  <2> QED
    BY <2>1
<1>2. RoundedUp(n, d) = Aligned(m, d)
  BY <1>1 DEF RoundedUp
<1>3. Aligned(m, d) \in Nat /\ Aligned(m, d) <= m /\ m < Aligned(m, d) + d /\ Aligned(m, d) % d = 0
  BY Multiple, AlignedIs
<1>4. ASSUME NEW a \in Nat, a % d = 0, n <= a, a < n + d
      PROVE  Aligned(m, d) = a
  <2>1. a <= m /\ m < a + d
    BY <1>1, <1>4 DEF Size
  <2> QED
    BY <1>4, <2>1, AlignedIs
<1> QED
  BY <1>1, <1>2, <1>3, <1>4 DEF Size

-----------------------------------------------------------------------------
(* The runs of a file.                                                     *)

NumRuns == Len(file.runs)

LEMMA RunTypes ==
  ASSUME file \in Layouts
  PROVE  /\ NumRuns \in Nat \ {0} /\ file.size \in Nat \ {0} /\ file.size <= FilePages * PageSize
         /\ \A i \in 1 .. NumRuns : /\ From(i) \in Nat /\ Upto(i) \in Nat /\ From(i) < Upto(i)
                                    /\ file.runs[i].disk \in Nat
         /\ From(1) = 0 /\ \A i \in 1 .. NumRuns - 1 : From(i + 1) = Upto(i)
         /\ file.size <= Upto(NumRuns)
<1>1. FilePages * PageSize \in Nat
  BY SizesAssumption
<1>2. /\ file.size \in 1 .. FilePages * PageSize /\ file.runs \in Seq(Run) \ {<< >>} /\ file.runs[1].start = 0
      /\ \A i \in 1 .. Len(file.runs) - 1 : file.runs[i + 1].start = file.runs[i].start + file.runs[i].length
      /\ file.size <= file.runs[Len(file.runs)].start + file.runs[Len(file.runs)].length
  BY LayoutsAssumption
<1>3. NumRuns \in Nat \ {0}
  BY <1>2 DEF NumRuns
<1>4. ASSUME NEW i \in 1 .. NumRuns
      PROVE  From(i) \in Nat /\ Upto(i) \in Nat /\ From(i) < Upto(i) /\ file.runs[i].disk \in Nat
  <2>1. file.runs[i] \in Run
    BY <1>2 DEF NumRuns
  <2>2. file.runs[i].start \in Nat /\ file.runs[i].length \in Nat \ {0} /\ file.runs[i].disk \in Nat
    BY <2>1 DEF Run
  <2> QED
    BY <2>2 DEF From, Upto
<1> QED
  BY <1>1, <1>2, <1>3, <1>4 DEF From, Upto, NumRuns

\* Runs do not overlap.
LEMMA RunsApart ==
  ASSUME file \in Layouts
  PROVE  \A i, j \in 1 .. NumRuns : i < j => Upto(i) <= From(j)
<1> DEFINE P == {k \in Nat : \A i \in 1 .. NumRuns : i + k + 1 <= NumRuns => Upto(i) <= From(i + k + 1)}
<1>1. Nat \subseteq P
  <2>1. 0 \in P
    <3>1. ASSUME NEW i \in 1 .. NumRuns, i + 0 + 1 <= NumRuns PROVE Upto(i) <= From(i + 0 + 1)
      <4>1. i + 0 + 1 = i + 1 /\ i \in 1 .. NumRuns - 1 /\ Upto(i) \in Nat
        BY <3>1, RunTypes
      <4> QED
        BY <4>1, RunTypes
    <3> QED
      BY <3>1
  <2>2. ASSUME NEW k \in Nat, k \in P PROVE k + 1 \in P
    <3>1. ASSUME NEW i \in 1 .. NumRuns, i + (k + 1) + 1 <= NumRuns PROVE Upto(i) <= From(i + (k + 1) + 1)
      <4>1. PICK m \in Nat : m = i + k + 1 /\ m \in 1 .. NumRuns - 1 /\ i + (k + 1) + 1 = m + 1 /\ m + 1 \in 1 .. NumRuns
        BY <3>1, RunTypes
      <4>2. Upto(i) <= From(m)
        BY <2>2, <4>1, RunTypes
      <4>3. From(m) < Upto(m) /\ Upto(m) = From(m + 1) /\ From(m) \in Nat /\ Upto(m) \in Nat /\ Upto(i) \in Nat
        BY <4>1, RunTypes
      <4> QED
        BY <4>1, <4>2, <4>3
    <3> QED
      BY <3>1
  <2> HIDE DEF P
  <2> QED
    BY <2>1, <2>2, NumberInduction
<1>2. ASSUME NEW i \in 1 .. NumRuns, NEW j \in 1 .. NumRuns, i < j
      PROVE  Upto(i) <= From(j)
  <2>1. PICK k \in Nat : k = j - i - 1 /\ j = i + k + 1
    <3>1. j - i - 1 \in Nat /\ j = i + (j - i - 1) + 1
      BY <1>2, RunTypes
    <3> QED
      BY <3>1
  <2>2. k \in P
    BY <1>1
  <2>3. Upto(i) <= From(i + k + 1)
    BY <2>1, <2>2, RunTypes
  <2> QED
    BY <2>1, <2>3
<1> QED
  BY <1>2

\* A position that a run holds is held by no other.
LEMMA RunOfPosition ==
  ASSUME file \in Layouts, NEW p \in Nat, NEW i \in 1 .. NumRuns, From(i) <= p, p < Upto(i)
  PROVE  FindBlockRun(p) = i /\ OnDisk(p) = file.runs[i].disk + p - From(i)
<1>1. ASSUME NEW j \in 1 .. NumRuns, From(j) <= p, p < Upto(j)
      PROVE  j = i
  <2>1. /\ From(i) \in Nat /\ Upto(i) \in Nat /\ From(j) \in Nat /\ Upto(j) \in Nat
        /\ i < j => Upto(i) <= From(j)
        /\ j < i => Upto(j) <= From(i)
    BY RunTypes, RunsApart
  <2> QED
    BY <1>1, <2>1, RunTypes
<1>2. FindBlockRun(p) = CHOOSE j \in 1 .. NumRuns : From(j) <= p /\ p < Upto(j)
  BY DEF FindBlockRun, NumRuns, From, Upto
<1>3. FindBlockRun(p) = i
  BY <1>1, <1>2
<1> QED
  BY <1>3 DEF OnDisk, From

\* Every position before the end of the last run is held by one.
LEMMA RunFound ==
  ASSUME file \in Layouts, NEW p \in Nat, p < Upto(NumRuns)
  PROVE  /\ FindBlockRun(p) \in 1 .. NumRuns
         /\ From(FindBlockRun(p)) <= p /\ p < Upto(FindBlockRun(p))
<1> DEFINE S == {i \in 1 .. NumRuns : p < Upto(i)}
<1>1. S \subseteq Nat /\ NumRuns \in S
  BY RunTypes
<1>2. PICK i \in S : \A j \in S : i <= j
  <2> HIDE DEF S
  <2> QED
    BY <1>1, LeastNumber
<1>3. From(i) <= p
  <2>1. CASE i = 1
    BY <2>1, RunTypes
  <2>2. CASE i # 1
    <3>1. i - 1 \in 1 .. NumRuns /\ i - 1 \in 1 .. NumRuns - 1 /\ i - 1 \notin S /\ (i - 1) + 1 = i
      BY <1>2, <2>2, RunTypes
    <3>2. From(i) = Upto(i - 1) /\ ~ (p < Upto(i - 1)) /\ Upto(i - 1) \in Nat
      BY <3>1, RunTypes
    <3> QED
      BY <3>2
  <2> QED
    BY <2>1, <2>2
<1>4. FindBlockRun(p) = i
  BY <1>2, <1>3, RunOfPosition
<1> QED
  BY <1>2, <1>3, <1>4

-----------------------------------------------------------------------------
(* The map of a part of the file.                                          *)

LEMMA MapIsRuns ==
  ASSUME file \in Layouts, NEW offset \in Nat, offset < file.size, NEW size \in Nat
  PROVE  LET map == FileMap(offset, size)
         IN  /\ map = [extents |-> map.extents, overflow |-> map.overflow]
             /\ map.overflow \in BOOLEAN
             /\ \E first \in 1 .. Len(file.runs) :
                  /\ Maps(map.extents, map.overflow, first, offset)
                  /\ Reaches(map.extents, map.overflow, first, offset, offset + size)
<1> DEFINE first == FindBlockRun(offset)
           ends == {i \in first .. NumRuns : Upto(i) >= offset + size \/ Upto(i) >= file.size}
           last == Min(ends)
           from(i) == IF i = first THEN offset ELSE From(i)
           length(i) == IF i = last /\ Upto(i) > file.size
                          THEN RoundedUp(file.size - From(i), BlockSize)
                          ELSE Upto(i) - from(i)
           extent(i) == [disk |-> file.runs[i].disk + from(i) - From(i), length |-> length(i)]
           count == Smaller(last - first + 1, MaxFileIoVecs)
           x == [i \in 1 .. count |-> extent(first + i - 1)]
           overflow == last - first + 1 > MaxFileIoVecs
<1>1. FileMap(offset, size) = [extents |-> x, overflow |-> overflow]
  BY DEF FileMap, NumRuns, From, Upto
<1>2. first \in 1 .. NumRuns /\ From(first) <= offset /\ offset < Upto(first)
  <2>1. offset < Upto(NumRuns)
    BY RunTypes
  <2> QED
    BY <2>1, RunFound
<1> HIDE DEF first
<1>3. last \in ends /\ \A i \in ends : last <= i
  <2>1. ends \subseteq Nat
    BY <1>2
  <2>2. NumRuns \in ends
    BY <1>2, RunTypes
  <2> HIDE DEF ends
  <2> QED
    BY <2>1, <2>2, MinIsLeast
<1> HIDE DEF last
<1>4. /\ last \in 1 .. NumRuns /\ first <= last
      /\ Upto(last) >= offset + size \/ Upto(last) >= file.size
      /\ \A i \in first .. last - 1 : Upto(i) < offset + size /\ Upto(i) < file.size
  <2>1. last \in first .. NumRuns
    BY <1>3
  <2>2. last \in 1 .. NumRuns /\ first <= last
    BY <1>2, <2>1
  <2>3. ASSUME NEW i \in first .. last - 1 PROVE Upto(i) < offset + size /\ Upto(i) < file.size
    <3>1. i \in first .. NumRuns /\ i < last /\ i \in 1 .. NumRuns
      BY <1>2, <2>2, RunTypes
    <3>2. i \notin ends
      BY <1>3, <2>2, <3>1
    <3>3. Upto(i) \in Nat /\ file.size \in Nat
      BY <3>1, RunTypes
    <3> QED
      BY <3>1, <3>2, <3>3
  <2> QED
    BY <1>3, <2>2, <2>3
<1> HIDE DEF ends
<1>5. PICK m \in Nat \ {0} : m = MaxFileIoVecs
  BY SizesAssumption
<1>6. /\ count \in Nat /\ count > 0 /\ first + count - 1 <= last
      /\ overflow => first + count - 1 < last
      /\ ~ overflow => first + count - 1 = last
  BY <1>2, <1>4, <1>5, RunTypes DEF Smaller
<1> HIDE DEF count
<1>7. ASSUME NEW i \in first .. last
      PROVE  /\ from(i) \in Nat /\ from(i) - From(i) \in Nat /\ length(i) \in Nat
             /\ \/ from(i) + length(i) = Upto(i)
                \/ i = last /\ Upto(i) > file.size /\ from(i) + length(i) >= file.size
  <2>1. i \in 1 .. NumRuns
    BY <1>2, <1>4, RunTypes
  <2>2. From(i) \in Nat /\ Upto(i) \in Nat /\ From(i) < Upto(i) /\ file.size \in Nat
    BY <2>1, RunTypes
  <2>3. from(i) \in Nat /\ from(i) >= From(i) /\ from(i) < Upto(i)
    BY <1>2, <2>2
  <2>4. From(i) < file.size
    <3>1. CASE i = first
      BY <1>2, <2>2, <3>1
    <3>2. CASE i # first
      <4>1. i - 1 \in first .. last - 1 /\ i - 1 \in 1 .. NumRuns - 1 /\ (i - 1) + 1 = i
        BY <1>2, <1>4, <2>1, <3>2, RunTypes
      <4>2. Upto(i - 1) < file.size
        BY <1>4, <4>1
      <4> QED
        BY <4>1, <4>2, RunTypes
    <3> QED
      BY <3>1, <3>2
  <2>5. PICK r \in Nat : r = file.size - From(i)
    <3>1. file.size - From(i) \in Nat
      BY <2>2, <2>4
    <3> QED
      BY <3>1
  <2>6. RoundedUp(r, BlockSize) \in Nat /\ r <= RoundedUp(r, BlockSize)
    BY SizesAssumption, RoundedUpIs DEF Size
  <2>7. CASE i = last /\ Upto(i) > file.size
    <3>1. length(i) = RoundedUp(r, BlockSize)
      BY <2>5, <2>7
    <3> QED
      BY <2>2, <2>3, <2>5, <2>6, <2>7, <3>1
  <2>8. CASE ~ (i = last /\ Upto(i) > file.size)
    <3>1. length(i) = Upto(i) - from(i)
      BY <2>8
    <3> QED
      BY <2>2, <2>3, <3>1
  <2> QED
    BY <2>7, <2>8
<1>8. ASSUME NEW j \in 1 .. count
      PROVE  first + j - 1 \in first .. last /\ from(first + j - 1) = Begin(first, offset, j)
  <2>1. first + j - 1 \in first .. last /\ (j = 1 <=> first + j - 1 = first)
    BY <1>2, <1>4, <1>6
  <2> QED
    BY <2>1 DEF Begin
<1>9. ASSUME NEW j \in 1 .. count
      PROVE  /\ x[j] = extent(first + j - 1)
             /\ x[j] \in [disk : Nat, length : Nat]
             /\ x[j].disk = file.runs[first + j - 1].disk + Begin(first, offset, j) - From(first + j - 1)
             /\ x[j].length = length(first + j - 1)
  <2>1. PICK i \in first .. last : i = first + j - 1 /\ from(i) = Begin(first, offset, j)
    BY <1>8
  <2>2. i \in 1 .. NumRuns
    BY <1>2, <1>4, RunTypes
  <2>3. file.runs[i].disk \in Int /\ from(i) \in Nat /\ length(i) \in Nat /\ From(i) \in Nat
    BY <1>7, <2>2, RunTypes
  <2>4. x[j] = extent(i)
    BY <2>1
  <2>5. file.runs[i].disk + from(i) - From(i) \in Nat
    <3>1. PICK k \in Nat, g \in Nat, l \in Nat :
            k = file.runs[i].disk /\ g = from(i) /\ l = From(i) /\ g - l \in Nat
      BY <1>7, <2>2, <2>3, RunTypes
    <3>2. k + g - l \in Nat
      BY <3>1
    <3> HIDE DEF from
    <3> QED
      BY <3>1, <3>2
  <2> HIDE DEF from, length, x
  <2> QED
    BY <2>1, <2>3, <2>4, <2>5
<1>10. x \in Seq([disk : Nat, length : Nat]) /\ Len(x) = count
  <2>1. x = [i \in 1 .. count |-> x[i]]
    OBVIOUS
  <2> HIDE DEF x
  <2>2. \A j \in 1 .. count : x[j] \in [disk : Nat, length : Nat]
    BY <1>9
  <2>3. x \in [1 .. count -> [disk : Nat, length : Nat]]
    BY <2>1, <2>2
  <2>4. PICK c \in Nat : c = count
    BY <1>6
  <2>5. PICK T : T = [disk : Nat, length : Nat]
    OBVIOUS
  <2>6. x \in [1 .. c -> T]
    BY <2>3, <2>4, <2>5
  <2>7. x \in Seq(T) /\ Len(x) = c
    BY <2>6
  <2> QED
    BY <2>4, <2>5, <2>7
<1> HIDE DEF x, overflow
<1>11. Maps(x, overflow, first, offset)
  <2>1. first + Len(x) - 1 <= Len(file.runs)
    <3>1. first + count - 1 <= NumRuns
      BY <1>2, <1>4, <1>6, RunTypes
    <3> QED
      BY <1>10, <3>1 DEF NumRuns
  <2>2. overflow => Upto(first + Len(x) - 1) < file.size
    <3>1. ASSUME overflow PROVE first + Len(x) - 1 \in first .. last - 1
      BY <1>2, <1>4, <1>6, <1>10, <3>1
    <3> QED
      BY <1>4, <3>1
  <2>3. ASSUME NEW j \in 1 .. Len(x)
        PROVE  \/ Begin(first, offset, j) + x[j].length = Upto(first + j - 1)
               \/ /\ j = Len(x) /\ ~ overflow
                  /\ Upto(first + j - 1) > file.size
                  /\ Begin(first, offset, j) + x[j].length >= file.size
    <3>1. PICK i \in first .. last : i = first + j - 1 /\ from(i) = Begin(first, offset, j) /\ x[j].length = length(i)
      BY <1>8, <1>9, <1>10
    <3>2. \/ from(i) + length(i) = Upto(i)
          \/ i = last /\ Upto(i) > file.size /\ from(i) + length(i) >= file.size
      BY <1>7
    <3>3. i = last => j = Len(x) /\ ~ overflow
      BY <1>2, <1>4, <1>6, <1>10, <3>1
    <3> HIDE DEF from, length
    <3> QED
      BY <3>1, <3>2, <3>3
  <2>4. \A j \in 1 .. Len(x) :
          x[j].disk = file.runs[first + j - 1].disk + Begin(first, offset, j) - From(first + j - 1)
    BY <1>9, <1>10
  <2>5. Len(x) > 0
    BY <1>6, <1>10
  <2> QED
    BY <1>2, <1>10, <2>1, <2>2, <2>3, <2>4, <2>5 DEF Maps
<1>12. Reaches(x, overflow, first, offset, offset + size)
  <2>1. SUFFICES ASSUME ~ overflow
                 PROVE  \/ Begin(first, offset, count) + x[count].length >= offset + size
                        \/ Begin(first, offset, count) + x[count].length >= file.size
    BY <1>10 DEF Reaches
  <2>2. count \in 1 .. count /\ first + count - 1 = last
    BY <1>6, <2>1
  <2>3. Begin(first, offset, count) + x[count].length = from(last) + length(last)
    BY <1>8, <1>9, <2>2
  <2>4. \/ from(last) + length(last) = Upto(last)
        \/ from(last) + length(last) >= file.size
    BY <1>2, <1>4, <1>7
  <2> HIDE DEF from, length
  <2> QED
    BY <1>4, <2>3, <2>4
<1>13. overflow \in BOOLEAN
  BY DEF overflow
<1>14. first \in 1 .. Len(file.runs)
  BY <1>2 DEF NumRuns
<1> QED
  BY <1>1, <1>11, <1>12, <1>13, <1>14

-----------------------------------------------------------------------------
(* Pages and chunks.                                                       *)

LEMMA PageFacts ==
  /\ PageSize \in Size /\ Chunk \in Nat /\ Chunk >= PageSize /\ Chunk % PageSize = 0
  /\ FilePages * PageSize \in Nat /\ (FilePages * PageSize) % PageSize = 0
  /\ \A p : p \in Positions <=> p \in Nat /\ p < FilePages * PageSize
  /\ \A o : o \in PageOffsets <=> o \in Nat /\ o < FilePages * PageSize /\ o % PageSize = 0
  /\ \A p \in Positions : Aligned(p, PageSize) \in PageOffsets
<1>1. PICK d \in Size, m \in Nat \ {0}, f \in Nat : d = PageSize /\ m = MaxIoVecs /\ f = FilePages
  BY SizesAssumption DEF Size
<1>2. PICK c \in Nat : c = m * d /\ c % d = 0 /\ c >= d
  <2>1. m * d \in Nat /\ (m * d) % d = 0
    <3>1. m * d \in Nat
      BY DEF Size
    <3> QED
      BY <3>1, MultipleIs
  <2>2. m * d >= d
    <3>1. PICK k \in Nat : m = k + 1
      <4>1. m - 1 \in Nat /\ m = (m - 1) + 1
        OBVIOUS
      <4> QED
        BY <4>1
    <3>2. m * d = k * d + d /\ k * d \in Nat
      BY <3>1 DEF Size
    <3> QED
      BY <3>2 DEF Size
  <2> QED
    BY <2>1, <2>2
<1>3. PICK n \in Nat : n = f * d /\ n % d = 0
  <2>1. f * d \in Nat
    BY DEF Size
  <2> QED
    BY <2>1, MultipleIs
<1>4. \A p : p \in Positions <=> p \in Nat /\ p < n
  BY <1>1, <1>3 DEF Positions
<1>5. \A o : o \in PageOffsets <=> o \in Nat /\ o < n /\ o % d = 0
  BY <1>1, <1>4 DEF PageOffsets
<1>6. ASSUME NEW p \in Positions
      PROVE  Aligned(p, d) \in PageOffsets
  <2>1. p \in Nat /\ p < n
    BY <1>4
  <2>2. Aligned(p, d) \in Nat /\ Aligned(p, d) <= p /\ Aligned(p, d) % d = 0
    BY <2>1, Multiple, AlignedIs
  <2> QED
    BY <1>5, <2>1, <2>2
<1> QED
  BY <1>1, <1>2, <1>3, <1>4, <1>5, <1>6 DEF Chunk

\* What read_into_cache has before it, while a gap is read.
LEMMA FillFacts ==
  ASSUME Types, CallInv, FillInv, fill.active
  PROVE  /\ call \in Calls /\ fill \in Fills
         /\ fill.offset \in Nat /\ fill.offset % PageSize = 0 /\ fill.offset < file.size
         /\ fill.size \in Nat \ {0}
         /\ FillEnd \in Nat /\ FillEnd % PageSize = 0 /\ FillEnd < file.size + PageSize
         /\ NumBytes \in Nat \ {0} /\ NumBytes % PageSize = 0 /\ NumBytes <= Chunk /\ NumBytes <= fill.size
         /\ NumBytes < fill.size => NumBytes = Chunk
         /\ fill.offset + NumBytes <= FillEnd
<1>1. PICK d \in Size, c \in Nat, z \in Nat \ {0} :
        d = PageSize /\ c = Chunk /\ z = file.size /\ c % d = 0 /\ c >= d
  <2>1. file.size \in Nat \ {0}
    BY RunTypes DEF Types
  <2> QED
    BY <2>1, PageFacts
<1>2. /\ call.active /\ call \in Calls /\ fill \in Fills /\ fill.size % d = 0
      /\ call.offset + call.size <= z /\ call.at < call.offset + call.size
      /\ FillEnd = call.at \/ FillEnd = call.at + d
  BY <1>1 DEF CallInv, FillInv
<1>3. PICK o \in Nat, n \in Nat \ {0}, a \in Nat :
        o = fill.offset /\ n = fill.size /\ a = call.at /\ o % d = 0 /\ a % d = 0 /\ a < z
  <2>1. fill.offset \in PageOffsets /\ fill.size \in Nat \ {0} /\ call.at \in PageOffsets
    BY <1>2 DEF Calls, Fills
  <2>2. call.offset \in Nat /\ call.size \in Nat /\ call.at \in Nat
    BY <1>2, <2>1, PageFacts DEF Calls
  <2>3. call.at < z
    BY <1>2, <2>2
  <2>4. fill.offset \in Nat /\ fill.offset % d = 0 /\ call.at % d = 0
    BY <1>1, <2>1, PageFacts
  <2> QED
    BY <2>1, <2>2, <2>3, <2>4
<1>4. FillEnd = o + n /\ o + n \in Nat /\ (o + n) % d = 0
  <2>1. d \in Size /\ o \in Nat /\ n \in Nat /\ o % d = 0 /\ n % d = 0
    BY <1>2, <1>3
  <2>2. (o + n) % d = 0
    BY ONLY <2>1, MultiplesAdd
  <2> QED
    BY <1>3, <2>2 DEF FillEnd
<1>5. FillEnd < z + d
  BY <1>2, <1>3, <1>4 DEF Size
<1>6. o < z
  <2>1. o + d <= o + n
    <3>1. d \in Size /\ o \in Nat /\ o + n \in Nat /\ o % d = 0 /\ (o + n) % d = 0 /\ o + n > o
      BY <1>3, <1>4
    <3> QED
      BY ONLY <3>1, MultiplesAdd
  <2> QED
    BY <1>3, <1>4, <1>5, <2>1 DEF Size
<1>7. NumBytes = IF n <= c THEN n ELSE c
  BY <1>1, <1>3 DEF NumBytes, Smaller
<1>8. /\ NumBytes \in Nat \ {0} /\ NumBytes % d = 0 /\ NumBytes <= c /\ NumBytes <= n
      /\ NumBytes < n => NumBytes = c
      /\ o + NumBytes <= o + n
  BY <1>1, <1>2, <1>3, <1>7 DEF Size
<1> QED
  BY <1>1, <1>2, <1>3, <1>4, <1>5, <1>6, <1>8

\* The units of the pages of a chunk are the units of the chunk.
LEMMA ChunkIsPages ==
  ASSUME Types, CallInv, FillInv, fill.active, NEW p \in Positions
  PROVE  InChunk(p) <=> Aligned(p, PageSize) \in ChunkPages
<1>1. PICK d \in Size, o \in Nat, n \in Nat \ {0} :
        d = PageSize /\ o = fill.offset /\ n = NumBytes /\ o % d = 0 /\ n % d = 0
  BY FillFacts, PageFacts
<1>2. PICK a \in Nat : a = Aligned(p, d) /\ a <= p /\ p < a + d /\ a % d = 0 /\ a \in PageOffsets /\ p \in Nat
  BY <1>1, PageFacts, Multiple, AlignedIs
<1>3. InChunk(p) <=> o <= p /\ p < o + n
  BY <1>1 DEF InChunk
<1>4. a \in ChunkPages <=> o <= a /\ a < o + n
  BY <1>1, <1>2 DEF ChunkPages
<1>5. o + n \in Nat /\ (o + n) % d = 0
  <2>1. d \in Size /\ o \in Nat /\ n \in Nat /\ o % d = 0 /\ n % d = 0
    BY <1>1
  <2> QED
    BY ONLY <2>1, MultiplesAdd
<1>6. o > a => a + d <= o
  BY <1>1, <1>2, MultiplesAdd
<1>7. o + n > a => a + d <= o + n
  BY <1>2, <1>5, MultiplesAdd
<1> QED
  BY <1>1, <1>2, <1>3, <1>4, <1>6, <1>7 DEF Size

-----------------------------------------------------------------------------
(* cache_io.                                                               *)

LEMMA InitInv == Init => IInv
<1> SUFFICES ASSUME Init PROVE IInv
  OBVIOUS
<1>1. /\ file \in Layouts /\ call = [active |-> FALSE, offset |-> 0, size |-> 0, ok |-> TRUE]
      /\ fill = [active |-> FALSE] /\ io = [active |-> FALSE] /\ failures = 0
  BY DEF Init, Returned, None
<1>2. Types
  <2>1. /\ pages \in [PageOffsets -> {0, 1}] /\ memory \in [Positions -> Nat \cup {Garbage}]
        /\ user \in [0 .. BufferSize - 1 -> Nat \cup {Garbage}]
    BY DEF Init
  <2>2. call.active = FALSE /\ call.size = 0 /\ fill.active = FALSE /\ io.active = FALSE /\ 0 <= BufferSize
    BY <1>1, SizesAssumption
  <2> QED
    BY <1>1, <2>1, <2>2 DEF Types
<1>3. CallInv /\ FillInv /\ PlainInv /\ ReadInv
  BY <1>1 DEF CallInv, FillInv, PlainInv, ReadInv
<1>4. MemoryInv
  <2>1. \A p \in Positions : pages[Aligned(p, PageSize)] = 0
    BY PageFacts DEF Init
  <2> QED
    BY <2>1 DEF MemoryInv
<1>5. PlainReadsRight
  <2>1. BufferRight
    <3>1. 0 .. call.size - 1 = {}
      BY <1>1
    <3> QED
      BY <3>1 DEF BufferRight
  <2>2. \A b \in DOMAIN user : user[b] = Garbage
    BY DEF Init
  <2> QED
    BY <2>1, <2>2 DEF PlainReadsRight
<1> QED
  BY <1>2, <1>3, <1>4, <1>5 DEF IInv

\* Nothing is read while no call is made.
LEMMA IdleIsIdle == IInv /\ ~ call.active => ~ fill.active /\ ~ io.active
  BY DEF IInv, FillInv, ReadInv, Types

LEMMA ReadKeeps ==
  ASSUME IInv, NEW r \in Requests, Read(r[1], r[2])
  PROVE  IInv'
<1>1. PICK offset \in Int, size \in Nat \ {0} : offset = r[1] /\ size = r[2] /\ size <= BufferSize
  BY RequestsAssumption, SizesAssumption
<1>2. ~ call.active /\ ~ fill.active /\ ~ io.active
  BY IdleIsIdle DEF Read
<1>3. /\ UNCHANGED <<file, pages, memory, fill, io, failures>>
      /\ user' = [b \in DOMAIN user |-> Garbage]
  BY DEF Read
<1>4. PICK z \in Nat \ {0} : z = file.size /\ z <= FilePages * PageSize
  BY RunTypes DEF IInv, Types
<1>5. user' \in [0 .. BufferSize - 1 -> Nat \cup {Garbage}] /\ \A b \in DOMAIN user' : user'[b] = Garbage
  BY <1>3 DEF IInv, Types
<1>6. FillInv' /\ PlainInv' /\ ReadInv'
  BY <1>2, <1>3 DEF FillInv, PlainInv, ReadInv
<1>7. MemoryInv'
  BY <1>2, <1>3 DEF IInv, MemoryInv, OnDisk, FindBlockRun
<1>8. CASE offset < 0 \/ offset >= z
  <2>1. call' = [active |-> FALSE, offset |-> offset, size |-> 0, ok |-> TRUE]
    BY <1>1, <1>4, <1>8 DEF Read, Returned
  <2>2. Types'
    BY <1>3, <1>5, <2>1, SizesAssumption DEF IInv, Types
  <2>3. CallInv'
    BY <2>1 DEF CallInv
  <2>4. PlainReadsRight'
    BY <1>5, <2>1 DEF PlainReadsRight, BufferRight
  <2> QED
    BY <1>6, <1>7, <2>2, <2>3, <2>4 DEF IInv
<1>9. CASE 0 <= offset /\ offset < z
  <2>1. PICK n \in Nat \ {0} : n = Smaller(size, z - offset) /\ n <= size /\ offset + n <= z
    <3>1. Smaller(size, z - offset) \in Nat \ {0} /\ Smaller(size, z - offset) <= size
          /\ offset + Smaller(size, z - offset) <= z
      BY <1>9 DEF Smaller
    <3> QED
      BY <3>1
  <2>2. call' = [active |-> TRUE, offset |-> offset, size |-> n, at |-> Aligned(offset, PageSize), done |-> 0]
    <3>1. ~ (offset < 0 \/ offset >= z)
      BY <1>9
    <3> QED
      BY <1>1, <1>4, <2>1, <3>1 DEF Read
  <2>3. Aligned(offset, PageSize) \in PageOffsets /\ Aligned(offset, PageSize) <= offset
        /\ Aligned(offset, PageSize) \in Nat
    <3>1. offset \in Positions
      BY <1>4, <1>9, PageFacts
    <3> QED
      BY <1>9, <3>1, PageFacts, Multiple
  <2>4. Types'
    <3>1. call'.active \in BOOLEAN /\ call'.size \in Nat /\ call'.size <= BufferSize
      BY <1>1, <2>1, <2>2, SizesAssumption
    <3> QED
      BY <1>3, <1>5, <3>1 DEF IInv, Types
  <2>5. CallInv'
    <3>1. call' \in Calls
      BY <1>9, <2>2, <2>3 DEF Calls
    <3>2. NotRead(Aligned(offset, PageSize), Aligned(offset, PageSize))'
      BY <2>3, PageFacts DEF NotRead
    <3>3. call'.size <= BufferSize /\ call'.offset + call'.size <= file'.size
      BY <1>1, <1>3, <1>4, <2>1, <2>2, SizesAssumption
    <3>4. Aligned(call'.offset, PageSize) <= call'.at /\ call'.at < call'.offset + call'.size /\ call'.done = 0
      BY <1>9, <2>2, <2>3
    <3>5. NotRead(Aligned(call.offset, PageSize), call.at)'
      BY <2>2, <3>2 DEF NotRead
    <3> QED
      BY <3>1, <3>3, <3>4, <3>5 DEF CallInv
  <2>6. PlainReadsRight'
    BY <1>5, <2>2 DEF PlainReadsRight, Succeeded
  <2> QED
    BY <1>6, <1>7, <2>4, <2>5, <2>6 DEF IInv
<1> QED
  BY <1>4, <1>8, <1>9

LEMMA MaxOfTwo ==
  ASSUME NEW a \in Nat, NEW b \in Nat
  PROVE  Max({a, b}) = IF a >= b THEN a ELSE b
<1>1. {a, b} \subseteq Nat /\ {a, b} # {} /\ a + b \in Nat /\ \A y \in {a, b} : y <= a + b
  OBVIOUS
<1>2. Max({a, b}) \in {a, b} /\ \A y \in {a, b} : y <= Max({a, b})
  BY <1>1, MaxIsGreatest
<1> QED
  BY <1>2

\* The walk, in numbers.
LEMMA WalkFacts ==
  ASSUME Types, CallInv, call.active
  PROVE  \E d \in Size, o \in Nat, s \in Nat \ {0}, a \in Nat, b \in Nat :
           /\ d = PageSize /\ o = call.offset /\ s = call.size /\ a = call.at /\ b = Aligned(o, d)
           /\ b <= o /\ o < b + d /\ b <= a /\ a < o + s /\ o + s <= file.size
           /\ a % d = 0 /\ b % d = 0
           /\ Buffer = (IF a >= o THEN a - o ELSE 0)
           /\ Buffer + BytesInPage < call.size <=> a + d < o + s
           /\ call \in Calls
<1>1. PICK d \in Size, o \in Nat, s \in Nat \ {0}, a \in Nat :
        d = PageSize /\ o = call.offset /\ s = call.size /\ a = call.at /\ a % d = 0
  <2>1. call \in Calls
    BY DEF CallInv
  <2>2. call.at \in PageOffsets /\ call.offset \in Nat /\ call.size \in Nat \ {0}
    BY <2>1 DEF Calls
  <2> QED
    BY <2>2, PageFacts
<1>2. PICK b \in Nat : b = Aligned(o, d) /\ b <= o /\ o < b + d /\ b % d = 0
  <2>1. Aligned(o, d) \in Nat /\ Aligned(o, d) <= o /\ o < Aligned(o, d) + d
    BY Multiple
  <2>2. Aligned(o, d) % d = 0
    BY AlignedIs
  <2> QED
    BY <2>1, <2>2
<1>3. b <= a /\ a < o + s /\ o + s <= file.size
  BY <1>1, <1>2 DEF CallInv
<1>4. Max({call.at, call.offset}) = IF a >= o THEN a ELSE o
  BY <1>1, MaxOfTwo
<1>5. Buffer = IF a >= o THEN a - o ELSE 0
  BY <1>1, <1>4 DEF Buffer
<1>6. BytesInPage = Smaller(a + d - (IF a >= o THEN a ELSE o), s - Buffer)
  BY <1>1, <1>4 DEF BytesInPage
<1>7. Buffer + BytesInPage < s <=> a + d < o + s
  <2>1. CASE a >= o
    <3>1. Buffer = a - o /\ BytesInPage = IF d <= s - (a - o) THEN d ELSE s - (a - o)
      <4>1. a + d - a = d
        BY DEF Size
      <4>2. a + d - (IF a >= o THEN a ELSE o) = d
        BY <2>1, <4>1
      <4> QED
        BY <1>5, <1>6, <2>1, <4>2 DEF Smaller
    <3> QED
      BY <2>1, <3>1 DEF Size
  <2>2. CASE a < o
    <3>1. Buffer = 0 /\ BytesInPage = IF a + d - o <= s THEN a + d - o ELSE s
      <4>1. Buffer = 0 /\ BytesInPage = Smaller(a + d - o, s - 0)
        BY <1>5, <1>6, <2>2
      <4>2. s - 0 = s
        OBVIOUS
      <4> QED
        BY <4>1, <4>2 DEF Smaller
    <3> QED
      BY <2>2, <3>1 DEF Size
  <2> QED
    BY <2>1, <2>2
<1> QED
  BY <1>1, <1>2, <1>3, <1>5, <1>7 DEF CallInv

LEMMA SkipKeeps ==
  ASSUME IInv, SkipPage
  PROVE  IInv'
<1>1. /\ call.active /\ ~ fill.active /\ pages[call.at] = 0 /\ Buffer + BytesInPage < call.size
      /\ call' = [call EXCEPT !.at = @ + PageSize]
      /\ UNCHANGED <<file, pages, memory, user, fill, io, failures>>
  BY DEF SkipPage, Walking
<1>2. PICK d \in Size, o \in Nat, s \in Nat \ {0}, a \in Nat, b \in Nat :
        /\ d = PageSize /\ o = call.offset /\ s = call.size /\ a = call.at /\ b = Aligned(o, d)
        /\ b <= o /\ o < b + d /\ b <= a /\ a < o + s /\ o + s <= file.size
        /\ a % d = 0 /\ b % d = 0
        /\ Buffer + BytesInPage < call.size <=> a + d < o + s
        /\ call \in Calls
  BY <1>1, WalkFacts DEF IInv
<1>3. a + d \in Nat /\ (a + d) % d = 0 /\ a + d < o + s /\ b <= a + d
  <2>1. d \in Nat /\ d % d = 0
    <3>1. d \in Nat /\ d = 1 * d
      BY DEF Size
    <3> QED
      BY <3>1, MultipleIs
  <2>2. (a + d) % d = 0
    BY <1>2, <2>1, MultiplesAdd
  <2> QED
    BY <1>1, <1>2, <2>1, <2>2
<1>4. a + d \in PageOffsets
  <2>1. PICK z \in Nat \ {0} : z = file.size /\ z <= FilePages * PageSize
    BY RunTypes DEF IInv, Types
  <2>2. a + d < FilePages * PageSize /\ FilePages * PageSize \in Nat
    BY <1>2, <1>3, <2>1, PageFacts
  <2> QED
    BY <1>2, <1>3, <2>2, PageFacts
<1>5. /\ call' \in Calls /\ call'.at = a + d /\ call'.offset = o /\ call'.size = s /\ call'.done = call.done
      /\ call'.active = TRUE
  BY <1>1, <1>2, <1>4 DEF Calls
<1>6. Types'
  BY <1>1, <1>2, <1>5 DEF IInv, Types
<1>7. CallInv'
  <2>1. ASSUME call.done = 0, NotRead(b, a)
        PROVE  NotRead(b, a + d)'
    <3>1. SUFFICES ASSUME NEW x \in PageOffsets, b <= x, x < a + d PROVE pages[x] = 0
      BY <1>1 DEF NotRead
    <3>2. x \in Nat /\ x % d = 0
      BY <1>2, PageFacts
    <3>3. x > a => a + d <= x
      BY <1>2, <3>2, MultiplesAdd
    <3>4. x < a \/ x = a
      BY <3>1, <3>2, <3>3 DEF Size
    <3> QED
      BY <1>1, <1>2, <2>1, <3>1, <3>4 DEF NotRead
  <2>2. call.done = 0 /\ NotRead(b, a)
    BY <1>1, <1>2 DEF IInv, CallInv
  <2>3. NotRead(Aligned(call.offset, PageSize), call.at)'
    BY <1>2, <1>5, <2>1, <2>2
  <2>4. call'.size <= BufferSize /\ call'.offset + call'.size <= file'.size
    BY <1>1, <1>2, <1>5 DEF IInv, CallInv
  <2>5. Aligned(call'.offset, PageSize) <= call'.at /\ call'.at < call'.offset + call'.size /\ call'.done = 0
    BY <1>2, <1>3, <1>5, <2>2
  <2> QED
    BY <1>5, <2>3, <2>4, <2>5 DEF CallInv
<1>8. FillInv' /\ PlainInv'
  BY <1>1 DEF FillInv, PlainInv
<1>9. ReadInv' /\ MemoryInv'
  <2>1. ~ io.active
    BY <1>1 DEF IInv, ReadInv
  <2> QED
    BY <1>1, <2>1 DEF IInv, ReadInv, MemoryInv, OnDisk, FindBlockRun
<1>10. PlainReadsRight'
  BY <1>1, <1>2, <1>5 DEF IInv, PlainReadsRight, Succeeded
<1> QED
  BY <1>6, <1>7, <1>8, <1>9, <1>10 DEF IInv

\* What read_into_cache is entered with.
LEMMA FillIs ==
  ASSUME Types, CallInv, call.active, call.done = 0, NEW n \in Nat \ {0}, call.offset + n <= call.offset + call.size,
         NEW end \in Nat, end % PageSize = 0, call.offset + n <= end, end < call.offset + n + PageSize
  PROVE  LET f == Fill(call.done, n)
         IN  /\ f \in Fills /\ f.active = TRUE
             /\ f.offset = Aligned(call.offset, PageSize) /\ f.offset + f.size = end
             /\ f.skip = call.offset - f.offset /\ f.skip \in Nat /\ f.skip < PageSize
             /\ f.buffer = 0 /\ f.left = n /\ f.size % PageSize = 0
<1>1. PICK d \in Size, o \in Nat, s \in Nat \ {0}, b \in Nat :
        /\ d = PageSize /\ o = call.offset /\ s = call.size /\ b = Aligned(o, d)
        /\ b <= o /\ o < b + d /\ b % d = 0 /\ o + s <= file.size
  BY WalkFacts
<1>2. PICK k \in Nat : k = o - b /\ k < d /\ o % d = k
  <2>1. o % d = o - b
    BY <1>1, Multiple
  <2>2. o - b \in Nat /\ o - b < d
    BY <1>1 DEF Size
  <2> QED
    BY <2>1, <2>2
<1>3. n + k \in Nat /\ end - b \in Nat /\ end >= b
  BY <1>1, <1>2
<1>4. RoundedUp(n + k, d) = end - b
  <2>1. (end - b) % d = 0
    BY <1>1, <1>3, MultiplesAdd
  <2>2. n + k <= end - b /\ end - b < n + k + d
    BY <1>1, <1>2 DEF Size
  <2> QED
    BY <1>3, <2>1, <2>2, RoundedUpIs
<1>5. b \in PageOffsets
  <2>1. PICK z \in Nat : z = file.size /\ z <= FilePages * PageSize
    BY RunTypes DEF Types
  <2>2. o \in Positions
    BY <1>1, <2>1, PageFacts
  <2> QED
    BY <1>1, <2>2, PageFacts
<1>6. Fill(call.done, n) = [active |-> TRUE, offset |-> b, size |-> end - b, skip |-> k, buffer |-> 0, left |-> n]
  <2>1. call.offset + call.done = o /\ o - k = b
    BY <1>1, <1>2
  <2> QED
    BY <1>1, <1>2, <1>4, <2>1 DEF Fill
<1>7. end - b \in Nat \ {0} /\ (end - b) % d = 0 /\ b + (end - b) = end
  <2>1. end - b # 0
    BY <1>1
  <2>2. (end - b) % d = 0
    BY <1>1, <1>3, MultiplesAdd
  <2> QED
    BY <1>3, <2>1, <2>2
<1>8. PICK f : f = Fill(call.done, n)
  OBVIOUS
<1>9. f \in Fills
  BY <1>5, <1>6, <1>7, <1>8 DEF Fills
<1>10. /\ f.active = TRUE /\ f.offset = b /\ f.size = end - b /\ f.skip = k /\ f.buffer = 0 /\ f.left = n
  BY <1>6, <1>8
<1> QED
  BY <1>1, <1>2, <1>7, <1>8, <1>9, <1>10

LEMMA OnePageMore ==
  ASSUME NEW b \in Nat, NEW a \in PageOffsets, NotRead(b, a), pages[a] = 0
  PROVE  NotRead(b, a + PageSize)
<1>1. SUFFICES ASSUME NEW x \in PageOffsets, b <= x, x < a + PageSize PROVE pages[x] = 0
  BY DEF NotRead
<1>2. PICK d \in Size : d = PageSize
  BY PageFacts
<1>3. x \in Nat /\ x % d = 0 /\ a \in Nat /\ a % d = 0
  BY <1>2, PageFacts
<1>4. x > a => a + d <= x
  BY <1>3, MultiplesAdd
<1>5. x < a \/ x = a
  BY <1>1, <1>2, <1>3, <1>4 DEF Size
<1> QED
  BY <1>1, <1>5 DEF NotRead

\* The last page of the request is missing too: the gap is what is left.
LEMMA ReadRestKeeps ==
  ASSUME IInv, ReadRest
  PROVE  IInv'
<1>1. /\ call.active /\ ~ fill.active /\ pages[call.at] = 0 /\ ~ (Buffer + BytesInPage < call.size)
      /\ fill' = Fill(call.done, call.size - call.done)
      /\ UNCHANGED <<file, pages, memory, user, call, io, failures>>
  <2>1. call.active /\ Buffer + BytesInPage >= call.size
    BY DEF ReadRest, Walking
  <2>2. Buffer + BytesInPage \in Int /\ call.size \in Int
    <3>1. call \in Calls
      BY <2>1 DEF IInv, CallInv
    <3>2. PICK o \in Nat, s \in Nat, a \in Nat, d \in Nat :
            o = call.offset /\ s = call.size /\ a = call.at /\ d = PageSize
      BY <3>1, PageFacts DEF Calls, Size
    <3>3. Max({a, o}) \in Nat
      BY MaxOfTwo
    <3> QED
      BY <3>2, <3>3 DEF Buffer, BytesInPage, Smaller
  <2> QED
    BY <2>1, <2>2 DEF ReadRest, Walking
<1>2. PICK d \in Size, o \in Nat, s \in Nat \ {0}, a \in Nat, b \in Nat :
        /\ d = PageSize /\ o = call.offset /\ s = call.size /\ a = call.at /\ b = Aligned(o, d)
        /\ b <= o /\ o < b + d /\ b <= a /\ a < o + s /\ o + s <= file.size
        /\ a % d = 0 /\ b % d = 0 /\ o + s <= a + d
        /\ call \in Calls
  <2>1. PICK d \in Size, o \in Nat, s \in Nat \ {0}, a \in Nat, b \in Nat :
          /\ d = PageSize /\ o = call.offset /\ s = call.size /\ a = call.at /\ b = Aligned(o, d)
          /\ b <= o /\ o < b + d /\ b <= a /\ a < o + s /\ o + s <= file.size
          /\ a % d = 0 /\ b % d = 0
          /\ Buffer + BytesInPage < call.size <=> a + d < o + s
          /\ call \in Calls
    BY <1>1, WalkFacts DEF IInv
  <2>2. o + s <= a + d
    BY <1>1, <2>1 DEF Size
  <2> QED
    BY <2>1, <2>2
<1>3. call.done = 0 /\ NotRead(b, a) /\ ~ io.active
  BY <1>1, <1>2 DEF IInv, CallInv, ReadInv
<1>4. a + d \in Nat /\ (a + d) % d = 0 /\ a + d < o + s + d
  <2>1. d \in Nat /\ d % d = 0
    <3>1. d \in Nat /\ d = 1 * d
      BY DEF Size
    <3> QED
      BY <3>1, MultipleIs
  <2>2. (a + d) % d = 0
    BY <1>2, <2>1, MultiplesAdd
  <2> QED
    BY <1>2, <2>1, <2>2
<1>5. /\ fill' \in Fills /\ fill'.active = TRUE /\ fill'.offset = b /\ fill'.offset + fill'.size = a + d
      /\ fill'.skip = o - b /\ fill'.skip \in Nat /\ fill'.skip < d
      /\ fill'.buffer = 0 /\ fill'.left = s /\ fill'.size % d = 0
  <2>1. fill' = Fill(call.done, s)
    BY <1>1, <1>2, <1>3
  <2>2. call.offset + s <= call.offset + call.size
    BY <1>2
  <2>3. /\ Types /\ CallInv /\ call.active /\ call.done = 0 /\ s \in Nat \ {0}
        /\ call.offset + s <= call.offset + call.size
        /\ a + d \in Nat /\ (a + d) % PageSize = 0
        /\ call.offset + s <= a + d /\ a + d < call.offset + s + PageSize
    BY <1>1, <1>2, <1>3, <1>4, <2>2 DEF IInv
  <2>4. PICK f : f = Fill(call.done, s)
    OBVIOUS
  <2>5. /\ f \in Fills /\ f.active = TRUE
        /\ f.offset = Aligned(call.offset, PageSize) /\ f.offset + f.size = a + d
        /\ f.skip = call.offset - f.offset /\ f.skip \in Nat /\ f.skip < PageSize
        /\ f.buffer = 0 /\ f.left = s /\ f.size % PageSize = 0
    BY ONLY <2>3, <2>4, FillIs
  <2> HIDE DEF Fill
  <2> QED
    BY <1>2, <2>1, <2>4, <2>5
<1>6. Types'
  BY <1>1, <1>5 DEF IInv, Types
<1>7. CallInv'
  BY <1>1, <1>3, <1>5 DEF IInv, CallInv
<1>8. FillInv'
  <2>1. NotRead(b, a + d)
    BY <1>1, <1>2, <1>3, OnePageMore DEF Calls
  <2>2. NotRead(b, a + d)'
    BY <1>1, <2>1 DEF NotRead
  <2>3. FillEnd' = a + d
    BY <1>5 DEF FillEnd
  <2>4. NotRead(fill.offset + (IF io.active THEN NumBytes ELSE 0), FillEnd)'
    <3>1. io'.active = FALSE /\ b + 0 = b
      BY <1>1, <1>3 DEF IInv, Types
    <3>2. fill'.offset + (IF io'.active THEN NumBytes' ELSE 0) = b
      BY <1>5, <3>1
    <3> QED
      BY <2>2, <2>3, <3>2
  <2>5. fill'.left <= call'.size /\ (fill'.left > 0 => fill'.buffer + fill'.left <= call'.size)
    BY <1>1, <1>2, <1>5
  <2>6. FillEnd' = call'.at + PageSize /\ call'.offset + call'.size <= FillEnd'
    BY <1>1, <1>2, <2>3
  <2> QED
    BY <1>1, <1>2, <1>3, <1>5, <2>4, <2>5, <2>6 DEF FillInv
<1>9. PlainInv'
  <2>1. SUFFICES ASSUME Plain'
        PROVE  /\ fill'.buffer + fill'.left = call'.size
               /\ call'.offset + fill'.buffer = fill'.offset + fill'.skip
               /\ \A x \in 0 .. call'.size - 1 : x < fill'.buffer => user'[x] = OnDisk(call.offset + x)'
               /\ fill'.skip # 0 => fill'.size <= Chunk
    BY DEF PlainInv
  <2>2. fill'.buffer + fill'.left = call'.size /\ call'.offset + fill'.buffer = fill'.offset + fill'.skip
    BY <1>1, <1>2, <1>5
  <2>3. \A x \in 0 .. call'.size - 1 : ~ (x < fill'.buffer)
    BY <1>1, <1>2, <1>5
  <2>4. ASSUME fill'.skip # 0 PROVE fill'.size <= Chunk
    <3>1. PICK k \in Nat, c \in Nat, z \in Nat \ {0} :
            k = fill'.skip /\ c = Chunk /\ z = fill'.size /\ z % d = 0 /\ c % d = 0 /\ k = o - b /\ b + z = a + d
      <4>1. fill'.size \in Nat \ {0}
        BY <1>5 DEF Fills
      <4> QED
        BY <1>2, <1>5, <4>1, PageFacts
    <3>2. o % d = k
      BY <1>2, <3>1, Multiple
    <3>3. k + s <= c
      BY <1>1, <1>2, <2>1, <2>4, <3>1, <3>2 DEF Plain
    <3>4. z < c + d
      BY <1>2, <1>4, <3>1, <3>3 DEF Size
    <3>5. z > c => c + d <= z
      BY <3>1, MultiplesAdd
    <3> QED
      BY <3>1, <3>4, <3>5 DEF Size
  <2> QED
    BY <2>2, <2>3, <2>4
<1>10. ReadInv' /\ MemoryInv'
  BY <1>1, <1>3 DEF IInv, ReadInv, MemoryInv, OnDisk, FindBlockRun
<1>11. PlainReadsRight'
  BY <1>1 DEF IInv, PlainReadsRight, Succeeded
<1> QED
  BY <1>6, <1>7, <1>8, <1>9, <1>10, <1>11 DEF IInv

\* The page is in memory: the gap is what lies in front of it.
LEMMA ReadGapKeeps ==
  ASSUME IInv, ReadGap
  PROVE  IInv'
<1>1. /\ call.active /\ ~ fill.active /\ pages[call.at] > 0 /\ call.done # Buffer
      /\ fill' = Fill(call.done, Buffer - call.done)
      /\ UNCHANGED <<file, pages, memory, user, call, io, failures>>
  BY DEF ReadGap, Walking
<1>2. PICK d \in Size, o \in Nat, s \in Nat \ {0}, a \in Nat, b \in Nat :
        /\ d = PageSize /\ o = call.offset /\ s = call.size /\ a = call.at /\ b = Aligned(o, d)
        /\ b <= o /\ o < b + d /\ b <= a /\ a < o + s /\ o + s <= file.size
        /\ a % d = 0 /\ b % d = 0
        /\ Buffer = (IF a >= o THEN a - o ELSE 0)
        /\ call \in Calls
  BY <1>1, WalkFacts DEF IInv
<1>3. call.done = 0 /\ NotRead(b, a) /\ ~ io.active
  BY <1>1, <1>2 DEF IInv, CallInv, ReadInv
<1>4. PICK n \in Nat \ {0} : n = Buffer - call.done /\ n = a - o /\ n < s /\ o + n = a
  <2>1. a > o /\ Buffer = a - o
    BY <1>1, <1>2, <1>3
  <2>2. a - o \in Nat \ {0} /\ Buffer - call.done = a - o /\ a - o < s /\ o + (a - o) = a
    BY <1>2, <1>3, <2>1
  <2> QED
    BY <2>2
<1>5. /\ fill' \in Fills /\ fill'.active = TRUE /\ fill'.offset = b /\ fill'.offset + fill'.size = a
      /\ fill'.skip < d /\ fill'.buffer = 0 /\ fill'.left = n /\ fill'.size % d = 0
  <2>1. fill' = Fill(call.done, n)
    BY <1>1, <1>4
  <2>2. call.offset + n <= call.offset + call.size /\ call.offset + n <= a /\ a < call.offset + n + PageSize
    BY <1>2, <1>4 DEF Size
  <2>3. /\ Types /\ CallInv /\ call.active /\ call.done = 0 /\ n \in Nat \ {0}
        /\ call.offset + n <= call.offset + call.size
        /\ a \in Nat /\ a % PageSize = 0
        /\ call.offset + n <= a /\ a < call.offset + n + PageSize
    BY <1>1, <1>2, <1>3, <2>2 DEF IInv
  <2>4. PICK f : f = Fill(call.done, n)
    OBVIOUS
  <2>5. /\ f \in Fills /\ f.active = TRUE
        /\ f.offset = Aligned(call.offset, PageSize) /\ f.offset + f.size = a
        /\ f.skip = call.offset - f.offset /\ f.skip \in Nat /\ f.skip < PageSize
        /\ f.buffer = 0 /\ f.left = n /\ f.size % PageSize = 0
    BY ONLY <2>3, <2>4, FillIs
  <2> HIDE DEF Fill
  <2> QED
    BY <1>2, <2>1, <2>4, <2>5
<1>6. Types'
  BY <1>1, <1>5 DEF IInv, Types
<1>7. CallInv'
  BY <1>1, <1>3, <1>5 DEF IInv, CallInv
<1>8. FillEnd' = a
  BY <1>5 DEF FillEnd
<1>9. FillInv'
  <2>1. NotRead(b, a)'
    BY <1>1, <1>3 DEF NotRead
  <2>2. NotRead(fill.offset + (IF io.active THEN NumBytes ELSE 0), FillEnd)'
    <3>1. io'.active = FALSE /\ b + 0 = b
      BY <1>1, <1>3 DEF IInv, Types
    <3>2. fill'.offset + (IF io'.active THEN NumBytes' ELSE 0) = b
      BY <1>5, <3>1
    <3> QED
      BY <1>8, <2>1, <3>2
  <2>3. fill'.left <= call'.size /\ (fill'.left > 0 => fill'.buffer + fill'.left <= call'.size)
    BY <1>1, <1>2, <1>4, <1>5
  <2>4. FillEnd' = call'.at /\ pages'[call'.at] > 0
    BY <1>1, <1>2, <1>8
  <2> QED
    BY <1>1, <1>2, <1>3, <1>5, <2>2, <2>3, <2>4 DEF FillInv
<1>10. PlainInv'
  <2>1. FillEnd' # call'.at + PageSize
    BY <1>1, <1>2, <1>8 DEF Size
  <2> QED
    BY <2>1 DEF PlainInv
<1>11. ReadInv' /\ MemoryInv'
  BY <1>1, <1>3 DEF IInv, ReadInv, MemoryInv, OnDisk, FindBlockRun
<1>12. PlainReadsRight'
  BY <1>1 DEF IInv, PlainReadsRight, Succeeded
<1> QED
  BY <1>6, <1>7, <1>9, <1>10, <1>11, <1>12 DEF IInv

\* A step that leaves alone what pages_io works on.
LEMMA ReadsStay ==
  ASSUME ReadInv, UNCHANGED <<file, memory, fill, io, failures>>
  PROVE  ReadInv'
<1>1. SUFFICES ASSUME io.active PROVE ReadInv'
  BY DEF ReadInv
<1>2. NumBytes' = NumBytes /\ Here' = Here
  BY DEF NumBytes, Here
<1>3. ASSUME NEW e, RightUpto(e) PROVE RightUpto(e)'
  BY <1>3 DEF RightUpto, OnDisk, FindBlockRun
<1>4. /\ fill'.active /\ io'.finished \in BOOLEAN
      /\ io'.finished => RightUpto(fill.offset + NumBytes)'
  BY <1>1, <1>2, <1>3 DEF ReadInv
<1>5. ASSUME ~ io.finished
      PROVE  /\ io' \in Reads /\ io'.pos <= NumBytes' /\ NumBytes' - io'.pos <= io'.bytesLeft
             /\ io'.fileLeft <= io'.bytesLeft /\ io'.index \in 1 .. Len(io'.extents)
             /\ \A c \in io'.cuts : c < NumBytes'
             /\ RightUpto(Here)'
             /\ \E first \in 1 .. Len(file'.runs) : \E base \in Positions :
                  /\ Maps(io.extents, io.overflow, first, base)'
                  /\ Reaches(io.extents, io.overflow, first, base, fill.offset + NumBytes)'
                  /\ LET begin == Begin(first, base, io.index)'
                         end == begin + io'.extents[io'.index].length
                     IN  /\ Here' + io'.fileLeft <= end
                         /\ Here' + io'.fileLeft = end \/ io'.fileLeft = io'.bytesLeft
                         /\ io'.fileLeft > 0 => begin <= Here' /\ io'.disk = io'.extents[io'.index].disk + Here' - begin
  <2>1. /\ io' \in Reads /\ io'.pos <= NumBytes' /\ NumBytes' - io'.pos <= io'.bytesLeft
        /\ io'.fileLeft <= io'.bytesLeft /\ io'.index \in 1 .. Len(io'.extents)
        /\ \A c \in io'.cuts : c < NumBytes'
        /\ RightUpto(Here)'
    BY <1>1, <1>2, <1>3, <1>5 DEF ReadInv
  <2>2. PICK first \in 1 .. Len(file.runs), base \in Positions :
          /\ Maps(io.extents, io.overflow, first, base)
          /\ Reaches(io.extents, io.overflow, first, base, fill.offset + NumBytes)
          /\ LET begin == Begin(first, base, io.index)
                 end == begin + io.extents[io.index].length
             IN  /\ Here + io.fileLeft <= end
                 /\ Here + io.fileLeft = end \/ io.fileLeft = io.bytesLeft
                 /\ io.fileLeft > 0 => begin <= Here /\ io.disk = io.extents[io.index].disk + Here - begin
    BY <1>1, <1>5 DEF ReadInv
  <2>3. Maps(io.extents, io.overflow, first, base)'
    BY <2>2 DEF Maps, Begin, From, Upto
  <2>4. Reaches(io.extents, io.overflow, first, base, fill.offset + NumBytes)'
    BY <1>2, <2>2 DEF Reaches, Begin, From
  <2>5. Begin(first, base, io.index)' = Begin(first, base, io.index)
    BY DEF Begin, From
  <2>6. PICK b : b = Begin(first, base, io.index)
    OBVIOUS
  <2>7. /\ Here' + io'.fileLeft <= b + io'.extents[io'.index].length
        /\ Here' + io'.fileLeft = b + io'.extents[io'.index].length \/ io'.fileLeft = io'.bytesLeft
        /\ io'.fileLeft > 0 => b <= Here' /\ io'.disk = io'.extents[io'.index].disk + Here' - b
    BY <1>2, <2>2, <2>6
  <2> QED
    BY <2>1, <2>3, <2>4, <2>5, <2>6, <2>7
<1> QED
  BY <1>1, <1>4, <1>5 DEF ReadInv

\* A step that changes nothing: Sleep, and every stuttering step.
LEMMA StutterKeeps ==
  ASSUME IInv, UNCHANGED vars
  PROVE  IInv'
<1>1. UNCHANGED <<file, pages, memory, user, call, fill, io, failures>>
  BY DEF vars
<1>2. Types'
  BY <1>1 DEF IInv, Types
<1>3. CallInv'
  BY <1>1 DEF IInv, CallInv, NotRead, Buffer
<1>4. MemoryInv'
  BY <1>1 DEF IInv, MemoryInv, InChunk, NumBytes, OnDisk, FindBlockRun
<1>5. PlainReadsRight'
  BY <1>1 DEF IInv, OnDisk, FindBlockRun, PlainReadsRight, Succeeded, Plain, BufferRight
<1>6. FillInv'
  BY <1>1 DEF IInv, FillInv, FillEnd, NumBytes, NotRead
<1>7. PlainInv'
  BY <1>1 DEF IInv, FillEnd, NumBytes, NotRead, PlainInv, Plain, OnDisk, FindBlockRun
<1>8. ReadInv'
  BY <1>1, ReadsStay DEF IInv
<1> QED
  BY <1>2, <1>3, <1>4, <1>5, <1>6, <1>7, <1>8 DEF IInv

-----------------------------------------------------------------------------
(* pages_io.                                                               *)

\* Every extent gives the positions it covers the place where the file has them.
OnDiskAt(x, first, base) ==
  \A j \in 1 .. Len(x), p \in Nat :
    p < file.size /\ Begin(first, base, j) <= p /\ p < Begin(first, base, j) + x[j].length
      => OnDisk(p) = x[j].disk + p - Begin(first, base, j)

\* What an extent says of a position is where the file has it.
LEMMA ExtentIsDisk ==
  ASSUME file \in Layouts, NEW x, NEW v, NEW first \in 1 .. Len(file.runs), NEW base \in Nat,
         Maps(x, v, first, base), NEW j \in 1 .. Len(x), NEW p \in Nat, p < file.size,
         Begin(first, base, j) <= p, p < Begin(first, base, j) + x[j].length
  PROVE  OnDisk(p) = x[j].disk + p - Begin(first, base, j)
<1>1. PICK n \in Nat, l \in Nat, z \in Nat, c \in Nat \ {0} :
        n = Len(x) /\ l = x[j].length /\ z = file.size /\ c = NumRuns /\ first + n - 1 <= c
  <2>1. x \in Seq([disk : Nat, length : Nat])
    BY DEF Maps
  <2>2. PICK T : T = [disk : Nat, length : Nat]
    OBVIOUS
  <2>3. x \in Seq(T)
    BY <2>1, <2>2
  <2>4. Len(x) \in Nat /\ x[j] \in T
    BY <2>3
  <2>5. x[j].length \in Nat
    BY <2>2, <2>4
  <2> QED
    BY <2>4, <2>5, RunTypes DEF Maps, NumRuns
<1>2. PICK i \in 1 .. NumRuns : i = first + j - 1
  <2>1. first + j - 1 \in 1 .. NumRuns
    BY <1>1 DEF NumRuns
  <2> QED
    BY <2>1
<1>3. PICK f \in Nat, u \in Nat, b \in Nat, k \in Nat :
        f = From(i) /\ u = Upto(i) /\ b = Begin(first, base, j) /\ k = file.runs[i].disk /\ f <= b
  <2>1. From(i) \in Nat /\ Upto(i) \in Nat /\ file.runs[i].disk \in Nat
    BY RunTypes
  <2>2. Begin(first, base, j) \in Nat /\ From(i) <= Begin(first, base, j)
    <3>1. CASE j = 1
      <4>1. i = first /\ Begin(first, base, j) = base /\ From(first) <= base
        BY <1>2, <3>1 DEF Begin, Maps, NumRuns
      <4> QED
        BY <4>1
    <3>2. CASE j # 1
      BY <1>2, <2>1, <3>2 DEF Begin
    <3> QED
      BY <3>1, <3>2
  <2> QED
    BY <2>1, <2>2
<1>4. /\ x[j].disk = k + b - f
      /\ b + l = u \/ (u > z /\ b + l >= z)
  BY <1>1, <1>2, <1>3 DEF Maps
<1>5. b <= p /\ p < b + l /\ p < z
  BY <1>1, <1>3
<1>6. f <= p /\ p < u
  <2>1. f <= b /\ (b + l = u \/ (u > z /\ b + l >= z))
    BY <1>3, <1>4
  <2>2. f \in Nat /\ b \in Nat /\ p \in Nat /\ l \in Nat /\ u \in Nat /\ z \in Nat
    OBVIOUS
  <2> QED
    BY ONLY <1>5, <2>1, <2>2
<1>7. OnDisk(p) = k + p - f
  BY <1>3, <1>6, RunOfPosition
<1>8. k + b - f + p - b = k + p - f
  OBVIOUS
<1> QED
  BY <1>3, <1>4, <1>7, <1>8

\* The invariant of pages_io, from its parts.
LEMMA ReadInvFrom ==
  ASSUME UNCHANGED <<file, fill>>, fill.active, io' \in Reads, io'.active,
         io'.pos <= NumBytes, NumBytes - io'.pos <= io'.bytesLeft, io'.fileLeft <= io'.bytesLeft,
         \A c \in io'.cuts : c < NumBytes,
         NEW h, h = fill.offset + io'.pos, RightUpto(h)',
         NEW first \in 1 .. Len(file.runs), NEW base \in Positions, NEW x, NEW v,
         x = io'.extents, v = io'.overflow, io'.index \in 1 .. Len(x),
         Maps(x, v, first, base), Reaches(x, v, first, base, fill.offset + NumBytes),
         NEW b, b = Begin(first, base, io'.index),
         h + io'.fileLeft <= b + x[io'.index].length,
         h + io'.fileLeft = b + x[io'.index].length \/ io'.fileLeft = io'.bytesLeft,
         io'.fileLeft > 0 => b <= h /\ io'.disk = x[io'.index].disk + h - b
  PROVE  ReadInv'
<1>1. NumBytes' = NumBytes /\ Here' = h /\ io'.finished = FALSE
  BY DEF NumBytes, Here, Reads
<1>2. Maps(io.extents, io.overflow, first, base)'
  BY DEF Maps, Begin, From, Upto
<1>3. Reaches(io.extents, io.overflow, first, base, fill.offset + NumBytes)'
  BY <1>1 DEF Reaches, Begin, From
<1>4. Begin(first, base, io.index)' = b
  BY DEF Begin, From
<1>5. RightUpto(Here)'
  BY <1>1 DEF RightUpto
<1>6. /\ io' \in Reads /\ io'.pos <= NumBytes' /\ NumBytes' - io'.pos <= io'.bytesLeft
      /\ io'.fileLeft <= io'.bytesLeft /\ io'.index \in 1 .. Len(io'.extents)
      /\ \A c \in io'.cuts : c < NumBytes'
  BY <1>1
<1>7. \E f \in 1 .. Len(file'.runs) : \E e \in Positions :
        /\ Maps(io.extents, io.overflow, f, e)'
        /\ Reaches(io.extents, io.overflow, f, e, fill.offset + NumBytes)'
        /\ LET begin == Begin(f, e, io.index)'
               end == begin + io'.extents[io'.index].length
           IN  /\ Here' + io'.fileLeft <= end
               /\ Here' + io'.fileLeft = end \/ io'.fileLeft = io'.bytesLeft
               /\ io'.fileLeft > 0 => begin <= Here' /\ io'.disk = io'.extents[io'.index].disk + Here' - begin
  BY <1>1, <1>2, <1>3, <1>4
<1> QED
  BY <1>1, <1>5, <1>6, <1>7 DEF ReadInv

\* The pages of a chunk are inserted once.
LEMMA InsertKeeps ==
  ASSUME Types, CallInv, FillInv, fill.active, ~ io.active, InsertPages
  PROVE  /\ pages' \in [PageOffsets -> {0, 1}]
         /\ \A o \in PageOffsets : /\ pages'[o] >= pages[o]
                                   /\ o \notin ChunkPages => pages'[o] = pages[o]
                                   /\ fill.offset + NumBytes <= o /\ o < FillEnd => pages'[o] = 0
<1>1. PICK b \in Nat, n \in Nat, e \in Nat :
        b = fill.offset /\ n = NumBytes /\ e = FillEnd /\ b + n <= e
  BY FillFacts
<1>2. \A o \in PageOffsets : b <= o /\ o < e => pages[o] = 0
  <2>1. NotRead(b + 0, e)
    <3>1. fill.offset + (IF io.active THEN NumBytes ELSE 0) = b + 0
      BY <1>1
    <3> QED
      BY <1>1, <3>1 DEF FillInv
  <2>2. b + 0 = b
    OBVIOUS
  <2> QED
    BY <2>1, <2>2 DEF NotRead
<1>3. \A o \in PageOffsets : o \in Nat /\ (o \in ChunkPages <=> b <= o /\ o < b + n)
  BY <1>1, PageFacts DEF ChunkPages
<1>4. \A o \in PageOffsets : pages[o] \in {0, 1} /\ pages'[o] = pages[o] + (IF o \in ChunkPages THEN 1 ELSE 0)
  BY DEF Types, InsertPages
<1>5. ASSUME NEW o \in PageOffsets
      PROVE  /\ pages'[o] \in {0, 1} /\ pages'[o] >= pages[o]
             /\ o \notin ChunkPages => pages'[o] = pages[o]
             /\ b + n <= o /\ o < e => pages'[o] = 0
  <2>1. CASE o \in ChunkPages
    <3>1. pages[o] = 0 /\ pages'[o] = 1
      BY <1>1, <1>2, <1>3, <1>4, <2>1
    <3>2. ~ (b + n <= o)
      BY <1>1, <1>3, <2>1
    <3> QED
      BY <2>1, <3>1, <3>2
  <2>2. CASE o \notin ChunkPages
    <3>1. pages'[o] = pages[o]
      BY <1>4, <2>2
    <3>2. b + n <= o /\ o < e => pages[o] = 0
      BY <1>1, <1>2, <1>3
    <3> QED
      BY <1>4, <2>2, <3>1, <3>2
  <2> QED
    BY <2>1, <2>2
<1>6. pages' \in [PageOffsets -> {0, 1}]
  BY <1>5 DEF InsertPages
<1> QED
  BY <1>1, <1>5, <1>6

\* What a step that begins a chunk leaves of the invariant.
LEMMA ChunkBegins ==
  ASSUME IInv, fill.active, ~ io.active, InsertPages, io'.active, UNCHANGED <<file, user, call, fill>>
  PROVE  CallInv' /\ FillInv' /\ PlainReadsRight'
<1>1. /\ call.active /\ call.done = 0 /\ call \in Calls /\ fill \in Fills
      /\ PageSize \in Nat
  BY PageFacts DEF IInv, FillInv, CallInv, Size
<1>2. \A o \in PageOffsets : /\ pages'[o] >= pages[o] /\ pages[o] \in Nat /\ pages'[o] \in Nat
                             /\ fill.offset + NumBytes <= o /\ o < FillEnd => pages'[o] = 0
  BY InsertKeeps DEF IInv, Types
<1>3. pages[call.at] > 0 => pages'[call.at] > 0
  BY <1>1, <1>2 DEF Calls
<1>4. CallInv'
  BY <1>1 DEF IInv, CallInv
<1>5. FillEnd' = FillEnd /\ NumBytes' = NumBytes
  BY DEF FillEnd, NumBytes
<1>6. NotRead(fill.offset + (IF io.active THEN NumBytes ELSE 0), FillEnd)'
  <2>1. fill'.offset + (IF io'.active THEN NumBytes' ELSE 0) = fill.offset + NumBytes
    BY <1>5
  <2> QED
    BY <1>2, <1>5, <2>1 DEF NotRead
<1>7. FillInv'
  BY <1>1, <1>3, <1>5, <1>6 DEF IInv, FillInv
<1>8. PlainReadsRight'
  BY <1>1 DEF IInv, PlainReadsRight, Succeeded
<1> QED
  BY <1>4, <1>7, <1>8

\* So the extents of a request do it for all of its positions.
LEMMA ExtentsAreDisk ==
  ASSUME file \in Layouts, NEW x, NEW v, NEW first \in 1 .. Len(file.runs), NEW base \in Nat,
         Maps(x, v, first, base)
  PROVE  OnDiskAt(x, first, base)
<1>1. SUFFICES ASSUME NEW j \in 1 .. Len(x), NEW p \in Nat, p < file.size,
                      Begin(first, base, j) <= p, p < Begin(first, base, j) + x[j].length
               PROVE  OnDisk(p) = x[j].disk + p - Begin(first, base, j)
  BY Zenon DEF OnDiskAt
<1> QED
  BY ONLY <1>1, file \in Layouts, Maps(x, v, first, base), first \in 1 .. Len(file.runs), base \in Nat,
          ExtentIsDisk

LEMMA FreshIs ==
  ASSUME Types, CallInv, FillInv, fill.active
  PROVE  /\ FreshMemory \in [Positions -> Nat \cup {Garbage}]
         /\ \A p \in Positions : ~ InChunk(p) => FreshMemory[p] = memory[p]
  BY ChunkIsPages DEF FreshMemory, Types

\* Positions that a disk read changes, and how.
LEMMA FilledIs ==
  ASSUME NEW mem \in [Positions -> Nat \cup {Garbage}], NEW pos \in Nat, NEW k \in Nat, NEW n \in Nat,
         fill.offset \in Nat
  PROVE  /\ Filled(mem, pos, k, n) \in [Positions -> Nat \cup {Garbage}]
         /\ \A p \in Positions :
              Filled(mem, pos, k, n)[p] =
                IF fill.offset + pos <= p /\ p < fill.offset + pos + n THEN k + p - (fill.offset + pos) ELSE mem[p]
<1>1. PICK o \in Nat, h \in Nat : o = fill.offset /\ h = o + pos
  OBVIOUS
<1>2. ASSUME NEW p \in Positions
      PROVE  /\ Filled(mem, pos, k, n)[p] = IF h <= p /\ p < h + n THEN k + p - h ELSE mem[p]
             /\ Filled(mem, pos, k, n)[p] \in Nat \cup {Garbage}
  <2>1. p \in Nat
    BY PageFacts
  <2>2. p - o - pos = p - h /\ (0 <= p - h /\ p - h < n <=> h <= p /\ p < h + n) /\ k + (p - h) = k + p - h
    BY <1>1, <2>1
  <2>3. Filled(mem, pos, k, n)[p] = IF 0 <= p - o - pos /\ p - o - pos < n THEN k + (p - o - pos) ELSE mem[p]
    BY <1>1 DEF Filled
  <2>4. Filled(mem, pos, k, n)[p] = IF h <= p /\ p < h + n THEN k + p - h ELSE mem[p]
    BY <2>2, <2>3
  <2>5. h <= p => k + p - h \in Nat
    BY <2>1
  <2> QED
    BY <2>4, <2>5
<1>3. Filled(mem, pos, k, n) = [p \in Positions |-> Filled(mem, pos, k, n)[p]]
  BY DEF Filled
<1>4. Filled(mem, pos, k, n) \in [Positions -> Nat \cup {Garbage}]
  BY <1>2, <1>3
<1> QED
  BY <1>1, <1>2, <1>4

LEMMA VectorBegins ==
  ASSUME NEW cuts \in SUBSET Nat, NEW l \in Nat
  PROVE  VecStart(cuts, l) \in Nat /\ VecStart(cuts, l) <= l
<1> DEFINE U == cuts \cup {0}
           S == {c \in U : c <= l}
<1>1. U \subseteq Nat /\ 0 \in U
  OBVIOUS
<1> HIDE DEF U
<1>2. S \subseteq Nat /\ 0 \in S
  <2>1. S \subseteq U
    BY Zenon
  <2>2. 0 <= l
    OBVIOUS
  <2>3. 0 \in S
    BY <1>1, <2>2, Zenon
  <2> QED
    BY <1>1, <2>1, <2>3, Zenon
<1>3. \A c \in S : c <= l
  OBVIOUS
<1> HIDE DEF S
<1>4. Max(S) \in S /\ Max(S) \in Nat
  BY <1>1, <1>2, <1>3, MaxIsGreatest
<1>5. VecStart(cuts, l) = Max(S)
  BY DEF VecStart, S, U
<1> QED
  BY <1>3, <1>4, <1>5

\* The first read of a chunk.
LEMMA StartKeeps ==
  ASSUME IInv, StartChunk
  PROVE  IInv'
<1>1. /\ fill.active /\ ~ io.active /\ InsertPages /\ UNCHANGED <<file, user, call, fill, failures>>
      /\ Types /\ CallInv /\ FillInv /\ file \in Layouts
  BY DEF StartChunk, IInv, Types
<1>2. PICK o \in Nat, n \in Nat \ {0}, z \in Nat \ {0} :
        o = fill.offset /\ n = NumBytes /\ z = file.size /\ o < z /\ z <= FilePages * PageSize
  <2>1. file.size \in Nat \ {0} /\ file.size <= FilePages * PageSize
    BY <1>1, RunTypes
  <2> QED
    BY <1>1, <2>1, FillFacts
<1> DEFINE map == FileMap(o, n)
           x == map.extents
           v == map.overflow
<1>3. PICK first \in 1 .. Len(file.runs) :
        v \in BOOLEAN /\ Maps(x, v, first, o) /\ Reaches(x, v, first, o, o + n)
  BY <1>1, <1>2, MapIsRuns
<1>4. PICK l \in Nat, k \in Nat :
        /\ 1 \in 1 .. Len(x) /\ l = x[1].length /\ k = x[1].disk
        /\ x \in Seq([disk : Nat, length : Nat])
  <2>1. PICK T : T = [disk : Nat, length : Nat]
    OBVIOUS
  <2> HIDE DEF x
  <2>2. x \in Seq(T) /\ Len(x) > 0
    BY <1>3, <2>1 DEF Maps
  <2>3. 1 \in 1 .. Len(x) /\ x[1] \in T
    BY <2>2
  <2>4. x[1].length \in Nat /\ x[1].disk \in Nat
    BY <2>1, <2>3
  <2> QED
    BY <2>1, <2>2, <2>3, <2>4
<1>5. Begin(first, o, 1) = o
  BY DEF Begin
<1>6. memory' = Filled(FreshMemory, 0, k, n)
  <2>1. map.extents[1].disk = k
    BY <1>4
  <2> HIDE DEF map
  <2>2. map = FileMap(fill.offset, NumBytes)
    BY <1>2 DEF map
  <2>3. memory' = Filled(FreshMemory, 0, FileMap(fill.offset, NumBytes).extents[1].disk, NumBytes)
    BY DEF StartChunk
  <2> QED
    BY <1>2, <2>1, <2>2, <2>3
<1>7. /\ memory' \in [Positions -> Nat \cup {Garbage}]
      /\ \A p \in Positions : memory'[p] = IF o <= p /\ p < o + n THEN k + p - o ELSE FreshMemory[p]
      /\ \A p \in Positions : ~ InChunk(p) => FreshMemory[p] = memory[p]
  <2>1. /\ FreshMemory \in [Positions -> Nat \cup {Garbage}]
        /\ \A p \in Positions : ~ InChunk(p) => FreshMemory[p] = memory[p]
    BY <1>1, FreshIs
  <2>2. PICK m \in [Positions -> Nat \cup {Garbage}] : m = FreshMemory
    BY <2>1
  <2>3. fill.offset \in Nat /\ o = fill.offset + 0
    BY <1>2
  <2>4. /\ Filled(m, 0, k, n) \in [Positions -> Nat \cup {Garbage}]
        /\ \A p \in Positions : Filled(m, 0, k, n)[p] = IF o <= p /\ p < o + n THEN k + p - o ELSE m[p]
    BY <2>3, FilledIs
  <2> QED
    BY <1>6, <2>1, <2>2, <2>4
<1> HIDE DEF x, v
<1>8. ASSUME NEW p \in Positions, o <= p, p < o + n, p < o + l, p < z
      PROVE  memory'[p] = OnDisk(p)
  <2>1. p \in Nat
    BY PageFacts
  <2>2. OnDisk(p) = k + p - o
    <3>1. /\ file \in Layouts /\ first \in 1 .. Len(file.runs) /\ o \in Nat /\ Maps(x, v, first, o)
          /\ 1 \in 1 .. Len(x) /\ p \in Nat /\ p < file.size
          /\ Begin(first, o, 1) <= p /\ p < Begin(first, o, 1) + x[1].length
      BY <1>1, <1>2, <1>3, <1>4, <1>5, <1>8, <2>1
    <3>2. OnDisk(p) = x[1].disk + p - Begin(first, o, 1)
      <4>1. PICK y, w : y = x /\ w = v
        OBVIOUS
      <4>2. /\ file \in Layouts /\ first \in 1 .. Len(file.runs) /\ o \in Nat /\ Maps(y, w, first, o)
            /\ 1 \in 1 .. Len(y) /\ p \in Nat /\ p < file.size
            /\ Begin(first, o, 1) <= p /\ p < Begin(first, o, 1) + y[1].length
        BY <3>1, <4>1
      <4>3. OnDisk(p) = y[1].disk + p - Begin(first, o, 1)
        <5>1. OnDiskAt(y, first, o)
          BY ONLY <4>2, ExtentsAreDisk
        <5> QED
          BY ONLY <4>2, <5>1 DEF OnDiskAt
      <4> QED
        BY <4>1, <4>3
    <3> QED
      BY <1>4, <1>5, <3>2
  <2> QED
    BY <1>7, <1>8, <2>2
<1> USE DEF x, v
<1>9. PICK cuts \in SUBSET {c \in 1 .. n - 1 : c % PageSize = 0} :
        io' = [active |-> TRUE, cuts |-> cuts, extents |-> x, overflow |-> v, index |-> 1, disk |-> 0, fileLeft |-> 0,
               pos |-> Smaller(l, n), bytesLeft |-> n - (l - VecStart(cuts, l)), finished |-> l >= n]
  <2>1. fill.offset = o /\ NumBytes = n /\ x[1].length = l
    BY <1>2, <1>4
  <2> QED
    BY <2>1 DEF StartChunk
<1> HIDE DEF map, x, v
<1>10. NumBytes' = n /\ fill'.offset = o /\ FillEnd' = FillEnd /\ io'.active = TRUE
  BY <1>1, <1>2, <1>9 DEF NumBytes, FillEnd
<1>11. CallInv' /\ FillInv' /\ PlainReadsRight'
  BY <1>1, <1>10, ChunkBegins
<1>12. Types'
  <2>1. pages' \in [PageOffsets -> {0, 1}]
    BY <1>1, InsertKeeps
  <2> QED
    BY <1>1, <1>7, <1>10, <2>1 DEF Types
<1>13. PlainInv'
  BY <1>1, <1>10 DEF IInv, PlainInv, Plain, OnDisk, FindBlockRun
<1>14. MemoryInv'
  <2>1. SUFFICES ASSUME failures = 0, NEW p \in Positions, p < file.size, pages'[Aligned(p, PageSize)] > 0, ~ InChunk(p)'
                 PROVE  memory'[p] = OnDisk(p)
    BY <1>1, <1>10 DEF MemoryInv, OnDisk, FindBlockRun
  <2>2. ~ InChunk(p)
    BY <1>1, <1>2, <1>10, <2>1 DEF InChunk
  <2>3. ~ (o <= p /\ p < o + n)
    BY <1>2, <2>2 DEF InChunk
  <2>4. memory'[p] = memory[p]
    BY <1>7, <2>2, <2>3
  <2>5. pages'[Aligned(p, PageSize)] = pages[Aligned(p, PageSize)]
    BY <1>1, <2>2, ChunkIsPages, InsertKeeps, PageFacts
  <2> QED
    BY <1>1, <2>1, <2>4, <2>5 DEF IInv, MemoryInv
<1>15. ReadInv'
  <2>1. CASE l >= n
    <3>1. io'.finished = TRUE
      BY <1>9, <2>1
    <3>2. \A p \in Positions : p \in Nat
      BY PageFacts
    <3>3. ASSUME NEW p \in Positions, o <= p, p < o + n, p < z PROVE memory'[p] = OnDisk(p)
      BY <1>8, <2>1, <3>2, <3>3
    <3>4. RightUpto(o + n)'
      BY <1>1, <1>2, <3>3 DEF RightUpto, OnDisk, FindBlockRun
    <3>5. RightUpto(fill.offset + NumBytes)'
      BY <1>10, <3>4 DEF RightUpto
    <3> QED
      BY <1>1, <3>1, <3>5 DEF ReadInv
  <2>2. CASE l < n
    <3>1. Smaller(l, n) = l
      BY <2>2 DEF Smaller
    <3>2. PICK w \in Nat : w = VecStart(cuts, l) /\ w <= l
      <4>1. \A c \in cuts : c \in 1 .. n - 1
        BY <1>9
      <4>2. cuts \in SUBSET Nat
        BY <4>1
      <4> QED
        BY <4>2, VectorBegins
    <3>3. PICK t \in Nat : t = n - (l - w) /\ n - l <= t
      <4>1. n - (l - w) \in Nat /\ n - l <= n - (l - w)
        BY <2>2, <3>2
      <4> QED
        BY <4>1
    <3>4. io' = [active |-> TRUE, cuts |-> cuts, extents |-> x, overflow |-> v, index |-> 1, disk |-> 0, fileLeft |-> 0,
                 pos |-> l, bytesLeft |-> t, finished |-> FALSE]
      <4>1. (l >= n) = FALSE
        BY <2>2
      <4> QED
        BY <1>9, <3>1, <3>2, <3>3, <4>1
    <3>5. io' \in Reads
      <4>1. v \in BOOLEAN /\ cuts \in SUBSET Nat
        BY <1>3, <1>4
      <4> QED
        BY <1>4, <3>4, <4>1 DEF Reads
    <3>6. RightUpto(o + l)'
      <4>1. ASSUME NEW p \in Positions, o <= p, p < o + l, p < z PROVE memory'[p] = OnDisk(p)
        <5>1. p \in Nat /\ p < o + n
          BY <2>2, <4>1, PageFacts
        <5> QED
          BY <1>8, <4>1, <5>1
      <4> QED
        BY <1>1, <1>2, <4>1 DEF RightUpto, OnDisk, FindBlockRun
    <3>7. o \in Positions
      BY <1>2, PageFacts
    <3>8. Maps(x, v, first, o) /\ Reaches(x, v, first, o, fill.offset + NumBytes)
      BY <1>2, <1>3, <1>4
    <3>9. /\ x = io'.extents /\ v = io'.overflow /\ io'.index = 1 /\ o + l = fill.offset + io'.pos
          /\ io'.pos <= NumBytes /\ NumBytes - io'.pos <= io'.bytesLeft /\ io'.fileLeft <= io'.bytesLeft
          /\ (o + l) + io'.fileLeft = o + x[io'.index].length /\ io'.fileLeft = 0 /\ io'.active
      <4>1. /\ x = io'.extents /\ v = io'.overflow /\ io'.index = 1 /\ io'.active
            /\ io'.pos = l /\ io'.bytesLeft = t /\ io'.fileLeft = 0
        BY <3>4
      <4>2. 0 <= t /\ l <= n /\ (o + l) + 0 = o + l
        BY <2>2
      <4> QED
        BY <1>2, <1>4, <3>3, <4>1, <4>2
    <3>10. (o + l) + io'.fileLeft <= o + x[io'.index].length /\ ~ (io'.fileLeft > 0)
      BY <1>4, <3>9
    <3>11. /\ o = Begin(first, o, io'.index) /\ io'.index \in 1 .. Len(x)
           /\ UNCHANGED <<file, fill>> /\ fill.active /\ first \in 1 .. Len(file.runs)
           /\ \A c \in io'.cuts : c < NumBytes
      <4>1. io'.cuts = cuts
        BY <3>4
      <4>2. \A c \in cuts : c \in 1 .. n - 1
        BY <1>9
      <4>3. \A c \in cuts : c < n
        BY <4>2
      <4> QED
        BY <1>1, <1>2, <1>4, <1>5, <3>9, <4>1, <4>3
    <3> QED
      BY ONLY <3>5, <3>6, <3>7, <3>8, <3>9, <3>10, <3>11, ReadInvFrom
  <2> QED
    BY <2>1, <2>2
<1> QED
  BY <1>11, <1>12, <1>13, <1>14, <1>15 DEF IInv

\* It fails: the chunk keeps what malloc left.
LEMMA StartFailsKeeps ==
  ASSUME IInv, StartChunkFails
  PROVE  IInv'
<1>1. /\ fill.active /\ ~ io.active /\ InsertPages /\ UNCHANGED <<file, user, call, fill>>
      /\ memory' = FreshMemory /\ io' = [active |-> TRUE, finished |-> TRUE]
      /\ failures' = failures + 1 /\ failures \in Nat
      /\ Types /\ CallInv /\ FillInv
  BY DEF StartChunkFails, IInv, Types
<1>2. failures' \in Nat /\ failures' # 0
  BY <1>1
<1>3. CallInv' /\ FillInv' /\ PlainReadsRight'
  BY <1>1, ChunkBegins
<1>4. Types'
  <2>1. pages' \in [PageOffsets -> {0, 1}]
    BY <1>1, InsertKeeps
  <2>2. memory' \in [Positions -> Nat \cup {Garbage}]
    BY <1>1, FreshIs
  <2> QED
    BY <1>1, <1>2, <2>1, <2>2 DEF Types
<1>5. PlainInv' /\ MemoryInv' /\ ReadInv'
  BY <1>1, <1>2 DEF PlainInv, MemoryInv, ReadInv, RightUpto
<1> QED
  BY <1>3, <1>4, <1>5 DEF IInv

LEMMA MapFailsKeeps ==
  ASSUME IInv, MapFails
  PROVE  IInv'
<1>1. /\ fill.active /\ ~ io.active /\ InsertPages /\ UNCHANGED <<file, user, io>>
      /\ memory' = FreshMemory /\ failures' = failures + 1 /\ failures \in Nat
      /\ call' = [active |-> FALSE, offset |-> call.offset, size |-> call.size, ok |-> FALSE]
      /\ fill' = [active |-> FALSE]
      /\ Types /\ CallInv /\ FillInv /\ call.size \in Nat /\ call.size <= BufferSize
  BY DEF MapFails, Return, Returned, None, IInv, Types
<1>2. failures' \in Nat /\ failures' # 0
  BY <1>1
<1>3. Types'
  <2>1. pages' \in [PageOffsets -> {0, 1}]
    BY <1>1, InsertKeeps
  <2>2. memory' \in [Positions -> Nat \cup {Garbage}]
    BY <1>1, FreshIs
  <2> QED
    BY <1>1, <1>2, <2>1, <2>2 DEF Types
<1>4. CallInv' /\ FillInv' /\ PlainInv' /\ MemoryInv' /\ ReadInv'
  BY <1>1, <1>2 DEF CallInv, FillInv, PlainInv, MemoryInv, ReadInv
<1>5. PlainReadsRight'
  BY <1>1 DEF IInv, PlainReadsRight, Succeeded
<1> QED
  BY <1>3, <1>4, <1>5 DEF IInv

\* What no step of pages_io disturbs, once the chunk is begun.
LEMMA ReadingKeeps ==
  ASSUME IInv, Reading, io'.active = TRUE, UNCHANGED <<file, pages, user, call, fill>>,
         failures' = failures \/ failures' = failures + 1,
         memory' \in [Positions -> Nat \cup {Garbage}]
  PROVE  Types' /\ CallInv' /\ FillInv' /\ PlainInv' /\ PlainReadsRight'
<1>1. fill.active /\ call.active /\ io.active /\ failures \in Nat
  BY DEF Reading, IInv, ReadInv, FillInv, Types
<1>2. failures' \in Nat /\ (failures' = 0 => failures = 0)
  BY <1>1
<1>3. Types'
  BY <1>2 DEF IInv, Types
<1>4. CallInv'
  BY <1>1 DEF IInv, CallInv
<1>5. FillInv'
  BY <1>1 DEF IInv, FillInv, FillEnd, NumBytes, NotRead
<1>6. PlainInv'
  BY <1>2 DEF IInv, PlainInv, FillEnd, Plain, OnDisk, FindBlockRun
<1>7. PlainReadsRight'
  BY <1>1 DEF IInv, PlainReadsRight, Succeeded
<1> QED
  BY <1>3, <1>4, <1>5, <1>6, <1>7

\* The numbers of pages_io between two reads.
LEMMA ReadFacts ==
  ASSUME IInv, Reading
  PROVE  /\ fill.active /\ io.active /\ ~ io.finished /\ file \in Layouts
         /\ \E o \in Nat, n \in Nat \ {0}, z \in Nat \ {0} :
              o = fill.offset /\ n = NumBytes /\ z = file.size /\ o < z /\ z <= FilePages * PageSize
         /\ \E pos \in Nat, left \in Nat, bytes \in Nat, k \in Nat, h \in Nat :
              /\ pos = io.pos /\ left = io.fileLeft /\ bytes = io.bytesLeft /\ k = io.disk
              /\ h = Here /\ h = fill.offset + pos
         /\ io \in Reads /\ io.pos <= NumBytes /\ NumBytes - io.pos <= io.bytesLeft /\ io.fileLeft <= io.bytesLeft
         /\ io.index \in Nat /\ io.index \in 1 .. Len(io.extents) /\ Len(io.extents) \in Nat
         /\ io.extents[io.index].length \in Nat /\ io.extents[io.index].disk \in Nat
         /\ RightUpto(Here) /\ \A c \in io.cuts : c < NumBytes
         /\ \E first \in 1 .. Len(file.runs), base \in Positions, b \in Nat :
              /\ Maps(io.extents, io.overflow, first, base)
              /\ Reaches(io.extents, io.overflow, first, base, fill.offset + NumBytes)
              /\ b = Begin(first, base, io.index)
              /\ Here + io.fileLeft <= b + io.extents[io.index].length
              /\ Here + io.fileLeft = b + io.extents[io.index].length \/ io.fileLeft = io.bytesLeft
              /\ io.fileLeft > 0 => b <= Here /\ io.disk = io.extents[io.index].disk + Here - b
<1>1. /\ fill.active /\ io.active /\ ~ io.finished /\ file \in Layouts
      /\ Types /\ CallInv /\ FillInv /\ ReadInv
  BY DEF Reading, IInv, ReadInv, Types
<1>2. PICK o \in Nat, n \in Nat \ {0}, z \in Nat \ {0} :
        o = fill.offset /\ n = NumBytes /\ z = file.size /\ o < z /\ z <= FilePages * PageSize
  <2>1. file.size \in Nat \ {0} /\ file.size <= FilePages * PageSize
    BY <1>1, RunTypes
  <2> QED
    BY <1>1, <2>1, FillFacts
<1>3. /\ io \in Reads
      /\ io.pos <= NumBytes /\ NumBytes - io.pos <= io.bytesLeft /\ io.fileLeft <= io.bytesLeft
      /\ io.index \in 1 .. Len(io.extents) /\ RightUpto(Here) /\ \A c \in io.cuts : c < NumBytes
  BY <1>1 DEF ReadInv
<1>4. PICK first \in 1 .. Len(file.runs), base \in Positions :
        /\ Maps(io.extents, io.overflow, first, base)
        /\ Reaches(io.extents, io.overflow, first, base, fill.offset + NumBytes)
        /\ LET begin == Begin(first, base, io.index)
               end == begin + io.extents[io.index].length
           IN  /\ Here + io.fileLeft <= end
               /\ Here + io.fileLeft = end \/ io.fileLeft = io.bytesLeft
               /\ io.fileLeft > 0 => begin <= Here /\ io.disk = io.extents[io.index].disk + Here - begin
  BY <1>1 DEF ReadInv
<1>5. PICK pos \in Nat, left \in Nat, bytes \in Nat, k \in Nat, h \in Nat :
        /\ pos = io.pos /\ left = io.fileLeft /\ bytes = io.bytesLeft /\ k = io.disk /\ h = Here /\ h = o + pos
  <2>1. io.pos \in Nat /\ io.fileLeft \in Nat /\ io.bytesLeft \in Nat /\ io.disk \in Nat
    BY <1>3 DEF Reads
  <2>2. Here \in Nat /\ Here = o + io.pos
    BY <1>2, <2>1 DEF Here
  <2> QED
    BY <2>1, <2>2
<1>6. PICK i \in Nat, len \in Nat, l \in Nat, d \in Nat :
        /\ i = io.index /\ len = Len(io.extents) /\ 1 <= i /\ i <= len
        /\ l = io.extents[i].length /\ d = io.extents[i].disk
  <2>1. PICK T : T = [disk : Nat, length : Nat]
    OBVIOUS
  <2>2. io.extents \in Seq(T)
    BY <1>3, <2>1 DEF Reads
  <2>3. Len(io.extents) \in Nat /\ io.index \in Nat /\ 1 <= io.index /\ io.index <= Len(io.extents)
    BY <1>3, <2>2
  <2>4. io.extents[io.index] \in T
    BY <1>3, <2>2
  <2>5. io.extents[io.index].length \in Nat /\ io.extents[io.index].disk \in Nat
    BY <2>1, <2>4
  <2> QED
    BY <2>3, <2>5
<1>7. PICK b \in Nat : b = Begin(first, base, i)
  <2>1. base \in Nat
    BY PageFacts
  <2>2. CASE i = 1
    BY <2>1, <2>2 DEF Begin
  <2>3. CASE i # 1
    <3>1. first + len - 1 <= NumRuns /\ NumRuns \in Nat
      BY <1>1, <1>4, <1>6, RunTypes DEF Maps, NumRuns
    <3>2. first + i - 1 \in 1 .. NumRuns
      BY <1>6, <3>1 DEF NumRuns
    <3>3. Begin(first, base, i) = From(first + i - 1)
      BY <2>3 DEF Begin
    <3> QED
      BY <1>1, <3>2, <3>3, RunTypes
  <2> QED
    BY <2>2, <2>3
<1>8. /\ Here + io.fileLeft <= b + io.extents[io.index].length
      /\ Here + io.fileLeft = b + io.extents[io.index].length \/ io.fileLeft = io.bytesLeft
      /\ io.fileLeft > 0 => b <= Here /\ io.disk = io.extents[io.index].disk + Here - b
      /\ b = Begin(first, base, io.index)
  BY <1>4, <1>6, <1>7
<1>9. \E f \in 1 .. Len(file.runs), e \in Positions, x \in Nat :
        /\ Maps(io.extents, io.overflow, f, e)
        /\ Reaches(io.extents, io.overflow, f, e, fill.offset + NumBytes)
        /\ x = Begin(f, e, io.index)
        /\ Here + io.fileLeft <= x + io.extents[io.index].length
        /\ Here + io.fileLeft = x + io.extents[io.index].length \/ io.fileLeft = io.bytesLeft
        /\ io.fileLeft > 0 => x <= Here /\ io.disk = io.extents[io.index].disk + Here - x
  BY <1>4, <1>8
<1>10. \E p \in Nat, l1 \in Nat, l2 \in Nat, x \in Nat, y \in Nat :
        /\ p = io.pos /\ l1 = io.fileLeft /\ l2 = io.bytesLeft /\ x = io.disk
        /\ y = Here /\ y = fill.offset + p
  BY <1>2, <1>5
<1> QED
  BY <1>1, <1>2, <1>3, <1>6, <1>9, <1>10

LEMMA ReadFailsKeeps ==
  ASSUME IInv, ReadExtentFails
  PROVE  IInv'
<1>1. /\ Reading /\ failures' = failures + 1 /\ io' = [io EXCEPT !.finished = TRUE]
      /\ UNCHANGED <<file, pages, memory, user, call, fill>>
  BY DEF ReadExtentFails
<1>2. io \in Reads /\ fill.active /\ failures \in Nat /\ memory \in [Positions -> Nat \cup {Garbage}]
  BY <1>1, ReadFacts DEF IInv, Types
<1>3. io'.active = TRUE /\ io'.finished = TRUE /\ failures' # 0
  <2>1. io'.active = TRUE /\ io'.finished = TRUE
    BY <1>1, <1>2 DEF Reads
  <2>2. failures' # 0
    BY <1>1, <1>2
  <2> QED
    BY <2>1, <2>2
<1>4. Types' /\ CallInv' /\ FillInv' /\ PlainInv' /\ PlainReadsRight'
  BY <1>1, <1>2, <1>3, ReadingKeeps
<1>5. MemoryInv' /\ ReadInv'
  BY <1>1, <1>2, <1>3 DEF MemoryInv, ReadInv, RightUpto
<1> QED
  BY <1>4, <1>5 DEF IInv

\* The pages that a step of pages_io has not touched.
LEMMA MemoryStays ==
  ASSUME IInv, fill.active, io.active, io'.active = TRUE, UNCHANGED <<file, pages, fill, failures>>,
         \A p \in Positions : ~ InChunk(p) => memory'[p] = memory[p]
  PROVE  MemoryInv'
<1>1. SUFFICES ASSUME failures = 0, NEW p \in Positions, p < file.size, pages[Aligned(p, PageSize)] > 0, ~ InChunk(p)
               PROVE  memory'[p] = OnDisk(p)
  BY DEF MemoryInv, InChunk, NumBytes, OnDisk, FindBlockRun
<1> QED
  BY <1>1 DEF IInv, MemoryInv

\* The next extent begins on the disk where the last one ended in the file.
LEMMA NextKeeps ==
  ASSUME IInv, NextExtent
  PROVE  IInv'
<1>1. /\ Reading /\ io.fileLeft = 0 /\ io.index < Len(io.extents)
      /\ UNCHANGED <<file, pages, memory, user, call, fill, failures>>
  BY DEF NextExtent
<1>2. PICK pos \in Nat, bytes \in Nat, i \in Nat, h \in Nat, len \in Nat :
        /\ pos = io.pos /\ bytes = io.bytesLeft /\ i = io.index /\ h = Here /\ h = fill.offset + pos
        /\ len = Len(io.extents) /\ 1 <= i /\ i < len
  <2>1. PICK pos \in Nat, left \in Nat, bytes \in Nat, k \in Nat, h \in Nat :
          /\ pos = io.pos /\ left = io.fileLeft /\ bytes = io.bytesLeft /\ k = io.disk
          /\ h = Here /\ h = fill.offset + pos
    BY <1>1, ReadFacts
  <2>2. io.index \in Nat /\ io.index \in 1 .. Len(io.extents) /\ Len(io.extents) \in Nat
    BY <1>1, ReadFacts
  <2>3. 1 <= io.index /\ io.index < Len(io.extents)
    BY <1>1, <2>2
  <2> QED
    BY <2>1, <2>2, <2>3
<1>3. PICK x, v : x = io.extents /\ v = io.overflow
  OBVIOUS
<1>4. PICK first \in 1 .. Len(file.runs), base \in Positions, b \in Nat, l \in Nat :
        /\ Maps(x, v, first, base) /\ Reaches(x, v, first, base, fill.offset + NumBytes)
        /\ b = Begin(first, base, i) /\ l = x[i].length
        /\ h <= b + l /\ (h = b + l \/ bytes = 0)
  <2>1. PICK first \in 1 .. Len(file.runs), base \in Positions, b \in Nat :
              /\ Maps(io.extents, io.overflow, first, base)
              /\ Reaches(io.extents, io.overflow, first, base, fill.offset + NumBytes)
              /\ b = Begin(first, base, io.index)
              /\ Here + io.fileLeft <= b + io.extents[io.index].length
              /\ Here + io.fileLeft = b + io.extents[io.index].length \/ io.fileLeft = io.bytesLeft
    BY <1>1, ReadFacts
  <2>2. io.extents[io.index].length \in Nat /\ h + 0 = h
    BY <1>1, ReadFacts
  <2> QED
    BY <1>1, <1>2, <1>3, <2>1, <2>2
<1>5. PICK m \in Nat, d \in Nat : m = x[i + 1].length /\ d = x[i + 1].disk
  <2>1. PICK T : T = [disk : Nat, length : Nat]
    OBVIOUS
  <2>2. x \in Seq(T)
    BY <1>4, <2>1 DEF Maps
  <2>3. i + 1 \in 1 .. len /\ len = Len(x)
    BY <1>2, <1>3
  <2>4. x[i + 1] \in T
    BY <2>2, <2>3
  <2> QED
    BY <2>1, <2>4
<1>6. b + l = Begin(first, base, i + 1)
  <2>1. i # len /\ i + 1 # 1 /\ i \in 1 .. len
    BY <1>2
  <2>2. b + l = Upto(first + i - 1)
    BY <1>2, <1>3, <1>4, <2>1 DEF Maps
  <2>3. PICK j \in 1 .. NumRuns - 1 : j = first + i - 1 /\ j + 1 = first + (i + 1) - 1
    <3>1. first + len - 1 <= NumRuns /\ NumRuns \in Nat
      BY <1>1, <1>2, <1>3, <1>4, ReadFacts, RunTypes DEF Maps, NumRuns
    <3>2. PICK f \in Nat, c \in Nat : f = first /\ c = NumRuns /\ 1 <= f
      <4>1. first \in 1 .. NumRuns
        BY DEF NumRuns
      <4>2. first \in Nat /\ 1 <= first
        BY <3>1, <4>1
      <4> QED
        BY <3>1, <4>2
    <3>3. f + i - 1 \in 1 .. c - 1 /\ (f + i - 1) + 1 = f + (i + 1) - 1
      BY <1>2, <3>1, <3>2
    <3> QED
      BY <3>2, <3>3
  <2>4. Upto(j) = From(j + 1)
    BY <1>1, <2>3, ReadFacts, RunTypes
  <2> QED
    BY <2>1, <2>2, <2>3, <2>4 DEF Begin
<1>7. PICK left \in Nat : left = Smaller(m, bytes) /\ left <= m /\ left <= bytes /\ (left = m \/ left = bytes)
  <2>1. Smaller(m, bytes) \in Nat /\ Smaller(m, bytes) <= m /\ Smaller(m, bytes) <= bytes
        /\ (Smaller(m, bytes) = m \/ Smaller(m, bytes) = bytes)
    BY DEF Smaller
  <2> QED
    BY <2>1
<1>8. /\ io \in Reads /\ io' = [io EXCEPT !.index = i + 1, !.disk = d, !.fileLeft = left]
      /\ fill.active /\ pos <= NumBytes /\ NumBytes - pos <= bytes /\ RightUpto(h)
      /\ memory \in [Positions -> Nat \cup {Garbage}]
  <2>1. io' = [io EXCEPT !.index = i + 1, !.disk = d, !.fileLeft = left]
    BY <1>2, <1>3, <1>5, <1>7 DEF NextExtent
  <2> QED
    BY <1>1, <1>2, <2>1, ReadFacts DEF IInv, Types
<1>9. /\ io' \in Reads /\ io'.active = TRUE /\ io'.pos = pos /\ io'.bytesLeft = bytes /\ io'.fileLeft = left
      /\ io'.index = i + 1 /\ io'.disk = d /\ io'.extents = x /\ io'.overflow = v
  <2>1. x \in Seq([disk : Nat, length : Nat]) /\ i + 1 \in Nat
    BY <1>4 DEF Maps
  <2>2. /\ io'.pos = pos /\ io'.bytesLeft = bytes /\ io'.fileLeft = left /\ io'.index = i + 1 /\ io'.disk = d
        /\ io'.active = TRUE /\ io'.extents = x /\ io'.overflow = v
    BY <1>2, <1>3, <1>8 DEF Reads
  <2>3. io' \in Reads
    BY <1>8, <2>1 DEF Reads
  <2> QED
    BY <2>2, <2>3
<1>10. Types' /\ CallInv' /\ FillInv' /\ PlainInv' /\ PlainReadsRight'
  BY <1>1, <1>8, <1>9, ReadingKeeps
<1>11. MemoryInv'
  <2>1. fill.active /\ io.active /\ \A p \in Positions : ~ InChunk(p) => memory'[p] = memory[p]
    BY <1>1, <1>8 DEF Reading
  <2> QED
    BY <1>1, <1>9, <2>1, MemoryStays
<1>12. ReadInv'
  <2>1. RightUpto(h)'
    BY <1>1, <1>8 DEF RightUpto, OnDisk, FindBlockRun
  <2>2. i + 1 \in 1 .. Len(x)
    BY <1>2, <1>3
  <2>3. /\ h + left <= (b + l) + m
        /\ h + left = (b + l) + m \/ left = bytes
        /\ left > 0 => b + l <= h /\ d = d + h - (b + l)
    <3>1. h + left <= (b + l) + m
      BY <1>4, <1>7
    <3>2. h + left = (b + l) + m \/ left = bytes
      <4>1. CASE h = b + l
        BY <1>7, <4>1
      <4>2. CASE bytes = 0
        BY <1>7, <4>2
      <4> QED
        BY <1>4, <4>1, <4>2
    <3>3. left > 0 => h = b + l
      BY <1>4, <1>7
    <3>4. h = b + l => d = d + h - (b + l)
      OBVIOUS
    <3> QED
      BY <3>1, <3>2, <3>3, <3>4
  <2>4. PICK e \in Nat : e = b + l
    OBVIOUS
  <2>6. \A c \in io'.cuts : c < NumBytes
    <3>1. io'.cuts = io.cuts
      BY <1>8 DEF Reads
    <3> QED
      BY <1>1, <3>1, ReadFacts
  <2>5. /\ UNCHANGED <<file, fill>> /\ fill.active /\ io' \in Reads /\ io'.active
        /\ \A c \in io'.cuts : c < NumBytes
        /\ io'.pos <= NumBytes /\ NumBytes - io'.pos <= io'.bytesLeft /\ io'.fileLeft <= io'.bytesLeft
        /\ h = fill.offset + io'.pos /\ RightUpto(h)'
        /\ first \in 1 .. Len(file.runs) /\ base \in Positions
        /\ x = io'.extents /\ v = io'.overflow /\ io'.index \in 1 .. Len(x)
        /\ Maps(x, v, first, base) /\ Reaches(x, v, first, base, fill.offset + NumBytes)
        /\ e = Begin(first, base, io'.index)
        /\ h + io'.fileLeft <= e + x[io'.index].length
        /\ h + io'.fileLeft = e + x[io'.index].length \/ io'.fileLeft = io'.bytesLeft
        /\ io'.fileLeft > 0 => e <= h /\ io'.disk = x[io'.index].disk + h - e
    BY <1>1, <1>2, <1>4, <1>5, <1>6, <1>7, <1>8, <1>9, <2>1, <2>2, <2>3, <2>4, <2>6
  <2> QED
    BY ONLY <2>5, ReadInvFrom
<1> QED
  BY <1>10, <1>11, <1>12 DEF IInv

\* One read into the vectors takes no more than is left of the extent and of
\* the chunk.
LEMMA TempSizeIs ==
  ASSUME NEW left \in Nat, NEW pos \in Nat, NEW n \in Nat, NEW cuts \in SUBSET Nat,
         left = io.fileLeft, pos = io.pos, n = NumBytes, cuts = io.cuts, pos <= n, \A c \in cuts : c < n
  PROVE  TempSize \in Nat /\ TempSize <= left /\ pos + TempSize <= n
<1> DEFINE U == {c \in cuts : c > pos} \cup ({n} \ {pos})
           filled == {e \in U : Cardinality({x \in U : x <= e}) <= MaxTempIoVecs}
           S == filled \cup {pos}
<1>1. S \subseteq cuts \cup {n, pos} /\ pos \in S
  BY Zenon
<1>2. TempSize = Smaller(left, Max(S) - pos)
  BY DEF TempSize
<1> HIDE DEF S
<1>3. S \subseteq Nat /\ S # {} /\ \A y \in S : y <= n
  BY <1>1
<1>4. PICK m \in Nat : m = Max(S) /\ m <= n /\ pos <= m
  BY <1>1, <1>3, MaxIsGreatest
<1>5. TempSize = IF left <= m - pos THEN left ELSE m - pos
  BY <1>2, <1>4 DEF Smaller
<1> QED
  BY <1>4, <1>5

\* A read goes on where the last one stopped, within the extent.
LEMMA ReadExtentKeeps ==
  ASSUME IInv, ReadExtent
  PROVE  IInv'
<1>1. /\ Reading /\ io.fileLeft > 0
      /\ UNCHANGED <<file, pages, user, call, fill, failures>>
  BY DEF ReadExtent
<1>2. PICK pos \in Nat, left \in Nat, bytes \in Nat, k \in Nat, h \in Nat :
        /\ pos = io.pos /\ left = io.fileLeft /\ bytes = io.bytesLeft /\ k = io.disk
        /\ h = Here /\ h = fill.offset + pos
  BY <1>1, ReadFacts
<1>3. PICK o \in Nat, n \in Nat \ {0}, z \in Nat \ {0} :
        /\ o = fill.offset /\ n = NumBytes /\ z = file.size /\ h = o + pos
        /\ pos <= n /\ n - pos <= bytes /\ left <= bytes
  <2>1. PICK o \in Nat, n \in Nat \ {0}, z \in Nat \ {0} : o = fill.offset /\ n = NumBytes /\ z = file.size
    BY <1>1, ReadFacts
  <2>2. io.pos <= NumBytes /\ NumBytes - io.pos <= io.bytesLeft /\ io.fileLeft <= io.bytesLeft
    BY <1>1, ReadFacts
  <2> QED
    BY <1>2, <2>1, <2>2
<1> PICK x, v : x = io.extents /\ v = io.overflow
  OBVIOUS
<1>4. PICK i \in Nat, l \in Nat, d \in Nat :
        /\ x = io.extents /\ v = io.overflow /\ i = io.index /\ l = x[i].length /\ d = x[i].disk
        /\ i \in 1 .. Len(x)
  <2>1. /\ io.index \in Nat /\ io.index \in 1 .. Len(io.extents)
        /\ io.extents[io.index].length \in Nat /\ io.extents[io.index].disk \in Nat
    BY <1>1, ReadFacts
  <2> QED
    BY <2>1
<1>5. PICK first \in 1 .. Len(file.runs), base \in Positions, b \in Nat :
        /\ Maps(x, v, first, base) /\ Reaches(x, v, first, base, fill.offset + NumBytes)
        /\ b = Begin(first, base, i) /\ h + left <= b + l /\ (h + left = b + l \/ left = bytes)
        /\ b <= h /\ k = d + h - b
  <2>1. PICK first \in 1 .. Len(file.runs), base \in Positions, b \in Nat :
              /\ Maps(io.extents, io.overflow, first, base)
              /\ Reaches(io.extents, io.overflow, first, base, fill.offset + NumBytes)
              /\ b = Begin(first, base, io.index)
              /\ Here + io.fileLeft <= b + io.extents[io.index].length
              /\ Here + io.fileLeft = b + io.extents[io.index].length \/ io.fileLeft = io.bytesLeft
              /\ io.fileLeft > 0 => b <= Here /\ io.disk = io.extents[io.index].disk + Here - b
    BY <1>1, ReadFacts
  <2> QED
    BY <1>1, <1>2, <1>4, <2>1
<1>6. PICK t \in Nat : t = TempSize /\ t <= left /\ pos + t <= n
  <2>1. io.cuts \in SUBSET Nat /\ \A c \in io.cuts : c < n
    BY <1>1, <1>3, ReadFacts DEF Reads
  <2> QED
    BY <1>2, <1>3, <2>1, TempSizeIs
<1>7. /\ io \in Reads /\ memory \in [Positions -> Nat \cup {Garbage}] /\ file \in Layouts
      /\ memory' = Filled(memory, pos, k, t)
      /\ io' = [io EXCEPT !.pos = pos + t, !.bytesLeft = bytes - t, !.disk = k + t, !.fileLeft = left - t,
                          !.finished = t < left /\ pos + t = n]
  <2>1. /\ memory' = Filled(memory, io.pos, io.disk, TempSize)
        /\ io' = [io EXCEPT !.pos = @ + TempSize, !.bytesLeft = @ - TempSize, !.disk = @ + TempSize,
                            !.fileLeft = @ - TempSize,
                            !.finished = TempSize < io.fileLeft /\ io.pos + TempSize = NumBytes]
    BY DEF ReadExtent
  <2> QED
    BY <1>1, <1>2, <1>3, <1>6, <2>1, ReadFacts DEF IInv, Types
<1>8. /\ memory' \in [Positions -> Nat \cup {Garbage}]
      /\ \A p \in Positions : memory'[p] = IF h <= p /\ p < h + t THEN k + p - h ELSE memory[p]
  <2>1. fill.offset \in Nat
    BY <1>3
  <2>2. PICK mem \in [Positions -> Nat \cup {Garbage}] : mem = memory
    BY <1>7
  <2>3. /\ Filled(mem, pos, k, t) \in [Positions -> Nat \cup {Garbage}]
        /\ \A p \in Positions : Filled(mem, pos, k, t)[p] = IF h <= p /\ p < h + t THEN k + p - h ELSE mem[p]
    <3>1. /\ mem \in [Positions -> Nat \cup {Garbage}] /\ pos \in Nat /\ k \in Nat /\ t \in Nat
          /\ fill.offset \in Nat
      BY <2>1
    <3>2. /\ Filled(mem, pos, k, t) \in [Positions -> Nat \cup {Garbage}]
          /\ \A p \in Positions :
               Filled(mem, pos, k, t)[p] =
                 IF fill.offset + pos <= p /\ p < fill.offset + pos + t THEN k + p - (fill.offset + pos) ELSE mem[p]
      BY ONLY <3>1, FilledIs, SMTT(60)
    <3>3. h = fill.offset + pos
      BY <1>2
    <3> QED
      BY <3>2, <3>3
  <2> QED
    BY <1>7, <2>2, <2>3
<1>9. /\ io'.pos = pos + t /\ io'.bytesLeft = bytes - t /\ io'.fileLeft = left - t /\ io'.index = i /\ io'.disk = k + t
      /\ io'.active = TRUE /\ io'.extents = x /\ io'.overflow = v /\ io'.finished = (t < left /\ pos + t = n)
      /\ io'.cuts = io.cuts
  BY <1>4, <1>7 DEF Reads
<1>10. Types' /\ CallInv' /\ FillInv' /\ PlainInv' /\ PlainReadsRight'
  BY <1>1, <1>8, <1>9, ReadingKeeps
<1>11. MemoryInv'
  <2>1. ASSUME NEW p \in Positions, ~ InChunk(p) PROVE memory'[p] = memory[p]
    <3>1. p \in Nat /\ ~ (o <= p /\ p < o + n)
      BY <1>3, <2>1, PageFacts DEF InChunk
    <3>2. ~ (h <= p /\ p < h + t)
      BY <1>3, <1>6, <3>1
    <3> QED
      BY <1>8, <3>2
  <2>2. fill.active /\ io.active
    BY <1>1, ReadFacts
  <2> QED
    BY <1>1, <1>9, <2>1, <2>2, MemoryStays
<1>12. ASSUME failures = 0, NEW p \in Positions, o <= p, p < h + t, p < z
       PROVE  memory'[p] = OnDisk(p)
  <2>1. p \in Nat
    BY PageFacts
  <2>2. CASE p < h
    <3>1. RightUpto(h)
      BY <1>1, <1>2, ReadFacts
    <3>2. memory[p] = OnDisk(p)
      BY <1>3, <1>12, <2>2, <3>1 DEF RightUpto
    <3>3. memory'[p] = memory[p]
      BY <1>8, <2>1, <2>2
    <3> QED
      BY <3>2, <3>3
  <2>3. CASE h <= p
    <3>1. memory'[p] = k + p - h
      BY <1>8, <1>12, <2>3
    <3>2. b <= p /\ p < b + l
      <4>1. h + t <= h + left /\ h + left <= b + l /\ b <= h
        BY <1>5, <1>6
      <4> QED
        BY <1>12, <2>1, <2>3, <4>1
    <3>3. /\ file \in Layouts /\ first \in 1 .. Len(file.runs) /\ base \in Nat /\ Maps(x, v, first, base)
          /\ i \in 1 .. Len(x) /\ p \in Nat /\ p < file.size
          /\ Begin(first, base, i) <= p /\ p < Begin(first, base, i) + x[i].length
      BY <1>3, <1>4, <1>5, <1>7, <1>12, <2>1, <3>2, PageFacts
    <3>4. OnDisk(p) = x[i].disk + p - Begin(first, base, i)
      <4>1. PICK j \in 1 .. Len(x) : j = i
        BY <3>3
      <4>2. /\ file \in Layouts /\ first \in 1 .. Len(file.runs) /\ base \in Nat /\ Maps(x, v, first, base)
            /\ j \in 1 .. Len(x) /\ p \in Nat /\ p < file.size
            /\ Begin(first, base, j) <= p /\ p < Begin(first, base, j) + x[j].length
        BY <3>3, <4>1
      <4>3. OnDisk(p) = x[j].disk + p - Begin(first, base, j)
        <5>1. OnDiskAt(x, first, base)
          BY ONLY <4>2, ExtentsAreDisk
        <5> QED
          BY ONLY <4>2, <5>1 DEF OnDiskAt
      <4> QED
        BY <4>1, <4>3
    <3>5. OnDisk(p) = d + p - b
      BY <1>4, <1>5, <3>4
    <3>6. k = d + h - b
      BY <1>5
    <3> QED
      BY <2>1, <3>1, <3>5, <3>6
  <2> QED
    BY <2>1, <2>2, <2>3
<1>13. RightUpto(h + t)'
  BY <1>1, <1>3, <1>12 DEF RightUpto, OnDisk, FindBlockRun
<1>14. CASE io'.finished
  <2>1. h + t = o + n
    <3>1. pos + t = n
      BY <1>9, <1>14
    <3>2. h = o + pos
      BY <1>3
    <3> QED
      BY <3>1, <3>2
  <2>2. RightUpto(o + n)'
    BY <1>13, <2>1 DEF RightUpto
  <2>3. RightUpto(fill.offset + NumBytes)'
    BY <1>1, <1>3, <2>2 DEF RightUpto, NumBytes
  <2>4. fill.active /\ io'.finished = TRUE
    BY <1>1, <1>9, <1>14, ReadFacts
  <2> QED
    BY <1>1, <2>3, <2>4, <1>10, <1>11 DEF IInv, ReadInv
<1>15. CASE ~ io'.finished
  <2>1. io' \in Reads
    <3>1. pos + t \in Nat /\ bytes - t \in Nat /\ left - t \in Nat /\ k + t \in Nat /\ io'.finished = FALSE
      BY <1>3, <1>6, <1>9, <1>15
    <3>2. io' = [io EXCEPT !.pos = pos + t, !.bytesLeft = bytes - t, !.disk = k + t, !.fileLeft = left - t,
                           !.finished = FALSE]
      BY <1>7, <1>9, <3>1
    <3> QED
      BY <1>7, <3>1, <3>2 DEF Reads
  <2>2. PICK g \in Nat : g = h + t
    OBVIOUS
  <2>3. /\ pos + t <= n /\ n - (pos + t) <= bytes - t /\ left - t <= bytes - t /\ g = o + (pos + t)
    BY <1>3, <1>6, <2>2
  <2>4. /\ g + (left - t) <= b + l
        /\ g + (left - t) = b + l \/ left - t = bytes - t
        /\ b <= g /\ k + t = d + g - b
    <3>1. g + (left - t) = h + left
      BY <2>2
    <3>2. left = bytes => left - t = bytes - t
      OBVIOUS
    <3>3. b <= g /\ k + t = d + g - b
      <4>1. b <= h /\ k = d + h - b
        BY <1>5
      <4> QED
        BY <2>2, <4>1
    <3> QED
      BY <1>5, <3>1, <3>2, <3>3
  <2>5. RightUpto(g)'
    BY <1>13, <2>2 DEF RightUpto
  <2>6. /\ UNCHANGED <<file, fill>> /\ fill.active /\ io' \in Reads /\ io'.active
        /\ \A c \in io'.cuts : c < NumBytes
        /\ io'.pos <= NumBytes /\ NumBytes - io'.pos <= io'.bytesLeft /\ io'.fileLeft <= io'.bytesLeft
        /\ g = fill.offset + io'.pos /\ RightUpto(g)'
        /\ first \in 1 .. Len(file.runs) /\ base \in Positions
        /\ x = io'.extents /\ v = io'.overflow /\ io'.index \in 1 .. Len(x)
        /\ Maps(x, v, first, base) /\ Reaches(x, v, first, base, fill.offset + NumBytes)
        /\ b = Begin(first, base, io'.index)
        /\ g + io'.fileLeft <= b + x[io'.index].length
        /\ g + io'.fileLeft = b + x[io'.index].length \/ io'.fileLeft = io'.bytesLeft
        /\ io'.fileLeft > 0 => b <= g /\ io'.disk = x[io'.index].disk + g - b
    <3>1. fill.active /\ \A c \in io'.cuts : c < NumBytes
      BY <1>1, <1>9, ReadFacts
    <3> QED
      BY <1>1, <1>3, <1>4, <1>5, <1>9, <2>1, <2>3, <2>4, <2>5, <3>1
  <2>7. ReadInv'
    BY ONLY <2>6, ReadInvFrom
  <2> QED
    BY <2>7, <1>10, <1>11 DEF IInv
<1> QED
  BY <1>14, <1>15

\* The map was cut: what follows is asked for where the last extent ended.
LEMMA RemapKeeps ==
  ASSUME IInv, Remap
  PROVE  IInv'
<1>1. /\ Reading /\ io.fileLeft = 0 /\ io.index = Len(io.extents) /\ io.overflow
      /\ UNCHANGED <<file, pages, memory, user, call, fill, failures>>
  BY DEF Remap, LastExtent
<1>2. PICK pos \in Nat, bytes \in Nat, h \in Nat :
        pos = io.pos /\ bytes = io.bytesLeft /\ h = Here /\ h = fill.offset + pos
  BY <1>1, ReadFacts
<1>3. PICK o \in Nat, n \in Nat \ {0}, z \in Nat \ {0} :
        /\ o = fill.offset /\ n = NumBytes /\ z = file.size /\ z <= FilePages * PageSize /\ h = o + pos
        /\ pos <= n /\ n - pos <= bytes /\ file \in Layouts /\ io \in Reads /\ fill.active
  <2>1. PICK o \in Nat, n \in Nat \ {0}, z \in Nat \ {0} :
          o = fill.offset /\ n = NumBytes /\ z = file.size /\ z <= FilePages * PageSize
    BY <1>1, ReadFacts
  <2>2. io.pos <= NumBytes /\ NumBytes - io.pos <= io.bytesLeft
    BY <1>1, ReadFacts
  <2> QED
    BY <1>1, <1>2, <2>1, <2>2, ReadFacts
<1>4. h < z
  <2>1. PICK first \in 1 .. Len(file.runs), base \in Positions, b \in Nat :
          /\ Maps(io.extents, io.overflow, first, base)
          /\ b = Begin(first, base, io.index)
          /\ Here + io.fileLeft <= b + io.extents[io.index].length
    BY <1>1, ReadFacts
  <2>2. PICK l \in Nat : l = io.extents[io.index].length
    BY <1>1, ReadFacts
  <2>3. b + l = Upto(first + Len(io.extents) - 1) /\ Upto(first + Len(io.extents) - 1) < file.size
    <3>1. io.index \in 1 .. Len(io.extents)
      BY <1>1, ReadFacts
    <3> QED
      BY <1>1, <2>1, <2>2, <3>1 DEF Maps
  <2>4. h + 0 <= b + l
    BY <1>1, <1>2, <2>1, <2>2
  <2> QED
    BY <1>3, <2>3, <2>4
<1> DEFINE map == FileMap(fill.offset + io.pos, io.bytesLeft)
           x == map.extents
           v == map.overflow
<1>5. PICK first \in 1 .. Len(file.runs) :
        v \in BOOLEAN /\ Maps(x, v, first, h) /\ Reaches(x, v, first, h, h + bytes)
  <2>1. h < file.size
    BY <1>3, <1>4
  <2>2. map = FileMap(h, bytes)
    BY <1>2
  <2> HIDE DEF map
  <2>3. /\ FileMap(h, bytes).overflow \in BOOLEAN
        /\ \E first \in 1 .. Len(file.runs) :
             /\ Maps(FileMap(h, bytes).extents, FileMap(h, bytes).overflow, first, h)
             /\ Reaches(FileMap(h, bytes).extents, FileMap(h, bytes).overflow, first, h, h + bytes)
    BY <1>3, <2>1, MapIsRuns
  <2> QED
    BY <2>2, <2>3
<1>6. io' = [io EXCEPT !.extents = x, !.overflow = v, !.index = 1, !.disk = x[1].disk,
                       !.fileLeft = Smaller(x[1].length, io.bytesLeft)]
  BY DEF Remap
<1> HIDE DEF map, x, v
<1>7. PICK l \in Nat, k \in Nat : /\ 1 \in 1 .. Len(x) /\ l = x[1].length /\ k = x[1].disk
                                  /\ x \in Seq([disk : Nat, length : Nat])
  <2>1. PICK T : T = [disk : Nat, length : Nat]
    OBVIOUS
  <2>2. x \in Seq(T) /\ Len(x) > 0
    BY <1>5, <2>1 DEF Maps
  <2>3. 1 \in 1 .. Len(x) /\ x[1] \in T
    BY <2>2
  <2>4. x[1].length \in Nat /\ x[1].disk \in Nat
    BY <2>1, <2>3
  <2> QED
    BY <2>1, <2>2, <2>3, <2>4
<1>8. PICK left \in Nat : left = Smaller(l, bytes) /\ left <= l /\ left <= bytes /\ (left = l \/ left = bytes)
  <2>1. Smaller(l, bytes) \in Nat /\ Smaller(l, bytes) <= l /\ Smaller(l, bytes) <= bytes
        /\ (Smaller(l, bytes) = l \/ Smaller(l, bytes) = bytes)
    BY DEF Smaller
  <2> QED
    BY <2>1
<1>9. io' = [io EXCEPT !.extents = x, !.overflow = v, !.index = 1, !.disk = k, !.fileLeft = left]
  BY <1>2, <1>6, <1>7, <1>8
<1>10. /\ io' \in Reads /\ io'.active = TRUE /\ io'.pos = pos /\ io'.bytesLeft = bytes /\ io'.fileLeft = left
       /\ io'.index = 1 /\ io'.disk = k /\ io'.extents = x /\ io'.overflow = v /\ io'.cuts = io.cuts
  <2>1. io' \in Reads
    BY <1>3, <1>5, <1>7, <1>9 DEF Reads
  <2>2. /\ io'.pos = pos /\ io'.bytesLeft = bytes /\ io'.fileLeft = left
        /\ io'.index = 1 /\ io'.disk = k /\ io'.extents = x /\ io'.overflow = v /\ io'.cuts = io.cuts
    BY <1>2, <1>3, <1>9 DEF Reads
  <2> QED
    BY <2>1, <2>2 DEF Reads
<1>11. Types' /\ CallInv' /\ FillInv' /\ PlainInv' /\ PlainReadsRight'
  <2>1. memory' \in [Positions -> Nat \cup {Garbage}]
    BY <1>1 DEF IInv, Types
  <2> QED
    BY <1>1, <1>10, <2>1, ReadingKeeps
<1>12. MemoryInv'
  <2>1. io.active /\ \A p \in Positions : ~ InChunk(p) => memory'[p] = memory[p]
    BY <1>1 DEF Reading
  <2> QED
    BY <1>1, <1>3, <1>10, <2>1, MemoryStays
<1>13. ReadInv'
  <2>1. RightUpto(h)'
    <3>1. RightUpto(h)
      BY <1>1, <1>2, ReadFacts
    <3> QED
      BY <1>1, <3>1 DEF RightUpto, OnDisk, FindBlockRun
  <2>2. Reaches(x, v, first, h, o + n)
    <3>1. CASE v
      BY <3>1 DEF Reaches
    <3>2. CASE ~ v
      <4>1. \/ Begin(first, h, Len(x)) + x[Len(x)].length >= h + bytes
            \/ Begin(first, h, Len(x)) + x[Len(x)].length >= file.size
        BY <1>5, <3>2 DEF Reaches
      <4>2. o + n <= h + bytes
        BY <1>3
      <4>3. Begin(first, h, Len(x)) + x[Len(x)].length \in Int
        <5>1. PICK T : T = [disk : Nat, length : Nat]
          OBVIOUS
        <5>2. x \in Seq(T) /\ Len(x) > 0
          BY <1>5, <1>7, <5>1 DEF Maps
        <5>3. x[Len(x)] \in T /\ Len(x) \in Nat
          BY <5>2
        <5>4. x[Len(x)].length \in Nat
          BY <5>1, <5>3
        <5>5. Begin(first, h, Len(x)) \in Nat
          <6>1. CASE Len(x) = 1
            BY <6>1 DEF Begin
          <6>2. CASE Len(x) # 1
            <7>1. NumRuns \in Nat /\ first + Len(x) - 1 <= NumRuns /\ first \in 1 .. NumRuns
              BY <1>3, <1>5, RunTypes DEF Maps, NumRuns
            <7>2. first + Len(x) - 1 \in 1 .. NumRuns
              BY <5>2, <5>3, <7>1
            <7>3. From(first + Len(x) - 1) \in Nat
              BY <1>3, <7>2, RunTypes
            <7> QED
              BY <6>2, <7>3 DEF Begin
          <6> QED
            BY <6>1, <6>2
        <5> QED
          BY <5>4, <5>5
      <4>4. PICK e \in Int : e = Begin(first, h, Len(x)) + x[Len(x)].length
        BY <4>3
      <4>5. e >= o + n \/ e >= file.size
        BY <4>1, <4>2, <4>4
      <4> QED
        BY <4>4, <4>5 DEF Reaches
    <3> QED
      BY <3>1, <3>2
  <2>3. h \in Positions
    BY <1>3, <1>4, PageFacts
  <2>4. \A c \in io'.cuts : c < NumBytes
    BY <1>1, <1>10, ReadFacts
  <2>5. k + h - h = k /\ h <= h /\ h + left <= h + l /\ (h + left = h + l \/ left = bytes)
    BY <1>8
  <2>6. Begin(first, h, 1) = h
    BY DEF Begin
  <2>7. PICK y, w : y = x /\ w = v
    OBVIOUS
  <2>8. /\ UNCHANGED <<file, fill>> /\ fill.active /\ io' \in Reads /\ io'.active
        /\ \A c \in io'.cuts : c < NumBytes
        /\ io'.pos <= NumBytes /\ NumBytes - io'.pos <= io'.bytesLeft /\ io'.fileLeft <= io'.bytesLeft
        /\ h = fill.offset + io'.pos /\ RightUpto(h)'
        /\ first \in 1 .. Len(file.runs) /\ h \in Positions
        /\ y = io'.extents /\ w = io'.overflow /\ io'.index \in 1 .. Len(y)
        /\ Maps(y, w, first, h) /\ Reaches(y, w, first, h, fill.offset + NumBytes)
        /\ h = Begin(first, h, io'.index)
        /\ h + io'.fileLeft <= h + y[io'.index].length
        /\ h + io'.fileLeft = h + y[io'.index].length \/ io'.fileLeft = io'.bytesLeft
        /\ io'.fileLeft > 0 => h <= h /\ io'.disk = y[io'.index].disk + h - h
    BY <1>1, <1>2, <1>3, <1>5, <1>7, <1>8, <1>10, <2>1, <2>2, <2>3, <2>4, <2>5, <2>6, <2>7
  <2> QED
    BY ONLY <2>8, ReadInvFrom, SMTT(60)
<1> QED
  BY <1>11, <1>12, <1>13 DEF IInv

-----------------------------------------------------------------------------
(* The end of a chunk.                                                     *)

\* The chunk is right: the vectors are full, or the file has ended.
LEMMA DoneIsRight ==
  ASSUME IInv, ChunkDone
  PROVE  fill.active /\ io.active /\ RightUpto(fill.offset + NumBytes)
<1>1. fill.active /\ io.active /\ io.finished \in BOOLEAN
  BY DEF ChunkDone, IInv, ReadInv
<1>2. CASE io.finished
  BY <1>1, <1>2 DEF IInv, ReadInv
<1>3. CASE ~ io.finished
  <2>1. Reading /\ io.fileLeft = 0 /\ io.index = Len(io.extents) /\ ~ io.overflow
    BY <1>1, <1>3 DEF ChunkDone, LastExtent
  <2>2. PICK h \in Nat, pos \in Nat : h = Here /\ pos = io.pos /\ h = fill.offset + pos
    BY <2>1, ReadFacts
  <2>3. PICK o \in Nat, n \in Nat \ {0}, z \in Nat \ {0} : o = fill.offset /\ n = NumBytes /\ z = file.size
    BY <2>1, ReadFacts
  <2>4. PICK b \in Nat, l \in Nat :
          /\ h = b + l \/ io.bytesLeft = 0
          /\ b + l >= o + n \/ b + l >= z
    <3>1. PICK first \in 1 .. Len(file.runs), base \in Positions, b \in Nat :
              /\ Reaches(io.extents, io.overflow, first, base, fill.offset + NumBytes)
              /\ b = Begin(first, base, io.index)
              /\ Here + io.fileLeft = b + io.extents[io.index].length \/ io.fileLeft = io.bytesLeft
      BY <2>1, ReadFacts
    <3>2. PICK l \in Nat : l = io.extents[io.index].length
      BY <2>1, ReadFacts
    <3>3. h + 0 = h
      OBVIOUS
    <3>4. h = b + l \/ io.bytesLeft = 0
      BY <2>1, <2>2, <3>1, <3>2, <3>3
    <3>5. b + l >= o + n \/ b + l >= z
      BY <2>1, <2>3, <3>1, <3>2 DEF Reaches
    <3> QED
      BY <3>4, <3>5
  <2>5. h >= o + n \/ h >= z
    <3>1. CASE h = b + l
      BY <2>4, <3>1
    <3>2. CASE io.bytesLeft = 0
      <4>1. n - pos <= 0
        BY <2>1, <2>2, <2>3, <3>2, ReadFacts
      <4> QED
        BY <2>2, <2>3, <4>1
    <3> QED
      BY <2>4, <3>1, <3>2
  <2>6. RightUpto(h)
    BY <2>1, <2>2, ReadFacts
  <2>7. RightUpto(o + n)
    <3>1. ASSUME NEW p \in Positions, o <= p, p < o + n, p < z PROVE p < h
      <4>1. p \in Nat
        BY PageFacts
      <4> QED
        BY <2>5, <3>1, <4>1
    <3> QED
      BY <2>3, <2>6, <3>1 DEF RightUpto
  <2> QED
    BY <1>1, <2>3, <2>7
<1> QED
  BY <1>1, <1>2, <1>3

\* The copy, in numbers.
LEMMA CopyFacts ==
  ASSUME IInv, ChunkDone
  PROVE  /\ fill.offset \in Nat /\ NumBytes \in Nat /\ fill.size \in Nat /\ fill.skip \in Nat
         /\ fill.buffer \in Nat /\ fill.left \in Nat
         /\ call.size \in Nat /\ call.offset \in Nat /\ call.at \in Nat /\ PageSize \in Nat
         /\ 0 < PageSize /\ fill.skip < PageSize /\ PageSize <= NumBytes /\ NumBytes <= fill.size
         /\ call.offset + call.size <= file.size /\ call.at < call.offset + call.size
         /\ fill.offset + NumBytes <= FilePages * PageSize
         /\ NumBytes < fill.size => /\ NumBytes = Chunk /\ NumBytes + PageSize <= fill.size
                                    /\ fill.offset + NumBytes < FilePages * PageSize
                                    /\ (fill.size - NumBytes) % PageSize = 0
         /\ (fill.offset + NumBytes) % PageSize = 0
         /\ fill.left <= call.size /\ (fill.left > 0 => fill.buffer + fill.left <= call.size)
         /\ \/ fill.offset + fill.size = call.at /\ pages[call.at] > 0
            \/ /\ fill.offset + fill.size = call.at + PageSize
               /\ call.offset + call.size <= fill.offset + fill.size
<1>1. fill.active /\ io.active /\ call.active /\ Types /\ CallInv /\ FillInv /\ file \in Layouts
  BY DoneIsRight DEF IInv, FillInv, Types
<1>2. call \in Calls /\ fill \in Fills
  BY <1>1, FillFacts
<1>3. PICK d \in Size, q \in Nat : d = PageSize /\ q = FilePages * PageSize /\ q % d = 0
  BY PageFacts
<1>4. PICK o \in Nat, n \in Nat \ {0}, m \in Nat \ {0} :
        /\ o = fill.offset /\ n = NumBytes /\ m = fill.size /\ n <= m /\ o % d = 0 /\ n % d = 0 /\ m % d = 0
        /\ n < m => n = Chunk
  <2>1. fill.size % d = 0
    BY <1>1, <1>3 DEF FillInv
  <2> QED
    BY <1>1, <1>3, <2>1, FillFacts
<1>5. PICK k \in Nat, w \in Nat, left \in Nat, s \in Nat, c \in Nat, at \in Nat :
        /\ k = fill.skip /\ w = fill.buffer /\ left = fill.left /\ s = call.size /\ c = call.offset /\ at = call.at
        /\ at % d = 0
  BY <1>2, <1>3, PageFacts DEF Calls, Fills
<1>6. /\ k < d /\ c + s <= file.size /\ at < c + s /\ left <= s /\ (left > 0 => w + left <= s)
      /\ (o + m = at /\ pages[at] > 0) \/ (o + m = at + d /\ c + s <= o + m)
  BY <1>1, <1>3, <1>4, <1>5 DEF CallInv, FillInv, FillEnd
<1>7. n >= d /\ (m > n => n + d <= m /\ (m - n) % d = 0)
  <2>1. 0 \in Nat /\ 0 % d = 0
    <3>1. 0 = 0 * d
      BY DEF Size
    <3> QED
      BY <3>1, MultipleIs
  <2>2. n > 0 => n - 0 >= d
    BY <1>4, <2>1, MultiplesAdd
  <2>3. m > n => n + d <= m
    BY <1>4, MultiplesAdd
  <2>4. m >= n => (m - n) % d = 0
    BY <1>4, MultiplesAdd
  <2> QED
    BY <1>4, <2>2, <2>3, <2>4 DEF Size
<1>8. o + m <= q
  <2>1. at + d <= q
    <3>1. at < q
      BY <1>2, <1>3, <1>5, PageFacts DEF Calls
    <3>2. q > at => at + d <= q
      BY <1>3, <1>5, MultiplesAdd
    <3> QED
      BY <3>1, <3>2
  <2> QED
    BY <1>6, <2>1 DEF Size
<1>9. o + n <= q /\ (n < m => o + n < q) /\ (o + n) % d = 0
  <2>1. d \in Size /\ o \in Nat /\ n \in Nat /\ o % d = 0 /\ n % d = 0
    BY <1>4
  <2>2. (o + n) % d = 0
    BY ONLY <2>1, MultiplesAdd
  <2>3. o + n <= q /\ (n < m => o + n < q)
    BY <1>4, <1>8
  <2> QED
    BY <2>2, <2>3
<1>10. d \in Nat /\ n \in Nat /\ m \in Nat /\ 0 < d /\ d <= n
  BY <1>7 DEF Size
<1> QED
  BY <1>3, <1>4, <1>5, <1>6, <1>7, <1>9, <1>10

\* The buffer after it: the bytes of the chunk that are asked for.
LEMMA CopiedIs ==
  ASSUME IInv, ChunkDone
  PROVE  /\ Copied \in [0 .. BufferSize - 1 -> Nat \cup {Garbage}]
         /\ \A x \in 0 .. BufferSize - 1 :
              /\ x < fill.buffer => Copied[x] = user[x]
              /\ x >= call.size => Copied[x] = user[x]
              /\ failures = 0 /\ fill.buffer <= x /\ x < fill.buffer + fill.left
                 /\ x < fill.buffer + (NumBytes - fill.skip) /\ fill.offset + fill.skip + (x - fill.buffer) < file.size
                   => Copied[x] = OnDisk(fill.offset + fill.skip + (x - fill.buffer))
<1>1. PICK o \in Nat, n \in Nat, k \in Nat, w \in Nat, left \in Nat, s \in Nat :
        /\ o = fill.offset /\ n = NumBytes /\ k = fill.skip /\ w = fill.buffer /\ left = fill.left /\ s = call.size
        /\ k < n /\ o + n <= FilePages * PageSize /\ left <= s /\ (left > 0 => w + left <= s)
  <2>1. /\ fill.offset \in Nat /\ NumBytes \in Nat /\ fill.skip \in Nat /\ fill.buffer \in Nat /\ fill.left \in Nat
        /\ call.size \in Nat /\ PageSize \in Nat /\ fill.skip < PageSize /\ PageSize <= NumBytes
    BY CopyFacts
  <2>2. fill.skip < NumBytes
    BY <2>1
  <2>3. /\ fill.offset + NumBytes <= FilePages * PageSize
        /\ fill.left <= call.size /\ (fill.left > 0 => fill.buffer + fill.left <= call.size)
    BY CopyFacts
  <2> QED
    BY <2>1, <2>2, <2>3
<1>2. PICK bytes \in Nat : bytes = Smaller(left, n - k) /\ bytes <= left /\ bytes <= n - k /\ (bytes = left \/ bytes = n - k)
  <2>1. /\ Smaller(left, n - k) \in Nat /\ Smaller(left, n - k) <= left /\ Smaller(left, n - k) <= n - k
        /\ (Smaller(left, n - k) = left \/ Smaller(left, n - k) = n - k)
    BY <1>1 DEF Smaller
  <2> QED
    BY <2>1
<1>3. DOMAIN user = 0 .. BufferSize - 1 /\ BufferSize \in Nat /\ user \in [0 .. BufferSize - 1 -> Nat \cup {Garbage}]
      /\ memory \in [Positions -> Nat \cup {Garbage}]
  BY SizesAssumption DEF IInv, Types
<1>4. Copied = [x \in 0 .. BufferSize - 1 |->
                  IF 0 <= x - w /\ x - w < bytes THEN memory[o + k + (x - w)] ELSE user[x]]
  BY <1>1, <1>2, <1>3 DEF Copied
<1>5. RightUpto(o + n)
  BY <1>1, DoneIsRight
<1>6. ASSUME NEW x \in 0 .. BufferSize - 1
      PROVE  /\ Copied[x] \in Nat \cup {Garbage}
             /\ x < w => Copied[x] = user[x]
             /\ x >= s => Copied[x] = user[x]
             /\ failures = 0 /\ w <= x /\ x < w + left /\ x < w + (n - k) /\ o + k + (x - w) < file.size
                   => Copied[x] = OnDisk(o + k + (x - w))
  <2>1. Copied[x] = IF 0 <= x - w /\ x - w < bytes THEN memory[o + k + (x - w)] ELSE user[x]
    BY <1>4
  <2>2. x \in Nat /\ user[x] \in Nat \cup {Garbage}
    BY <1>3
  <2>3. 0 <= x - w /\ x - w < bytes <=> w <= x /\ x < w + bytes
    BY <2>2
  <2>4. CASE w <= x /\ x < w + bytes
    <3>1. PICK p \in Nat : p = o + k + (x - w) /\ p < o + n /\ o <= p
      <4>1. o + k + (x - w) \in Nat /\ o + k + (x - w) < o + n /\ o <= o + k + (x - w)
        BY <1>1, <1>2, <2>2, <2>4
      <4> QED
        BY <4>1
    <3>2. p \in Positions
      <4>1. PICK q \in Nat : q = FilePages * PageSize
        BY PageFacts
      <4>2. p < q
        BY <1>1, <3>1, <4>1
      <4> QED
        BY <4>1, <4>2, PageFacts
    <3>3. Copied[x] = memory[p]
      BY <2>1, <2>3, <2>4, <3>1
    <3>4. x < s
      BY <1>1, <1>2, <2>2, <2>4
    <3>5. failures = 0 /\ p < file.size => memory[p] = OnDisk(p)
      BY <1>1, <1>5, <3>1, <3>2 DEF RightUpto
    <3>6. memory[p] \in Nat \cup {Garbage}
      BY <1>3, <3>2
    <3>7. ~ (x < w) /\ ~ (x >= s)
      BY <2>2, <2>4, <3>4
    <3> QED
      BY <3>1, <3>3, <3>5, <3>6, <3>7
  <2>5. CASE ~ (w <= x /\ x < w + bytes)
    <3>1. Copied[x] = user[x]
      BY <2>1, <2>3, <2>5
    <3>2. ~ (w <= x /\ x < w + left /\ x < w + (n - k))
      BY <1>1, <1>2, <2>2, <2>5
    <3> QED
      BY <2>2, <3>1, <3>2
  <2> QED
    BY <2>4, <2>5
<1>7. Copied \in [0 .. BufferSize - 1 -> Nat \cup {Garbage}]
  BY <1>4, <1>6
<1> QED
  BY <1>1, <1>6, <1>7

LEMMA FinishKeeps ==
  ASSUME IInv, FinishChunk
  PROVE  IInv'
<1>1. /\ ChunkDone /\ user' = Copied /\ io' = [active |-> FALSE]
      /\ UNCHANGED <<file, pages, memory, failures>>
      /\ fill.active /\ io.active /\ call.active /\ call.done = 0 /\ call \in Calls /\ fill \in Fills
  <2>1. ChunkDone /\ user' = Copied /\ io' = [active |-> FALSE] /\ UNCHANGED <<file, pages, memory, failures>>
    BY DEF FinishChunk, None
  <2>2. fill.active /\ io.active
    BY <2>1, DoneIsRight
  <2> QED
    BY <2>1, <2>2, FillFacts DEF IInv, FillInv
<1>2. RightUpto(fill.offset + NumBytes)
  BY <1>1, DoneIsRight
<1>3. PICK o \in Nat, n \in Nat, m \in Nat, k \in Nat :
        o = fill.offset /\ n = NumBytes /\ m = fill.size /\ k = fill.skip
  BY <1>1, CopyFacts
<1>4. PICK w \in Nat, left \in Nat, s \in Nat, c \in Nat :
        w = fill.buffer /\ left = fill.left /\ s = call.size /\ c = call.offset
  BY <1>1, CopyFacts
<1>5. PICK at \in Nat, d \in Nat, z \in Nat : at = call.at /\ d = PageSize /\ z = file.size
  BY <1>1, CopyFacts, RunTypes DEF IInv, Types
<1>6. /\ 0 < d /\ k < d /\ d <= n /\ n <= m /\ c + s <= z /\ at < c + s
      /\ o + n <= FilePages * PageSize
      /\ n < m => n = Chunk /\ n + d <= m /\ o + n < FilePages * PageSize /\ (m - n) % d = 0
      /\ (o + n) % d = 0
      /\ left <= s /\ (left > 0 => w + left <= s)
      /\ (o + m = at /\ pages[at] > 0) \/ (o + m = at + d /\ c + s <= o + m)
  BY <1>1, <1>3, <1>4, <1>5, CopyFacts
<1>7. /\ user' \in [0 .. BufferSize - 1 -> Nat \cup {Garbage}]
      /\ \A x \in 0 .. BufferSize - 1 :
           /\ x < w => user'[x] = user[x]
           /\ x >= s => user'[x] = user[x]
           /\ failures = 0 /\ w <= x /\ x < w + left /\ x < w + (n - k) /\ o + k + (x - w) < z
                => user'[x] = OnDisk(o + k + (x - w))
  BY <1>1, <1>3, <1>4, <1>5, CopiedIs
<1>8. /\ DOMAIN user = 0 .. BufferSize - 1 /\ DOMAIN user' = 0 .. BufferSize - 1
      /\ BufferSize \in Nat /\ s <= BufferSize
  <2>1. user \in [0 .. BufferSize - 1 -> Nat \cup {Garbage}] /\ call.size <= BufferSize
    BY DEF IInv, Types
  <2> QED
    BY <1>4, <1>7, <2>1, SizesAssumption
\* Nothing is written behind the request.
<1>9. \A x \in DOMAIN user' : x >= s => user'[x] = Garbage
  <2>1. \A x \in DOMAIN user : x >= call.size => user[x] = Garbage
    BY DEF IInv, PlainReadsRight
  <2> QED
    BY <1>4, <1>7, <1>8, <2>1
<1>10. ReadInv' /\ io'.active = FALSE
  BY <1>1 DEF ReadInv
<1>11. MemoryInv'
  <2>1. SUFFICES ASSUME failures = 0, NEW p \in Positions, p < file.size, pages[Aligned(p, PageSize)] > 0
                 PROVE  memory[p] = OnDisk(p)
    BY <1>1, <1>10 DEF MemoryInv, OnDisk, FindBlockRun
  <2>2. CASE InChunk(p)
    BY <1>2, <2>1, <2>2 DEF RightUpto, InChunk
  <2>3. CASE ~ InChunk(p)
    BY <2>1, <2>3 DEF IInv, MemoryInv
  <2> QED
    BY <2>2, <2>3
\* What a plain read has when the chunk is copied.
<1>12. ASSUME failures = 0, Plain, o + m = at + d
       PROVE  /\ w + left = s /\ c + w = o + k
              /\ k # 0 => m <= Chunk
              /\ \A x \in 0 .. s - 1 : x < w + (n - k) => user'[x] = OnDisk(c + x)
  <2>1. fill.active /\ FillEnd = call.at + PageSize
    BY <1>1, <1>3, <1>5, <1>12 DEF FillEnd
  <2>2. /\ w + left = s /\ c + w = o + k /\ (k # 0 => m <= Chunk)
        /\ \A x \in 0 .. s - 1 : x < w => user[x] = OnDisk(c + x)
    BY <1>3, <1>4, <1>12, <2>1 DEF IInv, PlainInv
  <2>3. ASSUME NEW x \in 0 .. s - 1, x < w + (n - k)
        PROVE  user'[x] = OnDisk(c + x)
    <3>1. x \in 0 .. BufferSize - 1 /\ x \in Nat /\ x < s
      BY <1>8
    <3>2. CASE x < w
      BY <1>7, <2>2, <3>1, <3>2
    <3>3. CASE w <= x
      <4>1. o + k + (x - w) = c + x /\ c + x < z /\ x < w + left
        BY <1>6, <2>2, <3>1, <3>3
      <4> QED
        BY <1>7, <1>12, <2>3, <3>1, <3>3, <4>1
    <3> QED
      BY <3>1, <3>2, <3>3
  <2> QED
    BY <2>2, <2>3
<1>13. \A x \in Nat : OnDisk(x)' = OnDisk(x)
  BY <1>1 DEF OnDisk, FindBlockRun
<1>14. CASE m > n
  <2>1. PICK left2 \in Nat : left2 = (IF n >= left THEN 0 ELSE left - (n - k)) /\ left2 <= left
    <3>1. (IF n >= left THEN 0 ELSE left - (n - k)) \in Nat /\ (IF n >= left THEN 0 ELSE left - (n - k)) <= left
      BY <1>6
    <3> QED
      BY <3>1
  <2>2. PICK w2 \in Nat, o2 \in Nat, m2 \in Nat \ {0} : w2 = w + (n - k) /\ o2 = o + n /\ m2 = m - n
    <3>1. w + (n - k) \in Nat /\ o + n \in Nat /\ m - n \in Nat \ {0}
      BY <1>6, <1>14
    <3> QED
      BY <3>1
  <2>3. /\ fill' = [fill EXCEPT !.offset = o2, !.size = m2, !.skip = 0, !.left = left2, !.buffer = w2]
        /\ UNCHANGED call
    <3>1. fill.size > NumBytes
      BY <1>3, <1>14
    <3>2. fill' = AfterChunk /\ UNCHANGED call
      BY <3>1 DEF FinishChunk
    <3> QED
      BY <1>3, <1>4, <2>1, <2>2, <3>2 DEF AfterChunk
  <2>4. o2 \in PageOffsets /\ m2 % d = 0
    <3>1. o2 < FilePages * PageSize /\ o2 % PageSize = 0
      BY <1>5, <1>6, <1>14, <2>2
    <3> QED
      BY <1>6, <1>14, <2>2, <3>1, PageFacts
  <2>5. /\ fill' \in Fills /\ fill'.active = TRUE /\ fill'.offset = o2 /\ fill'.size = m2 /\ fill'.skip = 0
        /\ fill'.left = left2 /\ fill'.buffer = w2
    BY <1>1, <2>3, <2>4 DEF Fills
  <2>6. Types'
    BY <1>1, <1>7, <1>10, <2>3, <2>5 DEF IInv, Types
  <2>7. CallInv'
    BY <1>1, <2>3, <2>5 DEF IInv, CallInv
  <2>8. FillEnd' = FillEnd /\ FillEnd = o + m
    BY <1>3, <2>2, <2>5 DEF FillEnd
  <2>9. FillInv'
    <3>1. NotRead(o2, o + m)'
      <4>1. NotRead(o + n, FillEnd)
        BY <1>1, <1>3 DEF IInv, FillInv
      <4> QED
        BY <1>1, <2>2, <2>8, <4>1 DEF NotRead
    <3>2. NotRead(fill.offset + (IF io.active THEN NumBytes ELSE 0), FillEnd)'
      <4>1. fill'.offset + (IF io'.active THEN NumBytes' ELSE 0) = o2
        BY <1>10, <2>5
      <4> QED
        BY <2>8, <3>1, <4>1
    <3>3. left2 > 0 => w2 + left2 <= s
      BY <1>6, <2>1, <2>2
    <3>4. left2 <= s
      BY <1>6, <2>1
    <3>5. \/ FillEnd' = call'.at /\ pages'[call'.at] > 0
          \/ FillEnd' = call'.at + PageSize /\ call'.offset + call'.size <= FillEnd'
      BY <1>1, <1>4, <1>5, <1>6, <2>3, <2>8
    <3>6. call'.active /\ call'.done = 0 /\ fill'.size % PageSize = 0 /\ fill'.skip < PageSize
      BY <1>1, <1>5, <1>6, <2>3, <2>4, <2>5
    <3> QED
      BY <1>4, <2>3, <2>5, <3>2, <3>3, <3>4, <3>5, <3>6 DEF FillInv
  <2>10. PlainInv'
    <3>1. SUFFICES ASSUME failures = 0, Plain', FillEnd' = call'.at + PageSize
                   PROVE  /\ w2 + left2 = s /\ c + w2 = o2 + 0
                          /\ \A x \in 0 .. s - 1 : x < w2 => user'[x] = OnDisk(c + x)'
      BY <1>1, <1>4, <2>3, <2>5 DEF PlainInv
    <3>2. Plain /\ o + m = at + d
      BY <1>5, <2>3, <2>8, <3>1 DEF Plain
    <3>3. /\ w + left = s /\ c + w = o + k /\ (k # 0 => m <= Chunk)
          /\ \A x \in 0 .. s - 1 : x < w + (n - k) => user'[x] = OnDisk(c + x)
      BY <1>12, <3>1, <3>2
    <3>4. k = 0
      BY <1>6, <1>14, <3>3
    <3>5. left > n
      BY <1>6, <1>14, <3>2, <3>3, <3>4
    <3>6. w2 + left2 = s /\ c + w2 = o2 + 0
      BY <2>1, <2>2, <3>3, <3>4, <3>5
    <3>7. ASSUME NEW x \in 0 .. s - 1, x < w2 PROVE user'[x] = OnDisk(c + x)'
      BY <1>13, <2>2, <3>3, <3>7
    <3> QED
      BY <3>6, <3>7
  <2>11. PlainReadsRight'
    BY <1>1, <1>4, <1>9, <2>3 DEF PlainReadsRight, Succeeded
  <2> QED
    BY <1>10, <1>11, <2>6, <2>7, <2>9, <2>10, <2>11 DEF IInv
<1>15. CASE ~ (m > n)
  <2>1. m = n /\ o + n = o + m
    BY <1>6, <1>15
  <2>2. /\ fill' = [active |-> FALSE]
        /\ call' = IF pages[call.at] > 0 /\ call.at >= o + n THEN [call EXCEPT !.done = Buffer] ELSE Return(TRUE)
    BY <1>3, <1>15 DEF FinishChunk, None
  <2>3. FillInv' /\ PlainInv'
    BY <2>2 DEF FillInv, PlainInv
  <2>4. CASE o + m = at /\ pages[at] > 0
    <3>1. call' = [call EXCEPT !.done = Buffer]
      <4>1. pages[call.at] > 0 /\ call.at >= o + n
        BY <1>5, <2>1, <2>4
      <4> QED
        BY <2>2, <4>1
    <3>2. Buffer \in Nat
      BY <1>1, WalkFacts DEF IInv
    <3>3. /\ call' \in Calls /\ call'.active = TRUE /\ call'.offset = c /\ call'.size = s /\ call'.at = at
          /\ call'.done = Buffer
      BY <1>1, <1>4, <1>5, <3>1, <3>2 DEF Calls
    <3>4. Buffer' = Buffer
      BY <1>4, <1>5, <3>3 DEF Buffer
    <3>5. CallInv'
      BY <1>1, <1>4, <1>5, <2>2, <2>4, <3>3, <3>4 DEF IInv, CallInv
    <3>6. Types'
      BY <1>1, <1>4, <1>7, <1>8, <1>10, <2>2, <3>3 DEF IInv, Types
    <3>7. PlainReadsRight'
      BY <1>1, <1>9, <3>3 DEF PlainReadsRight, Succeeded
    <3> QED
      BY <1>10, <1>11, <2>3, <3>5, <3>6, <3>7 DEF IInv
  <2>5. CASE o + m = at + d /\ c + s <= o + m
    <3>1. call' = [active |-> FALSE, offset |-> c, size |-> s, ok |-> TRUE]
      <4>1. ~ (at >= o + n)
        BY <1>6, <2>1, <2>5
      <4> QED
        BY <1>4, <1>5, <2>2, <4>1 DEF Return, Returned
    <3>2. CallInv'
      BY <3>1 DEF CallInv
    <3>3. Types'
      <4>1. call'.active = FALSE /\ call'.size = s
        BY <3>1
      <4>2. fill'.active = FALSE
        BY <2>2
      <4> QED
        BY <1>1, <1>7, <1>8, <1>10, <4>1, <4>2 DEF IInv, Types
    <3>4. ASSUME Plain', failures' = 0 PROVE BufferRight'
      <4>1. Plain /\ failures = 0
        BY <1>1, <1>4, <3>1, <3>4 DEF Plain
      <4>2. /\ c + w = o + k
            /\ \A x \in 0 .. s - 1 : x < w + (n - k) => user'[x] = OnDisk(c + x)
        BY <1>12, <2>5, <4>1
      <4>3. ASSUME NEW x \in 0 .. s - 1 PROVE user'[x] = OnDisk(c + x)'
        <5>1. x \in Nat /\ x < s
          OBVIOUS
        <5>2. x < w + (n - k)
          BY <1>6, <2>1, <2>5, <4>2, <5>1
        <5> QED
          BY <1>13, <4>2, <5>1, <5>2
      <4> QED
        BY <3>1, <4>3 DEF BufferRight
    <3>5. PlainReadsRight'
      BY <1>9, <3>1, <3>4 DEF PlainReadsRight
    <3> QED
      BY <1>10, <1>11, <2>3, <3>2, <3>3, <3>5 DEF IInv
  <2> QED
    BY <1>6, <2>4, <2>5
<1> QED
  BY <1>14, <1>15

-----------------------------------------------------------------------------
(* The theorems.                                                           *)

LEMMA NextKeepsInv == IInv /\ [Next]_vars => IInv'
<1> SUFFICES ASSUME IInv, [Next]_vars PROVE IInv'
  OBVIOUS
<1>1. CASE \E r \in Requests : Read(r[1], r[2])
  BY <1>1, ReadKeeps
<1>2. CASE SkipPage
  BY <1>2, SkipKeeps
<1>3. CASE ReadRest
  BY <1>3, ReadRestKeeps
<1>4. CASE ReadGap
  BY <1>4, ReadGapKeeps
<1>5. CASE Sleep
  BY <1>5, StutterKeeps DEF Sleep
<1>6. CASE StartChunk
  BY <1>6, StartKeeps
<1>7. CASE StartChunkFails
  BY <1>7, StartFailsKeeps
<1>8. CASE MapFails
  BY <1>8, MapFailsKeeps
<1>9. CASE NextExtent
  BY <1>9, NextKeeps
<1>10. CASE ReadExtent
  BY <1>10, ReadExtentKeeps
<1>11. CASE ReadExtentFails
  BY <1>11, ReadFailsKeeps
<1>12. CASE Remap
  BY <1>12, RemapKeeps
<1>13. CASE FinishChunk
  BY <1>13, FinishKeeps
<1>14. CASE UNCHANGED vars
  BY <1>14, StutterKeeps
<1> QED
  BY <1>1, <1>2, <1>3, <1>4, <1>5, <1>6, <1>7, <1>8, <1>9, <1>10, <1>11, <1>12, <1>13, <1>14 DEF Next, Step

LEMMA TypesFollow == IInv => TypeOK
<1> SUFFICES ASSUME IInv PROVE TypeOK
  OBVIOUS
<1>1. /\ pages \in [PageOffsets -> Nat] /\ memory \in [Positions -> Nat \cup {Garbage}]
      /\ user \in [0 .. BufferSize - 1 -> Nat \cup {Garbage}]
  BY DEF IInv, Types
<1>2. ASSUME call.active PROVE call.at \in PageOffsets /\ call.done \in 0 .. call.size
  <2>1. PICK o \in Nat, s \in Nat, a \in Nat :
          /\ o = call.offset /\ s = call.size /\ a = call.at /\ a < o + s
          /\ Buffer = (IF a >= o THEN a - o ELSE 0) /\ call \in Calls
    BY <1>2, WalkFacts DEF IInv
  <2>2. call.done = 0 \/ call.done = Buffer
    BY <1>2 DEF IInv, CallInv
  <2>3. 0 \in 0 .. s /\ Buffer \in 0 .. s
    BY <2>1
  <2> QED
    BY <2>1, <2>2, <2>3 DEF Calls
<1>3. ASSUME fill.active
      PROVE  /\ call.active /\ fill.offset \in PageOffsets /\ fill.left \in 0 .. call.size
             /\ fill.size \in Nat \ {0} /\ fill.size % PageSize = 0
  <2>1. /\ call.active /\ call \in Calls /\ fill \in Fills /\ fill.left <= call.size /\ fill.size % PageSize = 0
    BY <1>3 DEF IInv, FillInv, CallInv
  <2>2. fill.left \in Nat /\ call.size \in Nat
    BY <2>1 DEF Calls, Fills
  <2> QED
    BY <2>1, <2>2 DEF Fills
<1>4. ASSUME Reading
      PROVE  fill.active /\ io.pos \in 0 .. NumBytes /\ io.fileLeft \in 0 .. io.bytesLeft
  <2>1. PICK pos \in Nat, left \in Nat, bytes \in Nat, n \in Nat :
          pos = io.pos /\ left = io.fileLeft /\ bytes = io.bytesLeft /\ n = NumBytes /\ pos <= n /\ left <= bytes
    <3>1. PICK pos \in Nat, left \in Nat, bytes \in Nat, k \in Nat, h \in Nat :
            /\ pos = io.pos /\ left = io.fileLeft /\ bytes = io.bytesLeft /\ k = io.disk
            /\ h = Here /\ h = fill.offset + pos
      BY <1>4, ReadFacts
    <3>2. PICK o \in Nat, n \in Nat \ {0}, z \in Nat \ {0} : o = fill.offset /\ n = NumBytes /\ z = file.size
      BY <1>4, ReadFacts
    <3>3. io.pos <= NumBytes /\ io.fileLeft <= io.bytesLeft
      BY <1>4, ReadFacts
    <3> QED
      BY <3>1, <3>2, <3>3
  <2>2. pos \in 0 .. n /\ left \in 0 .. bytes
    BY <2>1
  <2>3. fill.active
    BY <1>4, ReadFacts
  <2> QED
    BY <2>1, <2>2, <2>3
<1> QED
  BY <1>1, <1>2, <1>3, <1>4 DEF TypeOK

\* Whatever is read, the pages that stay for later reads hold the bytes of the
\* file, and there is one page for an offset.
THEOREM KeptPagesHoldTheFile == Spec => []PagesHoldTheFile
<1>1. IInv => PagesHoldTheFile
  BY TypesFollow DEF PagesHoldTheFile, IInv, Types, MemoryInv
<1> QED
  BY <1>1, InitInv, NextKeepsInv, PTL DEF Spec

\* A plain read that returns B_OK returns the bytes of the file, and no read
\* writes behind what was asked for.
THEOREM PlainReadsAreRight == Spec => []PlainReadsRight
<1>1. IInv => PlainReadsRight
  BY DEF IInv
<1> QED
  BY <1>1, InitInv, NextKeepsInv, PTL DEF Spec

=============================================================================
