-------------------------- MODULE AttributesProofs --------------------------
(***************************************************************************)
(* What the writes, the removals and the iterations of Attributes keep,    *)
(* for any names, data and sizes.                                          *)
(*                                                                         *)
(* The lemmas go from the inside out: the items of the small_data section, *)
(* the attribute files, the writes and removals of one attribute (what     *)
(* each changes, then that it keeps Placed and the values of the others),  *)
(* the rounds of Free, and last the invariant Inv and its actions.         *)
(***************************************************************************)
EXTENDS Attributes, InductionLemmas, SequenceTheorems, TLAPS

Byte == 0 .. 255
Bytes == Seq(Byte)
Item == [name : Name \cup {NameTag}, data : Bytes]

-----------------------------------------------------------------------------
(* How much of the section is used.                                        *)

LEMMA SizeIs ==
  ASSUME NEW x \in Item
  PROVE  Size(x) \in Nat
<1>1. x.data \in Bytes
  BY DEF Item
<1>2. Len(x.data) \in Nat
  BY <1>1, LenProperties DEF Bytes
<1> QED
  BY <1>2, AttributesAssumption DEF Size

\* The sums of the sizes of the first items.
Sums(s, f) ==
  f \in [0 .. Len(s) -> Nat] /\ f[0] = 0 /\ \A i \in 1 .. Len(s) : f[i] = f[i - 1] + Size(s[i])

LEMMA UsedIsSum ==
  ASSUME NEW s \in Seq(Item)
  PROVE  \E f : Sums(s, f) /\ Used(s) = f[Len(s)]
<1>1. PICK n \in Nat : n = Len(s)
  BY LenProperties
<1>2. \A i \in 1 .. n : Size(s[i]) \in Nat
  BY <1>1, SizeIs, ElementOfSeq
<1> DEFINE H == [k \in 1 .. n |-> [v \in Nat |-> v + Size(s[k])]]
           Sum(f) == f = [i \in 0 .. n |-> IF i = 0 THEN 0 ELSE f[i - 1] + Size(s[i])]
           sum == CHOOSE sum : sum = [i \in 0 .. Len(s) |-> IF i = 0 THEN 0 ELSE sum[i - 1] + Size(s[i])]
<1>3. PICK f : Stepwise(n, Nat, 0, H, f)
  <2>1. Stays(n, Nat, H)
    BY <1>2 DEF Stays
  <2> HIDE DEF H
  <2> QED
    BY <2>1, StepwiseExists
<1>4. f \in [0 .. n -> Nat] /\ f[0] = 0 /\ \A i \in 1 .. n : f[i] = f[i - 1] + Size(s[i])
  <2>1. f \in [0 .. n -> Nat] /\ f[0] = 0 /\ \A i \in 1 .. n : f[i] = H[i][f[i - 1]]
    BY <1>3 DEF Stepwise
  <2>2. ASSUME NEW i \in 1 .. n PROVE f[i] = f[i - 1] + Size(s[i])
    <3>1. i - 1 \in 0 .. n
      OBVIOUS
    <3>2. f[i - 1] \in Nat
      BY <2>1, <3>1
    <3> QED
      BY <2>1, <3>2
  <2> QED
    BY <2>1, <2>2
<1>5. Sum(f)
  BY <1>4
<1>6. Sum(sum)
  BY <1>1, <1>5
<1>7. Used(s) = sum[Len(s)]
  BY DEF Used
<1> HIDE DEF sum
<1> DEFINE P == {i \in Nat : i <= n => sum[i] \in Nat}
<1>8. Nat \subseteq P
  <2>1. 0 \in P
    BY <1>6
  <2>2. ASSUME NEW i \in Nat, i \in P PROVE i + 1 \in P
    <3> SUFFICES ASSUME i + 1 <= n PROVE sum[i + 1] \in Nat
      OBVIOUS
    <3>1. i + 1 \in 1 .. n /\ (i + 1) - 1 = i /\ sum[i] \in Nat
      BY <2>2
    <3>2. sum[i + 1] = sum[i] + Size(s[i + 1])
      BY <1>6, <3>1
    <3> QED
      BY <1>2, <3>1, <3>2
  <2> HIDE DEF P
  <2> QED
    BY <2>1, <2>2, NumberInduction
<1>9. Sums(s, sum)
  <2>1. \A i \in 0 .. n : sum[i] \in Nat
    BY <1>8
  <2>2. sum \in [0 .. n -> Nat]
    BY <1>6, <2>1
  <2> QED
    BY <1>1, <1>6, <2>2 DEF Sums
<1> QED
  BY <1>7, <1>9

\* The m items behind the first a of t are those behind the first b of s.
Overlap(s, t, a, b, m) ==
  a + m <= Len(t) /\ b + m <= Len(s) /\ \A i \in 1 .. m : t[a + i] = s[b + i]

\* The same items make the same difference.
LEMMA SameSum ==
  ASSUME NEW s \in Seq(Item), NEW t \in Seq(Item), NEW f, NEW g, Sums(s, f), Sums(t, g),
         NEW a \in Nat, NEW b \in Nat, NEW m \in Nat, Overlap(s, t, a, b, m)
  PROVE  g[a + m] - g[a] = f[b + m] - f[b]
<1> USE DEF Overlap
<1>1. PICK k \in Nat, l \in Nat : k = Len(s) /\ l = Len(t)
  BY LenProperties
<1>2. /\ f \in [0 .. k -> Nat] /\ \A i \in 1 .. k : f[i] = f[i - 1] + Size(s[i])
      /\ g \in [0 .. l -> Nat] /\ \A i \in 1 .. l : g[i] = g[i - 1] + Size(t[i])
  BY <1>1 DEF Sums
<1>3. \A i \in 1 .. k : Size(s[i]) \in Nat
  BY <1>1, SizeIs, ElementOfSeq
<1> DEFINE P == {i \in Nat : i <= m => g[a + i] - g[a] = f[b + i] - f[b]}
<1>4. Nat \subseteq P
  <2>1. 0 \in P
    <3>1. a \in 0 .. l /\ b \in 0 .. k
      BY <1>1
    <3>2. g[a] \in Nat /\ f[b] \in Nat
      BY <1>2, <3>1
    <3> QED
      BY <3>2
  <2>2. ASSUME NEW i \in Nat, i \in P PROVE i + 1 \in P
    <3> SUFFICES ASSUME i + 1 <= m PROVE g[a + (i + 1)] - g[a] = f[b + (i + 1)] - f[b]
      OBVIOUS
    <3>1. a + (i + 1) \in 1 .. l /\ b + (i + 1) \in 1 .. k /\ a + i \in 0 .. l /\ b + i \in 0 .. k /\ a \in 0 .. l /\ b \in 0 .. k
      BY <1>1
    <3>2. (a + (i + 1)) - 1 = a + i /\ (b + (i + 1)) - 1 = b + i /\ i + 1 \in 1 .. m
      OBVIOUS
    <3>3. g[a + (i + 1)] = g[a + i] + Size(t[a + (i + 1)])
      BY <1>2, <3>1, <3>2
    <3>4. f[b + (i + 1)] = f[b + i] + Size(s[b + (i + 1)])
      BY <1>2, <3>1, <3>2
    <3>5. t[a + (i + 1)] = s[b + (i + 1)]
      BY <3>2
    <3>6. PICK z \in Nat : z = Size(s[b + (i + 1)])
      BY <1>3, <3>1
    <3>7. g[a + i] \in Nat /\ g[a] \in Nat /\ f[b + i] \in Nat /\ f[b] \in Nat
      BY <1>2, <3>1
    <3>8. PICK p \in Nat, q \in Nat, r \in Nat, u \in Nat : p = g[a + i] /\ q = g[a] /\ r = f[b + i] /\ u = f[b]
      BY ONLY <3>7
    <3>9. p - q = r - u
      BY <2>2, <3>8
    <3>10. g[a + (i + 1)] = p + z /\ f[b + (i + 1)] = r + z
      BY ONLY <3>3, <3>4, <3>5, <3>6, <3>8
    <3>11. (p + z) - q = (r + z) - u
      BY ONLY <3>9, z \in Nat, p \in Nat, q \in Nat, r \in Nat, u \in Nat
    <3> QED
      BY ONLY <3>8, <3>10, <3>11
  <2> HIDE DEF P
  <2> QED
    BY <2>1, <2>2, NumberInduction
<1>5. m \in P
  BY <1>4
<1> QED
  BY <1>5

LEMMA UsedType ==
  ASSUME NEW s \in Seq(Item)
  PROVE  Used(s) \in Nat
<1>1. PICK f : Sums(s, f) /\ Used(s) = f[Len(s)]
  BY UsedIsSum
<1>2. Len(s) \in Nat
  BY LenProperties
<1> QED
  BY <1>1, <1>2 DEF Sums

LEMMA UsedAppend ==
  ASSUME NEW s \in Seq(Item), NEW x \in Item
  PROVE  Used(Append(s, x)) = Used(s) + Size(x)
<1>1. PICK n \in Nat : n = Len(s)
  BY LenProperties
<1>2. PICK t \in Seq(Item) : t = Append(s, x) /\ Len(t) = n + 1 /\ (\A i \in 1 .. n : t[i] = s[i]) /\ t[n + 1] = x
  BY <1>1, AppendProperties
<1>3. PICK f : Sums(s, f) /\ Used(s) = f[n]
  BY <1>1, UsedIsSum
<1>4. PICK g : Sums(t, g) /\ Used(t) = g[n + 1]
  BY <1>2, UsedIsSum
<1>5. g[0 + n] - g[0] = f[0 + n] - f[0]
  <2>1. Overlap(s, t, 0, 0, n)
    BY <1>1, <1>2 DEF Overlap
  <2> QED
    BY ONLY <1>3, <1>4, <2>1, SameSum, 0 \in Nat, n \in Nat, s \in Seq(Item), t \in Seq(Item)
<1>6. f[0] = 0 /\ g[0] = 0 /\ f[n] \in Nat /\ g[n] \in Nat /\ g[n + 1] = g[n] + Size(x)
  <2>1. n + 1 \in 1 .. n + 1 /\ (n + 1) - 1 = n /\ n \in 0 .. n /\ n \in 0 .. n + 1
    OBVIOUS
  <2> QED
    BY <1>1, <1>2, <1>3, <1>4, <2>1 DEF Sums
<1> QED
  BY <1>2, <1>3, <1>4, <1>5, <1>6

\* The item at k is gone, or another one is in its place.
WithoutAt(t, s, k) ==
  /\ Len(t) = Len(s) - 1 /\ \A i \in 1 .. k - 1 : t[i] = s[i]
  /\ \A i \in k .. Len(t) : t[i] = s[i + 1]
WithAt(t, s, k, x) ==
  /\ Len(t) = Len(s) /\ \A i \in 1 .. k - 1 : t[i] = s[i]
  /\ t[k] = x /\ \A i \in k + 1 .. Len(t) : t[i] = s[i]

LEMMA UsedChanged ==
  ASSUME NEW s \in Seq(Item), NEW t \in Seq(Item), NEW k \in 1 .. Len(s), NEW x \in Item,
         NEW gone \in BOOLEAN, IF gone THEN WithoutAt(t, s, k) ELSE WithAt(t, s, k, x)
  PROVE  Used(t) = Used(s) - Size(s[k]) + (IF gone THEN 0 ELSE Size(x))
<1>0. /\ \A i \in 1 .. k - 1 : t[i] = s[i]
      /\ gone => Len(t) = Len(s) - 1 /\ \A i \in k .. Len(t) : t[i] = s[i + 1]
      /\ ~ gone => Len(t) = Len(s) /\ t[k] = x /\ \A i \in k + 1 .. Len(t) : t[i] = s[i]
  BY DEF WithoutAt, WithAt
<1>1. PICK n \in Nat, l \in Nat : n = Len(s) /\ l = Len(t)
  BY LenProperties
<1>2. PICK f : Sums(s, f) /\ Used(s) = f[n]
  BY <1>1, UsedIsSum
<1>3. PICK g : Sums(t, g) /\ Used(t) = g[l]
  BY <1>1, UsedIsSum
<1>4. k \in 1 .. n /\ k \in Nat /\ k - 1 \in Nat
  BY <1>1
<1>5. g[0 + (k - 1)] - g[0] = f[0 + (k - 1)] - f[0]
  <2>1. 0 + (k - 1) <= Len(t) /\ 0 + (k - 1) <= Len(s)
    BY <1>0, <1>1, <1>4
  <2>2. \A i \in 1 .. k - 1 : t[0 + i] = s[0 + i]
    BY <1>0
  <2>3. Overlap(s, t, 0, 0, k - 1)
    BY ONLY <2>1, <2>2 DEF Overlap
  <2> QED
    BY ONLY <1>2, <1>3, <1>4, <2>3, SameSum, 0 \in Nat, s \in Seq(Item), t \in Seq(Item)
<1>6. /\ f[0] = 0 /\ g[0] = 0 /\ f[k - 1] \in Nat /\ f[k] \in Nat /\ f[n] \in Nat /\ f[k] = f[k - 1] + Size(s[k])
      /\ g[k - 1] \in Nat /\ g[l] \in Nat
  <2>1. k - 1 \in 0 .. n /\ k \in 0 .. n /\ n \in 0 .. n /\ l \in 0 .. l /\ k - 1 \in 0 .. l
    BY <1>0, <1>1, <1>4
  <2> QED
    BY <1>1, <1>2, <1>3, <1>4, <2>1 DEF Sums
<1>7. g[k - 1] = f[k - 1]
  BY <1>4, <1>5, <1>6
<1>8. PICK z \in Nat, y \in Nat : z = Size(s[k]) /\ y = Size(x)
  BY SizeIs, ElementOfSeq
<1>9. CASE gone
  <2>1. l = n - 1 /\ \A i \in k .. l : t[i] = s[i + 1]
    BY <1>0, <1>1, <1>9
  <2>2. PICK m \in Nat : m = n - k
    BY <1>4
  <2>3. g[(k - 1) + m] - g[k - 1] = f[k + m] - f[k]
    <3>1. (k - 1) + m <= Len(t) /\ k + m <= Len(s)
      BY <1>1, <1>4, <2>1, <2>2
    <3>2. \A i \in 1 .. m : t[(k - 1) + i] = s[k + i]
      <4> SUFFICES ASSUME NEW i \in 1 .. m PROVE t[(k - 1) + i] = s[k + i]
        OBVIOUS
      <4>1. (k - 1) + i \in k .. l /\ ((k - 1) + i) + 1 = k + i
        BY <1>4, <2>1, <2>2
      <4>2. t[(k - 1) + i] = s[((k - 1) + i) + 1]
        BY ONLY <2>1, <4>1
      <4> QED
        BY ONLY <4>1, <4>2
    <3>3. Overlap(s, t, k - 1, k, m)
      BY ONLY <3>1, <3>2 DEF Overlap
    <3> QED
      BY ONLY <1>2, <1>3, <1>4, <3>3, SameSum, m \in Nat, s \in Seq(Item), t \in Seq(Item)
  <2>4. (k - 1) + m = l /\ k + m = n
    BY <1>4, <2>1, <2>2
  <2>5. g[l] - g[k - 1] = f[n] - f[k]
    BY <2>3, <2>4
  <2>6. PICK p \in Nat, q \in Nat, r \in Nat, u \in Nat : p = g[l] /\ q = f[k - 1] /\ r = f[n] /\ u = f[k]
    BY ONLY <1>6
  <2>7. p - q = r - u /\ u = q + z
    BY ONLY <1>6, <1>7, <1>8, <2>5, <2>6
  <2>8. p = r - z
    BY ONLY <2>7, p \in Nat, q \in Nat, r \in Nat, u \in Nat, z \in Nat
  <2> QED
    BY ONLY <1>2, <1>3, <1>8, <1>9, <2>6, <2>8, p \in Nat, r \in Nat, z \in Nat
<1>10. CASE ~ gone
  <2>1. l = n /\ t[k] = x /\ \A i \in k + 1 .. l : t[i] = s[i]
    BY <1>0, <1>1, <1>10
  <2>2. PICK m \in Nat : m = n - k
    BY <1>4
  <2>3. g[k + m] - g[k] = f[k + m] - f[k]
    <3>1. k + m <= Len(t) /\ k + m <= Len(s)
      BY <1>1, <1>4, <2>1, <2>2
    <3>2. \A i \in 1 .. m : t[k + i] = s[k + i]
      <4> SUFFICES ASSUME NEW i \in 1 .. m PROVE t[k + i] = s[k + i]
        OBVIOUS
      <4>1. k + i \in k + 1 .. l
        BY <1>4, <2>1, <2>2
      <4> QED
        BY ONLY <2>1, <4>1
    <3>3. Overlap(s, t, k, k, m)
      BY ONLY <3>1, <3>2 DEF Overlap
    <3> QED
      BY ONLY <1>2, <1>3, <1>4, <3>3, SameSum, m \in Nat, s \in Seq(Item), t \in Seq(Item)
  <2>4. k + m = n
    BY <1>4, <2>2
  <2>5. g[n] - g[k] = f[n] - f[k]
    BY <2>3, <2>4
  <2>6. g[k] = g[k - 1] + Size(x) /\ g[k] \in Nat
    <3>1. k \in 1 .. l /\ k \in 0 .. l
      BY <1>4, <2>1
    <3>2. g \in [0 .. l -> Nat] /\ \A i \in 1 .. l : g[i] = g[i - 1] + Size(t[i])
      BY ONLY <1>1, <1>3 DEF Sums
    <3> QED
      BY ONLY <2>1, <3>1, <3>2
  <2>7. PICK p \in Nat, q \in Nat, r \in Nat, u \in Nat, v \in Nat :
             p = g[n] /\ q = f[k - 1] /\ r = f[n] /\ u = f[k] /\ v = g[k]
    BY ONLY <1>6, <2>1, <2>6
  <2>8. p - v = r - u /\ u = q + z /\ v = q + y
    BY ONLY <1>6, <1>7, <1>8, <2>5, <2>6, <2>7
  <2>9. p = r - z + y
    BY ONLY <2>8, p \in Nat, q \in Nat, r \in Nat, u \in Nat, v \in Nat, z \in Nat, y \in Nat
  <2> QED
    BY ONLY <1>2, <1>3, <1>8, <1>10, <2>1, <2>7, <2>9, p \in Nat, r \in Nat, z \in Nat, y \in Nat
<1> QED
  BY <1>9, <1>10

LEMMA UsedWithout ==
  ASSUME NEW s \in Seq(Item), NEW t \in Seq(Item), NEW k \in 1 .. Len(s), WithoutAt(t, s, k)
  PROVE  Used(t) = Used(s) - Size(s[k])
<1>1. s[k] \in Item
  BY ElementOfSeq
<1>2. Used(t) = Used(s) - Size(s[k]) + (IF TRUE THEN 0 ELSE Size(s[k]))
  BY <1>1, UsedChanged, TRUE \in BOOLEAN
<1>3. Used(s) \in Nat /\ Size(s[k]) \in Nat
  BY <1>1, UsedType, SizeIs
<1> QED
  BY <1>2, <1>3

LEMMA UsedWith ==
  ASSUME NEW s \in Seq(Item), NEW t \in Seq(Item), NEW k \in 1 .. Len(s), NEW x \in Item, WithAt(t, s, k, x)
  PROVE  Used(t) = Used(s) - Size(s[k]) + Size(x)
<1>1. Used(t) = Used(s) - Size(s[k]) + (IF FALSE THEN 0 ELSE Size(x))
  BY UsedChanged, FALSE \in BOOLEAN
<1> QED
  BY <1>1

-----------------------------------------------------------------------------
(* The small_data section.                                                 *)

Distinct(small) == \A i, j \in 1 .. Len(small) : small[i].name = small[j].name => i = j

Section(small) ==
  /\ small \in Seq(Item)
  /\ Used(small) <= Capacity
  /\ Distinct(small)
  /\ \A i \in 1 .. Len(small) : small[i].name = NameTag => i = 1

LEMMA FindIs ==
  ASSUME NEW small \in Seq(Item), NEW n
  PROVE  /\ FindSmallData(small, n) \in 0 .. Len(small)
         /\ FindSmallData(small, n) # 0 => small[FindSmallData(small, n)].name = n
         /\ FindSmallData(small, n) = 0 => \A i \in 1 .. Len(small) : small[i].name # n
<1>1. PICK l \in Nat : l = Len(small)
  BY LenProperties
<1> DEFINE I == {i \in 1 .. Len(small) : small[i].name = n}
<1>2. FindSmallData(small, n) = IF I # {} THEN Min(I) ELSE 0
  BY DEF FindSmallData, SelectInSeq
<1>3. I # {} => Min(I) \in I
  <2>1. I \subseteq Nat
    BY <1>1
  <2> QED
    BY <2>1, MinIsLeast
<1>4. I \subseteq 1 .. l
  BY <1>1
<1>5. CASE I = {}
  BY <1>1, <1>2, <1>5
<1>6. CASE I # {}
  <2>1. FindSmallData(small, n) \in I
    BY <1>2, <1>3, <1>6
  <2> QED
    BY <1>1, <1>4, <2>1
<1> QED
  BY <1>5, <1>6

\* The data of an attribute that is in the section.
Kept(small, n) ==
  IF FindSmallData(small, n) = 0 THEN None ELSE small[FindSmallData(small, n)].data

LEMMA NoneIsNoData == None \notin Bytes
<1>1. SUFFICES ASSUME None \in Bytes PROVE FALSE
  OBVIOUS
<1>2. Len(None) = 1 /\ None[1] = -1
  BY DEF None
<1>3. None[1] \in Byte
  BY <1>1, <1>2, ElementOfSeq DEF Bytes
<1> QED
  BY <1>2, <1>3 DEF Byte

LEMMA KeptIs ==
  ASSUME NEW small \in Seq(Item), NEW n
  PROVE  /\ FindSmallData(small, n) = 0 => Kept(small, n) = None
         /\ FindSmallData(small, n) # 0 => Kept(small, n) \in Bytes /\ Kept(small, n) # None
                                           /\ Kept(small, n) = small[FindSmallData(small, n)].data
<1>1. FindSmallData(small, n) # 0 => small[FindSmallData(small, n)] \in Item
  <2> SUFFICES ASSUME FindSmallData(small, n) # 0 PROVE small[FindSmallData(small, n)] \in Item
    OBVIOUS
  <2>1. PICK l \in Nat : l = Len(small)
    BY LenProperties
  <2>2. FindSmallData(small, n) \in 1 .. l
    BY <2>1, FindIs
  <2> QED
    BY <2>1, <2>2, ElementOfSeq
<1>2. FindSmallData(small, n) # 0 => small[FindSmallData(small, n)].data \in Bytes
  BY <1>1 DEF Item
<1> QED
  BY <1>2, NoneIsNoData DEF Kept

\* An item is found where it is.
LEMMA FoundAt ==
  ASSUME NEW small \in Seq(Item), Distinct(small), NEW i \in 1 .. Len(small)
  PROVE  FindSmallData(small, small[i].name) = i /\ Kept(small, small[i].name) = small[i].data
<1>1. PICK l \in Nat : l = Len(small)
  BY LenProperties
<1>2. PICK n : n = small[i].name
  OBVIOUS
<1>3. FindSmallData(small, n) \in 1 .. l /\ small[FindSmallData(small, n)].name = n
  BY <1>1, <1>2, FindIs
<1>4. FindSmallData(small, n) = i
  BY <1>1, <1>2, <1>3 DEF Distinct
<1> QED
  BY <1>1, <1>2, <1>4 DEF Kept

\* The item n of the section has the data d, or is gone; the others are as before.
Becomes(new, small, n, d) ==
  Section(new) /\ Kept(new, n) = d /\ \A m : m # n => Kept(new, m) = Kept(small, m)

\* What two sections have in common.
Common(small, new, m) ==
  /\ \A i \in 1 .. Len(small) : small[i].name = m => \E j \in 1 .. Len(new) : new[j] = small[i]
  /\ \A j \in 1 .. Len(new) : new[j].name = m => \E i \in 1 .. Len(small) : new[j] = small[i]

LEMMA SameKept ==
  ASSUME NEW small \in Seq(Item), Distinct(small), NEW new \in Seq(Item), Distinct(new), NEW m,
         Common(small, new, m)
  PROVE  Kept(new, m) = Kept(small, m)
<1> USE DEF Common
<1>1. PICK k \in Nat, l \in Nat : k = Len(small) /\ l = Len(new)
  BY LenProperties
<1>2. CASE FindSmallData(small, m) # 0
  <2>1. PICK i \in 1 .. k : i = FindSmallData(small, m) /\ small[i].name = m
    BY <1>1, <1>2, FindIs
  <2>2. PICK j \in 1 .. l : new[j] = small[i]
    BY <1>1, <2>1
  <2>3. Kept(small, small[i].name) = small[i].data
    BY <1>1, <2>1, FoundAt
  <2>4. Kept(new, new[j].name) = new[j].data
    BY <1>1, <2>2, FoundAt
  <2> QED
    BY ONLY <2>1, <2>2, <2>3, <2>4
<1>3. CASE FindSmallData(small, m) = 0
  <2>1. \A i \in 1 .. k : small[i].name # m
    BY <1>1, <1>3, FindIs
  <2>2. \A j \in 1 .. l : new[j].name # m
    BY <1>1, <2>1
  <2>3. FindSmallData(new, m) = 0
    <3>1. FindSmallData(new, m) \in 0 .. l /\ (FindSmallData(new, m) # 0 => new[FindSmallData(new, m)].name = m)
      BY <1>1, FindIs
    <3> QED
      BY <2>2, <3>1
  <2> QED
    BY <1>3, <2>3 DEF Kept
<1> QED
  BY <1>2, <1>3

LEMMA SectionAppended ==
  ASSUME NEW small, Section(small), NEW x \in Item, x.name # NameTag,
         FindSmallData(small, x.name) = 0, Used(small) + Size(x) <= Capacity
  PROVE  Becomes(Append(small, x), small, x.name, x.data)
<1>1. small \in Seq(Item) /\ Distinct(small) /\ \A i \in 1 .. Len(small) : small[i].name = NameTag => i = 1
  BY DEF Section
<1>2. PICK l \in Nat : l = Len(small)
  BY <1>1, LenProperties
<1>3. PICK new \in Seq(Item) : /\ new = Append(small, x) /\ Len(new) = l + 1 /\ new[l + 1] = x
                              /\ \A i \in 1 .. l : new[i] = small[i]
  <2>1. /\ Append(small, x) \in Seq(Item) /\ Len(Append(small, x)) = Len(small) + 1
        /\ \A i \in 1 .. Len(small) : Append(small, x)[i] = small[i]
        /\ Append(small, x)[Len(small) + 1] = x
    BY ONLY <1>1, x \in Item, AppendProperties
  <2> QED
    BY ONLY <1>2, <2>1
<1>4. \A i \in 1 .. l : small[i].name # x.name
  BY <1>1, <1>2, FindIs
<1>5. \A i \in 1 .. l + 1 : i \in 1 .. l \/ i = l + 1
  OBVIOUS
<1>6. Distinct(new)
  BY <1>1, <1>2, <1>3, <1>4, <1>5 DEF Distinct
<1>7. \A i \in 1 .. Len(new) : new[i].name = NameTag => i = 1
  BY <1>1, <1>2, <1>3, <1>5
<1>8. Used(new) <= Capacity
  BY <1>1, <1>3, UsedAppend
<1>9. Kept(new, x.name) = x.data
  <2>1. l + 1 \in 1 .. Len(new)
    BY <1>3
  <2>2. Kept(new, new[l + 1].name) = new[l + 1].data
    BY ONLY <1>3, <1>6, <2>1, FoundAt
  <2> QED
    BY <1>3, <2>2
<1>10. ASSUME NEW m, m # x.name PROVE Kept(new, m) = Kept(small, m)
  <2>1. \A i \in 1 .. Len(small) : small[i].name = m => \E j \in 1 .. Len(new) : new[j] = small[i]
    BY <1>2, <1>3
  <2>2. \A j \in 1 .. Len(new) : new[j].name = m => \E i \in 1 .. Len(small) : new[j] = small[i]
    BY <1>2, <1>3, <1>5, <1>10
  <2>3. Common(small, new, m)
    BY ONLY <2>1, <2>2 DEF Common
  <2> QED
    BY ONLY <1>1, <1>3, <1>6, <2>3, SameKept
<1> QED
  BY <1>3, <1>6, <1>7, <1>8, <1>9, <1>10 DEF Becomes, Section

LEMMA SectionReplaced ==
  ASSUME NEW small, Section(small), NEW k \in 1 .. Len(small), NEW x \in Item, x.name = small[k].name,
         Used(small) - Size(small[k]) + Size(x) <= Capacity \/ Used([small EXCEPT ![k] = x]) <= Capacity
  PROVE  /\ Becomes([small EXCEPT ![k] = x], small, x.name, x.data)
         /\ Used([small EXCEPT ![k] = x]) = Used(small) - Size(small[k]) + Size(x)
<1>1. small \in Seq(Item) /\ Distinct(small) /\ \A i \in 1 .. Len(small) : small[i].name = NameTag => i = 1
  BY DEF Section
<1>2. PICK l \in Nat : l = Len(small)
  BY <1>1, LenProperties
<1>3. PICK new \in Seq(Item) : /\ new = [small EXCEPT ![k] = x] /\ Len(new) = l
                              /\ \A i \in 1 .. l : new[i] = IF i = k THEN x ELSE small[i]
  <2>1. /\ [small EXCEPT ![k] = x] \in Seq(Item) /\ Len([small EXCEPT ![k] = x]) = Len(small)
        /\ \A i \in 1 .. Len(small) : [small EXCEPT ![k] = x][i] = IF i = k THEN x ELSE small[i]
    BY ONLY <1>1, k \in 1 .. Len(small), x \in Item, ExceptSeq
  <2> QED
    BY ONLY <1>2, <2>1
<1>4. \A i \in 1 .. l : new[i].name = small[i].name
  BY <1>3
<1>5. Distinct(new)
  BY <1>1, <1>2, <1>3, <1>4 DEF Distinct
<1>6. \A i \in 1 .. Len(new) : new[i].name = NameTag => i = 1
  BY <1>1, <1>2, <1>3, <1>4
<1>7. Used(new) = Used(small) - Size(small[k]) + Size(x)
  <2>1. WithAt(new, small, k, x)
    BY <1>2, <1>3 DEF WithAt
  <2> QED
    BY ONLY <1>1, <1>3, <2>1, UsedWith, k \in 1 .. Len(small), x \in Item
<1>8. Used(new) <= Capacity
  BY <1>3, <1>7
<1>9. Kept(new, x.name) = x.data
  <2>1. k \in 1 .. Len(new) /\ new[k] = x
    BY <1>2, <1>3
  <2> QED
    BY <1>3, <1>5, <2>1, FoundAt
<1>10. ASSUME NEW m, m # x.name PROVE Kept(new, m) = Kept(small, m)
  <2>1. \A i \in 1 .. l : small[i].name = m => i # k /\ new[i] = small[i]
    BY <1>3, <1>10
  <2>2. \A j \in 1 .. l : new[j].name = m => j # k /\ new[j] = small[j]
    BY <1>3, <1>10
  <2>3. Common(small, new, m)
    BY ONLY <1>2, <1>3, <2>1, <2>2 DEF Common
  <2> QED
    BY ONLY <1>1, <1>3, <1>5, <2>3, SameKept
<1> QED
  BY <1>3, <1>5, <1>6, <1>7, <1>8, <1>9, <1>10 DEF Becomes, Section

LEMMA RemoveAtIs ==
  ASSUME NEW small \in Seq(Item), NEW k \in 1 .. Len(small)
  PROVE  /\ RemoveAt(small, k) \in Seq(Item)
         /\ Len(RemoveAt(small, k)) = Len(small) - 1
         /\ \A i \in 1 .. Len(small) - 1 : RemoveAt(small, k)[i] = IF i < k THEN small[i] ELSE small[i + 1]
<1>1. PICK l \in Nat : l = Len(small)
  BY LenProperties
<1>2. \A i \in 1 .. l : small[i] \in Item
  BY <1>1, ElementOfSeq
<1>3. k \in 1 .. l /\ k - 1 \in Int /\ k + 1 \in Int /\ 1 \in Int /\ l \in Int
  BY <1>1
<1>4. PICK a \in Seq(Item) : a = SubSeq(small, 1, k - 1) /\ Len(a) = k - 1 /\ \A i \in 1 .. k - 1 : a[i] = small[i]
  <2>1. \A i \in 1 .. k - 1 : small[i] \in Item
    BY <1>2, <1>3
  <2>2. /\ SubSeq(small, 1, k - 1) \in Seq(Item)
        /\ Len(SubSeq(small, 1, k - 1)) = IF 1 <= k - 1 THEN (k - 1) - 1 + 1 ELSE 0
        /\ \A i \in 1 .. (k - 1) - 1 + 1 : SubSeq(small, 1, k - 1)[i] = small[1 + i - 1]
    BY ONLY <1>3, <2>1, SubSeqProperties
  <2>3. Len(SubSeq(small, 1, k - 1)) = k - 1 /\ (k - 1) - 1 + 1 = k - 1
    BY <1>3, <2>2
  <2>4. \A i \in 1 .. k - 1 : 1 + i - 1 = i
    BY <1>3
  <2> QED
    BY <2>2, <2>3, <2>4
<1>5. PICK b \in Seq(Item) : b = SubSeq(small, k + 1, l) /\ Len(b) = l - k /\ \A i \in 1 .. l - k : b[i] = small[k + i]
  <2>1. \A i \in k + 1 .. l : small[i] \in Item
    BY <1>2, <1>3
  <2>2. /\ SubSeq(small, k + 1, l) \in Seq(Item)
        /\ Len(SubSeq(small, k + 1, l)) = IF k + 1 <= l THEN l - (k + 1) + 1 ELSE 0
        /\ \A i \in 1 .. l - (k + 1) + 1 : SubSeq(small, k + 1, l)[i] = small[(k + 1) + i - 1]
    BY ONLY <1>3, <2>1, SubSeqProperties
  <2>3. Len(SubSeq(small, k + 1, l)) = l - k /\ l - (k + 1) + 1 = l - k
    BY <1>3, <2>2
  <2>4. \A i \in 1 .. l - k : (k + 1) + i - 1 = k + i
    BY <1>3
  <2> QED
    BY <2>2, <2>3, <2>4
<1>6. RemoveAt(small, k) = a \o b
  BY <1>1, <1>4, <1>5 DEF RemoveAt
<1>7. /\ a \o b \in Seq(Item) /\ Len(a \o b) = (k - 1) + (l - k)
      /\ \A i \in 1 .. (k - 1) + (l - k) : (a \o b)[i] = IF i <= k - 1 THEN a[i] ELSE b[i - (k - 1)]
  <2>1. /\ a \o b \in Seq(Item) /\ Len(a \o b) = Len(a) + Len(b)
        /\ \A i \in 1 .. Len(a) + Len(b) : (a \o b)[i] = IF i <= Len(a) THEN a[i] ELSE b[i - Len(a)]
    BY ONLY a \in Seq(Item), b \in Seq(Item), ConcatProperties
  <2>2. Len(a) = k - 1 /\ Len(b) = l - k
    BY ONLY <1>4, <1>5
  <2> QED
    BY ONLY <2>1, <2>2
<1>8. ASSUME NEW i \in 1 .. l - 1
      PROVE  (a \o b)[i] = IF i < k THEN small[i] ELSE small[i + 1]
  <2>1. i \in 1 .. (k - 1) + (l - k)
    BY <1>3
  <2>2. CASE i < k
    BY <1>3, <1>4, <1>7, <2>1, <2>2
  <2>3. CASE ~ (i < k)
    <3>1. i - (k - 1) \in 1 .. l - k /\ k + (i - (k - 1)) = i + 1 /\ ~ (i <= k - 1)
      BY <1>3, <2>3
    <3>2. b[i - (k - 1)] = small[i + 1]
      BY <1>5, <3>1
    <3> QED
      BY <1>7, <2>1, <2>3, <3>1, <3>2
  <2> QED
    BY <2>2, <2>3
<1>9. (k - 1) + (l - k) = l - 1
  BY <1>3
<1> QED
  BY <1>1, <1>6, <1>7, <1>8, <1>9

LEMMA SectionRemoved ==
  ASSUME NEW small, Section(small), NEW k \in 1 .. Len(small)
  PROVE  /\ Becomes(RemoveAt(small, k), small, small[k].name, None)
         /\ Used(RemoveAt(small, k)) = Used(small) - Size(small[k])
<1>1. small \in Seq(Item) /\ Distinct(small) /\ \A i \in 1 .. Len(small) : small[i].name = NameTag => i = 1
  BY DEF Section
<1>2. PICK l \in Nat : l = Len(small)
  BY <1>1, LenProperties
<1>3. PICK new \in Seq(Item) : /\ new = RemoveAt(small, k) /\ Len(new) = l - 1
                              /\ \A i \in 1 .. l - 1 : new[i] = IF i < k THEN small[i] ELSE small[i + 1]
  BY <1>1, <1>2, RemoveAtIs
<1> DEFINE from(i) == IF i < k THEN i ELSE i + 1
<1>4. \A i \in 1 .. l - 1 : from(i) \in 1 .. l /\ from(i) # k /\ new[i] = small[from(i)]
  BY <1>2, <1>3
<1>5. \A i, j \in 1 .. l - 1 : from(i) = from(j) => i = j
  BY <1>2
<1>6. \A i \in 1 .. l - 1 : from(i) = 1 => i = 1
  OBVIOUS
<1>7. \A m \in 1 .. l : m # k => \E i \in 1 .. l - 1 : from(i) = m
  <2> SUFFICES ASSUME NEW m \in 1 .. l, m # k PROVE \E i \in 1 .. l - 1 : from(i) = m
    OBVIOUS
  <2>1. CASE m < k
    BY <1>2, <2>1
  <2>2. CASE m > k
    <3>1. m - 1 \in 1 .. l - 1 /\ from(m - 1) = m
      BY <1>2, <2>2
    <3> QED
      BY <3>1
  <2> QED
    BY <1>2, <2>1, <2>2
<1> HIDE DEF from
<1>8. Distinct(new)
  BY <1>1, <1>2, <1>3, <1>4, <1>5 DEF Distinct
<1>9. \A i \in 1 .. Len(new) : new[i].name = NameTag => i = 1
  BY <1>1, <1>2, <1>3, <1>4, <1>6
<1>10. Used(new) = Used(small) - Size(small[k])
  <2>1. WithoutAt(new, small, k)
    BY <1>2, <1>3 DEF WithoutAt
  <2> QED
    BY ONLY <1>1, <1>3, <2>1, UsedWithout, k \in 1 .. Len(small)
<1>11. Used(new) <= Capacity
  <2>1. Used(small) \in Nat /\ Used(new) \in Nat /\ Size(small[k]) \in Nat /\ Used(small) <= Capacity
    BY <1>1, <1>3, UsedType, SizeIs, ElementOfSeq DEF Section
  <2> QED
    BY <1>10, <2>1, AttributesAssumption
<1>12. PICK n : n = small[k].name
  OBVIOUS
<1>13. Kept(new, n) = None
  <2>1. \A i \in 1 .. l - 1 : new[i].name # n
    BY <1>1, <1>2, <1>4, <1>12 DEF Distinct
  <2>2. FindSmallData(new, n) = 0
    <3>1. FindSmallData(new, n) \in 0 .. l - 1 /\ (FindSmallData(new, n) # 0 => new[FindSmallData(new, n)].name = n)
      BY <1>3, FindIs
    <3>2. FindSmallData(new, n) # 0 => FindSmallData(new, n) \in 1 .. l - 1
      BY <3>1
    <3> QED
      BY <2>1, <3>1, <3>2
  <2> QED
    BY <2>2 DEF Kept
<1>14. ASSUME NEW m, m # n PROVE Kept(new, m) = Kept(small, m)
  <2>1. \A i \in 1 .. l : small[i].name = m => \E j \in 1 .. l - 1 : new[j] = small[i]
    BY <1>4, <1>7, <1>12, <1>14
  <2>2. \A j \in 1 .. l - 1 : \E i \in 1 .. l : new[j] = small[i]
    BY <1>4
  <2>3. Common(small, new, m)
    BY ONLY <1>2, <1>3, <2>1, <2>2 DEF Common
  <2> QED
    BY ONLY <1>1, <1>3, <1>8, <2>3, SameKept
<1> QED
  BY <1>3, <1>8, <1>9, <1>10, <1>11, <1>12, <1>13, <1>14 DEF Becomes, Section

-----------------------------------------------------------------------------
(* The inode, its iterator and its indices.                                *)

Inode == [small : Seq(Item), dir : BOOLEAN, file : [Name -> Bytes \cup {None}], freed : BOOLEAN]
Iterator == [current : Int, dir : {"closed", "current", "removed"}, last : Nat, skips : BOOLEAN]
State == [inode : Inode, iter : Iterator, index : [Indexed -> SUBSET Bytes], ok : BOOLEAN]

HasAny(file) == \E n \in Name : file[n] # None
HasFiles(i) == HasAny(i.file)

\* OnePlace, of any inode.
Placed(i) ==
  /\ Section(i.small)
  /\ \A n \in Name : Kept(i.small, n) = None \/ i.file[n] = None
  /\ i.dir = HasFiles(i)

\* The value of an attribute, wherever it is.
Entry(i, n) == IF Kept(i.small, n) # None THEN Kept(i.small, n) ELSE i.file[n]

LEMMA EntryIs ==
  ASSUME NEW i \in Inode, NEW n \in Name
  PROVE  /\ Entry(i, n) \in Bytes \cup {None}
         /\ n \in Present(i) <=> Entry(i, n) # None
         /\ Value(i, n) = Entry(i, n)
<1>1. i.small \in Seq(Item) /\ i.file[n] \in Bytes \cup {None}
  BY DEF Inode
<1>2. CASE FindSmallData(i.small, n) = 0
  <2>1. Kept(i.small, n) = None
    BY <1>1, <1>2, KeptIs
  <2> QED
    BY <1>1, <1>2, <2>1 DEF Entry, Present, Value
<1>3. CASE FindSmallData(i.small, n) # 0
  <2>1. /\ Kept(i.small, n) \in Bytes /\ Kept(i.small, n) # None
        /\ Kept(i.small, n) = i.small[FindSmallData(i.small, n)].data
    BY <1>1, <1>3, KeptIs
  <2> QED
    BY <1>1, <1>3, <2>1 DEF Entry, Present, Value
<1> QED
  BY <1>2, <1>3

LEMMA UpdateType ==
  ASSUME NEW it \in Iterator, NEW place \in Int, NEW change \in Int
  PROVE  /\ Update(it, place, change) \in Iterator
         /\ Update(it, place, change).skips = it.skips /\ Update(it, place, change).dir = it.dir
         /\ Update(it, place, change).last = it.last
         /\ Update(it, place, change).current = IF place - 1 < it.current THEN it.current + change ELSE it.current
<1>1. PICK c \in Int : c = IF place - 1 < it.current THEN it.current + change ELSE it.current
  <2>1. it.current \in Int
    BY DEF Iterator
  <2>2. (IF place - 1 < it.current THEN it.current + change ELSE it.current) \in Int
    BY ONLY <2>1, place \in Int, change \in Int
  <2> QED
    BY ONLY <2>2
<1>2. Update(it, place, change) = [it EXCEPT !.current = c]
  BY <1>1 DEF Update
<1> QED
  BY <1>1, <1>2 DEF Iterator

\* An item is gone from the section.
Removal(t, s, place) ==
  /\ t \in State
  /\ t.inode = [s.inode EXCEPT !.small = RemoveAt(s.inode.small, place)]
  /\ t.index = s.index /\ t.ok = s.ok
  /\ t.iter.dir = s.iter.dir /\ t.iter.last = s.iter.last
  /\ t.iter.current = IF place - 1 < s.iter.current THEN s.iter.current - 1 ELSE s.iter.current
  /\ t.iter.skips = (s.iter.skips \/ (s.inode.small[1].name = NameTag /\ place - 1 = s.iter.current))

LEMMA RemovedSmallDataIs ==
  ASSUME NEW s \in State, NEW place \in 1 .. Len(s.inode.small)
  PROVE  Removal(RemovedSmallData(s, place), s, place)
<1>1. s.inode \in Inode /\ s.inode.small \in Seq(Item) /\ s.iter \in Iterator
  BY DEF State, Inode
<1>2. place \in Int
  BY <1>1, LenProperties
<1>3. PICK small \in Seq(Item) : small = RemoveAt(s.inode.small, place)
  BY <1>1, RemoveAtIs
<1>4. PICK it \in Iterator : it = Update(s.iter, place, -1)
  BY <1>1, <1>2, UpdateType
<1>5. /\ it.dir = s.iter.dir /\ it.last = s.iter.last /\ it.skips = s.iter.skips
      /\ it.current = IF place - 1 < s.iter.current THEN s.iter.current + (-1) ELSE s.iter.current
  BY <1>1, <1>2, <1>4, UpdateType
<1>6. PICK skip \in BOOLEAN : skip = (s.inode.small[1].name = NameTag /\ place - 1 = s.iter.current)
  OBVIOUS
<1>7. PICK t : t = [s EXCEPT !.inode = [s.inode EXCEPT !.small = small],
                             !.iter = [it EXCEPT !.skips = it.skips \/ skip]]
  OBVIOUS
<1>8. RemovedSmallData(s, place) = t
  BY <1>3, <1>4, <1>6, <1>7 DEF RemovedSmallData, State
<1>9. [s.inode EXCEPT !.small = small] \in Inode
  BY <1>1, <1>3 DEF Inode
<1>10. [it EXCEPT !.skips = it.skips \/ skip] \in Iterator
  BY <1>4, <1>6 DEF Iterator
<1>11. t \in State
  BY <1>7, <1>9, <1>10 DEF State
<1>12. t.inode = [s.inode EXCEPT !.small = small] /\ t.index = s.index /\ t.ok = s.ok
       /\ t.iter = [it EXCEPT !.skips = it.skips \/ skip]
  BY <1>7 DEF State
<1>13. /\ t.iter.dir = it.dir /\ t.iter.last = it.last /\ t.iter.current = it.current
       /\ t.iter.skips = (it.skips \/ skip)
  BY <1>4, <1>6, <1>12 DEF Iterator
<1>14. s.iter.current \in Int
  BY <1>1 DEF Iterator
<1> QED
  BY <1>3, <1>5, <1>6, <1>8, <1>11, <1>12, <1>13, <1>14 DEF Removal

\* AddedSmallData has taken the data, or has changed nothing.
Addition(t, s, n, data) ==
  LET small == s.inode.small
      at == FindSmallData(small, n)
      item == [name |-> n, data |-> data]
  IN  /\ t \in State
      /\ t.inode = [s.inode EXCEPT !.small = t.inode.small]
      /\ t.index = s.index
      /\ ~ t.ok => t = [s EXCEPT !.ok = FALSE]
      /\ t.ok => Becomes(t.inode.small, small, n, data)
      /\ t.ok /\ at # 0 => t.inode.small = [small EXCEPT ![at] = item] /\ t.iter = s.iter
      /\ t.ok /\ at = 0 => t.inode.small = Append(small, item) /\ t.iter = Update(s.iter, Len(small) + 1, 1)

AddedBy(t, s, n, data, small, it) ==
  LET at == FindSmallData(s.inode.small, n)
      item == [name |-> n, data |-> data]
  IN  /\ Becomes(small, s.inode.small, n, data)
      /\ it \in Iterator
      /\ at # 0 => small = [s.inode.small EXCEPT ![at] = item] /\ it = s.iter
      /\ at = 0 => small = Append(s.inode.small, item) /\ it = Update(s.iter, Len(s.inode.small) + 1, 1)
      /\ t = [s EXCEPT !.ok = TRUE, !.inode = [s.inode EXCEPT !.small = small], !.iter = it]

LEMMA AddedSmallDataIs ==
  ASSUME NEW s \in State, Section(s.inode.small), NEW n \in Name, NEW data \in Bytes
  PROVE  Addition(AddedSmallData(s, n, data), s, n, data)
<1> DEFINE small == s.inode.small
           at == FindSmallData(small, n)
           item == [name |-> n, data |-> data]
           replaced == [small EXCEPT ![at] = item]
           no == [s EXCEPT !.ok = FALSE]
           T == AddedSmallData(s, n, data)
<1>1. s.inode \in Inode /\ small \in Seq(Item) /\ s.iter \in Iterator
  BY DEF State, Inode
<1>2. item \in Item /\ item.name = n /\ item.data = data /\ n # NameTag
  BY AttributesAssumption DEF Item
<1>3. PICK l \in Nat : l = Len(small) /\ at \in 0 .. l
  BY <1>1, LenProperties, FindIs
<1>4. Addition(no, s, n, data)
  <2>1. no \in State /\ no.inode = s.inode /\ no.index = s.index /\ ~ no.ok
    BY DEF State
  <2>2. s.inode = [s.inode EXCEPT !.small = s.inode.small]
    BY <1>1 DEF Inode
  <2> QED
    BY ONLY <2>1, <2>2 DEF Addition
<1>5. ASSUME NEW t, NEW new, NEW it, AddedBy(t, s, n, data, new, it)
      PROVE  Addition(t, s, n, data)
  <2> USE <1>5 DEF AddedBy
  <2>1. new \in Seq(Item)
    BY DEF Becomes, Section
  <2>2. [s.inode EXCEPT !.small = new] \in Inode /\ [s.inode EXCEPT !.small = new].small = new
    BY <1>1, <2>1 DEF Inode
  <2>3. t \in State /\ t.inode = [s.inode EXCEPT !.small = new] /\ t.index = s.index /\ t.ok /\ t.iter = it
    BY <1>5, <2>2 DEF State
  <2>4. t.inode.small = new
    BY ONLY <2>2, <2>3
  <2>5. t.inode = [s.inode EXCEPT !.small = t.inode.small]
    BY ONLY <2>3, <2>4
  <2> QED
    BY <1>3, <1>5, <2>3, <2>4, <2>5 DEF Addition
<1>6. CASE Size(item) > Capacity
  <2>1. T = no
    BY <1>6 DEF AddedSmallData
  <2> QED
    BY ONLY <1>4, <2>1
<1>7. CASE ~ (Size(item) > Capacity) /\ at # 0
  <2>1. at \in 1 .. l /\ small[at].name = n
    BY <1>1, <1>3, <1>7, FindIs
  <2>2. CASE Len(small[at].data) > Len(data) \/ Used(replaced) <= Capacity
    <3>1. T = [s EXCEPT !.ok = TRUE, !.inode.small = replaced]
      BY <1>7, <2>2 DEF AddedSmallData
    <3>2. T = [s EXCEPT !.ok = TRUE, !.inode = [s.inode EXCEPT !.small = replaced], !.iter = s.iter]
      BY <3>1 DEF State
    <3>3. Used(small) - Size(small[at]) + Size(item) <= Capacity \/ Used(replaced) <= Capacity
      <4> SUFFICES ASSUME Len(small[at].data) > Len(data)
                   PROVE  Used(small) - Size(small[at]) + Size(item) <= Capacity
        BY <2>2
      <4>1. small[at] \in Item
        BY <1>1, <1>3, <2>1, ElementOfSeq
      <4>2. Len(small[at].data) \in Nat /\ Len(data) \in Nat
        BY <4>1, LenProperties DEF Item, Bytes
      <4>3. Used(small) \in Nat /\ Used(small) <= Capacity
        BY <1>1, UsedType DEF Section
      <4>4. Size(small[at]) = Overhead + Len(small[at].data) /\ Size(item) = Overhead + Len(data)
        BY <1>2 DEF Size
      <4>5. PICK p \in Nat, q \in Nat, u \in Nat : p = Len(small[at].data) /\ q = Len(data) /\ u = Used(small)
        BY <4>2, <4>3
      <4>6. Overhead \in Nat /\ Capacity \in Nat
        BY AttributesAssumption
      <4>7. p > q /\ u <= Capacity
        BY <4>3, <4>5
      <4>8. u - (Overhead + p) + (Overhead + q) <= Capacity
        BY ONLY <4>6, <4>7, p \in Nat, q \in Nat, u \in Nat
      <4> QED
        BY ONLY <4>4, <4>5, <4>8
    <3>4. Becomes(replaced, small, item.name, item.data)
      <4>1. at \in 1 .. Len(small) /\ item.name = small[at].name /\ item \in Item
        BY <1>2, <1>3, <2>1
      <4> QED
        BY ONLY <3>3, <4>1, SectionReplaced, Section(s.inode.small)
    <3>5. Becomes(replaced, small, n, data)
      BY ONLY <1>2, <3>4
    <3> QED
      <4>1. AddedBy(T, s, n, data, replaced, s.iter)
        BY ONLY <1>1, <1>7, <3>2, <3>5 DEF AddedBy
      <4> QED
        BY ONLY <1>5, <4>1
  <2>3. CASE ~ (Len(small[at].data) > Len(data) \/ Used(replaced) <= Capacity)
    <3>1. T = no
      BY <1>7, <2>3 DEF AddedSmallData
    <3> QED
      BY ONLY <1>4, <3>1
  <2> QED
    BY ONLY <2>2, <2>3
<1>8. CASE ~ (Size(item) > Capacity) /\ at = 0
  <2>1. CASE Used(small) + Size(item) > Capacity
    <3>1. T = no
      BY <1>8, <2>1 DEF AddedSmallData
    <3> QED
      BY ONLY <1>4, <3>1
  <2>2. CASE ~ (Used(small) + Size(item) > Capacity)
    <3>1. T = [s EXCEPT !.ok = TRUE, !.inode.small = Append(small, item), !.iter = Update(s.iter, l + 1, 1)]
      BY <1>3, <1>8, <2>2 DEF AddedSmallData, State
    <3>2. T = [s EXCEPT !.ok = TRUE, !.inode = [s.inode EXCEPT !.small = Append(small, item)],
                        !.iter = Update(s.iter, l + 1, 1)]
      BY <3>1 DEF State
    <3>3. Used(small) + Size(item) <= Capacity
      <4>1. Used(small) \in Nat /\ Size(item) \in Nat /\ Capacity \in Nat
        BY <1>1, <1>2, UsedType, SizeIs, AttributesAssumption
      <4> QED
        BY <2>2, <4>1
    <3>4. Becomes(Append(small, item), small, n, data)
      <4>1. item.name # NameTag /\ FindSmallData(small, item.name) = 0
        BY <1>2, <1>8
      <4>2. Becomes(Append(small, item), small, item.name, item.data)
        BY ONLY <1>2, <3>3, <4>1, SectionAppended, Section(s.inode.small)
      <4> QED
        BY ONLY <1>2, <4>2
    <3>5. Update(s.iter, l + 1, 1) \in Iterator
      BY ONLY <1>1, UpdateType, l + 1 \in Int, 1 \in Int
    <3> QED
      <4>1. AddedBy(T, s, n, data, Append(small, item), Update(s.iter, l + 1, 1))
        BY ONLY <1>3, <1>8, <3>2, <3>4, <3>5 DEF AddedBy
      <4> QED
        BY ONLY <1>5, <4>1
  <2> QED
    BY ONLY <2>1, <2>2
<1> QED
  BY <1>6, <1>7, <1>8

\* An attribute has a file with the data, or none any more; the rest of the inode is as before.
Filed(t, s, n, d) ==
  /\ t \in State
  /\ t.inode.small = s.inode.small /\ t.inode.freed = s.inode.freed
  /\ t.inode.file = [s.inode.file EXCEPT ![n] = d]
  /\ t.inode.dir = HasFiles(t.inode)
  /\ t.index = s.index
  /\ t.iter = [s.iter EXCEPT !.dir = t.iter.dir]

FiledBy(t, s, n, d, ok) ==
  t = [s EXCEPT !.inode = [s.inode EXCEPT !.dir = TRUE, !.file = [s.inode.file EXCEPT ![n] = d]], !.ok = ok]

LEMMA FiledIs ==
  ASSUME NEW s \in State, NEW n \in Name, NEW d \in Bytes, NEW ok \in BOOLEAN, NEW t, FiledBy(t, s, n, d, ok)
  PROVE  Filed(t, s, n, d) /\ t.iter = s.iter /\ t.ok = ok
<1>1. s.inode \in Inode /\ s.inode.file \in [Name -> Bytes \cup {None}] /\ s.iter \in Iterator
  BY DEF State, Inode
<1>2. PICK file \in [Name -> Bytes \cup {None}] : file = [s.inode.file EXCEPT ![n] = d]
  BY <1>1
<1>3. PICK i \in Inode : i = [s.inode EXCEPT !.dir = TRUE, !.file = file]
  BY <1>1 DEF Inode
<1>4. i.small = s.inode.small /\ i.dir = TRUE /\ i.file = file /\ i.freed = s.inode.freed
  BY <1>1, <1>3 DEF Inode
<1>5. t \in State /\ t.inode = i /\ t.iter = s.iter /\ t.index = s.index /\ t.ok = ok
  BY <1>2, <1>3 DEF State, FiledBy
<1>6. HasFiles(i)
  <2>1. file[n] = d
    BY <1>1, <1>2
  <2> QED
    BY <1>4, <2>1, NoneIsNoData DEF HasFiles, HasAny
<1>7. t.iter = [s.iter EXCEPT !.dir = t.iter.dir]
  <2>1. s.iter = [s.iter EXCEPT !.dir = s.iter.dir]
    BY ONLY <1>1 DEF Iterator
  <2> QED
    BY ONLY <1>5, <2>1
<1> QED
  BY ONLY <1>2, <1>4, <1>5, <1>6, <1>7 DEF Filed

LEMMA CreatedAttributeIs ==
  ASSUME NEW s \in State, NEW n \in Name
  PROVE  /\ Filed(CreatedAttribute(s, n), s, n, <<>>)
         /\ CreatedAttribute(s, n).iter = s.iter /\ CreatedAttribute(s, n).ok = s.ok
<1>1. <<>> \in Bytes /\ s.ok \in BOOLEAN
  BY DEF Bytes, State
<1>2. CreatedAttribute(s, n)
        = [s EXCEPT !.inode = [s.inode EXCEPT !.dir = TRUE, !.file = [s.inode.file EXCEPT ![n] = <<>>]], !.ok = s.ok]
  BY DEF CreatedAttribute, State, Inode
<1>3. PICK t : t = CreatedAttribute(s, n)
  OBVIOUS
<1>4. Filed(t, s, n, <<>>) /\ t.iter = s.iter /\ t.ok = s.ok
  <2>1. FiledBy(t, s, n, <<>>, s.ok)
    BY ONLY <1>2, <1>3 DEF FiledBy
  <2> QED
    BY ONLY <1>1, <2>1, s \in State, n \in Name, FiledIs
<1> QED
  BY ONLY <1>3, <1>4

LEMMA RemovedAttributeIs ==
  ASSUME NEW s \in State, NEW n \in Name
  PROVE  /\ Filed(RemovedAttribute(s, n), s, n, None)
         /\ RemovedAttribute(s, n).ok = s.ok
         /\ RemovedAttribute(s, n).iter.dir = IF ~ RemovedAttribute(s, n).inode.dir /\ s.iter.dir = "current"
                                                THEN "removed" ELSE s.iter.dir
<1> DEFINE T == RemovedAttribute(s, n)
<1>1. s.inode \in Inode /\ s.inode.file \in [Name -> Bytes \cup {None}] /\ s.iter \in Iterator
  BY DEF State, Inode
<1>2. PICK file \in [Name -> Bytes \cup {None}] : file = [s.inode.file EXCEPT ![n] = None]
  BY <1>1
<1>3. PICK left \in BOOLEAN : left = HasAny(file)
  BY DEF HasAny
<1>4. PICK i \in Inode : i = [s.inode EXCEPT !.file = file, !.dir = left]
  BY <1>1, <1>3 DEF Inode
<1>5. PICK dir \in {"closed", "current", "removed"} :
        dir = IF ~ left /\ s.iter.dir = "current" THEN "removed" ELSE s.iter.dir
  BY <1>1 DEF Iterator
<1>6. PICK it \in Iterator : it = [s.iter EXCEPT !.dir = dir]
  BY <1>1, <1>5 DEF Iterator
<1>7. T = [s EXCEPT !.inode = i, !.iter = it]
  <2>1. left = ~ (\A m \in Name : file[m] = None)
    BY <1>3 DEF HasAny
  <2>2. (\A m \in Name : file[m] = None) = ~ left
    BY <1>3 DEF HasAny
  <2>3. T = [s EXCEPT !.inode.file = file, !.inode.dir = left, !.iter.dir = dir]
    BY <1>2, <1>5, <2>1, <2>2 DEF RemovedAttribute
  <2> QED
    BY <1>1, <1>4, <1>6, <2>3 DEF State, Inode
<1>8. i.small = s.inode.small /\ i.dir = left /\ i.file = file /\ i.freed = s.inode.freed
  BY <1>1, <1>4 DEF Inode
<1>9. T \in State /\ T.inode = i /\ T.iter = it /\ T.index = s.index /\ T.ok = s.ok
  BY <1>4, <1>6, <1>7 DEF State
<1>10. it.dir = dir /\ T.iter = [s.iter EXCEPT !.dir = T.iter.dir]
  BY <1>1, <1>6, <1>9 DEF Iterator
<1>11. i.dir = HasFiles(i)
  BY ONLY <1>3, <1>8 DEF HasFiles
<1>12. PICK t : t = T
  OBVIOUS
<1> HIDE DEF T
<1>13. Filed(t, s, n, None)
  BY ONLY <1>2, <1>8, <1>9, <1>10, <1>11, <1>12 DEF Filed
<1>14. t.ok = s.ok /\ t.iter.dir = IF ~ t.inode.dir /\ s.iter.dir = "current" THEN "removed" ELSE s.iter.dir
  BY ONLY <1>5, <1>8, <1>9, <1>10, <1>12
<1> QED
  BY ONLY <1>12, <1>13, <1>14 DEF T

\* The attribute n is kept with the data k, and its file has the data f.
Turns(t, s, n, k, f) ==
  /\ t \in State
  /\ Becomes(t.inode.small, s.inode.small, n, k)
  /\ t.inode.file = [s.inode.file EXCEPT ![n] = f]
  /\ t.inode.dir = HasFiles(t.inode)
  /\ t.inode.freed = s.inode.freed

\* The inode is as it should be, only the attribute n may have changed.
Outcome(t, s, n) ==
  /\ t \in State /\ Placed(t.inode)
  /\ t.inode.freed = s.inode.freed
  /\ \A m \in Name : m # n => Entry(t.inode, m) = Entry(s.inode, m)

LEMMA TurnsOut ==
  ASSUME NEW s \in State, Placed(s.inode), NEW n \in Name, NEW k, NEW f, k = None \/ f = None,
         NEW t, Turns(t, s, n, k, f)
  PROVE  /\ Outcome(t, s, n)
         /\ Entry(t.inode, n) = IF k # None THEN k ELSE f
         /\ t.inode.file[n] = f
<1>1. s.inode.file \in [Name -> Bytes \cup {None}]
  BY DEF State, Inode
<1>2. /\ t.inode.file[n] = f
      /\ \A m \in Name : m # n => t.inode.file[m] = s.inode.file[m]
  BY <1>1 DEF Turns
<1>3. /\ Section(t.inode.small) /\ Kept(t.inode.small, n) = k
      /\ \A m \in Name : m # n => Kept(t.inode.small, m) = Kept(s.inode.small, m)
  BY DEF Turns, Becomes
<1>4. \A m \in Name : Kept(t.inode.small, m) = None \/ t.inode.file[m] = None
  BY <1>2, <1>3 DEF Placed
<1>5. Placed(t.inode)
  BY <1>3, <1>4 DEF Placed, Turns
<1>6. \A m \in Name : m # n => Entry(t.inode, m) = Entry(s.inode, m)
  BY <1>2, <1>3 DEF Entry
<1>7. Entry(t.inode, n) = IF k # None THEN k ELSE f
  BY <1>2, <1>3 DEF Entry
<1> QED
  BY <1>2, <1>5, <1>6, <1>7 DEF Outcome, Turns

\* The section is as it was.
LEMMA StaysSo ==
  ASSUME NEW small, Section(small), NEW n
  PROVE  Becomes(small, small, n, Kept(small, n))
  BY DEF Becomes

LEMMA FiledTurns ==
  ASSUME NEW s \in State, Placed(s.inode), NEW n \in Name, NEW f, NEW t, Filed(t, s, n, f)
  PROVE  Turns(t, s, n, Kept(s.inode.small, n), f)
<1>1. Becomes(s.inode.small, s.inode.small, n, Kept(s.inode.small, n))
  BY StaysSo DEF Placed
<1> QED
  BY <1>1 DEF Filed, Turns

\* An attribute that is removed from the section, or added to it.
LEMMA RemovalTurns ==
  ASSUME NEW s \in State, Placed(s.inode), NEW n \in Name, FindSmallData(s.inode.small, n) # 0,
         NEW t, Removal(t, s, FindSmallData(s.inode.small, n))
  PROVE  Turns(t, s, n, None, None)
<1>1. PICK k : k = FindSmallData(s.inode.small, n)
  OBVIOUS
<1>2. s.inode \in Inode /\ s.inode.small \in Seq(Item) /\ s.inode.file \in [Name -> Bytes \cup {None}]
  BY DEF State, Inode
<1>3. PICK l \in Nat : l = Len(s.inode.small)
  BY <1>2, LenProperties
<1>4. k \in 1 .. l /\ s.inode.small[k].name = n
  BY <1>1, <1>2, <1>3, FindIs
<1>5. Section(s.inode.small)
  BY DEF Placed
<1>6. Becomes(RemoveAt(s.inode.small, k), s.inode.small, n, None)
  <2>1. k \in 1 .. Len(s.inode.small)
    BY <1>3, <1>4
  <2>2. Becomes(RemoveAt(s.inode.small, k), s.inode.small, s.inode.small[k].name, None)
    BY ONLY <1>5, <2>1, SectionRemoved
  <2> QED
    BY ONLY <1>4, <2>2
<1>7. t \in State /\ t.inode = [s.inode EXCEPT !.small = RemoveAt(s.inode.small, k)]
  BY <1>1 DEF Removal
<1>8. /\ t.inode.small = RemoveAt(s.inode.small, k) /\ t.inode.file = s.inode.file
      /\ t.inode.dir = s.inode.dir /\ t.inode.freed = s.inode.freed
  BY <1>2, <1>7 DEF Inode
<1>9. s.inode.file[n] = None
  <2>1. Kept(s.inode.small, n) # None
    BY <1>1, <1>2, <1>4, KeptIs
  <2> QED
    BY <2>1 DEF Placed
<1>10. s.inode.file = [s.inode.file EXCEPT ![n] = None]
  BY <1>2, <1>9
<1>11. t.inode.dir = HasFiles(t.inode)
  BY <1>8 DEF Placed, HasFiles
<1> QED
  BY ONLY <1>6, <1>7, <1>8, <1>10, <1>11 DEF Turns

LEMMA AdditionTurns ==
  ASSUME NEW s \in State, Placed(s.inode), NEW n \in Name, NEW data,
         NEW t, Addition(t, s, n, data), t.ok
  PROVE  Turns(t, s, n, data, s.inode.file[n])
<1>1. s.inode \in Inode /\ s.inode.file \in [Name -> Bytes \cup {None}]
  BY DEF State, Inode
<1>2. PICK small : small = t.inode.small
  OBVIOUS
<1>3. t \in State /\ t.inode = [s.inode EXCEPT !.small = small] /\ Becomes(small, s.inode.small, n, data)
  BY <1>2 DEF Addition
<1>4. /\ t.inode.small = small /\ t.inode.file = s.inode.file
      /\ t.inode.dir = s.inode.dir /\ t.inode.freed = s.inode.freed
  BY <1>1, <1>3 DEF Inode
<1>5. s.inode.file = [s.inode.file EXCEPT ![n] = s.inode.file[n]]
  BY <1>1
<1>6. t.inode.dir = HasFiles(t.inode)
  BY <1>4 DEF Placed, HasFiles
<1> QED
  BY ONLY <1>3, <1>4, <1>5, <1>6 DEF Turns

-----------------------------------------------------------------------------
(* What is written, and what the index gets of it.                         *)

\* A function on 1 .. n is a sequence of n elements.
LEMMA SequenceIs ==
  ASSUME NEW n \in Nat, NEW S, NEW f \in [1 .. n -> S]
  PROVE  f \in Seq(S) /\ Len(f) = n
  OBVIOUS

LEMMA SameSequence ==
  ASSUME NEW S, NEW a \in Seq(S), NEW b \in Seq(S), Len(a) = Len(b), \A i \in 1 .. Len(a) : a[i] = b[i]
  PROVE  a = b
  BY SeqEqual

Greater(a, b) == IF a > b THEN a ELSE b

LEMMA WriteAtIs ==
  ASSUME NEW data \in Bytes, NEW pos \in Nat, NEW buffer \in Bytes
  PROVE  /\ WriteAt(data, pos, buffer) \in Bytes
         /\ Len(WriteAt(data, pos, buffer)) = Greater(Len(data), pos + Len(buffer))
         /\ \A i \in 1 .. Len(buffer) : WriteAt(data, pos, buffer)[pos + i] = buffer[i]
         /\ \A i \in 1 .. Len(data) : i \in pos + 1 .. pos + Len(buffer) \/ WriteAt(data, pos, buffer)[i] = data[i]
         /\ WriteAt(data, pos, buffer) # None
<1>1. PICK l \in Nat, m \in Nat : l = Len(data) /\ m = Len(buffer)
  BY LenProperties DEF Bytes
<1>2. PICK n \in Nat : n = Greater(l, pos + m)
  BY DEF Greater
<1>3. Max({l, pos + m}) = n
  <2>1. {l, pos + m} \subseteq Nat /\ {l, pos + m} # {} /\ \A y \in {l, pos + m} : y <= n
    BY <1>2 DEF Greater
  <2>2. Max({l, pos + m}) \in {l, pos + m} /\ \A y \in {l, pos + m} : y <= Max({l, pos + m})
    BY ONLY <2>1, n \in Nat, MaxIsGreatest
  <2> QED
    BY <1>2, <2>2 DEF Greater
<1> DEFINE e(i) == IF i \in pos + 1 .. pos + m THEN buffer[i - pos] ELSE IF i <= l THEN data[i] ELSE 0
<1>4. WriteAt(data, pos, buffer) = [i \in 1 .. n |-> e(i)]
  BY <1>1, <1>3 DEF WriteAt
<1>5. \A i \in 1 .. l : data[i] \in Byte
  BY <1>1, ElementOfSeq DEF Bytes
<1>6. \A i \in 1 .. m : buffer[i] \in Byte
  BY <1>1, ElementOfSeq DEF Bytes
<1>7. ASSUME NEW i \in 1 .. n PROVE e(i) \in Byte
  <2>1. CASE i \in pos + 1 .. pos + m
    <3>1. i - pos \in 1 .. m
      BY <2>1
    <3> QED
      BY <1>6, <2>1, <3>1
  <2>2. CASE i \notin pos + 1 .. pos + m /\ i <= l
    BY <1>5, <2>2
  <2>3. CASE i \notin pos + 1 .. pos + m /\ ~ (i <= l)
    BY <2>3 DEF Byte
  <2> QED
    BY <2>1, <2>2, <2>3
<1>8. \A i \in 1 .. m : pos + i \in 1 .. n /\ e(pos + i) = buffer[i]
  BY <1>2 DEF Greater
<1>14. \A i \in 1 .. l : i \in 1 .. n /\ (i \in pos + 1 .. pos + m \/ e(i) = data[i])
  BY <1>2 DEF Greater
<1> HIDE DEF e
<1>9. PICK w : w = [i \in 1 .. n |-> e(i)]
  OBVIOUS
<1>10. w \in [1 .. n -> Byte]
  BY <1>7, <1>9
<1>11. w \in Bytes /\ Len(w) = n
  BY ONLY <1>10, n \in Nat, SequenceIs DEF Bytes
<1>12. \A i \in 1 .. m : w[pos + i] = buffer[i]
  BY <1>8, <1>9
<1>15. \A i \in 1 .. l : i \in pos + 1 .. pos + m \/ w[i] = data[i]
  BY <1>9, <1>14
<1>13. w # None
  BY <1>11, NoneIsNoData
<1> QED
  BY <1>1, <1>2, <1>4, <1>9, <1>11, <1>12, <1>13, <1>15

\* A write at the end of what is there, or longer than it, leaves just what is written.
LEMMA WriteAtAll ==
  ASSUME NEW data \in Bytes, NEW buffer \in Bytes, Len(data) <= Len(buffer)
  PROVE  WriteAt(data, 0, buffer) = buffer
<1>1. PICK l \in Nat, m \in Nat : l = Len(data) /\ m = Len(buffer)
  BY LenProperties DEF Bytes
<1>2. PICK w : w = WriteAt(data, 0, buffer)
  OBVIOUS
<1>3. w \in Bytes /\ Len(w) = m /\ \A i \in 1 .. m : w[i] = buffer[i]
  BY <1>1, <1>2, WriteAtIs DEF Greater
<1>4. w \in Seq(Byte) /\ buffer \in Seq(Byte) /\ Len(w) = Len(buffer) /\ \A i \in 1 .. Len(w) : w[i] = buffer[i]
  BY <1>1, <1>3 DEF Bytes
<1> QED
  BY ONLY <1>2, <1>4, SameSequence

LEMMA KeyIs ==
  ASSUME NEW data \in Bytes
  PROVE  /\ Key(data) \in Bytes
         /\ Key(data) = <<>> <=> data = <<>>
         /\ Len(Key(data)) = (IF Len(data) <= MaxKey THEN Len(data) ELSE MaxKey)
         /\ \A i \in 1 .. Len(Key(data)) : Key(data)[i] = data[i]
<1>1. PICK l \in Nat : l = Len(data)
  BY LenProperties DEF Bytes
<1>2. MaxKey \in Nat /\ MaxKey # 0
  BY AttributesAssumption
<1>3. PICK k \in Nat : k = IF l <= MaxKey THEN l ELSE MaxKey
  BY <1>2
<1>4. Min({l, MaxKey}) = k
  <2>1. {l, MaxKey} \subseteq Nat /\ {l, MaxKey} # {}
    BY <1>2
  <2>2. Min({l, MaxKey}) \in {l, MaxKey} /\ \A y \in {l, MaxKey} : Min({l, MaxKey}) <= y
    BY ONLY <2>1, MinIsLeast
  <2> QED
    BY <1>2, <1>3, <2>2
<1>5. Key(data) = SubSeq(data, 1, k)
  BY <1>1, <1>4 DEF Key
<1>6. /\ SubSeq(data, 1, k) \in Seq(Byte)
      /\ Len(SubSeq(data, 1, k)) = k
      /\ \A i \in 1 .. k : SubSeq(data, 1, k)[i] = data[i]
  <2>1. data \in Seq(Byte) /\ 1 .. k \subseteq 1 .. Len(data)
    BY <1>1, <1>3 DEF Bytes
  <2> QED
    BY <1>1, <1>3, <2>1, SubSeqProperties
<1>7. data = <<>> <=> l = 0
  BY <1>1, EmptySeq DEF Bytes
<1>8. SubSeq(data, 1, k) = <<>> <=> k = 0
  BY <1>6, EmptySeq
<1> QED
  BY <1>1, <1>2, <1>3, <1>5, <1>6, <1>7, <1>8 DEF Bytes

\* What the index is told of a write that it is told the truth of.
LEMMA KeyOfWritten ==
  ASSUME NEW data \in Bytes, NEW buffer \in Bytes,
         ~ (Len(buffer) < MaxKey /\ Len(buffer) < Len(WriteAt(data, 0, buffer)))
  PROVE  Key(WriteAt(data, 0, buffer)) = Key(buffer)
<1>1. PICK l \in Nat, m \in Nat : l = Len(data) /\ m = Len(buffer)
  BY LenProperties DEF Bytes
<1>2. PICK w \in Bytes : /\ w = WriteAt(data, 0, buffer) /\ Len(w) = Greater(l, m)
                        /\ \A i \in 1 .. m : w[i] = buffer[i]
  BY <1>1, WriteAtIs DEF Greater
<1>3. MaxKey \in Nat
  BY AttributesAssumption
<1>4. CASE l <= m
  BY <1>1, <1>4, WriteAtAll
<1>5. CASE l > m
  <2>1. Len(w) = l /\ m >= MaxKey
    BY <1>1, <1>2, <1>3, <1>5 DEF Greater
  <2>2. Key(w) \in Bytes /\ Len(Key(w)) = MaxKey /\ \A i \in 1 .. Len(Key(w)) : Key(w)[i] = w[i]
    <3>1. Len(Key(w)) = IF Len(w) <= MaxKey THEN Len(w) ELSE MaxKey
      BY KeyIs
    <3>2. Len(Key(w)) = MaxKey
      BY <1>3, <1>5, <2>1, <3>1
    <3> QED
      BY <3>2, KeyIs
  <2>3. Key(buffer) \in Bytes /\ Len(Key(buffer)) = MaxKey /\ \A i \in 1 .. Len(Key(buffer)) : Key(buffer)[i] = buffer[i]
    <3>1. Len(Key(buffer)) = IF Len(buffer) <= MaxKey THEN Len(buffer) ELSE MaxKey
      BY KeyIs
    <3>2. Len(Key(buffer)) = MaxKey
      BY <1>1, <1>3, <2>1, <3>1
    <3> QED
      BY <3>2, KeyIs
  <2>4. \A i \in 1 .. MaxKey : w[i] = buffer[i]
    BY <1>2, <1>3, <2>1
  <2>5. /\ Key(w) \in Seq(Byte) /\ Key(buffer) \in Seq(Byte) /\ Len(Key(w)) = Len(Key(buffer))
        /\ \A i \in 1 .. Len(Key(w)) : Key(w)[i] = Key(buffer)[i]
    BY ONLY <2>2, <2>3, <2>4 DEF Bytes
  <2> QED
    BY ONLY <1>2, <2>5, SameSequence
<1> QED
  BY <1>4, <1>5

\* What is written can be read where it was written.
LEMMA WrittenIsRead ==
  ASSUME NEW data \in Bytes, NEW pos \in Nat, NEW buffer \in Bytes
  PROVE  SubSeq(WriteAt(data, pos, buffer), pos + 1, pos + Len(buffer)) = buffer
<1>1. PICK l \in Nat, m \in Nat : l = Len(data) /\ m = Len(buffer)
  BY LenProperties DEF Bytes
<1>2. PICK w \in Bytes : /\ w = WriteAt(data, pos, buffer) /\ Len(w) = Greater(l, pos + m)
                        /\ \A i \in 1 .. m : w[pos + i] = buffer[i]
  <2>1. PICK w : w = WriteAt(data, pos, buffer)
    OBVIOUS
  <2>2. w \in Bytes /\ Len(w) = Greater(Len(data), pos + Len(buffer)) /\ \A i \in 1 .. Len(buffer) : w[pos + i] = buffer[i]
    BY <2>1, WriteAtIs
  <2> QED
    BY ONLY <1>1, <2>1, <2>2
<1>3. \A i \in pos + 1 .. pos + m : w[i] \in Byte
  <2>1. pos + m <= Len(w) /\ Len(w) \in Nat
    BY <1>2 DEF Greater
  <2>2. \A i \in 1 .. Len(w) : w[i] \in Byte
    BY <1>2, ElementOfSeq DEF Bytes
  <2> QED
    BY <2>1, <2>2
<1>4. PICK r : r = SubSeq(w, pos + 1, pos + m)
  OBVIOUS
<1>5. /\ SubSeq(w, pos + 1, pos + m) \in Seq(Byte)
      /\ Len(SubSeq(w, pos + 1, pos + m)) = IF pos + 1 <= pos + m THEN (pos + m) - (pos + 1) + 1 ELSE 0
      /\ \A i \in 1 .. (pos + m) - (pos + 1) + 1 : SubSeq(w, pos + 1, pos + m)[i] = w[(pos + 1) + i - 1]
  <2>1. pos + 1 \in Int /\ pos + m \in Int
    OBVIOUS
  <2> QED
    BY ONLY <1>3, <2>1, SubSeqProperties
<1>6. Len(r) = m /\ \A i \in 1 .. m : r[i] = w[pos + i]
  BY <1>4, <1>5
<1>7. r \in Seq(Byte) /\ buffer \in Seq(Byte) /\ Len(r) = Len(buffer) /\ \A i \in 1 .. Len(r) : r[i] = buffer[i]
  BY <1>1, <1>2, <1>4, <1>5, <1>6 DEF Bytes
<1>8. r = buffer
  BY ONLY <1>7, SameSequence
<1> QED
  BY <1>1, <1>2, <1>4, <1>8

\* The index is told.
Told(t, s, n, old, new) ==
  /\ t \in State
  /\ t.inode = s.inode /\ t.iter = s.iter /\ t.ok = s.ok
  /\ \A m \in Indexed : m # n => t.index[m] = s.index[m]
  /\ n \in Indexed =>
       t.index[n] = IF (old = <<>> /\ new = None) \/ new = <<>> \/ old = new
                      THEN s.index[n] ELSE (s.index[n] \ {old}) \cup ({new} \ {None})

LEMMA UpdatedIs ==
  ASSUME NEW s \in State, NEW n \in Name, NEW old \in Bytes, NEW new \in Bytes \cup {None}
  PROVE  Told(Updated(s, n, old, new), s, n, old, new)
<1>1. s.index \in [Indexed -> SUBSET Bytes]
  BY DEF State
<1>2. PICK same \in BOOLEAN : same = ((old = <<>> /\ new = None) \/ new = <<>> \/ old = new)
  OBVIOUS
<1>3. CASE n \notin Indexed \/ same
  <2>1. Updated(s, n, old, new) = s
    BY <1>2, <1>3 DEF Updated
  <2> QED
    BY <1>2, <1>3, <2>1 DEF Told
<1>4. CASE n \in Indexed /\ ~ same
  <2>1. PICK keys \in SUBSET Bytes : keys = (s.index[n] \ {old}) \cup ({new} \ {None})
    BY <1>1, <1>4
  <2>2. PICK t : t = [s EXCEPT !.index = [s.index EXCEPT ![n] = keys]]
    OBVIOUS
  <2>3. Updated(s, n, old, new) = t
    BY <1>2, <1>4, <2>1, <2>2 DEF Updated
  <2>4. [s.index EXCEPT ![n] = keys] \in [Indexed -> SUBSET Bytes]
    BY <1>1, <2>1
  <2>5. t \in State /\ t.inode = s.inode /\ t.iter = s.iter /\ t.ok = s.ok /\ t.index = [s.index EXCEPT ![n] = keys]
    BY <2>2, <2>4 DEF State
  <2>6. t.index[n] = keys /\ \A m \in Indexed : m # n => t.index[m] = s.index[m]
    BY <1>1, <1>4, <2>5
  <2> QED
    BY <1>2, <1>4, <2>1, <2>3, <2>5, <2>6 DEF Told
<1> QED
  BY <1>2, <1>3, <1>4

-----------------------------------------------------------------------------
(* Writes.                                                                 *)

\* What is done with a file that is there.
FileWritten(s, n, pos, buffer) ==
  LET again == AddedSmallData(s, n, buffer)
  IN  IF again.ok THEN RemovedAttribute(again, n)
      ELSE [s EXCEPT !.inode.file[n] = WriteAt(@, pos, buffer)]

\* The attribute goes to the section, and its file is removed.
MovedIn(t, s, n, buffer) ==
  \E again \in State :
    /\ Addition(again, s, n, buffer) /\ again.ok
    /\ Filed(t, again, n, None)
    /\ t.iter.dir = IF ~ t.inode.dir /\ again.iter.dir = "current" THEN "removed" ELSE again.iter.dir

Overwritten(t, s, n, pos, buffer) ==
  Filed(t, s, n, WriteAt(s.inode.file[n], pos, buffer)) /\ t.iter = s.iter

LEMMA FileWrittenIs ==
  ASSUME NEW s \in State, Placed(s.inode), NEW n \in Name, s.inode.file[n] # None, NEW pos \in Nat, NEW buffer \in Bytes
  PROVE  \/ /\ AddedSmallData(s, n, buffer).ok
            /\ MovedIn(FileWritten(s, n, pos, buffer), s, n, buffer)
         \/ /\ ~ AddedSmallData(s, n, buffer).ok
            /\ Overwritten(FileWritten(s, n, pos, buffer), s, n, pos, buffer)
<1>1. s.inode \in Inode /\ s.inode.file \in [Name -> Bytes \cup {None}]
  BY DEF State, Inode
<1>2. Section(s.inode.small)
  BY DEF Placed
<1>3. PICK again : again = AddedSmallData(s, n, buffer)
  OBVIOUS
<1>4. Addition(again, s, n, buffer)
  BY ONLY <1>2, <1>3, AddedSmallDataIs, s \in State, n \in Name, buffer \in Bytes
<1>5. again \in State
  BY <1>4 DEF Addition
<1>6. PICK t : t = FileWritten(s, n, pos, buffer)
  OBVIOUS
<1>7. CASE again.ok
  <2>1. t = RemovedAttribute(again, n)
    BY <1>3, <1>6, <1>7 DEF FileWritten
  <2>2. /\ Filed(t, again, n, None)
        /\ t.iter.dir = IF ~ t.inode.dir /\ again.iter.dir = "current" THEN "removed" ELSE again.iter.dir
    <3>1. /\ Filed(RemovedAttribute(again, n), again, n, None)
          /\ RemovedAttribute(again, n).iter.dir = IF ~ RemovedAttribute(again, n).inode.dir /\ again.iter.dir = "current"
                                                      THEN "removed" ELSE again.iter.dir
      BY ONLY <1>5, n \in Name, RemovedAttributeIs
    <3> QED
      BY ONLY <2>1, <3>1
  <2>3. MovedIn(t, s, n, buffer)
    BY ONLY <1>4, <1>5, <1>7, <2>2 DEF MovedIn
  <2> QED
    BY ONLY <1>3, <1>6, <1>7, <2>3
<1>8. CASE ~ again.ok
  <2>1. PICK w \in Bytes : w = WriteAt(s.inode.file[n], pos, buffer)
    <3>1. s.inode.file[n] \in Bytes
      BY <1>1
    <3> QED
      BY <3>1, WriteAtIs
  <2>2. t = [s EXCEPT !.inode.file[n] = w]
    BY <1>3, <1>6, <1>8, <2>1 DEF FileWritten
  <2>3. s.inode.dir = TRUE
    <3>1. HasFiles(s.inode)
      BY DEF HasFiles, HasAny
    <3> QED
      BY <1>1, <3>1 DEF Placed, Inode
  <2>4. [s.inode EXCEPT !.file = [s.inode.file EXCEPT ![n] = w]]
          = [s.inode EXCEPT !.dir = TRUE, !.file = [s.inode.file EXCEPT ![n] = w]]
    BY ONLY <1>1, <2>3 DEF Inode
  <2>5. t = [s EXCEPT !.inode = [s.inode EXCEPT !.file = [s.inode.file EXCEPT ![n] = w]]]
    BY ONLY <2>2
  <2>6. s.ok \in BOOLEAN /\ [s EXCEPT !.ok = s.ok] = s
    BY DEF State
  <2>7. FiledBy(t, s, n, w, s.ok)
    <3>1. t = [s EXCEPT !.inode = [s.inode EXCEPT !.file = [s.inode.file EXCEPT ![n] = w]], !.ok = s.ok]
      BY ONLY <2>5, s \in State DEF State
    <3> QED
      BY ONLY <2>4, <3>1 DEF FiledBy
  <2>8. Filed(t, s, n, w) /\ t.iter = s.iter
    BY ONLY <2>6, <2>7, FiledIs, s \in State, n \in Name, w \in Bytes
  <2> QED
    BY ONLY <1>3, <1>6, <1>8, <2>1, <2>8 DEF Overwritten
<1> QED
  BY ONLY <1>7, <1>8

LEMMA MovedInTurns ==
  ASSUME NEW s \in State, Placed(s.inode), NEW n \in Name, NEW buffer, NEW t, MovedIn(t, s, n, buffer)
  PROVE  Turns(t, s, n, buffer, None) /\ t.index = s.index
<1>1. PICK again \in State : Addition(again, s, n, buffer) /\ again.ok /\ Filed(t, again, n, None)
  BY DEF MovedIn
<1>2. Turns(again, s, n, buffer, s.inode.file[n])
  BY <1>1, AdditionTurns
<1>3. s.inode.file \in [Name -> Bytes \cup {None}]
  BY DEF State, Inode
<1>4. t.inode.file = [s.inode.file EXCEPT ![n] = None]
  BY <1>1, <1>2, <1>3 DEF Filed, Turns
<1> QED
  BY <1>1, <1>2, <1>4 DEF Filed, Turns, Addition

\* The attribute is not in the section any more.
TakenOut(t, s, n) ==
  LET at == FindSmallData(s.inode.small, n)
  IN  (at = 0 /\ t = s) \/ (at # 0 /\ Removal(t, s, at))

LEMMA TakenOutIs ==
  ASSUME NEW s \in State, Placed(s.inode), NEW n \in Name, s.inode.file[n] = None, NEW t, TakenOut(t, s, n)
  PROVE  Outcome(t, s, n) /\ Entry(t.inode, n) = None /\ t.inode.file[n] = None
         /\ Kept(t.inode.small, n) = None /\ t.index = s.index
<1>1. PICK at : at = FindSmallData(s.inode.small, n)
  OBVIOUS
<1>2. s.inode.small \in Seq(Item)
  BY DEF State, Inode
<1>3. CASE at = 0
  <2>1. t = s
    BY <1>1, <1>3 DEF TakenOut
  <2>2. Kept(s.inode.small, n) = None
    BY <1>1, <1>2, <1>3, KeptIs
  <2> QED
    BY <2>1, <2>2 DEF Outcome, Entry
<1>4. CASE at # 0
  <2>1. Removal(t, s, FindSmallData(s.inode.small, n)) /\ FindSmallData(s.inode.small, n) # 0
    BY <1>1, <1>4 DEF TakenOut
  <2>2. Turns(t, s, n, None, None)
    BY <2>1, RemovalTurns
  <2>3. Outcome(t, s, n) /\ Entry(t.inode, n) = None /\ t.inode.file[n] = None
    BY <2>2, TurnsOut
  <2>4. Kept(t.inode.small, n) = None
    BY <2>2 DEF Turns, Becomes
  <2>5. t.index = s.index
    BY <2>1 DEF Removal
  <2> QED
    BY <2>3, <2>4, <2>5
<1> QED
  BY <1>3, <1>4

LEMMA TakenOutBy ==
  ASSUME NEW s \in State, NEW n \in Name,
         NEW t, t = IF FindSmallData(s.inode.small, n) = 0 THEN s ELSE RemovedSmallData(s, FindSmallData(s.inode.small, n))
  PROVE  TakenOut(t, s, n)
<1>1. PICK at : at = FindSmallData(s.inode.small, n)
  OBVIOUS
<1>2. CASE at = 0
  BY <1>1, <1>2 DEF TakenOut
<1>3. CASE at # 0
  <2>1. s.inode.small \in Seq(Item)
    BY DEF State, Inode
  <2>2. at \in 1 .. Len(s.inode.small)
    <3>1. PICK l \in Nat : l = Len(s.inode.small)
      BY <2>1, LenProperties
    <3> QED
      BY <1>1, <1>3, <2>1, <3>1, FindIs
  <2>3. Removal(RemovedSmallData(s, at), s, at)
    BY <2>2, RemovedSmallDataIs
  <2> QED
    BY <1>1, <1>3, <2>3 DEF TakenOut
<1> QED
  BY <1>2, <1>3

\* The attribute has a file, which is written.
FileWrite(t, s, n, pos, buffer) == MovedIn(t, s, n, buffer) \/ Overwritten(t, s, n, pos, buffer)

\* The ways of a write.
WrittenBy(t, s, n, pos, buffer) ==
  \/ s.inode.file[n] = None /\ Addition(t, s, n, buffer) /\ t.ok
  \/ /\ s.inode.file[n] = None
     /\ \E removed \in State, opened \in State :
          /\ TakenOut(removed, s, n)
          /\ Filed(opened, removed, n, <<>>) /\ opened.iter = removed.iter
          /\ FileWrite(t, opened, n, pos, buffer)
          /\ FindSmallData(s.inode.small, n) # 0 => Overwritten(t, opened, n, pos, buffer)
  \/ s.inode.file[n] # None /\ FileWrite(t, s, n, pos, buffer)

\* The attribute has what was written, or its file has it at its place.
HasWritten(t, s, n, pos, buffer) ==
  \/ t.inode.file[n] = None /\ Entry(t.inode, n) = buffer
  \/ /\ t.inode.file[n] = Entry(t.inode, n)
     /\ Entry(t.inode, n) = WriteAt(IF s.inode.file[n] = None THEN <<>> ELSE s.inode.file[n], pos, buffer)

LEMMA FileWriteResult ==
  ASSUME NEW s \in State, Placed(s.inode), NEW n \in Name, s.inode.file[n] # None, NEW pos \in Nat, NEW buffer \in Bytes,
         NEW t, FileWrite(t, s, n, pos, buffer)
  PROVE  Outcome(t, s, n) /\ t.index = s.index
         /\ \/ t.inode.file[n] = None /\ Entry(t.inode, n) = buffer
            \/ t.inode.file[n] = Entry(t.inode, n) /\ Entry(t.inode, n) = WriteAt(s.inode.file[n], pos, buffer)
<1>1. CASE MovedIn(t, s, n, buffer)
  <2>1. Turns(t, s, n, buffer, None) /\ t.index = s.index
    BY <1>1, MovedInTurns
  <2>2. Outcome(t, s, n) /\ t.inode.file[n] = None /\ Entry(t.inode, n) = IF buffer # None THEN buffer ELSE None
    BY <2>1, TurnsOut
  <2> QED
    BY <2>1, <2>2
<1>2. CASE Overwritten(t, s, n, pos, buffer)
  <2>1. Kept(s.inode.small, n) = None
    BY DEF Placed
  <2>2. PICK w : w = WriteAt(s.inode.file[n], pos, buffer)
    OBVIOUS
  <2>3. Filed(t, s, n, w)
    BY <1>2, <2>2 DEF Overwritten
  <2>4. Turns(t, s, n, None, w)
    BY <2>1, <2>3, FiledTurns
  <2>5. Outcome(t, s, n) /\ t.inode.file[n] = w /\ Entry(t.inode, n) = w
    BY <2>4, TurnsOut
  <2>6. t.index = s.index
    BY <2>3 DEF Filed
  <2> QED
    BY <2>2, <2>5, <2>6
<1> QED
  BY <1>1, <1>2 DEF FileWrite

LEMMA OutcomeAgain ==
  ASSUME NEW s, NEW t, NEW u, NEW n, Outcome(t, s, n), Outcome(u, t, n)
  PROVE  Outcome(u, s, n)
  BY DEF Outcome

LEMMA WrittenResult ==
  ASSUME NEW s \in State, Placed(s.inode), NEW n \in Name, NEW pos \in Nat, NEW buffer \in Bytes,
         NEW t, WrittenBy(t, s, n, pos, buffer)
  PROVE  Outcome(t, s, n) /\ t.index = s.index /\ HasWritten(t, s, n, pos, buffer)
<1>1. CASE s.inode.file[n] = None /\ Addition(t, s, n, buffer) /\ t.ok
  <2>1. Turns(t, s, n, buffer, None)
    BY <1>1, AdditionTurns
  <2>2. Outcome(t, s, n) /\ t.inode.file[n] = None /\ Entry(t.inode, n) = IF buffer # None THEN buffer ELSE None
    BY <2>1, TurnsOut
  <2>3. t.index = s.index
    BY <1>1 DEF Addition
  <2> QED
    BY <2>2, <2>3 DEF HasWritten
<1>2. CASE s.inode.file[n] # None /\ FileWrite(t, s, n, pos, buffer)
  <2>1. Outcome(t, s, n) /\ t.index = s.index
        /\ \/ t.inode.file[n] = None /\ Entry(t.inode, n) = buffer
           \/ t.inode.file[n] = Entry(t.inode, n) /\ Entry(t.inode, n) = WriteAt(s.inode.file[n], pos, buffer)
    BY <1>2, FileWriteResult
  <2> QED
    BY <1>2, <2>1 DEF HasWritten
<1>3. ASSUME s.inode.file[n] = None, NEW removed \in State, NEW opened \in State,
             TakenOut(removed, s, n), Filed(opened, removed, n, <<>>), FileWrite(t, opened, n, pos, buffer)
      PROVE  Outcome(t, s, n) /\ t.index = s.index /\ HasWritten(t, s, n, pos, buffer)
  <2>1. Outcome(removed, s, n) /\ Kept(removed.inode.small, n) = None /\ removed.index = s.index
    BY <1>3, TakenOutIs
  <2>2. Placed(removed.inode)
    BY <2>1 DEF Outcome
  <2>3. Turns(opened, removed, n, None, <<>>)
    BY <1>3, <2>1, <2>2, FiledTurns
  <2>4. Outcome(opened, removed, n) /\ opened.inode.file[n] = <<>>
    BY <2>2, <2>3, TurnsOut
  <2>5. Placed(opened.inode) /\ opened.inode.file[n] # None
    <3>1. <<>> # None
      BY DEF None
    <3> QED
      BY <2>4, <3>1 DEF Outcome
  <2>6. Outcome(t, opened, n) /\ t.index = opened.index
        /\ \/ t.inode.file[n] = None /\ Entry(t.inode, n) = buffer
           \/ t.inode.file[n] = Entry(t.inode, n) /\ Entry(t.inode, n) = WriteAt(opened.inode.file[n], pos, buffer)
    BY <1>3, <2>5, FileWriteResult
  <2>7. opened.index = removed.index
    BY <1>3 DEF Filed
  <2>8. Outcome(t, s, n)
    BY <2>1, <2>4, <2>6, OutcomeAgain
  <2>9. HasWritten(t, s, n, pos, buffer)
    BY <1>3, <2>4, <2>6 DEF HasWritten
  <2> QED
    BY <2>1, <2>6, <2>7, <2>8, <2>9
<1> QED
  BY <1>1, <1>2, <1>3 DEF WrittenBy

\* The key that the index has, if it has one.
OldKey(i, n) == IF Entry(i, n) = None THEN <<>> ELSE Key(Entry(i, n))

WrittenAndTold(t, done, s, n, pos, buffer) ==
  /\ WrittenBy(done, s, n, pos, buffer)
  /\ IF pos = 0 THEN Told(t, done, n, OldKey(s.inode, n), Key(buffer)) ELSE t = done

\* An attribute that was taken out for what is too large for the section is not
\* put back.
LEMMA NoWayBack ==
  ASSUME NEW s \in State, Placed(s.inode), NEW n \in Name, FindSmallData(s.inode.small, n) # 0, NEW buffer \in Bytes,
         ~ AddedSmallData(s, n, buffer).ok,
         NEW out, TakenOut(out, s, n), NEW new, new.inode.small = out.inode.small
  PROVE  AddedSmallData(new, n, buffer) = [new EXCEPT !.ok = FALSE]
<1> DEFINE small == s.inode.small
           at == FindSmallData(small, n)
           replaced == [small EXCEPT ![at] = [name |-> n, data |-> buffer]]
<1>1. PICK x \in Item : x = [name |-> n, data |-> buffer]
  BY DEF Item
<1>2. s.inode \in Inode /\ small \in Seq(Item) /\ Section(small) /\ out.inode.small = RemoveAt(small, at)
  <2>1. Removal(out, s, at)
    BY DEF TakenOut
  <2>2. s.inode \in Inode /\ small \in Seq(Item)
    BY DEF State, Inode
  <2>3. out.inode = [s.inode EXCEPT !.small = RemoveAt(small, at)]
    BY <2>1 DEF Removal
  <2> QED
    BY <2>2, <2>3 DEF Inode, Placed
<1>3. at \in 1 .. Len(small) /\ small[at].name = n
  <2>1. PICK l \in Nat : l = Len(small)
    BY <1>2, LenProperties
  <2> QED
    BY <1>2, <2>1, FindIs
<1>4. Used(new.inode.small) = Used(small) - Size(small[at]) /\ FindSmallData(new.inode.small, n) = 0
  <2>1. Becomes(RemoveAt(small, at), small, small[at].name, None)
        /\ Used(RemoveAt(small, at)) = Used(small) - Size(small[at])
    BY ONLY <1>2, <1>3, SectionRemoved
  <2>2. Kept(new.inode.small, n) = None /\ new.inode.small \in Seq(Item)
    BY <1>2, <1>3, <2>1 DEF Becomes, Section
  <2> QED
    BY <1>2, <2>1, <2>2, KeptIs
<1>5. Size(x) > Capacity \/ Used(replaced) > Capacity
  <2>1. ASSUME ~ (Size(x) > Capacity), Used(replaced) <= Capacity
        PROVE  FALSE
    <3>1. AddedSmallData(s, n, buffer) = [s EXCEPT !.ok = TRUE, !.inode = [s.inode EXCEPT !.small = replaced]]
      BY <1>1, <2>1 DEF AddedSmallData
    <3> QED
      BY <3>1 DEF State
  <2>2. replaced \in Seq(Item)
    BY ONLY <1>1, <1>2, <1>3, ExceptSeq
  <2>3. Used(replaced) \in Nat /\ Capacity \in Nat
    BY <2>2, UsedType, AttributesAssumption
  <2> QED
    BY <2>1, <2>3
<1>6. Used(replaced) = Used(small) - Size(small[at]) + Size(x)
  <2>1. /\ replaced \in Seq(Item) /\ Len(replaced) = Len(small)
        /\ \A i \in 1 .. Len(small) : replaced[i] = IF i = at THEN x ELSE small[i]
    BY ONLY <1>1, <1>2, <1>3, ExceptSeq
  <2>2. PICK l \in Nat : l = Len(small)
    BY <1>2, LenProperties
  <2>3. WithAt(replaced, small, at, x)
    BY <1>3, <2>1, <2>2 DEF WithAt
  <2> QED
    BY ONLY <1>1, <1>2, <1>3, <2>1, <2>3, UsedWith
<1>7. Size(x) > Capacity \/ Used(new.inode.small) + Size(x) > Capacity
  BY ONLY <1>4, <1>5, <1>6
<1> QED
  BY <1>1, <1>4, <1>7 DEF AddedSmallData

LEMMA WrittenIs ==
  ASSUME NEW s \in State, Placed(s.inode), NEW n \in Name, NEW pos \in Nat, NEW buffer \in Bytes
  PROVE  \E done : WrittenAndTold(Written(s, n, pos, buffer), done, s, n, pos, buffer)
<1> DEFINE hasFile == s.inode.file[n] # None
           at == FindSmallData(s.inode.small, n)
           added == AddedSmallData(s, n, buffer)
           removed == IF at = 0 THEN s ELSE RemovedSmallData(s, at)
           opened == IF hasFile THEN s ELSE CreatedAttribute(removed, n)
           oldFile == opened.inode.file[n]
           old == IF oldFile # <<>> THEN Key(oldFile) ELSE IF at # 0 THEN Key(s.inode.small[at].data) ELSE <<>>
           done == IF ~ hasFile /\ added.ok THEN added ELSE FileWritten(opened, n, pos, buffer)
<1>1. Written(s, n, pos, buffer) = IF pos = 0 THEN Updated(done, n, old, Key(buffer)) ELSE done
  BY DEF Written, FileWritten
<1>2. s.inode \in Inode /\ s.inode.small \in Seq(Item) /\ s.inode.file \in [Name -> Bytes \cup {None}]
  BY DEF State, Inode
<1>6. SUFFICES WrittenBy(done, s, n, pos, buffer) /\ old = OldKey(s.inode, n)
  <2> HIDE DEF done, old
  <2>1. done \in State
    <3>1. Outcome(done, s, n)
      BY <1>6, WrittenResult
    <3> QED
      BY <3>1 DEF Outcome
  <2>2. Entry(s.inode, n) \in Bytes \cup {None}
    BY <1>2, EntryIs
  <2>3. old \in Bytes
    <3>1. <<>> \in Bytes
      BY DEF Bytes
    <3>2. OldKey(s.inode, n) \in Bytes
      BY <2>2, <3>1, KeyIs DEF OldKey
    <3> QED
      BY <1>6, <3>2
  <2>4. Key(buffer) \in Bytes
    BY KeyIs
  <2>5. Told(Updated(done, n, old, Key(buffer)), done, n, old, Key(buffer))
    BY <2>1, <2>3, <2>4, UpdatedIs
  <2>6. WrittenAndTold(Written(s, n, pos, buffer), done, s, n, pos, buffer)
    BY ONLY <1>1, <1>6, <2>5 DEF WrittenAndTold
  <2> QED
    BY ONLY <2>6
<1>3. Key(<<>>) = <<>> /\ <<>> \in Bytes /\ <<>> # None
  <2>1. <<>> \in Bytes
    BY DEF Bytes
  <2>2. Key(<<>>) = <<>>
    BY ONLY <2>1, KeyIs
  <2> QED
    BY <2>1, <2>2 DEF None
<1>4. CASE hasFile
  <2>1. opened = s /\ done = FileWritten(s, n, pos, buffer)
    BY <1>4
  <2>2. FileWrite(done, s, n, pos, buffer)
    BY <1>4, <2>1, FileWrittenIs DEF FileWrite
  <2>3. WrittenBy(done, s, n, pos, buffer)
    BY <1>4, <2>2 DEF WrittenBy
  <2>4. Kept(s.inode.small, n) = None
    BY <1>4 DEF Placed
  <2>5. at = 0
    BY <1>2, <2>4, KeptIs
  <2>6. Entry(s.inode, n) = s.inode.file[n]
    BY <2>4 DEF Entry
  <2>7. old = OldKey(s.inode, n)
    BY <1>3, <1>4, <2>1, <2>5, <2>6 DEF OldKey
  <2> HIDE DEF done, old
  <2> QED
    BY <2>3, <2>7
<1>5. CASE ~ hasFile
  <2>1. PICK out : out = removed
    OBVIOUS
  <2>2. TakenOut(out, s, n)
    BY ONLY <2>1, s \in State, n \in Name, TakenOutBy
  <2>3. Outcome(out, s, n) /\ out.inode.file[n] = None
    BY <1>5, <2>2, TakenOutIs
  <2>4. out \in State /\ Placed(out.inode)
    BY <2>3 DEF Outcome
  <2>5. PICK new : new = CreatedAttribute(out, n)
    OBVIOUS
  <2>6. Filed(new, out, n, <<>>) /\ new.iter = out.iter
    BY ONLY <2>4, <2>5, n \in Name, CreatedAttributeIs
  <2>7. new \in State
    BY <2>6 DEF Filed
  <2>8. opened = new
    BY ONLY <1>5, <2>1, <2>5
  <2>9. new.inode.file[n] = <<>>
    <3>1. out.inode.file \in [Name -> Bytes \cup {None}]
      BY <2>4 DEF State, Inode
    <3>2. new.inode.file = [out.inode.file EXCEPT ![n] = <<>>]
      BY <2>6 DEF Filed
    <3> QED
      BY <3>1, <3>2
  <2>10. WrittenBy(done, s, n, pos, buffer)
    <3>1. CASE added.ok
      <4>1. Section(s.inode.small)
        BY DEF Placed
      <4>2. Addition(added, s, n, buffer)
        BY ONLY <4>1, s \in State, n \in Name, buffer \in Bytes, AddedSmallDataIs
      <4>3. done = added
        BY <1>5, <3>1
      <4> HIDE DEF added, done
      <4> QED
        BY <1>5, <3>1, <4>2, <4>3 DEF WrittenBy
    <3>2. CASE ~ added.ok
      <4>1. done = FileWritten(new, n, pos, buffer)
        BY <2>8, <3>2
      <4>2. Kept(out.inode.small, n) = None
        BY <1>5, <2>2, TakenOutIs
      <4>3. Turns(new, out, n, None, <<>>)
        BY ONLY <2>4, <2>6, <4>2, n \in Name, FiledTurns
      <4>4. Outcome(new, out, n)
        BY ONLY <2>4, <4>3, n \in Name, TurnsOut
      <4>5. Placed(new.inode) /\ new.inode.file[n] # None
        BY <1>3, <2>9, <4>4 DEF Outcome
      <4>6. PICK t : t = FileWritten(new, n, pos, buffer)
        OBVIOUS
      <4>7. FileWrite(t, new, n, pos, buffer)
        BY ONLY <2>7, <4>5, <4>6, FileWrittenIs, n \in Name, pos \in Nat, buffer \in Bytes DEF FileWrite
      <4>8. at # 0 => Overwritten(t, new, n, pos, buffer)
        <5> SUFFICES ASSUME at # 0 PROVE Overwritten(t, new, n, pos, buffer)
          OBVIOUS
        <5>1. new.inode.small = out.inode.small
          BY <2>6 DEF Filed
        <5>2. AddedSmallData(new, n, buffer) = [new EXCEPT !.ok = FALSE]
          BY <2>2, <3>2, <5>1, NoWayBack
        <5>3. ~ AddedSmallData(new, n, buffer).ok
          BY ONLY <2>7, <5>2 DEF State
        <5> QED
          BY ONLY <2>7, <4>5, <4>6, <5>3, FileWrittenIs, n \in Name, pos \in Nat, buffer \in Bytes
      <4>9. WrittenBy(t, s, n, pos, buffer)
        BY ONLY <1>5, <2>2, <2>4, <2>6, <2>7, <4>7, <4>8 DEF WrittenBy
      <4> HIDE DEF done
      <4> QED
        BY ONLY <4>1, <4>6, <4>9
    <3> QED
      BY <3>1, <3>2
  <2>11. old = OldKey(s.inode, n)
    <3>1. oldFile = <<>>
      BY <2>8, <2>9
    <3>2. CASE at = 0
      <4>1. Kept(s.inode.small, n) = None
        BY <1>2, <3>2, KeptIs
      <4>2. Entry(s.inode, n) = None
        BY <1>5, <4>1 DEF Entry
      <4> QED
        BY <3>1, <3>2, <4>2 DEF OldKey
    <3>3. CASE at # 0
      <4>1. Kept(s.inode.small, n) # None /\ Kept(s.inode.small, n) = s.inode.small[at].data
        BY <1>2, <3>3, KeptIs
      <4>2. Entry(s.inode, n) = s.inode.small[at].data /\ Entry(s.inode, n) # None
        BY <4>1 DEF Entry
      <4> QED
        BY <3>1, <3>3, <4>2 DEF OldKey
    <3> QED
      BY <3>2, <3>3
  <2> HIDE DEF done, old
  <2> QED
    BY <2>10, <2>11
<1> QED
  BY ONLY <1>4, <1>5

\* The index has the key of the attribute, or nothing if there is none.
Follows(i, keys, n) ==
  /\ Entry(i, n) # <<>>
  /\ keys[n] = IF Entry(i, n) = None THEN {} ELSE {Key(Entry(i, n))}

LEMMA WrittenFollows ==
  ASSUME NEW s \in State, Placed(s.inode), NEW n \in Name, NEW pos \in Nat, NEW buffer \in Bytes,
         NEW t, NEW done, WrittenAndTold(t, done, s, n, pos, buffer)
  PROVE  /\ Outcome(t, s, n) /\ HasWritten(t, s, n, pos, buffer)
         /\ t.inode = done.inode /\ t.iter = done.iter
         /\ \A m \in Indexed : m # n => t.index[m] = s.index[m]
         /\ n \in Indexed /\ Follows(s.inode, s.index, n) /\ ~ Loosens(n, pos, buffer, t.inode)
              => Follows(t.inode, t.index, n)
<1>1. WrittenBy(done, s, n, pos, buffer)
  BY DEF WrittenAndTold
<1>2. Outcome(done, s, n) /\ done.index = s.index /\ HasWritten(done, s, n, pos, buffer)
  BY <1>1, WrittenResult
<1>3. pos = 0 => Told(t, done, n, OldKey(s.inode, n), Key(buffer))
  BY DEF WrittenAndTold
<1>4. t \in State /\ t.inode = done.inode /\ t.iter = done.iter
  <2>1. CASE pos = 0
    BY <1>3, <2>1 DEF Told
  <2>2. CASE pos # 0
    BY <1>2, <2>2 DEF WrittenAndTold, Outcome
  <2> QED
    BY <2>1, <2>2
<1>5. Outcome(t, s, n) /\ HasWritten(t, s, n, pos, buffer)
  BY <1>2, <1>4 DEF Outcome, HasWritten
<1>6. \A m \in Indexed : m # n => t.index[m] = s.index[m]
  <2>1. CASE pos = 0
    BY <1>2, <1>3, <2>1 DEF Told
  <2>2. CASE pos # 0
    BY <1>2, <2>2 DEF WrittenAndTold
  <2> QED
    BY <2>1, <2>2
<1>7. ASSUME n \in Indexed, Follows(s.inode, s.index, n), ~ Loosens(n, pos, buffer, t.inode)
      PROVE  Follows(t.inode, t.index, n)
  <2>1. pos = 0 /\ buffer # <<>> /\ ~ (Len(buffer) < MaxKey /\ t.inode.file[n] # None /\ Len(buffer) < Len(t.inode.file[n]))
    BY <1>7 DEF Loosens
  <2>2. s.inode \in Inode /\ s.inode.file[n] \in Bytes \cup {None} /\ <<>> \in Bytes
    BY DEF State, Inode, Bytes
  <2>3. Entry(t.inode, n) \in Bytes /\ Key(Entry(t.inode, n)) = Key(buffer) /\ Entry(t.inode, n) # <<>>
    <3>1. CASE t.inode.file[n] = None /\ Entry(t.inode, n) = buffer
      BY <2>1, <3>1
    <3>2. CASE t.inode.file[n] = Entry(t.inode, n)
               /\ Entry(t.inode, n) = WriteAt(IF s.inode.file[n] = None THEN <<>> ELSE s.inode.file[n], pos, buffer)
      <4>1. PICK data \in Bytes : data = IF s.inode.file[n] = None THEN <<>> ELSE s.inode.file[n]
        BY <2>2
      <4>2. PICK w : w = WriteAt(data, 0, buffer)
        OBVIOUS
      <4>3. w \in Bytes /\ w # None
        BY ONLY <4>2, data \in Bytes, buffer \in Bytes, WriteAtIs, 0 \in Nat
      <4>4. t.inode.file[n] = w /\ Entry(t.inode, n) = w
        BY <2>1, <3>2, <4>1, <4>2
      <4>5. ~ (Len(buffer) < MaxKey /\ Len(buffer) < Len(w))
        BY ONLY <2>1, <4>3, <4>4
      <4>6. Key(w) = Key(buffer)
        BY ONLY <4>2, <4>5, data \in Bytes, buffer \in Bytes, KeyOfWritten
      <4>7. w # <<>>
        BY ONLY <2>1, <4>3, <4>6, buffer \in Bytes, KeyIs
      <4> QED
        BY <4>3, <4>4, <4>6, <4>7
    <3> QED
      BY <1>5, <3>1, <3>2 DEF HasWritten
  <2>4. Key(buffer) \in Bytes /\ Key(buffer) # <<>> /\ Key(buffer) # None
    BY <2>1, KeyIs, NoneIsNoData
  <2>5. t.index[n] = IF OldKey(s.inode, n) = Key(buffer) THEN s.index[n]
                      ELSE (s.index[n] \ {OldKey(s.inode, n)}) \cup {Key(buffer)}
    <3>1. t.index[n] = IF (OldKey(s.inode, n) = <<>> /\ Key(buffer) = None) \/ Key(buffer) = <<>> \/ OldKey(s.inode, n) = Key(buffer)
                         THEN s.index[n] ELSE (s.index[n] \ {OldKey(s.inode, n)}) \cup ({Key(buffer)} \ {None})
      BY ONLY <1>2, <1>3, <1>7, <2>1 DEF Told
    <3> QED
      BY ONLY <2>4, <3>1
  <2>6. t.index[n] = {Key(buffer)}
    <3>1. CASE Entry(s.inode, n) = None
      <4>1. OldKey(s.inode, n) = <<>> /\ s.index[n] = {}
        BY <1>7, <3>1 DEF OldKey, Follows
      <4> QED
        BY <2>4, <2>5, <4>1
    <3>2. CASE Entry(s.inode, n) # None
      <4>1. s.index[n] = {OldKey(s.inode, n)}
        BY <1>7, <3>2 DEF OldKey, Follows
      <4> QED
        BY <2>5, <4>1
    <3> QED
      BY <3>1, <3>2
  <2>7. Entry(t.inode, n) # None
    BY <2>3, NoneIsNoData
  <2> QED
    BY <2>3, <2>6, <2>7 DEF Follows
<1> QED
  BY <1>4, <1>5, <1>6, <1>7

-----------------------------------------------------------------------------
(* Removals.                                                               *)

\* The index is told, and then the attribute is removed from its place.
RemovedFrom(t, told, s, n) ==
  LET at == FindSmallData(s.inode.small, n)
  IN  \/ Entry(s.inode, n) = None /\ t = s /\ told = s
      \/ Entry(s.inode, n) # None
         /\ Told(told, s, n, Key(Entry(s.inode, n)), None)
         /\ \/ at # 0 /\ Removal(t, told, at)
            \/ /\ at = 0 /\ Filed(t, told, n, None)
               /\ t.iter.dir = IF ~ t.inode.dir /\ told.iter.dir = "current" THEN "removed" ELSE told.iter.dir

LEMMA RemovedIs ==
  ASSUME NEW s \in State, Placed(s.inode), NEW n \in Name
  PROVE  \E told \in State : RemovedFrom(Removed(s, n), told, s, n)
<1>1. s.inode \in Inode /\ s.inode.small \in Seq(Item) /\ s.inode.file[n] \in Bytes \cup {None}
  BY DEF State, Inode
<1>2. PICK at : at = FindSmallData(s.inode.small, n)
  OBVIOUS
<1>3. PICK e : e = Entry(s.inode, n)
  OBVIOUS
<1>4. PICK t : t = Removed(s, n)
  OBVIOUS
<1>5. CASE at # 0
  <2>1. e = s.inode.small[at].data /\ e \in Bytes /\ e # None
    BY <1>1, <1>2, <1>3, <1>5, KeptIs DEF Entry
  <2>2. PICK told : told = Updated(s, n, Key(e), None)
    OBVIOUS
  <2>3. Told(told, s, n, Key(e), None)
    BY <2>1, <2>2, UpdatedIs, KeyIs
  <2>4. told \in State /\ told.inode = s.inode
    BY <2>3 DEF Told
  <2>5. t = RemovedSmallData(told, at)
    BY <1>2, <1>4, <1>5, <2>1, <2>2 DEF Removed
  <2>6. at \in 1 .. Len(told.inode.small)
    <3>1. PICK l \in Nat : l = Len(s.inode.small)
      BY <1>1, LenProperties
    <3> QED
      BY <1>1, <1>2, <1>5, <2>4, <3>1, FindIs
  <2>7. Removal(t, told, at)
    BY <2>4, <2>5, <2>6, RemovedSmallDataIs
  <2>8. RemovedFrom(t, told, s, n)
    BY ONLY <1>2, <1>3, <1>5, <2>1, <2>3, <2>7 DEF RemovedFrom
  <2> QED
    BY ONLY <1>4, <2>4, <2>8
<1>6. CASE at = 0 /\ s.inode.file[n] # None
  <2>1. e = s.inode.file[n] /\ e \in Bytes /\ e # None
    BY <1>1, <1>2, <1>3, <1>6, KeptIs DEF Entry
  <2>2. PICK told : told = Updated(s, n, Key(e), None)
    OBVIOUS
  <2>3. Told(told, s, n, Key(e), None)
    BY <2>1, <2>2, UpdatedIs, KeyIs
  <2>4. told \in State /\ told.inode = s.inode
    BY <2>3 DEF Told
  <2>5. t = RemovedAttribute(told, n)
    BY <1>2, <1>4, <1>6, <2>1, <2>2 DEF Removed
  <2>6. /\ Filed(t, told, n, None)
        /\ t.iter.dir = IF ~ t.inode.dir /\ told.iter.dir = "current" THEN "removed" ELSE told.iter.dir
    BY ONLY <2>4, <2>5, n \in Name, RemovedAttributeIs
  <2>7. RemovedFrom(t, told, s, n)
    BY ONLY <1>2, <1>3, <1>6, <2>1, <2>3, <2>6 DEF RemovedFrom
  <2> QED
    BY ONLY <1>4, <2>4, <2>7
<1>7. CASE at = 0 /\ s.inode.file[n] = None
  <2>1. e = None
    BY <1>1, <1>2, <1>3, <1>7, KeptIs DEF Entry
  <2>2. t = s
    BY <1>2, <1>4, <1>7 DEF Removed
  <2> QED
    BY <1>3, <1>4, <2>1, <2>2 DEF RemovedFrom
<1> QED
  BY <1>5, <1>6, <1>7

LEMMA RemovedResult ==
  ASSUME NEW s \in State, Placed(s.inode), NEW n \in Name, NEW told \in State, NEW t, RemovedFrom(t, told, s, n)
  PROVE  /\ Outcome(t, s, n) /\ Entry(t.inode, n) = None
         /\ \A m \in Indexed : m # n => t.index[m] = s.index[m]
         /\ n \in Indexed /\ Follows(s.inode, s.index, n) => t.index[n] = {}
         /\ \A m : m # n => Kept(t.inode.small, m) = Kept(s.inode.small, m)
<1>1. CASE Entry(s.inode, n) = None /\ t = s
  BY <1>1 DEF Outcome, Follows
<1>2. CASE Entry(s.inode, n) # None /\ Told(told, s, n, Key(Entry(s.inode, n)), None)
  <2>1. PICK at : at = FindSmallData(s.inode.small, n)
    OBVIOUS
  <2>2. told.inode = s.inode /\ Placed(told.inode)
    BY <1>2 DEF Told
  <2>3. Turns(t, told, n, None, None) /\ t.index = told.index
    <3>1. CASE at # 0
      <4>1. Removal(t, told, at) /\ FindSmallData(told.inode.small, n) = at
        BY <1>2, <2>1, <2>2, <3>1 DEF RemovedFrom
      <4>2. Turns(t, told, n, None, None)
        BY <2>2, <3>1, <4>1, RemovalTurns
      <4> QED
        BY <4>1, <4>2 DEF Removal
    <3>2. CASE at = 0
      <4>1. Filed(t, told, n, None)
        BY <1>2, <2>1, <3>2 DEF RemovedFrom
      <4>2. Turns(t, told, n, Kept(told.inode.small, n), None)
        BY <2>2, <4>1, FiledTurns
      <4>3. Kept(told.inode.small, n) = None
        <5>1. s.inode.small \in Seq(Item)
          BY DEF State, Inode
        <5> QED
          BY <2>1, <2>2, <3>2, <5>1, KeptIs
      <4> QED
        BY <4>1, <4>2, <4>3 DEF Filed
    <3> QED
      BY <3>1, <3>2
  <2>4. Outcome(t, told, n) /\ Entry(t.inode, n) = None
    BY <2>2, <2>3, TurnsOut
  <2>5. Outcome(t, s, n)
    BY <2>2, <2>4 DEF Outcome
  <2>6. \A m \in Indexed : m # n => t.index[m] = s.index[m]
    BY <1>2, <2>3 DEF Told
  <2>7. ASSUME n \in Indexed, Follows(s.inode, s.index, n) PROVE t.index[n] = {}
    <3>1. s.inode \in Inode
      BY DEF State
    <3>2. Entry(s.inode, n) \in Bytes /\ Entry(s.inode, n) # <<>>
      BY <1>2, <2>7, <3>1, EntryIs DEF Follows
    <3>3. PICK k : k = Key(Entry(s.inode, n))
      OBVIOUS
    <3>4. k \in Bytes /\ k # <<>> /\ k # None
      BY <3>2, <3>3, KeyIs, NoneIsNoData
    <3>5. told.index[n] = IF (k = <<>> /\ None = None) \/ None = <<>> \/ k = None
                            THEN s.index[n] ELSE (s.index[n] \ {k}) \cup ({None} \ {None})
      BY <1>2, <2>7, <3>3 DEF Told
    <3>6. None # <<>>
      BY DEF None
    <3>7. told.index[n] = (s.index[n] \ {k}) \cup ({None} \ {None})
      BY ONLY <3>4, <3>5, <3>6
    <3>8. s.index[n] = {k}
      BY <1>2, <2>7, <3>3 DEF Follows
    <3>9. told.index[n] = {}
      BY ONLY <3>7, <3>8
    <3> QED
      BY ONLY <2>3, <3>9
  <2>8. \A m : m # n => Kept(t.inode.small, m) = Kept(s.inode.small, m)
    BY <2>2, <2>3 DEF Turns, Becomes
  <2> QED
    BY ONLY <2>4, <2>5, <2>6, <2>7, <2>8
<1> QED
  BY ONLY <1>1, <1>2, RemovedFrom(t, told, s, n) DEF RemovedFrom

-----------------------------------------------------------------------------
(* The name.                                                               *)

\* An item was moved from the section to a file.
MovedOut(t, s, k, bytes) ==
  LET x == s.inode.small[k]
  IN  /\ k \in 1 .. Len(s.inode.small) /\ x.name # NameTag /\ Size(x) > bytes
      /\ \E filed \in State :
           Filed(filed, s, x.name, x.data) /\ filed.iter = s.iter /\ filed.ok /\ Removal(t, filed, k)

LEMMA MakeSpaceIs ==
  ASSUME NEW s \in State, NEW bytes \in Int
  PROVE  MakeSpace(s, bytes).ok => \E k \in 1 .. Len(s.inode.small) : MovedOut(MakeSpace(s, bytes), s, k, bytes)
<1> DEFINE large == {i \in 1 .. Len(s.inode.small) :
                       s.inode.small[i].name # NameTag /\ Size(s.inode.small[i]) > bytes}
           item == s.inode.small[Min(large)]
<1>1. s.inode \in Inode /\ s.inode.small \in Seq(Item)
  BY DEF State, Inode
<1>2. PICK l \in Nat : l = Len(s.inode.small)
  BY <1>1, LenProperties
<1>3. SUFFICES ASSUME MakeSpace(s, bytes).ok
               PROVE  \E k \in 1 .. l : MovedOut(MakeSpace(s, bytes), s, k, bytes)
  BY <1>2
<1>4. large # {}
  <2>1. SUFFICES ASSUME large = {} PROVE FALSE
    OBVIOUS
  <2>2. MakeSpace(s, bytes) = [s EXCEPT !.ok = FALSE]
    <3>1. MakeSpace(s, bytes)
            = IF large = {} THEN [s EXCEPT !.ok = FALSE]
              ELSE RemovedSmallData([CreatedAttribute(s, item.name) EXCEPT !.inode.file[item.name] = item.data, !.ok = TRUE],
                                    Min(large))
      BY DEF MakeSpace
    <3> HIDE DEF large, item
    <3> QED
      BY ONLY <2>1, <3>1
  <2> HIDE DEF large, item
  <2> QED
    BY <1>3, <2>2 DEF State
<1>5. PICK k : k = Min(large)
  OBVIOUS
<1>6. k \in large
  <2>1. large \subseteq Nat
    BY <1>2
  <2> HIDE DEF large
  <2> QED
    BY <1>4, <1>5, <2>1, MinIsLeast
<1>7. PICK x : x = s.inode.small[k]
  OBVIOUS
<1>8. k \in 1 .. l /\ x.name # NameTag /\ Size(x) > bytes
  BY <1>2, <1>6, <1>7
<1>9. x.name \in Name /\ x.data \in Bytes
  <2>1. x \in Item
    BY <1>1, <1>2, <1>7, <1>8, ElementOfSeq
  <2> QED
    BY <1>8, <2>1 DEF Item
<1>10. PICK t : t = MakeSpace(s, bytes)
  OBVIOUS
<1>11. PICK filed : filed = [CreatedAttribute(s, x.name) EXCEPT !.inode.file[x.name] = x.data, !.ok = TRUE]
  OBVIOUS
<1>12. t = RemovedSmallData(filed, k)
  <2>1. MakeSpace(s, bytes)
          = IF large = {} THEN [s EXCEPT !.ok = FALSE]
            ELSE RemovedSmallData([CreatedAttribute(s, item.name) EXCEPT !.inode.file[item.name] = item.data, !.ok = TRUE],
                                  Min(large))
    BY DEF MakeSpace
  <2>2. item = x
    BY ONLY <1>5, <1>7
  <2> HIDE DEF large, item
  <2> QED
    BY ONLY <1>4, <1>5, <1>10, <1>11, <2>1, <2>2
<1>13. FiledBy(filed, s, x.name, x.data, TRUE)
  <2>1. s.inode.file \in [Name -> Bytes \cup {None}]
    BY <1>1 DEF Inode
  <2>2. [[s.inode.file EXCEPT ![x.name] = <<>>] EXCEPT ![x.name] = x.data] = [s.inode.file EXCEPT ![x.name] = x.data]
    BY <1>9, <2>1
  <2>3. CreatedAttribute(s, x.name)
          = [s EXCEPT !.inode = [s.inode EXCEPT !.dir = TRUE, !.file = [s.inode.file EXCEPT ![x.name] = <<>>]]]
    BY DEF CreatedAttribute, State, Inode
  <2>4. PICK i : i = [s.inode EXCEPT !.dir = TRUE, !.file = [s.inode.file EXCEPT ![x.name] = <<>>]]
    OBVIOUS
  <2>5. i.file = [s.inode.file EXCEPT ![x.name] = <<>>]
    BY ONLY <1>1, <2>4 DEF Inode
  <2>6. [i EXCEPT !.file = [i.file EXCEPT ![x.name] = x.data]]
          = [s.inode EXCEPT !.dir = TRUE, !.file = [s.inode.file EXCEPT ![x.name] = x.data]]
    <3>1. [i EXCEPT !.file = [s.inode.file EXCEPT ![x.name] = x.data]]
            = [s.inode EXCEPT !.dir = TRUE, !.file = [s.inode.file EXCEPT ![x.name] = x.data]]
      BY ONLY <1>1, <2>4 DEF Inode
    <3> QED
      BY ONLY <2>2, <2>5, <3>1
  <2>7. PICK c : c = [s EXCEPT !.inode = i]
    OBVIOUS
  <2>8. c.inode = i
    BY ONLY <2>7, s \in State DEF State
  <2>9. filed = [c EXCEPT !.inode = [i EXCEPT !.file = [i.file EXCEPT ![x.name] = x.data]], !.ok = TRUE]
    <3>1. filed = [c EXCEPT !.inode.file[x.name] = x.data, !.ok = TRUE]
      BY ONLY <1>11, <2>3, <2>4, <2>7
    <3>2. filed = [c EXCEPT !.inode = [c.inode EXCEPT !.file = [c.inode.file EXCEPT ![x.name] = x.data]], !.ok = TRUE]
      BY ONLY <3>1
    <3> QED
      BY ONLY <2>8, <3>2
  <2>10. [c EXCEPT !.inode = [i EXCEPT !.file = [i.file EXCEPT ![x.name] = x.data]], !.ok = TRUE]
           = [s EXCEPT !.inode = [i EXCEPT !.file = [i.file EXCEPT ![x.name] = x.data]], !.ok = TRUE]
    BY ONLY <2>7, s \in State DEF State
  <2> QED
    BY ONLY <2>6, <2>9, <2>10 DEF FiledBy
<1>14. Filed(filed, s, x.name, x.data) /\ filed.iter = s.iter /\ filed.ok = TRUE
  BY ONLY <1>9, <1>13, FiledIs, TRUE \in BOOLEAN, s \in State
<1>15. filed \in State /\ k \in 1 .. Len(filed.inode.small)
  BY <1>2, <1>8, <1>14 DEF Filed
<1>16. Removal(t, filed, k)
  BY ONLY <1>12, <1>15, RemovedSmallDataIs
<1>17. MovedOut(t, s, k, bytes)
  BY ONLY <1>2, <1>7, <1>8, <1>14, <1>15, <1>16 DEF MovedOut
<1> QED
  BY ONLY <1>8, <1>10, <1>17

\* All attributes are as they were.
Unchanged(t, s) ==
  /\ t \in State /\ Placed(t.inode)
  /\ t.inode.freed = s.inode.freed
  /\ \A m \in Name : Entry(t.inode, m) = Entry(s.inode, m)
  /\ t.index = s.index

LEMMA MovedOutResult ==
  ASSUME NEW s \in State, Placed(s.inode), NEW bytes \in Int, NEW k, NEW t, MovedOut(t, s, k, bytes)
  PROVE  /\ Unchanged(t, s)
         /\ Used(t.inode.small) = Used(s.inode.small) - Size(s.inode.small[k])
         /\ Kept(t.inode.small, NameTag) = Kept(s.inode.small, NameTag)
         /\ t.inode.small = RemoveAt(s.inode.small, k)
<1>1. s.inode \in Inode /\ s.inode.small \in Seq(Item) /\ s.inode.file \in [Name -> Bytes \cup {None}]
  BY DEF State, Inode
<1>2. PICK x : x = s.inode.small[k]
  OBVIOUS
<1>3. k \in 1 .. Len(s.inode.small) /\ x.name # NameTag /\ Size(x) > bytes
  BY <1>2 DEF MovedOut
<1>4. PICK filed \in State : Filed(filed, s, x.name, x.data) /\ filed.iter = s.iter /\ filed.ok /\ Removal(t, filed, k)
  BY <1>2 DEF MovedOut
<1>5. x.name \in Name /\ x.data \in Bytes /\ x.data # None
  <2>1. x \in Item
    BY <1>1, <1>2, <1>3, ElementOfSeq
  <2> QED
    BY <1>3, <2>1, NoneIsNoData DEF Item
<1>6. Section(s.inode.small)
  BY DEF Placed
<1>7. /\ Becomes(RemoveAt(s.inode.small, k), s.inode.small, x.name, None)
      /\ Used(RemoveAt(s.inode.small, k)) = Used(s.inode.small) - Size(x)
  BY ONLY <1>2, <1>3, <1>6, SectionRemoved
<1>8. Kept(s.inode.small, x.name) = x.data
  BY ONLY <1>1, <1>2, <1>3, <1>6, FoundAt DEF Section
<1>9. /\ filed.inode \in Inode /\ filed.inode.small = s.inode.small /\ filed.inode.freed = s.inode.freed
      /\ filed.inode.file = [s.inode.file EXCEPT ![x.name] = x.data]
      /\ filed.inode.dir = HasFiles(filed.inode)
  BY <1>4 DEF Filed, State
<1>10. t \in State /\ t.inode = [filed.inode EXCEPT !.small = RemoveAt(s.inode.small, k)] /\ t.index = s.index
  BY <1>4, <1>9 DEF Removal, Filed
<1>11. /\ t.inode.small = RemoveAt(s.inode.small, k) /\ t.inode.file = filed.inode.file
       /\ t.inode.dir = filed.inode.dir /\ t.inode.freed = s.inode.freed
  BY <1>9, <1>10 DEF Inode
<1>12. t.inode.dir = HasFiles(t.inode)
  BY <1>9, <1>11 DEF HasFiles
<1>13. Turns(t, s, x.name, None, x.data)
  BY ONLY <1>7, <1>9, <1>10, <1>11, <1>12 DEF Turns
<1>14. Outcome(t, s, x.name) /\ Entry(t.inode, x.name) = x.data
  BY <1>5, <1>13, TurnsOut
<1>15. Entry(s.inode, x.name) = x.data
  BY <1>5, <1>8 DEF Entry
<1>16. Unchanged(t, s)
  BY <1>10, <1>14, <1>15 DEF Unchanged, Outcome
<1>17. Kept(t.inode.small, NameTag) = Kept(s.inode.small, NameTag)
  BY <1>3, <1>7, <1>11 DEF Becomes
<1> QED
  BY <1>2, <1>7, <1>11, <1>16, <1>17

\* The name has been replaced in its item, after room was made for it.
Renamed(t, made, s) ==
  /\ made \in State /\ Placed(made.inode)
  /\ made = [s EXCEPT !.ok = TRUE] \/ \E k \in 1 .. Len(s.inode.small), bytes \in Int : MovedOut(made, s, k, bytes)
  /\ \E at \in 1 .. Len(made.inode.small), x \in Item :
       /\ made.inode.small[at].name = NameTag /\ x.name = NameTag
       /\ Becomes([made.inode.small EXCEPT ![at] = x], made.inode.small, NameTag, x.data)
       /\ t = [made EXCEPT !.inode = [made.inode EXCEPT !.small = [made.inode.small EXCEPT ![at] = x]]]

LEMMA NameSetIs ==
  ASSUME NEW s \in State, Placed(s.inode), FindSmallData(s.inode.small, NameTag) # 0,
         NEW data \in Bytes, NameSet(s, data).ok
  PROVE  \E made : Renamed(NameSet(s, data), made, s)
<1> DEFINE at == FindSmallData(s.inode.small, NameTag)
           free == Capacity - Used(s.inode.small)
           more == Len(data) - Len(s.inode.small[at].data)
           new == IF more > free THEN MakeSpace(s, more - free) ELSE [s EXCEPT !.ok = TRUE]
<1>1. s.inode \in Inode /\ s.inode.small \in Seq(Item)
  BY DEF State, Inode
<1>2. PICK old \in Bytes, o \in Nat : old = s.inode.small[at].data /\ o = Len(old) /\ Kept(s.inode.small, NameTag) = old
  <2>1. Kept(s.inode.small, NameTag) \in Bytes /\ Kept(s.inode.small, NameTag) = s.inode.small[at].data
    BY <1>1, KeptIs
  <2>2. Len(Kept(s.inode.small, NameTag)) \in Nat
    BY ONLY <2>1, LenProperties DEF Bytes
  <2> QED
    BY ONLY <2>1, <2>2
<1>3. PICK d \in Nat, u \in Nat : d = Len(data) /\ u = Used(s.inode.small) /\ u <= Capacity
  <2>1. Len(data) \in Nat /\ Used(s.inode.small) \in Nat
    BY <1>1, LenProperties, UsedType DEF Bytes
  <2> QED
    BY <2>1 DEF Placed, Section
<1>4. PICK f \in Int, m \in Int : f = free /\ m = more /\ f = Capacity - u /\ m = d - o
  <2>1. Capacity - u \in Int /\ d - o \in Int
    BY AttributesAssumption
  <2>2. free = Capacity - u /\ more = d - o
    BY ONLY <1>2, <1>3
  <2> HIDE DEF free, more
  <2> QED
    BY ONLY <2>1, <2>2
<1>5. PICK made : made = new
  OBVIOUS
<1>6. PICK t : t = NameSet(s, data)
  OBVIOUS
<1>7. t = IF Overhead + Len(data) > Capacity \/ ~ made.ok THEN [s EXCEPT !.ok = FALSE]
          ELSE [made EXCEPT !.inode.small[FindSmallData(made.inode.small, NameTag)].data = data]
  <2>1. NameSet(s, data)
          = IF Overhead + Len(data) > Capacity \/ ~ new.ok THEN [s EXCEPT !.ok = FALSE]
            ELSE [new EXCEPT !.inode.small[FindSmallData(new.inode.small, NameTag)].data = data]
    BY DEF NameSet
  <2> HIDE DEF new
  <2> QED
    BY ONLY <1>5, <1>6, <2>1
<1>8. made.ok /\ t = [made EXCEPT !.inode.small[FindSmallData(made.inode.small, NameTag)].data = data]
  <2>1. ~ [s EXCEPT !.ok = FALSE].ok
    BY DEF State
  <2> QED
    BY ONLY <1>6, <1>7, <2>1, NameSet(s, data).ok
<1> HIDE DEF at
<1>9. made = IF m > f THEN MakeSpace(s, m - f) ELSE [s EXCEPT !.ok = TRUE]
  BY ONLY <1>4, <1>5
<1> HIDE DEF new, free, more
\* Room enough.
<1>10. /\ made \in State /\ Placed(made.inode) /\ Kept(made.inode.small, NameTag) = old
       /\ Used(made.inode.small) + m <= Capacity
       /\ made = [s EXCEPT !.ok = TRUE] \/ \E k \in 1 .. Len(s.inode.small), bytes \in Int : MovedOut(made, s, k, bytes)
  <2>1. CASE m > f
    <3>1. made = MakeSpace(s, m - f) /\ m - f \in Int
      BY <1>9, <2>1
    <3>2. PICK k \in 1 .. Len(s.inode.small) : MovedOut(made, s, k, m - f)
      BY <1>8, <3>1, MakeSpaceIs
    <3>3. /\ Unchanged(made, s)
          /\ Used(made.inode.small) = Used(s.inode.small) - Size(s.inode.small[k])
          /\ Kept(made.inode.small, NameTag) = Kept(s.inode.small, NameTag)
      BY <3>1, <3>2, MovedOutResult
    <3>4. PICK z \in Nat : z = Size(s.inode.small[k]) /\ z > m - f
      <4>1. Size(s.inode.small[k]) \in Nat
        BY <1>1, SizeIs, ElementOfSeq
      <4> QED
        BY <3>2, <4>1 DEF MovedOut
    <3>5. (u - z) + m <= Capacity
      BY ONLY <1>4, <3>4, AttributesAssumption, u \in Nat, z \in Nat, f \in Int, m \in Int
    <3>6. Used(made.inode.small) + m <= Capacity
      BY ONLY <1>3, <3>3, <3>4, <3>5
    <3> QED
      BY <1>2, <3>1, <3>2, <3>3, <3>6 DEF Unchanged
  <2>2. CASE ~ (m > f)
    <3>1. made = [s EXCEPT !.ok = TRUE]
      BY <1>9, <2>2
    <3>2. made \in State /\ made.inode = s.inode
      BY <3>1 DEF State
    <3>3. u + m <= Capacity
      BY ONLY <1>4, <2>2, AttributesAssumption, u \in Nat, f \in Int, m \in Int
    <3> QED
      BY <1>2, <1>3, <3>1, <3>2, <3>3
  <2> QED
    BY <2>1, <2>2
<1>11. PICK small, p : small = made.inode.small /\ p = FindSmallData(small, NameTag)
  OBVIOUS
<1>12. made.inode \in Inode /\ small \in Seq(Item) /\ Section(small)
  BY <1>10, <1>11 DEF State, Inode, Placed
<1>13. PICK l \in Nat : l = Len(small)
  BY <1>12, LenProperties
<1>14. p \in 1 .. l /\ small[p].name = NameTag /\ small[p].data = old
  <2>1. p # 0
    <3>1. Kept(small, NameTag) # None
      BY <1>2, <1>10, <1>11, NoneIsNoData
    <3> QED
      BY <1>11, <1>12, <3>1, KeptIs
  <2>2. Kept(small, NameTag) = small[p].data
    BY <1>11, <1>12, <2>1, KeptIs
  <2>3. p \in 1 .. l /\ small[p].name = NameTag
    BY <1>11, <1>12, <1>13, <2>1, FindIs
  <2> QED
    BY <1>10, <1>11, <2>2, <2>3
<1>15. small[p] \in Item
  BY <1>12, <1>13, <1>14, ElementOfSeq
<1>16. PICK x \in Item : x = [small[p] EXCEPT !.data = data]
  BY <1>15 DEF Item
<1>17. x.name = NameTag /\ x.data = data
  BY <1>14, <1>15, <1>16 DEF Item
<1>18. Used(small) - Size(small[p]) + Size(x) <= Capacity
  <2>1. PICK v \in Nat : v = Used(small)
    BY <1>12, UsedType
  <2>2. v + m <= Capacity
    BY <1>10, <1>11, <2>1
  <2>3. Size(small[p]) = Overhead + o /\ Size(x) = Overhead + d
    BY <1>2, <1>3, <1>14, <1>17 DEF Size
  <2>4. v - (Overhead + o) + (Overhead + d) <= Capacity
    BY ONLY <1>4, <2>2, AttributesAssumption, v \in Nat, o \in Nat, d \in Nat, m \in Int
  <2> QED
    BY ONLY <2>1, <2>3, <2>4
<1>19. Becomes([small EXCEPT ![p] = x], small, NameTag, x.data)
  <2>1. p \in 1 .. Len(small) /\ x.name = small[p].name
    BY <1>13, <1>14, <1>17
  <2>2. Becomes([small EXCEPT ![p] = x], small, x.name, x.data)
    BY ONLY <1>12, <1>18, <2>1, x \in Item, SectionReplaced
  <2> QED
    BY ONLY <1>17, <2>2
<1>20. t = [made EXCEPT !.inode = [made.inode EXCEPT !.small = [small EXCEPT ![p] = x]]]
  <2>1. t = [made EXCEPT !.inode = [made.inode EXCEPT !.small = [made.inode.small EXCEPT ![p] = [made.inode.small[p] EXCEPT !.data = data]]]]
    BY ONLY <1>8, <1>11
  <2> QED
    BY ONLY <1>11, <1>16, <2>1
<1>21. Renamed(t, made, s)
  BY ONLY <1>10, <1>11, <1>13, <1>14, <1>17, <1>19, <1>20, x \in Item DEF Renamed
<1> QED
  BY ONLY <1>6, <1>21

LEMMA RenamedResult ==
  ASSUME NEW s \in State, Placed(s.inode), NEW made, NEW t, Renamed(t, made, s)
  PROVE  Unchanged(t, s)
<1>1. Unchanged(made, s)
  <2>1. CASE made = [s EXCEPT !.ok = TRUE]
    <3>1. made \in State /\ made.inode = s.inode /\ made.index = s.index
      BY <2>1 DEF State
    <3> QED
      BY <3>1 DEF Unchanged
  <2>2. CASE \E k \in 1 .. Len(s.inode.small), bytes \in Int : MovedOut(made, s, k, bytes)
    <3>1. PICK k \in 1 .. Len(s.inode.small), bytes \in Int : MovedOut(made, s, k, bytes)
      BY <2>2
    <3> QED
      BY ONLY <3>1, s \in State, Placed(s.inode), bytes \in Int, MovedOutResult
  <2> QED
    BY ONLY <2>1, <2>2, Renamed(t, made, s) DEF Renamed
<1>2. PICK small, x : /\ x \in Item
        /\ Becomes(small, made.inode.small, NameTag, x.data)
        /\ t = [made EXCEPT !.inode = [made.inode EXCEPT !.small = small]]
  <2>1. PICK at \in 1 .. Len(made.inode.small), x \in Item :
          /\ Becomes([made.inode.small EXCEPT ![at] = x], made.inode.small, NameTag, x.data)
          /\ t = [made EXCEPT !.inode = [made.inode EXCEPT !.small = [made.inode.small EXCEPT ![at] = x]]]
    BY DEF Renamed
  <2>2. PICK small : small = [made.inode.small EXCEPT ![at] = x]
    OBVIOUS
  <2> QED
    BY ONLY <2>1, <2>2
<1>3. made \in State /\ made.inode \in Inode /\ Placed(made.inode)
  BY <1>1 DEF Unchanged, State
<1>4. Section(small) /\ \A m \in Name : Kept(small, m) = Kept(made.inode.small, m)
  BY <1>2, AttributesAssumption DEF Becomes
<1>5. [made.inode EXCEPT !.small = small] \in Inode
  BY <1>3, <1>4 DEF Inode, Section
<1>6. t \in State /\ t.inode = [made.inode EXCEPT !.small = small] /\ t.index = made.index
  BY <1>2, <1>3, <1>5 DEF State
<1>7. /\ t.inode.small = small /\ t.inode.file = made.inode.file
      /\ t.inode.dir = made.inode.dir /\ t.inode.freed = made.inode.freed
  BY <1>3, <1>6 DEF Inode
<1>8. Placed(t.inode)
  BY <1>3, <1>4, <1>7 DEF Placed, HasFiles
<1>9. \A m \in Name : Entry(t.inode, m) = Entry(made.inode, m)
  BY <1>4, <1>7 DEF Entry
<1> QED
  BY <1>1, <1>6, <1>7, <1>8, <1>9 DEF Unchanged

-----------------------------------------------------------------------------
(* The iterator.                                                           *)

\* The name of the file is an item that the iterator does not count.
Shift(small) == IF Len(small) > 0 /\ small[1].name = NameTag THEN 1 ELSE 0

LEMMA BehindIs ==
  ASSUME NEW small, Section(small), NEW c \in Int
  PROVE  Behind(small, c) = {i \in 1 .. Len(small) : c >= 0 /\ i = c + 1 + Shift(small)}
<1>1. PICK l \in Nat : l = Len(small)
  BY LenProperties DEF Section
<1>2. PICK d \in {0, 1} : d = Shift(small)
  BY DEF Shift
<1>3. \A i \in 1 .. l : small[i].name # NameTag <=> i > d
  <2>1. \A i \in 1 .. l : small[i].name = NameTag => i = 1
    BY <1>1 DEF Section
  <2> QED
    BY <1>1, <1>2, <2>1 DEF Shift
<1>4. ASSUME NEW i \in 1 .. l, i > d
      PROVE  Cardinality({j \in 1 .. i - 1 : small[j].name # NameTag}) = i - 1 - d
  <2>1. {j \in 1 .. i - 1 : small[j].name # NameTag} = d + 1 .. i - 1
    BY <1>3
  <2>2. Cardinality(d + 1 .. i - 1) = IF d + 1 > i - 1 THEN 0 ELSE (i - 1) - (d + 1) + 1
    <3>1. d + 1 \in Int /\ i - 1 \in Int
      OBVIOUS
    <3> QED
      BY ONLY <3>1, FS_Interval
  <2>3. (IF d + 1 > i - 1 THEN 0 ELSE (i - 1) - (d + 1) + 1) = i - 1 - d
    BY <1>4
  <2> QED
    BY ONLY <2>1, <2>2, <2>3
<1>5. ASSUME NEW i \in 1 .. l
      PROVE  i \in Behind(small, c) <=> c >= 0 /\ i = c + 1 + d
  <2>1. i \in Behind(small, c)
          <=> small[i].name # NameTag /\ Cardinality({j \in 1 .. i - 1 : small[j].name # NameTag}) = c
    BY <1>1 DEF Behind
  <2>2. CASE i > d
    BY <1>3, <1>4, <2>1, <2>2
  <2>3. CASE ~ (i > d)
    BY <1>3, <2>1, <2>3
  <2> QED
    BY <2>2, <2>3
<1>6. Behind(small, c) \subseteq 1 .. l
  BY <1>1 DEF Behind
<1> QED
  BY <1>1, <1>2, <1>5, <1>6

LEMMA IteratorAt ==
  ASSUME NEW it \in Iterator, NEW c \in Int
  PROVE  [it EXCEPT !.current = c] \in Iterator
  BY DEF Iterator

GoneIn(r, it, d) == r = [it EXCEPT !.current = -1, !.dir = d]
GonePast(r, it, d, l) == r = [it EXCEPT !.current = -1, !.dir = d, !.last = l]

LEMMA IteratorIn ==
  ASSUME NEW it \in Iterator, NEW d \in {"current", "removed"}, NEW r, GoneIn(r, it, d)
  PROVE  r \in Iterator
<1>1. d \in {"closed", "current", "removed"} /\ -1 \in Int
  OBVIOUS
<1>2. it.last \in Nat /\ it.skips \in BOOLEAN
  BY DEF Iterator
<1>3. r = [current |-> -1, dir |-> d, last |-> it.last, skips |-> it.skips]
  BY DEF Iterator, GoneIn
<1> QED
  BY <1>1, <1>2, <1>3 DEF Iterator

LEMMA IteratorPast ==
  ASSUME NEW it \in Iterator, NEW d \in {"current", "removed"}, NEW l \in Nat, NEW r, GonePast(r, it, d, l)
  PROVE  r \in Iterator
<1>1. d \in {"closed", "current", "removed"} /\ -1 \in Int
  OBVIOUS
<1>2. it.last \in Nat /\ it.skips \in BOOLEAN
  BY DEF Iterator
<1>3. r = [current |-> -1, dir |-> d, last |-> l, skips |-> it.skips]
  BY DEF Iterator, GonePast
<1> QED
  BY <1>1, <1>2, <1>3 DEF Iterator

\* What the iterator comes to next.
Next3(next, s) ==
  LET it == s.iter
      small == s.inode.small
      at == it.current + 1 + Shift(small)
      dir == IF it.dir = "closed" THEN "current" ELSE it.dir
      later == {n \in Name : dir = "current" /\ s.inode.file[n] # None /\ n > it.last}
  IN  /\ next.name \in Name \cup {NameTag}
      /\ next.iter \in Iterator
      /\ \/ /\ it.current >= 0 /\ at \in 1 .. Len(small)
            /\ next.name \in Name /\ next.name = small[at].name
            /\ next.iter = [it EXCEPT !.current = it.current + 1]
         \/ /\ it.current < 0 \/ at > Len(small)
            /\ \/ ~ s.inode.dir /\ next.name = NameTag /\ next.iter = [it EXCEPT !.current = -1]
               \/ /\ s.inode.dir /\ later = {} /\ next.name = NameTag
                  /\ next.iter = [it EXCEPT !.current = -1, !.dir = dir]
               \/ /\ s.inode.dir /\ next.name \in later /\ \A m \in later : next.name <= m
                  /\ next.iter = [it EXCEPT !.current = -1, !.dir = dir, !.last = next.name]

LEMMA NextAttributeIs ==
  ASSUME NEW s \in State, Section(s.inode.small)
  PROVE  Next3(NextAttribute(s), s)
<1> DEFINE it == s.iter
           small == s.inode.small
           at == it.current + 1 + Shift(small)
           dir == IF it.dir = "closed" THEN "current" ELSE it.dir
           later == {n \in Name : dir = "current" /\ s.inode.file[n] # None /\ n > it.last}
           items == Behind(small, it.current)
<1>1. s.inode \in Inode /\ small \in Seq(Item) /\ it \in Iterator
  BY DEF State, Inode
<1>2. PICK l \in Nat : l = Len(small)
  BY <1>1, LenProperties
<1>3. PICK c \in Int, a \in Int : c = it.current /\ a = at /\ a = c + 1 + Shift(small) /\ (c >= 0 => a >= 1)
  <2>1. it.current \in Int /\ Shift(small) \in {0, 1}
    BY <1>1 DEF Iterator, Shift
  <2> QED
    BY <2>1
<1>4. items = {i \in 1 .. l : c >= 0 /\ i = a}
  BY <1>2, <1>3, BehindIs
<1>5. PICK d \in {"current", "removed"} : d = dir
  BY <1>1 DEF Iterator
<1>6. PICK next : next = NextAttribute(s)
  OBVIOUS
<1>7. next = IF items # {} THEN [name |-> small[Min(items)].name, iter |-> [it EXCEPT !.current = c + 1]]
             ELSE IF ~ s.inode.dir THEN [name |-> NameTag, iter |-> [it EXCEPT !.current = -1]]
             ELSE IF later = {} THEN [name |-> NameTag, iter |-> [it EXCEPT !.current = -1, !.dir = dir]]
             ELSE [name |-> Min(later), iter |-> [it EXCEPT !.current = -1, !.dir = dir, !.last = Min(later)]]
  BY <1>3, <1>6 DEF NextAttribute
<1>8. CASE items # {}
  <2>1. c >= 0 /\ a \in 1 .. l /\ items = {a}
    BY <1>4, <1>8
  <2>2. Min(items) = a
    <3>1. items \subseteq Nat
      BY <1>4
    <3> HIDE DEF items
    <3> QED
      BY <1>8, <2>1, <3>1, MinIsLeast
  <2>3. next.name = small[a].name /\ next.iter = [it EXCEPT !.current = c + 1]
    BY <1>7, <1>8, <2>2
  <2>4. small[a].name \in Name
    <3>1. small[a] \in Item
      BY <1>1, <1>2, <2>1, ElementOfSeq
    <3>2. small[a].name # NameTag
      BY <2>1 DEF Behind
    <3> QED
      BY <3>1, <3>2 DEF Item
  <2>5. next.iter \in Iterator
    <3>1. c + 1 \in Int
      OBVIOUS
    <3> QED
      BY ONLY <1>1, <2>3, <3>1, IteratorAt
  <2> QED
    <3>1. it.current >= 0 /\ at \in 1 .. Len(small)
      BY <1>2, <1>3, <2>1
    <3>2. next.name \in Name /\ next.name = small[at].name /\ next.iter = [it EXCEPT !.current = it.current + 1]
      BY ONLY <1>3, <2>3, <2>4
    <3> QED
      BY ONLY <1>6, <2>5, <3>1, <3>2 DEF Next3
<1>9. CASE items = {}
  <2>1. it.current < 0 \/ at > Len(small)
    BY <1>2, <1>3, <1>4, <1>9
  <2>2. CASE ~ s.inode.dir
    <3>1. next.name = NameTag /\ next.iter = [it EXCEPT !.current = -1]
      BY <1>7, <1>9, <2>2
    <3>2. next.iter \in Iterator
      BY <1>1, <3>1 DEF Iterator
    <3> QED
      BY <1>6, <2>1, <2>2, <3>1, <3>2 DEF Next3
  <2>3. CASE s.inode.dir /\ later = {}
    <3>1. next.name = NameTag /\ next.iter = [it EXCEPT !.current = -1, !.dir = dir]
      BY <1>7, <1>9, <2>3
    <3>2. next.iter \in Iterator
      <4>1. GoneIn(next.iter, it, d)
        BY ONLY <1>5, <3>1 DEF GoneIn
      <4> QED
        BY ONLY <1>1, <4>1, d \in {"current", "removed"}, IteratorIn
    <3> QED
      BY <1>6, <2>1, <2>3, <3>1, <3>2 DEF Next3
  <2>4. CASE s.inode.dir /\ later # {}
    <3>1. Min(later) \in later /\ \A m \in later : Min(later) <= m
      <4>1. later \subseteq Nat
        BY AttributesAssumption
      <4> HIDE DEF later
      <4> QED
        BY <2>4, <4>1, MinIsLeast
    <3>2. PICK n \in Name : n = Min(later) /\ n \in Nat
      BY <3>1, AttributesAssumption
    <3>3. next.name = n /\ next.iter = [it EXCEPT !.current = -1, !.dir = dir, !.last = n]
      BY <1>7, <1>9, <2>4, <3>2
    <3>4. next.iter \in Iterator
      <4>1. GonePast(next.iter, it, d, n)
        BY ONLY <1>5, <3>3 DEF GonePast
      <4> QED
        BY ONLY <1>1, <3>2, <4>1, d \in {"current", "removed"}, IteratorPast
    <3> QED
      BY <1>6, <2>1, <2>4, <3>1, <3>2, <3>3, <3>4 DEF Next3
  <2> QED
    BY <2>2, <2>3, <2>4
<1> QED
  BY <1>8, <1>9

-----------------------------------------------------------------------------
(* The invariant, at the beginning.                                        *)

Typed ==
  /\ inode \in Inode
  /\ iter \in [it : Iterator, ended : BOOLEAN, seen : Seq(Name), stay : SUBSET Name]
  /\ index \in [Indexed -> SUBSET Bytes]

LEMMA SetToSeqIs ==
  ASSUME NEW S, IsFiniteSet(S)
  PROVE  /\ SetToSeq(S) \in Seq(S)
         /\ \A i, j \in 1 .. Len(SetToSeq(S)) : SetToSeq(S)[i] = SetToSeq(S)[j] => i = j
         /\ \A x \in S : \E i \in 1 .. Len(SetToSeq(S)) : SetToSeq(S)[i] = x
<1>1. PICK n \in Nat : n = Cardinality(S) /\ ExistsBijection(1 .. n, S)
  BY FS_CardinalityType
<1>2. PICK g : g \in [1 .. n -> S] /\ IsInjective(g)
  BY <1>1 DEF ExistsBijection, Bijection, Injection
<1>3. PICK q : q = SetToSeq(S)
  OBVIOUS
<1>4. q \in [1 .. n -> S] /\ IsInjective(q)
  BY <1>1, <1>2, <1>3 DEF SetToSeq
<1>5. q \in Seq(S) /\ Len(q) = n
  BY <1>4, SequenceIs
<1>6. q \in Injection(1 .. n, S)
  BY <1>4 DEF Injection
<1>7. Cardinality(1 .. n) = n
  <2>1. Cardinality(1 .. n) = IF 1 > n THEN 0 ELSE n - 1 + 1
    BY FS_Interval
  <2> QED
    BY <2>1
<1>8. q \in Surjection(1 .. n, S)
  BY <1>1, <1>6, <1>7, FS_Injection
<1> QED
  BY <1>3, <1>4, <1>5, <1>8 DEF IsInjective, Surjection

\* The items of the first attributes.
FirstItems(small) == SetToSeq({[name |-> n, data |-> Short] : n \in small})

LEMMA FirstItemsAre ==
  ASSUME NEW small \in SUBSET Name
  PROVE  /\ FirstItems(small) \in Seq(Item)
         /\ \A i \in 1 .. Len(FirstItems(small)) : FirstItems(small)[i].name \in small /\ FirstItems(small)[i].data = Short
         /\ \A i, j \in 1 .. Len(FirstItems(small)) : FirstItems(small)[i].name = FirstItems(small)[j].name => i = j
         /\ \A n \in small : \E i \in 1 .. Len(FirstItems(small)) : FirstItems(small)[i].name = n
<1> DEFINE S == {[name |-> n, data |-> Short] : n \in small}
           f == [n \in small |-> [name |-> n, data |-> Short]]
<1>1. IsFiniteSet(S)
  <2>1. IsFiniteSet(small)
    BY AttributesAssumption, FS_Subset
  <2>2. f \in Surjection(small, S)
    BY DEF Surjection
  <2> HIDE DEF f, S
  <2> QED
    BY <2>1, <2>2, FS_Surjection
<1>2. PICK q : q = FirstItems(small) /\ q = SetToSeq(S)
  BY DEF FirstItems
<1>3. /\ q \in Seq(S)
      /\ \A i, j \in 1 .. Len(q) : q[i] = q[j] => i = j
      /\ \A x \in S : \E i \in 1 .. Len(q) : q[i] = x
  <2> HIDE DEF S
  <2> QED
    BY <1>1, <1>2, SetToSeqIs
<1>4. PICK l \in Nat : l = Len(q)
  BY <1>3, LenProperties
<1>5. \A i \in 1 .. l : q[i] \in S
  BY <1>3, <1>4, ElementOfSeq
<1>6. \A i \in 1 .. l : q[i].name \in small /\ q[i].data = Short /\ q[i] = [name |-> q[i].name, data |-> Short]
  BY <1>5
<1>7. S \subseteq Item
  <2>1. Short \in Bytes
    BY AttributesAssumption DEF Bytes, Byte
  <2> QED
    BY <2>1 DEF Item
<1>8. q \in Seq(Item)
  <2>1. q \in [1 .. l -> Item]
    <3>1. q \in [1 .. Len(q) -> S]
      BY <1>3, LenProperties
    <3> HIDE DEF S
    <3> QED
      BY <1>4, <1>7, <3>1
  <2> QED
    BY <2>1, SequenceIs
<1>9. \A i, j \in 1 .. l : q[i].name = q[j].name => i = j
  <2> SUFFICES ASSUME NEW i \in 1 .. l, NEW j \in 1 .. l, q[i].name = q[j].name PROVE i = j
    OBVIOUS
  <2>1. q[i] = q[j]
    BY <1>6
  <2> QED
    BY <1>3, <1>4, <2>1
<1>10. ASSUME NEW n \in small PROVE \E i \in 1 .. l : q[i].name = n
  <2>1. PICK i \in 1 .. l : q[i] = [name |-> n, data |-> Short]
    BY <1>3, <1>4
  <2> QED
    BY <2>1
<1> QED
  BY ONLY <1>2, <1>4, <1>6, <1>8, <1>9, <1>10

\* The section of an inode with such items, and with a name or without.
LEMMA FirstSection ==
  ASSUME NEW name \in {<<>>} \cup {<<[name |-> NameTag, data |-> Short]>>}, NEW small \in SUBSET Name,
         Used(name \o FirstItems(small)) <= Capacity
  PROVE  /\ Section(name \o FirstItems(small))
         /\ \A n \in Name : Kept(name \o FirstItems(small), n) = IF n \in small THEN Short ELSE None
<1>1. PICK items \in Seq(Item) : items = FirstItems(small)
  BY FirstItemsAre
<1>2. PICK l \in Nat : l = Len(items)
  BY <1>1, LenProperties
<1>3. /\ \A i \in 1 .. l : items[i].name \in small /\ items[i].data = Short
      /\ \A i, j \in 1 .. l : items[i].name = items[j].name => i = j
      /\ \A n \in small : \E i \in 1 .. l : items[i].name = n
  BY <1>1, <1>2, FirstItemsAre
<1>4. PICK k \in Nat : k <= 1 /\ k = Len(name) /\ name \in Seq(Item) /\ \A i \in 1 .. k : name[i].name = NameTag
  <2>1. CASE name = <<>>
    BY <2>1
  <2>2. CASE name = <<[name |-> NameTag, data |-> Short]>>
    <3>1. Short \in Bytes
      BY AttributesAssumption DEF Bytes, Byte
    <3>2. [name |-> NameTag, data |-> Short] \in Item
      BY <3>1 DEF Item
    <3>3. name \in Seq(Item) /\ Len(name) = 1 /\ name[1].name = NameTag
      BY <2>2, <3>2
    <3> QED
      BY <3>3
  <2> QED
    BY <2>1, <2>2
<1>5. PICK new \in Seq(Item) : /\ new = name \o items /\ Len(new) = k + l
                              /\ \A i \in 1 .. k + l : new[i] = IF i <= k THEN name[i] ELSE items[i - k]
  <2>1. /\ name \o items \in Seq(Item) /\ Len(name \o items) = Len(name) + Len(items)
        /\ \A i \in 1 .. Len(name) + Len(items) : (name \o items)[i] = IF i <= Len(name) THEN name[i] ELSE items[i - Len(name)]
    BY ONLY <1>1, <1>4, ConcatProperties
  <2>2. PICK new : new = name \o items
    OBVIOUS
  <2>3. /\ new \in Seq(Item) /\ Len(new) = k + l
        /\ \A i \in 1 .. k + l : new[i] = IF i <= k THEN name[i] ELSE items[i - k]
    BY ONLY <1>2, <1>4, <2>1, <2>2
  <2> QED
    BY ONLY <2>2, <2>3
<1>6. \A i \in 1 .. k + l : i <= k => new[i].name = NameTag /\ i = 1
  BY ONLY <1>4, <1>5, k \in Nat, l \in Nat
<1>7. \A i \in 1 .. k + l : i > k => i - k \in 1 .. l /\ new[i] = items[i - k]
  <2> SUFFICES ASSUME NEW i \in 1 .. k + l, i > k PROVE i - k \in 1 .. l /\ new[i] = items[i - k]
    OBVIOUS
  <2>1. i - k \in 1 .. l /\ ~ (i <= k)
    BY ONLY i \in 1 .. k + l, i > k, k \in Nat, l \in Nat
  <2> QED
    BY <1>5, <2>1
<1>8. \A i \in 1 .. k + l : i > k => new[i].name \in small /\ new[i].data = Short /\ new[i].name # NameTag
  <2> SUFFICES ASSUME NEW i \in 1 .. k + l, i > k PROVE new[i].name \in small /\ new[i].data = Short /\ new[i].name # NameTag
    OBVIOUS
  <2>1. PICK j \in 1 .. l : new[i] = items[j]
    BY <1>7
  <2>2. items[j].name \in small /\ items[j].data = Short
    BY <1>3
  <2>3. NameTag \notin small
    BY AttributesAssumption
  <2> QED
    BY ONLY <2>1, <2>2, <2>3
<1>9. ASSUME NEW i \in 1 .. k + l, NEW j \in 1 .. k + l, new[i].name = new[j].name
      PROVE  i = j
  <2>1. CASE i <= k /\ j <= k
    BY <1>6, <2>1
  <2>2. CASE i > k /\ j > k
    <3>1. i - k \in 1 .. l /\ j - k \in 1 .. l /\ items[i - k].name = items[j - k].name
      BY <1>7, <1>9, <2>2
    <3>2. i - k = j - k
      BY <1>3, <3>1
    <3> QED
      BY <3>2
  <2>3. CASE i <= k /\ j > k
    BY <1>6, <1>8, <1>9, <2>3
  <2>4. CASE i > k /\ j <= k
    BY <1>6, <1>8, <1>9, <2>4
  <2> QED
    BY <2>1, <2>2, <2>3, <2>4
<1>10. Distinct(new)
  BY <1>5, <1>9 DEF Distinct
<1>11. \A i \in 1 .. Len(new) : new[i].name = NameTag => i = 1
  <2> SUFFICES ASSUME NEW i \in 1 .. k + l, new[i].name = NameTag PROVE i = 1
    BY <1>5
  <2> QED
    BY <1>6, <1>8
<1>12. Section(new)
  BY <1>1, <1>5, <1>10, <1>11 DEF Section
<1>13. ASSUME NEW n \in Name PROVE Kept(new, n) = IF n \in small THEN Short ELSE None
  <2>1. CASE n \in small
    <3>1. PICK i \in 1 .. l : items[i].name = n
      BY <1>3, <2>1
    <3>2. i + k \in 1 .. k + l /\ i + k > k /\ (i + k) - k = i
      OBVIOUS
    <3>3. new[i + k].name = n /\ new[i + k].data = Short
      BY <1>7, <1>8, <3>1, <3>2
    <3>4. i + k \in 1 .. Len(new)
      BY <1>5, <3>2
    <3>5. Kept(new, new[i + k].name) = new[i + k].data
      BY ONLY <1>10, <3>4, new \in Seq(Item), FoundAt
    <3> QED
      BY <2>1, <3>3, <3>5
  <2>2. CASE n \notin small
    <3>1. \A i \in 1 .. k + l : new[i].name # n
      BY <1>6, <1>8, <2>2, AttributesAssumption
    <3>2. FindSmallData(new, n) = 0
      <4>1. FindSmallData(new, n) \in 0 .. k + l /\ (FindSmallData(new, n) # 0 => new[FindSmallData(new, n)].name = n)
        BY <1>5, FindIs
      <4>2. FindSmallData(new, n) # 0 => FindSmallData(new, n) \in 1 .. k + l
        BY <4>1
      <4> QED
        BY <3>1, <4>1, <4>2
    <3> QED
      BY <2>2, <3>2 DEF Kept
  <2> QED
    BY <2>1, <2>2
<1> QED
  BY ONLY <1>1, <1>5, <1>12, <1>13

Follow == \A n \in Indexed \ loose : Follows(inode, index, n)

LEMMA AtFirst == Init => Typed /\ Placed(inode) /\ Follow /\ ~ inode.freed
<1>1. SUFFICES ASSUME Init PROVE Typed /\ Placed(inode) /\ Follow /\ ~ inode.freed
  OBVIOUS
<1>2. PICK name \in {<<>>} \cup {<<[name |-> NameTag, data |-> Short]>>}, small \in SUBSET Name, files \in SUBSET Name :
        /\ small \cap files = {}
        /\ Used(name \o FirstItems(small)) <= Capacity
        /\ inode = [small |-> name \o FirstItems(small), dir |-> files # {},
                    file |-> [n \in Name |-> IF n \in files THEN Long ELSE None], freed |-> FALSE]
        /\ index = [n \in Indexed |-> IF n \in small THEN {Key(Short)} ELSE IF n \in files THEN {Key(Long)} ELSE {}]
        /\ iter = [it |-> NewIterator, ended |-> FALSE, seen |-> <<>>, stay |-> small \cup files]
  BY <1>1 DEF Init, FirstItems
<1>3. /\ Section(name \o FirstItems(small))
      /\ \A n \in Name : Kept(name \o FirstItems(small), n) = IF n \in small THEN Short ELSE None
  BY <1>2, FirstSection
<1>4. PICK s \in Seq(Item) : s = name \o FirstItems(small)
  BY <1>3 DEF Section
<1>5. /\ inode.small = s /\ inode.dir = (files # {}) /\ inode.freed = FALSE
      /\ inode.file = [n \in Name |-> IF n \in files THEN Long ELSE None]
  BY <1>2, <1>4
<1>6. /\ Short \in Bytes /\ Long \in Bytes /\ Short # <<>> /\ Long # <<>> /\ Short # None /\ Long # None
      /\ <<>> # None
  BY AttributesAssumption, NoneIsNoData DEF Bytes, Byte, None
<1>7. \A n \in Name : inode.file[n] = IF n \in files THEN Long ELSE None
  BY <1>5
<1>8. inode \in Inode
  <2>1. [n \in Name |-> IF n \in files THEN Long ELSE None] \in [Name -> Bytes \cup {None}]
    BY <1>6
  <2> QED
    BY <1>2, <1>4, <2>1 DEF Inode
<1>9. Placed(inode)
  <2>1. \A n \in Name : Kept(inode.small, n) = None \/ inode.file[n] = None
    BY <1>2, <1>3, <1>4, <1>5, <1>7
  <2>2. HasFiles(inode) <=> files # {}
    BY <1>6, <1>7 DEF HasFiles, HasAny
  <2>3. inode.dir = HasFiles(inode)
    BY <1>5, <2>2 DEF HasFiles, HasAny
  <2> QED
    BY <1>3, <1>4, <1>5, <2>1, <2>3 DEF Placed
<1>10. Key(Short) \in Bytes /\ Key(Long) \in Bytes
  BY <1>6, KeyIs
<1>11. index \in [Indexed -> SUBSET Bytes]
  BY <1>2, <1>10
<1>12. iter \in [it : Iterator, ended : BOOLEAN, seen : Seq(Name), stay : SUBSET Name]
  <2>1. NewIterator \in Iterator
    BY DEF NewIterator, Iterator
  <2> QED
    BY <1>2, <2>1
<1>13. ASSUME NEW n \in Indexed PROVE Follows(inode, index, n)
  <2>1. n \in Name
    BY AttributesAssumption
  <2>2. Entry(inode, n) = IF n \in small THEN Short ELSE IF n \in files THEN Long ELSE None
    BY <1>3, <1>4, <1>5, <1>6, <1>7, <2>1 DEF Entry
  <2>3. index[n] = IF n \in small THEN {Key(Short)} ELSE IF n \in files THEN {Key(Long)} ELSE {}
    BY <1>2
  <2> QED
    BY <1>6, <2>2, <2>3 DEF Follows
<1> QED
  BY <1>5, <1>8, <1>9, <1>11, <1>12, <1>13 DEF Typed, Follow

-----------------------------------------------------------------------------
(* Free.                                                                   *)

PlacedStates == {s \in State : Placed(s.inode)}
Rounds == Cardinality(Name)

\* A round of the loop of Free.
Round(s) ==
  LET next == NextAttribute(s)
  IN  IF next.name = NameTag THEN s ELSE Removed([s EXCEPT !.iter = next.iter], next.name)

LEMMA IteratorMoved ==
  ASSUME NEW s \in State, NEW it \in Iterator
  PROVE  LET t == [s EXCEPT !.iter = it]
         IN  t \in State /\ t.inode = s.inode /\ t.iter = it /\ t.index = s.index
  BY DEF State

\* A round is over, or removes the attribute that the iterator came to.
RoundBy(u, s, next, t, told) ==
  /\ Next3(next, s)
  /\ \/ next.name = NameTag /\ u = s
     \/ /\ next.name \in Name
        /\ t \in State /\ t.inode = s.inode /\ t.iter = next.iter /\ t.index = s.index
        /\ told \in State /\ RemovedFrom(u, told, t, next.name)

LEMMA RoundIs ==
  ASSUME NEW s \in PlacedStates
  PROVE  Round(s) \in PlacedStates /\ \E next, t, told : RoundBy(Round(s), s, next, t, told)
<1>1. s \in State /\ Placed(s.inode) /\ Section(s.inode.small)
  BY DEF PlacedStates, Placed
<1>2. PICK next : next = NextAttribute(s)
  OBVIOUS
<1>3. Next3(next, s)
  BY ONLY <1>1, <1>2, NextAttributeIs
<1>4. next.name \in Name \cup {NameTag} /\ next.iter \in Iterator
  BY <1>3 DEF Next3
<1>5. PICK u : u = Round(s)
  OBVIOUS
<1>6. CASE next.name = NameTag
  <2>1. u = s
    BY <1>2, <1>5, <1>6 DEF Round
  <2>2. RoundBy(u, s, next, s, s)
    BY <1>3, <1>6, <2>1 DEF RoundBy
  <2> QED
    BY ONLY <1>5, <2>1, <2>2, s \in PlacedStates
<1>7. CASE next.name # NameTag
  <2>1. PICK t : t = [s EXCEPT !.iter = next.iter]
    OBVIOUS
  <2>2. t \in State /\ t.inode = s.inode /\ t.iter = next.iter /\ t.index = s.index
    BY ONLY <1>1, <1>4, <2>1, IteratorMoved
  <2>3. u = Removed(t, next.name)
    BY <1>2, <1>5, <1>7, <2>1 DEF Round
  <2>4. next.name \in Name /\ Placed(t.inode)
    BY <1>1, <1>4, <1>7, <2>2
  <2>5. PICK told \in State : RemovedFrom(u, told, t, next.name)
    BY ONLY <2>2, <2>3, <2>4, RemovedIs
  <2>6. Outcome(u, t, next.name)
    BY ONLY <2>2, <2>4, <2>5, RemovedResult
  <2>7. u \in PlacedStates
    BY <2>6 DEF Outcome, PlacedStates
  <2>8. RoundBy(u, s, next, t, told)
    BY ONLY <1>3, <2>2, <2>4, <2>5 DEF RoundBy
  <2> QED
    BY ONLY <1>5, <2>7, <2>8
<1> QED
  BY <1>6, <1>7

RoundsOf(f, s) ==
  f \in [0 .. Rounds -> PlacedStates] /\ f[0] = s /\ \A k \in 1 .. Rounds : f[k] = Round(f[k - 1])

LEMMA RoundsIs == Rounds \in Nat
  BY AttributesAssumption, FS_CardinalityType DEF Rounds

LEMMA FreedIs ==
  ASSUME NEW s \in PlacedStates
  PROVE  \E f : RoundsOf(f, s) /\ Freed(s) = f[Rounds]
<1>1. PICK n \in Nat : n = Rounds
  BY RoundsIs
<1> DEFINE H == [k \in 1 .. n |-> [v \in PlacedStates |-> Round(v)]]
           Loop(f) == f = [k \in 0 .. n |-> IF k = 0 THEN s ELSE Round(f[k - 1])]
           loop == CHOOSE loop : loop = [k \in 0 .. Cardinality(Name) |-> IF k = 0 THEN s ELSE Round(loop[k - 1])]
<1>2. PICK f : Stepwise(n, PlacedStates, s, H, f)
  <2>1. Stays(n, PlacedStates, H)
    BY RoundIs DEF Stays
  <2> HIDE DEF H
  <2> QED
    BY <2>1, StepwiseExists
<1>3. f \in [0 .. n -> PlacedStates] /\ f[0] = s /\ \A k \in 1 .. n : f[k] = Round(f[k - 1])
  <2>1. f \in [0 .. n -> PlacedStates] /\ f[0] = s /\ \A k \in 1 .. n : f[k] = H[k][f[k - 1]]
    BY <1>2 DEF Stepwise
  <2>2. ASSUME NEW k \in 1 .. n PROVE f[k] = Round(f[k - 1])
    <3>1. k - 1 \in 0 .. n
      OBVIOUS
    <3>2. f[k - 1] \in PlacedStates
      BY <2>1, <3>1
    <3> QED
      BY <2>1, <3>2
  <2> QED
    BY <2>1, <2>2
<1>4. Loop(f)
  BY <1>3
<1>5. Loop(loop)
  BY <1>1, <1>4 DEF Rounds
<1>6. Freed(s) = loop[n]
  BY <1>1 DEF Freed, Round, Rounds
<1> HIDE DEF loop
<1> DEFINE P == {k \in Nat : k <= n => loop[k] = f[k]}
<1>7. Nat \subseteq P
  <2>1. 0 \in P
    BY <1>3, <1>5
  <2>2. ASSUME NEW k \in Nat, k \in P PROVE k + 1 \in P
    <3> SUFFICES ASSUME k + 1 <= n PROVE loop[k + 1] = f[k + 1]
      OBVIOUS
    <3>1. k + 1 \in 1 .. n /\ k + 1 \in 0 .. n /\ (k + 1) - 1 = k /\ loop[k] = f[k]
      BY <2>2
    <3>2. loop[k + 1] = Round(loop[k])
      BY <1>5, <3>1
    <3>3. f[k + 1] = Round(f[k])
      BY <1>3, <3>1
    <3> QED
      BY ONLY <3>1, <3>2, <3>3
  <2> HIDE DEF P
  <2> QED
    BY <2>1, <2>2, NumberInduction
<1>8. loop[n] = f[n]
  BY <1>7
<1> QED
  BY <1>1, <1>3, <1>6, <1>8 DEF RoundsOf

LEMMA ShiftIs ==
  ASSUME NEW small, Section(small)
  PROVE  Shift(small) = IF Kept(small, NameTag) = None THEN 0 ELSE 1
<1>1. small \in Seq(Item) /\ \A i \in 1 .. Len(small) : small[i].name = NameTag => i = 1
  BY DEF Section
<1>2. PICK l \in Nat : l = Len(small)
  BY <1>1, LenProperties
<1>3. PICK at \in 0 .. l : at = FindSmallData(small, NameTag)
  BY <1>1, <1>2, FindIs
<1>4. CASE at = 0
  <2>1. Kept(small, NameTag) = None
    BY <1>1, <1>3, <1>4, KeptIs
  <2>2. \A i \in 1 .. l : small[i].name # NameTag
    BY <1>1, <1>2, <1>3, <1>4, FindIs
  <2> QED
    BY <1>2, <2>1, <2>2 DEF Shift
<1>5. CASE at # 0
  <2>1. Kept(small, NameTag) # None
    BY <1>1, <1>3, <1>5, KeptIs
  <2>2. at \in 1 .. l /\ small[at].name = NameTag
    BY <1>1, <1>2, <1>3, <1>5, FindIs
  <2>3. at = 1
    BY <1>1, <1>2, <2>2
  <2> QED
    BY <1>2, <2>1, <2>2, <2>3 DEF Shift
<1> QED
  BY <1>4, <1>5

\* What each round leaves.
Leaves(u, s) ==
  /\ u.inode.freed = s.inode.freed
  /\ Kept(u.inode.small, NameTag) = Kept(s.inode.small, NameTag)
  /\ \A n \in Indexed : Follows(s.inode, s.index, n) => Follows(u.inode, u.index, n)

LEMMA RoundLeaves ==
  ASSUME NEW s \in PlacedStates
  PROVE  Leaves(Round(s), s)
<1>1. PICK u : u = Round(s)
  OBVIOUS
<1>2. PICK next, t, told : RoundBy(u, s, next, t, told)
  BY <1>1, RoundIs
<1>3. CASE next.name = NameTag /\ u = s
  BY <1>1, <1>3 DEF Leaves
<1>4. CASE next.name \in Name /\ ~ (next.name = NameTag /\ u = s)
  <2>1. PICK n \in Name : n = next.name
    BY <1>4
  <2>2. /\ t \in State /\ t.inode = s.inode /\ t.index = s.index
        /\ told \in State /\ RemovedFrom(u, told, t, n)
    BY <1>2, <1>4, <2>1 DEF RoundBy
  <2>3. Placed(t.inode)
    BY <2>2 DEF PlacedStates
  <2>4. /\ Outcome(u, t, n) /\ Entry(u.inode, n) = None
        /\ \A m \in Indexed : m # n => u.index[m] = t.index[m]
        /\ n \in Indexed /\ Follows(t.inode, t.index, n) => u.index[n] = {}
        /\ \A m : m # n => Kept(u.inode.small, m) = Kept(t.inode.small, m)
    BY ONLY <2>2, <2>3, n \in Name, RemovedResult
  <2>5. NameTag # n
    BY AttributesAssumption
  <2>6. ASSUME NEW m \in Indexed, Follows(s.inode, s.index, m) PROVE Follows(u.inode, u.index, m)
    <3>1. CASE m = n
      <4>1. None # <<>>
        BY DEF None
      <4>2. u.index[n] = {}
        BY <2>2, <2>4, <2>6, <3>1
      <4> QED
        BY <2>4, <3>1, <4>1, <4>2 DEF Follows
    <3>2. CASE m # n
      <4>1. m \in Name
        BY AttributesAssumption
      <4>2. Entry(u.inode, m) = Entry(t.inode, m)
        BY <2>4, <3>2, <4>1 DEF Outcome
      <4> QED
        BY <2>2, <2>4, <2>6, <3>2, <4>2 DEF Follows
    <3> QED
      BY <3>1, <3>2
  <2> QED
    BY <1>1, <2>2, <2>4, <2>5, <2>6 DEF Leaves, Outcome
<1> QED
  BY <1>2, <1>3, <1>4 DEF RoundBy

\* When the loop finds all attributes: the iterator is at the first item, or the
\* section has no items of attributes any more.
Orderly(s) ==
  LET it == s.iter
      small == s.inode.small
  IN  /\ Shift(small) = 1 => Len(small) <= 2
      /\ Len(small) > Shift(small) => it.current = 0
      /\ HasFiles(s.inode) => it.dir # "removed"
      /\ \A n \in Name : s.inode.file[n] # None => n > it.last

\* Nothing is left when the iterator has come to the end.
LEMMA OrderlyEnd ==
  ASSUME NEW s \in PlacedStates, Orderly(s), NEW next, Next3(next, s), next.name = NameTag
  PROVE  Present(s.inode) = {}
<1>1. s \in State /\ Placed(s.inode) /\ s.inode \in Inode /\ s.inode.small \in Seq(Item) /\ s.iter \in Iterator
  BY DEF PlacedStates, State, Inode
<1>2. PICK l \in Nat : l = Len(s.inode.small)
  BY <1>1, LenProperties
<1>3. PICK d \in Nat : d = Shift(s.inode.small) /\ d <= 1
  BY DEF Shift
<1>4. ~ (next.name \in Name)
  BY AttributesAssumption
<1>5. s.iter.current < 0 \/ s.iter.current + 1 + d > l
  BY <1>2, <1>3, <1>4 DEF Next3
<1>6. l <= d
  <2>1. SUFFICES ASSUME l > d PROVE FALSE
    BY <1>2, <1>3
  <2>2. s.iter.current = 0
    BY <1>2, <1>3, <2>1 DEF Orderly
  <2> QED
    BY <1>5, <2>1, <2>2
<1>7. \A n \in Name : s.inode.file[n] = None
  <2>1. CASE ~ s.inode.dir
    <3>1. ~ HasFiles(s.inode)
      BY <1>1, <2>1 DEF Placed
    <3> QED
      BY <3>1 DEF HasFiles, HasAny
  <2>2. CASE s.inode.dir
    <3>1. HasFiles(s.inode)
      BY <1>1, <2>2 DEF Placed
    <3>2. s.iter.dir # "removed"
      BY <3>1 DEF Orderly
    <3>3. (IF s.iter.dir = "closed" THEN "current" ELSE s.iter.dir) = "current"
      <4>1. s.iter.dir \in {"closed", "current", "removed"}
        BY <1>1 DEF Iterator
      <4> QED
        BY <3>2, <4>1
    <3> DEFINE dir == IF s.iter.dir = "closed" THEN "current" ELSE s.iter.dir
               later == {n \in Name : dir = "current" /\ s.inode.file[n] # None /\ n > s.iter.last}
    <3>4. later = {}
      <4>1. next.name \notin later
        BY <1>4
      <4> HIDE DEF later
      <4> QED
        BY <1>4, <2>2, <4>1 DEF Next3, later
    <3> QED
      BY <3>3, <3>4 DEF Orderly
  <2> QED
    BY <2>1, <2>2
<1>8. \A n \in Name : FindSmallData(s.inode.small, n) = 0
  <2> SUFFICES ASSUME NEW n \in Name, FindSmallData(s.inode.small, n) # 0 PROVE FALSE
    OBVIOUS
  <2>1. PICK at \in 1 .. l : s.inode.small[at].name = n
    BY <1>1, <1>2, FindIs
  <2>2. at = 1 /\ d = 1
    BY <1>3, <1>6
  <2>3. s.inode.small[1].name = NameTag
    BY <1>3, <2>2 DEF Shift
  <2> QED
    BY <2>1, <2>2, <2>3, AttributesAssumption
<1> QED
  BY <1>7, <1>8 DEF Present

\* The next one is there, it is removed, and the loop finds the others as well.
LEMMA OrderlyRound ==
  ASSUME NEW s \in PlacedStates, Orderly(s), NEW u, NEW next, NEW t, NEW told,
         RoundBy(u, s, next, t, told), next.name \in Name
  PROVE  /\ Orderly(u)
         /\ next.name \in Present(s.inode) /\ Present(u.inode) = Present(s.inode) \ {next.name}
<1>1. s \in State /\ Placed(s.inode) /\ s.inode \in Inode /\ s.inode.small \in Seq(Item) /\ s.iter \in Iterator
  BY DEF PlacedStates, State, Inode
<1>2. PICK l \in Nat : l = Len(s.inode.small)
  BY <1>1, LenProperties
<1>3. PICK d \in Nat : d = Shift(s.inode.small) /\ d <= 1
  BY DEF Shift
<1>4. PICK n \in Name : n = next.name /\ n # NameTag
  BY AttributesAssumption
<1>5. /\ Next3(next, s)
      /\ t \in State /\ t.inode = s.inode /\ t.iter = next.iter /\ t.index = s.index
      /\ told \in State /\ RemovedFrom(u, told, t, n)
  BY <1>4 DEF RoundBy
<1>6. PICK at \in Nat : at = FindSmallData(s.inode.small, n)
  <2>1. FindSmallData(s.inode.small, n) \in 0 .. l
    BY <1>1, <1>2, FindIs
  <2> QED
    BY <2>1
<1>7. /\ Outcome(u, t, n) /\ Entry(u.inode, n) = None
      /\ \A m : m # n => Kept(u.inode.small, m) = Kept(t.inode.small, m)
  BY <1>1, <1>5, RemovedResult
<1>8. u \in State /\ u.inode \in Inode /\ Placed(u.inode)
  BY <1>7 DEF Outcome, State
<1>9. Shift(u.inode.small) = d
  <2>1. Section(u.inode.small) /\ Section(s.inode.small)
    BY <1>1, <1>8 DEF Placed
  <2>2. Kept(u.inode.small, NameTag) = Kept(s.inode.small, NameTag)
    BY <1>4, <1>5, <1>7
  <2> QED
    BY ONLY <1>3, <2>1, <2>2, ShiftIs
<1>10. Present(u.inode) = Present(s.inode) \ {n}
  <2>1. \A m \in Name : m \in Present(u.inode) <=> Entry(u.inode, m) # None
    BY <1>8, EntryIs
  <2>2. \A m \in Name : m \in Present(s.inode) <=> Entry(s.inode, m) # None
    BY <1>1, EntryIs
  <2>3. \A m \in Name : m # n => Entry(u.inode, m) = Entry(s.inode, m)
    BY <1>5, <1>7 DEF Outcome
  <2>4. Present(u.inode) \subseteq Name /\ Present(s.inode) \subseteq Name
    BY DEF Present
  <2> QED
    BY ONLY <1>7, <2>1, <2>2, <2>3, <2>4
<1>11. CASE /\ s.iter.current >= 0 /\ s.iter.current + 1 + d \in 1 .. l
            /\ n = s.inode.small[s.iter.current + 1 + d].name
            /\ next.iter = [s.iter EXCEPT !.current = s.iter.current + 1]
  <2>1. s.iter.current \in Int
    BY <1>1 DEF Iterator
  <2>2. s.iter.current = 0
    BY <1>2, <1>3, <1>11, <2>1 DEF Orderly
  <2>3. 1 + d \in 1 .. l /\ n = s.inode.small[1 + d].name /\ next.iter = [s.iter EXCEPT !.current = 1]
    BY ONLY <1>11, <2>2, d \in Nat
  <2>4. at = 1 + d
    <3>1. Distinct(s.inode.small)
      BY <1>1 DEF Placed, Section
    <3>2. FindSmallData(s.inode.small, s.inode.small[1 + d].name) = 1 + d
      BY ONLY <1>1, <1>2, <2>3, <3>1, FoundAt
    <3> QED
      BY ONLY <1>6, <2>3, <3>2
  <2>5. n \in Present(s.inode)
    <3>1. at # 0
      BY ONLY <2>4, d \in Nat
    <3>2. FindSmallData(s.inode.small, n) # 0
      BY ONLY <1>6, <3>1
    <3> QED
      BY ONLY <3>2, n \in Name DEF Present
  <2>6. Entry(t.inode, n) # None
    BY <1>1, <1>5, <2>5, EntryIs
  <2>7. Removal(u, told, at) /\ told.inode = s.inode /\ told.iter = next.iter
    <3>1. at # 0
      BY <2>4
    <3>2. Told(told, t, n, Key(Entry(t.inode, n)), None)
      BY <1>5, <2>6 DEF RemovedFrom
    <3>3. told.inode = s.inode /\ told.iter = next.iter
      BY <1>5, <3>2 DEF Told
    <3>4. Removal(u, told, at)
      BY ONLY <1>5, <1>6, <2>6, <3>1 DEF RemovedFrom
    <3> QED
      BY <3>3, <3>4
  <2>8. told.iter.current = 1 /\ told.iter.dir = s.iter.dir /\ told.iter.last = s.iter.last
    BY <1>1, <2>3, <2>7 DEF Iterator
  <2>9. /\ u.iter.current = (IF at - 1 < 1 THEN 0 ELSE 1) /\ u.iter.dir = s.iter.dir /\ u.iter.last = s.iter.last
        /\ u.inode = [s.inode EXCEPT !.small = RemoveAt(s.inode.small, at)]
    <3>1. /\ u.iter.current = IF at - 1 < told.iter.current THEN told.iter.current - 1 ELSE told.iter.current
          /\ u.iter.dir = told.iter.dir /\ u.iter.last = told.iter.last
          /\ u.inode = [told.inode EXCEPT !.small = RemoveAt(told.inode.small, at)]
      BY <2>7 DEF Removal
    <3> QED
      BY ONLY <2>7, <2>8, <3>1
  <2>10. u.inode.small = RemoveAt(s.inode.small, at) /\ u.inode.file = s.inode.file
    BY <1>1, <2>9 DEF Inode
  <2>11. Len(u.inode.small) = l - 1
    <3>1. at \in 1 .. Len(s.inode.small)
      BY <1>2, <2>3, <2>4
    <3>2. Len(RemoveAt(s.inode.small, at)) = Len(s.inode.small) - 1
      BY ONLY <1>1, <3>1, RemoveAtIs
    <3> QED
      BY ONLY <1>2, <2>10, <3>2
  <2>12. d = 1 => l <= 2
    BY <1>2, <1>3 DEF Orderly
  <2>13. Len(u.inode.small) > d => u.iter.current = 0
    BY <1>3, <2>4, <2>9, <2>11, <2>12
  <2>14. d = 1 => Len(u.inode.small) <= 2
    BY <2>11, <2>12
  <2>15. Orderly(u)
    BY <1>9, <2>9, <2>10, <2>13, <2>14 DEF Orderly, HasFiles
  <2> QED
    BY ONLY <1>4, <1>10, <2>5, <2>15
<1>12. CASE /\ s.iter.current < 0 \/ s.iter.current + 1 + d > l
            /\ s.inode.file[n] # None
            /\ \A m \in Name : s.inode.file[m] # None /\ m > s.iter.last => n <= m
            /\ next.iter.last = n /\ next.iter.dir # "removed" /\ next.iter.current = -1
  <2>1. n \in Present(s.inode)
    BY <1>12 DEF Present
  <2>2. Entry(t.inode, n) # None
    BY <1>1, <1>5, <2>1, EntryIs
  <2>3. at = 0
    <3>1. Kept(s.inode.small, n) = None
      BY <1>1, <1>12 DEF Placed
    <3> QED
      BY <1>1, <1>6, <3>1, KeptIs
  <2>4. told.inode = s.inode /\ told.iter = next.iter
    <3>1. Told(told, t, n, Key(Entry(t.inode, n)), None)
      BY <1>5, <2>2 DEF RemovedFrom
    <3> QED
      BY <1>5, <3>1 DEF Told
  <2>5. Filed(u, told, n, None) /\ u.iter.dir = IF ~ u.inode.dir /\ told.iter.dir = "current" THEN "removed" ELSE told.iter.dir
    BY ONLY <1>5, <1>6, <2>2, <2>3 DEF RemovedFrom
  <2>6. u.inode.small = s.inode.small /\ u.inode.file = [s.inode.file EXCEPT ![n] = None] /\ u.iter.last = n
    <3>1. told.iter \in Iterator
      BY <1>5 DEF State
    <3>2. u.iter = [told.iter EXCEPT !.dir = u.iter.dir]
      BY <2>5 DEF Filed
    <3>3. u.iter.last = told.iter.last
      BY ONLY <3>1, <3>2 DEF Iterator
    <3>4. u.inode.small = told.inode.small /\ u.inode.file = [told.inode.file EXCEPT ![n] = None]
      BY <2>5 DEF Filed
    <3> QED
      BY ONLY <1>12, <2>4, <3>3, <3>4
  <2>7. HasFiles(u.inode) => u.iter.dir # "removed"
    BY <1>8, <1>12, <2>4, <2>5 DEF Placed
  <2>8. ASSUME NEW m \in Name, u.inode.file[m] # None PROVE m > u.iter.last
    <3>1. s.inode.file \in [Name -> Bytes \cup {None}]
      BY <1>1 DEF Inode
    <3>2. m # n /\ s.inode.file[m] # None
      BY <2>6, <2>8, <3>1
    <3>3. m > s.iter.last
      BY <3>2 DEF Orderly
    <3>4. n <= m /\ n \in Nat /\ m \in Nat
      BY <1>12, <3>2, <3>3, AttributesAssumption
    <3> QED
      BY <2>6, <3>2, <3>4
  <2>9. ~ (l > d)
    <3>1. s.iter.current \in Int
      BY <1>1 DEF Iterator
    <3>2. l > d => s.iter.current = 0
      BY <1>2, <1>3 DEF Orderly
    <3> QED
      BY <1>12, <3>1, <3>2
  <2>10. Shift(s.inode.small) = 1 => Len(s.inode.small) <= 2
    BY DEF Orderly
  <2>11. ~ (Len(u.inode.small) > Shift(u.inode.small)) /\ (Shift(u.inode.small) = 1 => Len(u.inode.small) <= 2)
    BY <1>2, <1>3, <1>9, <2>6, <2>9, <2>10
  <2>12. Orderly(u)
    BY ONLY <2>7, <2>8, <2>11 DEF Orderly
  <2> QED
    BY ONLY <1>4, <1>10, <2>1, <2>12
<1> QED
  <2> DEFINE dir == IF s.iter.dir = "closed" THEN "current" ELSE s.iter.dir
             later == {m \in Name : dir = "current" /\ s.inode.file[m] # None /\ m > s.iter.last}
  <2>1. \/ /\ s.iter.current >= 0 /\ s.iter.current + 1 + d \in 1 .. l
           /\ n = s.inode.small[s.iter.current + 1 + d].name
           /\ next.iter = [s.iter EXCEPT !.current = s.iter.current + 1]
        \/ /\ s.iter.current < 0 \/ s.iter.current + 1 + d > l
           /\ n \in later /\ \A m \in later : n <= m
           /\ next.iter = [s.iter EXCEPT !.current = -1, !.dir = dir, !.last = n]
    BY ONLY <1>2, <1>3, <1>4, <1>5 DEF Next3
  <2>2. CASE /\ s.iter.current < 0 \/ s.iter.current + 1 + d > l
             /\ n \in later /\ \A m \in later : n <= m
             /\ next.iter = [s.iter EXCEPT !.current = -1, !.dir = dir, !.last = n]
    <3>1. next.iter.last = n /\ next.iter.current = -1 /\ next.iter.dir = dir
      BY ONLY <1>1, <2>2 DEF Iterator
    <3>2. dir = "current"
      BY <2>2
    <3>3. s.inode.file[n] # None /\ \A m \in Name : s.inode.file[m] # None /\ m > s.iter.last => n <= m
      BY <2>2, <3>2
    <3> QED
      BY <1>12, <2>2, <3>1, <3>2, <3>3
  <2> QED
    BY <1>11, <2>1, <2>2

\* What Free leaves.
LEMMA FreedLeaves ==
  ASSUME NEW s \in PlacedStates
  PROVE  /\ Freed(s) \in PlacedStates /\ Leaves(Freed(s), s)
         /\ Orderly(s) => Present(Freed(s).inode) = {}
<1>1. PICK f : RoundsOf(f, s) /\ Freed(s) = f[Rounds]
  BY FreedIs
<1>2. PICK r \in Nat : r = Rounds
  BY RoundsIs
<1>3. f \in [0 .. r -> PlacedStates] /\ f[0] = s /\ \A k \in 1 .. r : f[k] = Round(f[k - 1])
  BY <1>1, <1>2 DEF RoundsOf
<1> DEFINE Left(k) == Cardinality(Present(f[k].inode))
           P == {k \in Nat : k <= r =>
                   /\ Leaves(f[k], s)
                   /\ Orderly(s) => Orderly(f[k]) /\ (Present(f[k].inode) = {} \/ (Left(k) \in Nat /\ Left(k) + k <= r))}
<1>4. \A i : IsFiniteSet(Present(i))
  <2>1. \A i : Present(i) \subseteq Name
    BY DEF Present
  <2> QED
    BY <2>1, AttributesAssumption, FS_Subset
<1>5. 0 \in P
  <2>1. Leaves(s, s)
    BY DEF Leaves
  <2>2. Left(0) \in Nat /\ Left(0) <= r
    <3>1. Present(s.inode) \subseteq Name /\ IsFiniteSet(Name)
      BY AttributesAssumption DEF Present
    <3>2. Cardinality(Present(s.inode)) \in Nat /\ Cardinality(Present(s.inode)) <= Cardinality(Name)
      BY ONLY <3>1, FS_Subset, FS_CardinalityType
    <3> QED
      BY <1>2, <1>3, <3>2 DEF Rounds
  <2> QED
    BY <1>3, <2>1, <2>2
<1>6. ASSUME NEW k \in Nat, k \in P PROVE k + 1 \in P
  <2> SUFFICES ASSUME k + 1 <= r
               PROVE  /\ Leaves(f[k + 1], s)
                      /\ Orderly(s) => /\ Orderly(f[k + 1])
                                       /\ Present(f[k + 1].inode) = {} \/ (Left(k + 1) \in Nat /\ Left(k + 1) + (k + 1) <= r)
    OBVIOUS
  <2>1. PICK v, u : v \in PlacedStates /\ v = f[k] /\ u = f[k + 1] /\ u = Round(v)
    <3>1. k \in 0 .. r /\ k + 1 \in 1 .. r /\ (k + 1) - 1 = k
      OBVIOUS
    <3> QED
      BY <1>3, <3>1
  <2>2. Leaves(v, s) /\ (Orderly(s) => Orderly(v) /\ (Present(v.inode) = {} \/ (Left(k) \in Nat /\ Left(k) + k <= r)))
    BY <1>6, <2>1
  <2>3. Leaves(u, v)
    BY <2>1, RoundLeaves
  <2>4. Leaves(u, s)
    BY ONLY <2>2, <2>3 DEF Leaves
  <2>5. PICK next, t, told : RoundBy(u, v, next, t, told)
    BY <2>1, RoundIs
  <2>6. ASSUME Orderly(s)
        PROVE  Orderly(u) /\ (Present(u.inode) = {} \/ (Cardinality(Present(u.inode)) \in Nat /\ Cardinality(Present(u.inode)) + (k + 1) <= r))
    <3>1. Orderly(v)
      BY <2>2, <2>6
    <3>2. CASE next.name = NameTag /\ u = v
      <4>1. Next3(next, v)
        BY <2>5 DEF RoundBy
      <4>2. Present(v.inode) = {}
        BY ONLY <2>1, <3>1, <3>2, <4>1, OrderlyEnd
      <4> QED
        BY <3>1, <3>2, <4>2
    <3>3. CASE next.name \in Name
      <4>1. /\ Orderly(u)
            /\ next.name \in Present(v.inode) /\ Present(u.inode) = Present(v.inode) \ {next.name}
        BY ONLY <2>1, <2>5, <3>1, <3>3, OrderlyRound
      <4>2. Left(k) \in Nat /\ Left(k) + k <= r
        BY <2>2, <2>6, <4>1
      <4>3. Cardinality(Present(u.inode)) = Cardinality(Present(v.inode)) - 1
        <5>1. IsFiniteSet(Present(v.inode))
          BY <1>4
        <5>2. Cardinality(Present(v.inode) \ {next.name}) = Cardinality(Present(v.inode)) - 1
          BY ONLY <4>1, <5>1, FS_RemoveElement
        <5> QED
          BY ONLY <4>1, <5>2
      <4>4. Cardinality(Present(u.inode)) \in Nat
        BY <1>4, FS_CardinalityType
      <4>5. PICK a \in Nat, b \in Nat : a = Left(k) /\ b = Cardinality(Present(u.inode)) /\ b = a - 1 /\ a + k <= r
        BY <2>1, <4>2, <4>3, <4>4
      <4>6. b + (k + 1) <= r
        BY ONLY <4>5, a \in Nat, b \in Nat, k \in Nat, r \in Nat
      <4> QED
        BY ONLY <4>1, <4>4, <4>5, <4>6
    <3> QED
      BY <2>5, <3>2, <3>3 DEF RoundBy
  <2> QED
    BY ONLY <2>1, <2>4, <2>6
<1>7. Nat \subseteq P
  <2> HIDE DEF P
  <2> QED
    BY <1>5, <1>6, NumberInduction
<1>8. /\ Leaves(f[r], s)
      /\ Orderly(s) => (Present(f[r].inode) = {} \/ (Left(r) \in Nat /\ Left(r) + r <= r))
  BY <1>7
<1>9. Orderly(s) => Present(f[r].inode) = {}
  <2> SUFFICES ASSUME Left(r) \in Nat, Left(r) + r <= r PROVE Present(f[r].inode) = {}
    BY <1>8
  <2>1. Left(r) = 0
    OBVIOUS
  <2>2. Cardinality(Present(f[r].inode)) = 0 /\ IsFiniteSet(Present(f[r].inode))
    BY <1>4, <2>1
  <2> QED
    BY ONLY <2>2, FS_EmptySet
<1> QED
  BY <1>1, <1>2, <1>3, <1>8, <1>9

-----------------------------------------------------------------------------
(* The invariant, and each action.                                         *)

Emptied ==
  \A n \in Indexed \ loose : op.small <= 2 \/ FindSmallData(inode.small, NameTag) = 0 => index[n] = {}

Inv ==
  /\ Typed
  /\ Placed(inode)
  /\ ~ inode.freed => Follow
  /\ inode.freed => Emptied

LEMMA NowIs ==
  ASSUME Typed
  PROVE  Now \in State /\ Now.inode = inode /\ Now.iter = iter.it /\ Now.index = index
  BY DEF Typed, State, Now

Changed(s, what) ==
  /\ Typed' /\ inode' = s.inode /\ index' = s.index /\ ~ inode.freed
  /\ iter' = [iter EXCEPT !.it = s.iter, !.stay = iter.stay \cap InPlace(inode, s.inode)]
  /\ op' = what
  /\ loose' = IF what.kind = "write" /\ Loosens(what.name, what.pos, what.data, s.inode)
                THEN loose \cup {what.name} ELSE loose

LEMMA ChangeIs ==
  ASSUME Typed, NEW s \in State, NEW what, Change(s, what)
  PROVE  Changed(s, what)
<1>1. /\ inode' = s.inode /\ index' = s.index /\ ~ inode.freed /\ op' = what
      /\ iter' = [iter EXCEPT !.it = s.iter, !.stay = iter.stay \cap InPlace(inode, s.inode)]
      /\ loose' = IF what.kind = "write" /\ Loosens(what.name, what.pos, what.data, s.inode)
                    THEN loose \cup {what.name} ELSE loose
  BY DEF Change
<1>2. PICK stay \in SUBSET Name : stay = iter.stay \cap InPlace(inode, s.inode)
  BY DEF Typed
<1>3. s.inode \in Inode /\ s.index \in [Indexed -> SUBSET Bytes] /\ s.iter \in Iterator
  BY DEF State
<1>4. iter' \in [it : Iterator, ended : BOOLEAN, seen : Seq(Name), stay : SUBSET Name]
  BY <1>1, <1>2, <1>3 DEF Typed
<1>5. Typed'
  BY <1>1, <1>3, <1>4 DEF Typed
<1> QED
  BY <1>1, <1>5 DEF Changed

LEMMA DataIs ==
  /\ \A d \in Data : d \in Bytes
  /\ \A pos \in Position : pos \in Nat
  /\ \A n \in Indexed : n \in Name
  /\ NameTag \notin Name
  BY AttributesAssumption DEF Bytes, Byte

\* A write.
LEMMA WriteStep ==
  ASSUME Inv, NEW n \in Name, NEW pos \in Position, NEW buffer \in Data, WriteAttribute(n, pos, buffer)
  PROVE  /\ Inv'
         /\ \A m \in Name : m # n => Entry(inode', m) = Entry(inode, m)
         /\ op' = [kind |-> "write", name |-> n, pos |-> pos, data |-> buffer]
         /\ \/ inode'.file[n] = None /\ Entry(inode', n) = buffer
            \/ /\ inode'.file[n] = Entry(inode', n)
               /\ Entry(inode', n) = WriteAt(IF inode.file[n] = None THEN <<>> ELSE inode.file[n], pos, buffer)
<1>1. PICK s \in State : s = Now /\ s.inode = inode /\ s.iter = iter.it /\ s.index = index
  BY NowIs DEF Inv
<1>2. Placed(s.inode) /\ Typed /\ pos \in Nat /\ buffer \in Bytes
  BY <1>1, DataIs DEF Inv
<1>3. PICK t : t = Written(s, n, pos, buffer)
  OBVIOUS
<1>4. PICK what : what = [kind |-> "write", name |-> n, pos |-> pos, data |-> buffer]
  OBVIOUS
<1>5. what.kind = "write" /\ what.name = n /\ what.pos = pos /\ what.data = buffer
  BY <1>4
<1>6. Change(t, what)
  BY <1>1, <1>3, <1>4 DEF WriteAttribute
<1>7. PICK done : WrittenAndTold(t, done, s, n, pos, buffer)
  BY ONLY <1>2, <1>3, s \in State, n \in Name, WrittenIs
<1>8. /\ Outcome(t, s, n) /\ HasWritten(t, s, n, pos, buffer)
      /\ \A m \in Indexed : m # n => t.index[m] = s.index[m]
      /\ n \in Indexed /\ Follows(s.inode, s.index, n) /\ ~ Loosens(n, pos, buffer, t.inode)
           => Follows(t.inode, t.index, n)
  BY ONLY <1>2, <1>7, s \in State, n \in Name, WrittenFollows
<1>9. t \in State /\ Placed(t.inode) /\ t.inode.freed = s.inode.freed
      /\ \A m \in Name : m # n => Entry(t.inode, m) = Entry(s.inode, m)
  BY <1>8 DEF Outcome
<1>10. /\ Typed' /\ inode' = t.inode /\ index' = t.index /\ ~ inode.freed /\ op' = what
       /\ loose' = IF Loosens(n, pos, buffer, t.inode) THEN loose \cup {n} ELSE loose
  <2>1. Changed(t, what)
    BY ONLY <1>2, <1>6, <1>9, ChangeIs
  <2> QED
    BY ONLY <1>5, <2>1 DEF Changed
<1>11. ~ inode'.freed
  BY <1>1, <1>9, <1>10
<1>12. Follow'
  <2> SUFFICES ASSUME NEW m \in Indexed, m \notin loose' PROVE Follows(inode', index', m)
    BY DEF Follow
  <2>1. m \notin loose /\ m \in Name
    BY <1>10, DataIs
  <2>2. Follows(s.inode, s.index, m)
    BY <1>1, <1>10, <2>1 DEF Inv, Follow
  <2>3. CASE m = n
    BY <1>8, <1>10, <2>2, <2>3
  <2>4. CASE m # n
    <3>1. Entry(t.inode, m) = Entry(s.inode, m) /\ t.index[m] = s.index[m]
      BY <1>8, <1>9, <2>1, <2>4
    <3> QED
      BY ONLY <1>10, <2>2, <3>1 DEF Follows
  <2> QED
    BY <2>3, <2>4
<1>13. Inv'
  BY <1>9, <1>10, <1>11, <1>12 DEF Inv
<1> QED
  BY <1>1, <1>4, <1>8, <1>9, <1>10, <1>13 DEF HasWritten

LEMMA RemoveStep ==
  ASSUME Inv, NEW n \in Name, RemoveAttribute(n)
  PROVE  /\ Inv'
         /\ \A m \in Name : m # n => Entry(inode', m) = Entry(inode, m)
         /\ op' = [kind |-> "remove", name |-> n] /\ Entry(inode', n) = None
<1>1. PICK s \in State : s = Now /\ s.inode = inode /\ s.iter = iter.it /\ s.index = index
  BY NowIs DEF Inv
<1>2. Placed(s.inode) /\ Typed
  BY <1>1 DEF Inv
<1>3. PICK t : t = Removed(s, n)
  OBVIOUS
<1>4. PICK what : what = [kind |-> "remove", name |-> n]
  OBVIOUS
<1>5. what.kind # "write"
  BY <1>4
<1>6. Change(t, what)
  BY <1>1, <1>3, <1>4 DEF RemoveAttribute
<1>7. PICK told \in State : RemovedFrom(t, told, s, n)
  BY ONLY <1>2, <1>3, s \in State, n \in Name, RemovedIs
<1>8. /\ Outcome(t, s, n) /\ Entry(t.inode, n) = None
      /\ \A m \in Indexed : m # n => t.index[m] = s.index[m]
      /\ n \in Indexed /\ Follows(s.inode, s.index, n) => t.index[n] = {}
  BY ONLY <1>2, <1>7, s \in State, n \in Name, RemovedResult
<1>9. t \in State /\ Placed(t.inode) /\ t.inode.freed = s.inode.freed
      /\ \A m \in Name : m # n => Entry(t.inode, m) = Entry(s.inode, m)
  BY <1>8 DEF Outcome
<1>10. Typed' /\ inode' = t.inode /\ index' = t.index /\ ~ inode.freed /\ op' = what /\ loose' = loose
  <2>1. Changed(t, what)
    BY ONLY <1>2, <1>6, <1>9, ChangeIs
  <2> QED
    BY ONLY <1>5, <2>1 DEF Changed
<1>11. ~ inode'.freed
  BY <1>1, <1>9, <1>10
<1>12. Follow'
  <2> SUFFICES ASSUME NEW m \in Indexed, m \notin loose' PROVE Follows(inode', index', m)
    BY DEF Follow
  <2>1. m \notin loose /\ m \in Name
    BY <1>10, DataIs
  <2>2. Follows(s.inode, s.index, m)
    BY <1>1, <1>10, <2>1 DEF Inv, Follow
  <2>3. CASE m = n
    <3>1. t.index[n] = {}
      BY <1>8, <2>2, <2>3
    <3>2. None # <<>>
      BY DEF None
    <3> QED
      BY ONLY <1>8, <1>10, <2>3, <3>1, <3>2 DEF Follows
  <2>4. CASE m # n
    <3>1. Entry(t.inode, m) = Entry(s.inode, m) /\ t.index[m] = s.index[m]
      BY <1>8, <1>9, <2>1, <2>4
    <3> QED
      BY ONLY <1>10, <2>2, <3>1 DEF Follows
  <2> QED
    BY <2>3, <2>4
<1>13. Inv'
  BY <1>9, <1>10, <1>11, <1>12 DEF Inv
<1> QED
  BY <1>1, <1>4, <1>8, <1>9, <1>10, <1>13

LEMMA NameStep ==
  ASSUME Inv, NEW data \in Data, SetName(data)
  PROVE  /\ Inv'
         /\ \A m \in Name : Entry(inode', m) = Entry(inode, m)
         /\ op' = [kind |-> "name", name |-> NameTag]
<1>1. PICK s \in State : s = Now /\ s.inode = inode /\ s.iter = iter.it /\ s.index = index
  BY NowIs DEF Inv
<1>2. Placed(s.inode) /\ Typed /\ data \in Bytes
  BY <1>1, DataIs DEF Inv
<1>3. PICK t : t = NameSet(s, data)
  OBVIOUS
<1>4. PICK what : what = [kind |-> "name", name |-> NameTag]
  OBVIOUS
<1>5. what.kind # "write"
  BY <1>4
<1>6. Change(t, what) /\ t.ok /\ FindSmallData(s.inode.small, NameTag) # 0
  BY <1>1, <1>3, <1>4 DEF SetName
<1>7. PICK made : Renamed(t, made, s)
  BY ONLY <1>2, <1>3, <1>6, s \in State, NameSetIs
<1>8. Unchanged(t, s)
  BY ONLY <1>2, <1>7, s \in State, RenamedResult
<1>9. /\ t \in State /\ Placed(t.inode) /\ t.inode.freed = s.inode.freed /\ t.index = s.index
      /\ \A m \in Name : Entry(t.inode, m) = Entry(s.inode, m)
  BY <1>8 DEF Unchanged
<1>10. Typed' /\ inode' = t.inode /\ index' = t.index /\ ~ inode.freed /\ op' = what /\ loose' = loose
  <2>1. Changed(t, what)
    BY ONLY <1>2, <1>6, <1>9, ChangeIs
  <2> QED
    BY ONLY <1>5, <2>1 DEF Changed
<1>11. ~ inode'.freed
  BY <1>1, <1>9, <1>10
<1>12. Follow'
  <2> SUFFICES ASSUME NEW m \in Indexed, m \notin loose' PROVE Follows(inode', index', m)
    BY DEF Follow
  <2>1. m \notin loose /\ m \in Name
    BY <1>10, DataIs
  <2>2. Follows(s.inode, s.index, m)
    BY <1>1, <1>10, <2>1 DEF Inv, Follow
  <2> QED
    BY ONLY <1>9, <1>10, <2>1, <2>2 DEF Follows
<1>13. Inv'
  BY <1>9, <1>10, <1>11, <1>12 DEF Inv
<1> QED
  BY <1>1, <1>4, <1>9, <1>10, <1>13

LEMMA FreeStep ==
  ASSUME Inv, Free
  PROVE  /\ Inv' /\ op' = [kind |-> "free", name |-> NameTag, small |-> Len(inode.small)]
<1>1. PICK s \in State : s = Now /\ s.inode = inode /\ s.iter = iter.it /\ s.index = index
  BY NowIs DEF Inv
<1>2. PICK v : v = [s EXCEPT !.iter = NewIterator]
  OBVIOUS
<1>3. NewIterator \in Iterator
  BY DEF NewIterator, Iterator
<1>4. v \in State /\ v.inode = inode /\ v.iter = NewIterator /\ v.index = index
  BY <1>1, <1>2, <1>3 DEF State
<1>5. v \in PlacedStates
  BY <1>4 DEF Inv, PlacedStates
<1>6. PICK u : u = Freed(v)
  OBVIOUS
<1>7. u \in PlacedStates /\ Leaves(u, v) /\ (Orderly(v) => Present(u.inode) = {})
  BY ONLY <1>5, <1>6, FreedLeaves
<1>8. u \in State /\ Placed(u.inode) /\ u.inode \in Inode
  BY <1>7 DEF PlacedStates, State
<1>9. PICK t : t = [u EXCEPT !.inode = [u.inode EXCEPT !.freed = TRUE]]
  OBVIOUS
<1>10. PICK what : what = [kind |-> "free", name |-> NameTag, small |-> Len(inode.small)]
  OBVIOUS
<1>11. what.kind # "write" /\ what.small = Len(inode.small)
  BY <1>10
<1>12. Change(t, what)
  <2>1. t = [u EXCEPT !.inode.freed = TRUE]
    BY <1>8, <1>9
  <2> QED
    BY <1>1, <1>2, <1>6, <1>10, <2>1 DEF Free
<1>13. /\ t.inode \in Inode /\ t.inode.small = u.inode.small /\ t.inode.file = u.inode.file
       /\ t.inode.dir = u.inode.dir /\ t.inode.freed
  BY <1>8, <1>9 DEF State, Inode
<1>14. t \in State /\ t.index = u.index
  <2>1. t.inode = [u.inode EXCEPT !.freed = TRUE]
    BY <1>8, <1>9 DEF State
  <2>2. [u.inode EXCEPT !.freed = TRUE] \in Inode
    BY <1>13, <2>1
  <2> HIDE <1>13
  <2> QED
    BY <1>8, <1>9, <2>2 DEF State
<1>15. Placed(t.inode)
  BY ONLY <1>8, <1>13 DEF Placed, HasFiles
<1>16. Typed' /\ inode' = t.inode /\ index' = t.index /\ ~ inode.freed /\ op' = what /\ loose' = loose
  <2>1. Changed(t, what)
    BY ONLY <1>12, <1>14, Inv, ChangeIs DEF Inv
  <2> QED
    BY ONLY <1>11, <2>1 DEF Changed
<1>17. op'.small <= 2 \/ FindSmallData(inode'.small, NameTag) = 0 => Orderly(v)
  <2>1. PICK l \in Nat : l = Len(inode.small)
    BY <1>1, LenProperties DEF State, Inode
  <2>2. op'.small = l /\ inode'.small = u.inode.small
    BY ONLY <1>11, <1>13, <1>16, <2>1
  <2> SUFFICES ASSUME l <= 2 \/ FindSmallData(u.inode.small, NameTag) = 0
               PROVE  Orderly(v)
    <3>1. op'.small <= 2 => l <= 2
      BY ONLY <2>2, l \in Nat
    <3>2. FindSmallData(inode'.small, NameTag) = FindSmallData(u.inode.small, NameTag)
      BY ONLY <2>2
    <3> QED
      BY <3>1, <3>2
  <2>3. Shift(v.inode.small) = 1 => Len(v.inode.small) <= 2
    <3> SUFFICES ASSUME FindSmallData(u.inode.small, NameTag) = 0 PROVE Shift(v.inode.small) = 0
      BY <1>4, <2>1
    <3>1. u.inode.small \in Seq(Item) /\ Section(v.inode.small)
      BY <1>4, <1>8 DEF Inode, Inv, Placed
    <3>2. Kept(u.inode.small, NameTag) = None
      BY <3>1, KeptIs
    <3>3. Kept(v.inode.small, NameTag) = None
      BY <1>7, <3>2 DEF Leaves
    <3>4. Shift(v.inode.small) = IF Kept(v.inode.small, NameTag) = None THEN 0 ELSE 1
      BY ONLY <3>1, ShiftIs
    <3> QED
      BY <3>3, <3>4
  <2>4. v.iter.current = 0 /\ v.iter.dir # "removed" /\ v.iter.last = 0
    BY <1>4 DEF NewIterator
  <2>5. \A n \in Name : n > 0
    BY AttributesAssumption DEF NameTag
  <2> QED
    BY <2>3, <2>4, <2>5 DEF Orderly
<1>18. Emptied'
  <2> SUFFICES ASSUME NEW n \in Indexed, n \notin loose', op'.small <= 2 \/ FindSmallData(inode'.small, NameTag) = 0
               PROVE  index'[n] = {}
    BY DEF Emptied
  <2>1. Follows(v.inode, v.index, n)
    BY <1>4, <1>16 DEF Inv, Follow
  <2>2. Follows(u.inode, u.index, n)
    BY <1>7, <2>1 DEF Leaves
  <2>3. n \notin Present(u.inode)
    BY <1>7, <1>17
  <2>4. Entry(u.inode, n) = None
    BY <1>8, <2>3, EntryIs, DataIs
  <2>5. u.index[n] = {}
    BY <2>2, <2>4 DEF Follows
  <2> QED
    BY ONLY <1>14, <1>16, <2>5
<1>19. inode'.freed
  BY <1>13, <1>16
<1>20. Inv'
  BY <1>15, <1>16, <1>18, <1>19 DEF Inv
<1> QED
  BY <1>10, <1>16, <1>20

LEMMA IteratorStep ==
  ASSUME Inv, GetNext \/ Rewind
  PROVE  Inv' /\ op' = op
<1>1. UNCHANGED <<inode, index, op, loose>>
  BY DEF GetNext, Rewind
<1>2. iter' \in [it : Iterator, ended : BOOLEAN, seen : Seq(Name), stay : SUBSET Name]
  <2>1. iter \in [it : Iterator, ended : BOOLEAN, seen : Seq(Name), stay : SUBSET Name]
    BY DEF Inv, Typed
  <2>2. CASE GetNext
    <3>1. PICK s \in State : s = Now /\ s.inode = inode /\ s.iter = iter.it /\ s.index = index
      BY NowIs DEF Inv
    <3>2. PICK next : next = NextAttribute(s)
      OBVIOUS
    <3>3. Section(s.inode.small)
      BY <3>1 DEF Inv, Placed
    <3>4. next.name \in Name \cup {NameTag} /\ next.iter \in Iterator
      <4>1. Next3(next, s)
        BY ONLY <3>2, <3>3, s \in State, NextAttributeIs
      <4> QED
        BY ONLY <4>1 DEF Next3
    <3>5. PICK ended \in BOOLEAN : ended = (next.name = NameTag)
      OBVIOUS
    <3>6. PICK seen \in Seq(Name) : seen = IF next.name = NameTag THEN iter.seen ELSE Append(iter.seen, next.name)
      BY <2>1, <3>4, AppendProperties
    <3>7. iter' = [iter EXCEPT !.it = next.iter, !.ended = ended, !.seen = seen]
      BY <2>2, <3>1, <3>2, <3>5, <3>6 DEF GetNext
    <3>8. iter' = [it |-> next.iter, ended |-> ended, seen |-> seen, stay |-> iter.stay]
      BY ONLY <2>1, <3>7
    <3>9. iter.stay \in SUBSET Name
      BY ONLY <2>1
    <3> QED
      BY ONLY <3>4, <3>8, <3>9, ended \in BOOLEAN, seen \in Seq(Name)
  <2>3. CASE Rewind
    <3>1. Rewound(iter.it) \in Iterator
      <4>1. PICK it \in Iterator : it = iter.it
        BY <2>1
      <4>2. it.current \in Int /\ it.dir \in {"closed", "current", "removed"}
        BY DEF Iterator
      <4>3. PICK no \in BOOLEAN : Rewound(it) = [it EXCEPT !.current = 0, !.last = 0, !.skips = no]
        BY Zenon DEF Rewound
      <4>4. Rewound(it) = [current |-> 0, dir |-> it.dir, last |-> 0, skips |-> no]
        BY <4>3 DEF Iterator
      <4>5. Rewound(it) \in Iterator
        BY ONLY <4>2, <4>4, no \in BOOLEAN DEF Iterator
      <4> QED
        BY ONLY <4>1, <4>5
    <3>2. PICK stay \in SUBSET Name : stay = {n \in Present(inode) : iter.it.dir # "removed" \/ inode.file[n] = None}
      BY DEF Present
    <3>3. iter' = [it |-> Rewound(iter.it), ended |-> FALSE, seen |-> <<>>, stay |-> stay]
      BY <2>3, <3>2 DEF Rewind
    <3>4. <<>> \in Seq(Name)
      OBVIOUS
    <3> QED
      BY ONLY <3>1, <3>3, <3>4, stay \in SUBSET Name
  <2> QED
    BY <2>2, <2>3
<1>3. Typed'
  BY <1>1, <1>2 DEF Inv, Typed
<1>4. Placed(inode')
  BY <1>1 DEF Inv
<1>5. (~ inode.freed => Follow)' /\ (inode.freed => Emptied)'
  BY <1>1 DEF Inv, Follow, Emptied
<1> QED
  BY <1>1, <1>3, <1>4, <1>5 DEF Inv

LEMMA StutterStep ==
  ASSUME Inv, UNCHANGED vars
  PROVE  Inv'
  BY DEF Inv, Typed, Follow, Emptied, vars

LEMMA InvAlways == Spec => []Inv
<1>1. Init => Inv
  BY AtFirst DEF Inv
<1>2. Inv /\ [Next]_vars => Inv'
  <2> SUFFICES ASSUME Inv, [Next]_vars PROVE Inv'
    OBVIOUS
  <2>1. ASSUME NEW n \in Name, RemoveAttribute(n) PROVE Inv'
    BY <2>1, RemoveStep
  <2>2. ASSUME NEW n \in Name, NEW pos \in Position, NEW buffer \in Data, WriteAttribute(n, pos, buffer) PROVE Inv'
    BY <2>2, WriteStep
  <2>3. ASSUME NEW data \in Data, SetName(data) PROVE Inv'
    BY <2>3, NameStep
  <2>4. CASE Free
    BY <2>4, FreeStep
  <2>5. CASE GetNext \/ Rewind
    BY <2>5, IteratorStep
  <2>6. CASE UNCHANGED vars
    BY <2>6, StutterStep
  <2> QED
    BY <2>1, <2>2, <2>3, <2>4, <2>5, <2>6 DEF Next
<1> QED
  BY <1>1, <1>2, PTL DEF Spec

-----------------------------------------------------------------------------
(* The theorems.                                                           *)

\* The small_data section never grows over the end of the inode's block, the
\* name stays in front of it, and each attribute is in the section or in a file,
\* once only, whatever _AddSmallData, _MakeSpaceForSmallData and WriteAttribute
\* moved from one to the other.
THEOREM EachInOnePlace == Spec => []OnePlace
<1>1. Inv => OnePlace
  <2> SUFFICES ASSUME Inv PROVE OnePlace
    OBVIOUS
  <2>1. inode \in Inode /\ Placed(inode) /\ Section(inode.small)
    BY DEF Inv, Typed, Placed
  <2>2. PICK small : small = inode.small
    OBVIOUS
  <2>3. small \in Seq(Item) /\ Distinct(small) /\ Used(small) <= Capacity
        /\ \A i \in 1 .. Len(small) : small[i].name = NameTag => i = 1
    BY ONLY <2>1, <2>2 DEF Section
  <2>4. \A i, j \in 1 .. Len(small) : small[i].name = small[j].name => i = j
    BY ONLY <2>3 DEF Distinct
  <2>5. ASSUME NEW i \in 1 .. Len(small), small[i].name # NameTag
        PROVE  inode.file[small[i].name] = None
    <3>1. small[i] \in Item
      BY ONLY <2>3, i \in 1 .. Len(small), ElementOfSeq
    <3>2. PICK n \in Name : n = small[i].name
      BY <2>5, <3>1 DEF Item
    <3>3. FindSmallData(small, n) = i
      BY ONLY <2>3, <3>2, i \in 1 .. Len(small), FoundAt
    <3>4. i # 0
      <4>1. PICK l \in Nat : l = Len(small)
        BY <2>3, LenProperties
      <4> QED
        BY <4>1
    <3>5. Kept(small, n) # None
      BY ONLY <2>3, <3>3, <3>4, KeptIs
    <3> QED
      BY <2>1, <2>2, <3>2, <3>5 DEF Placed
  <2>6. inode.dir = (\E n \in Name : inode.file[n] # None)
    BY <2>1 DEF Placed, HasFiles, HasAny
  <2> QED
    BY ONLY <2>2, <2>3, <2>4, <2>5, <2>6 DEF OnePlace
<1> QED
  BY <1>1, InvAlways, PTL

\* Each index has the beginning of the attribute of its name and nothing when
\* there is none, as long as it was told what WriteAttribute wrote; Free takes
\* the keys out, too, when there was one small attribute at most.
THEOREM IndicesFollow == Spec => []IndexFollows
<1>1. Inv => IndexFollows
  <2> SUFFICES ASSUME Inv, NEW n \in Indexed, n \notin loose
               PROVE  IF inode.freed
                        THEN op.small <= 2 \/ FindSmallData(inode.small, NameTag) = 0 => index[n] = {}
                        ELSE index[n] = IF n \in Present(inode) THEN {Key(Value(inode, n))} ELSE {}
    BY DEF IndexFollows
  <2>1. CASE inode.freed
    BY <2>1 DEF Inv, Emptied
  <2>2. CASE ~ inode.freed
    <3>1. Follows(inode, index, n)
      BY <2>2 DEF Inv, Follow
    <3>2. inode \in Inode /\ n \in Name
      BY DataIs DEF Inv, Typed
    <3>3. (n \in Present(inode) <=> Entry(inode, n) # None) /\ Value(inode, n) = Entry(inode, n)
      BY ONLY <3>2, EntryIs
    <3> QED
      BY <2>2, <3>1, <3>3 DEF Follows
  <2> QED
    BY <2>1, <2>2
<1> QED
  BY <1>1, InvAlways, PTL

\* How much of a file stays where it is.
StaysFor(i, j, n) == IF i.file[n] # None /\ j.file[n] # None THEN Len(i.file[n]) ELSE 0

\* new is buffer at its place, and what stays of old around it.
ReadsAs(new, old, stayed, pos, buffer) ==
  /\ SubSeq(new, pos + 1, pos + Len(buffer)) = buffer
  /\ Len(new) = Max({stayed, pos + Len(buffer)})
  /\ \A k \in 1 .. stayed : k \in pos + 1 .. pos + Len(buffer) \/ new[k] = old[k]

\* What the reader of an attribute sees of a step.
Reads(i, j, did) ==
  /\ \A m \in Name \ {did.name} : did.kind # "free" => Value(j, m) = Value(i, m)
  /\ did.kind = "remove" => did.name \notin Present(j)
  /\ did.kind = "write" /\ (did.pos = 0 \/ j.file[did.name] # None) =>
       ReadsAs(Value(j, did.name), Value(i, did.name), StaysFor(i, j, did.name), did.pos, did.data)

LEMMA GreaterIs ==
  ASSUME NEW a \in Nat, NEW b \in Nat
  PROVE  Max({a, b}) = Greater(a, b)
<1>1. PICK n \in Nat : n = Greater(a, b)
  BY DEF Greater
<1>2. {a, b} \subseteq Nat /\ {a, b} # {} /\ \A y \in {a, b} : y <= n
  BY <1>1 DEF Greater
<1>3. Max({a, b}) \in {a, b} /\ \A y \in {a, b} : y <= Max({a, b})
  BY ONLY <1>2, n \in Nat, MaxIsGreatest
<1> QED
  BY <1>1, <1>3 DEF Greater

\* What WriteAt makes of a file, or of nothing.
LEMMA WriteAtReads ==
  ASSUME NEW old \in Bytes, NEW pos \in Nat, NEW buffer \in Bytes
  PROVE  ReadsAs(WriteAt(old, pos, buffer), old, Len(old), pos, buffer)
<1>1. PICK l \in Nat, m \in Nat : l = Len(old) /\ m = Len(buffer)
  BY LenProperties DEF Bytes
<1>2. Max({l, pos + m}) = Greater(l, pos + m)
  BY ONLY l \in Nat, pos + m \in Nat, GreaterIs
<1>3. PICK w : w = WriteAt(old, pos, buffer)
  OBVIOUS
<1>4. Len(w) = Greater(l, pos + m) /\ \A k \in 1 .. l : k \in pos + 1 .. pos + m \/ w[k] = old[k]
  <2>1. /\ Len(w) = Greater(Len(old), pos + Len(buffer))
        /\ \A k \in 1 .. Len(old) : k \in pos + 1 .. pos + Len(buffer) \/ w[k] = old[k]
    BY ONLY <1>3, old \in Bytes, pos \in Nat, buffer \in Bytes, WriteAtIs
  <2> QED
    BY ONLY <1>1, <2>1
<1>5. SubSeq(w, pos + 1, pos + m) = buffer
  BY <1>1, <1>3, WrittenIsRead
<1> QED
  BY <1>1, <1>2, <1>3, <1>4, <1>5 DEF ReadsAs

\* Nothing stays of what it was.
LEMMA AnewReads ==
  ASSUME NEW pos \in Nat, NEW buffer \in Bytes, NEW old
  PROVE  ReadsAs(WriteAt(<<>>, pos, buffer), old, 0, pos, buffer)
<1>1. <<>> \in Bytes /\ Len(<<>>) = 0
  BY DEF Bytes
<1>2. ReadsAs(WriteAt(<<>>, pos, buffer), <<>>, 0, pos, buffer)
  BY <1>1, WriteAtReads
<1> QED
  BY <1>2 DEF ReadsAs

LEMMA WriteReads ==
  ASSUME NEW i \in Inode, NEW j \in Inode, NEW n \in Name, NEW pos \in Nat, NEW buffer \in Bytes, NEW did,
         did = [kind |-> "write", name |-> n, pos |-> pos, data |-> buffer],
         i.file[n] # None => Entry(i, n) = i.file[n],
         \A m \in Name : m # n => Entry(j, m) = Entry(i, m),
         \/ j.file[n] = None /\ Entry(j, n) = buffer
         \/ /\ j.file[n] = Entry(j, n)
            /\ Entry(j, n) = WriteAt(IF i.file[n] = None THEN <<>> ELSE i.file[n], pos, buffer)
  PROVE  Reads(i, j, did)
<1>1. did.kind = "write" /\ did.name = n /\ did.pos = pos /\ did.data = buffer
  OBVIOUS
<1>2. \A m \in Name : Value(j, m) = Entry(j, m) /\ Value(i, m) = Entry(i, m)
  BY EntryIs
<1>3. SUFFICES ASSUME pos = 0 \/ j.file[n] # None
               PROVE  ReadsAs(Entry(j, n), Entry(i, n), StaysFor(i, j, n), pos, buffer)
  BY <1>1, <1>2 DEF Reads
<1>4. CASE j.file[n] = None /\ Entry(j, n) = buffer
  <2>1. pos = 0 /\ StaysFor(i, j, n) = 0
    BY <1>3, <1>4 DEF StaysFor
  <2>2. <<>> \in Bytes /\ Len(<<>>) = 0 /\ Len(buffer) \in Nat
    BY LenProperties DEF Bytes
  <2>3. Len(<<>>) <= Len(buffer)
    BY ONLY <2>2
  <2>4. WriteAt(<<>>, 0, buffer) = buffer
    BY ONLY <2>2, <2>3, buffer \in Bytes, WriteAtAll
  <2>5. ReadsAs(WriteAt(<<>>, pos, buffer), Entry(i, n), 0, pos, buffer)
    BY AnewReads
  <2> QED
    BY ONLY <1>4, <2>1, <2>4, <2>5
<1>5. CASE j.file[n] = Entry(j, n) /\ Entry(j, n) = WriteAt(IF i.file[n] = None THEN <<>> ELSE i.file[n], pos, buffer)
  <2>1. CASE i.file[n] = None
    <3>1. StaysFor(i, j, n) = 0
      BY <2>1 DEF StaysFor
    <3>2. ReadsAs(WriteAt(<<>>, pos, buffer), Entry(i, n), 0, pos, buffer)
      BY AnewReads
    <3> QED
      BY ONLY <1>5, <2>1, <3>1, <3>2
  <2>2. CASE i.file[n] # None
    <3>1. PICK old : old = i.file[n]
      OBVIOUS
    <3>2. old \in Bytes
      BY <2>2, <3>1 DEF Inode, Bytes
    <3>3. WriteAt(old, pos, buffer) # None /\ Entry(j, n) = WriteAt(old, pos, buffer)
      BY <1>5, <2>2, <3>1, <3>2, WriteAtIs
    <3>4. StaysFor(i, j, n) = Len(old) /\ Entry(i, n) = old
      BY <1>5, <2>2, <3>1, <3>3 DEF StaysFor
    <3>5. ReadsAs(WriteAt(old, pos, buffer), old, Len(old), pos, buffer)
      BY ONLY <3>2, pos \in Nat, buffer \in Bytes, WriteAtReads
    <3> QED
      BY ONLY <3>3, <3>4, <3>5
  <2> QED
    BY <2>1, <2>2
<1> QED
  BY <1>4, <1>5

\* What WriteAttribute writes at the beginning of an attribute, or anywhere in a
\* file, is read at its place, with the other bytes of a file that stays one around
\* it.  (Of a write behind the beginning of an attribute that is in the section
\* afterwards the theorem says nothing.)  RemoveAttribute leaves nothing that can be read, and neither they nor SetName, which move other attributes
\* out of the section and into files, change the value of any other attribute.
THEOREM WritesAreRead == Spec => WritesRead
<1> DEFINE Step == op' # op => Reads(inode, inode', op')
<1>1. Inv /\ Inv' /\ [Next]_vars => Step
  <2> SUFFICES ASSUME Inv, Inv', [Next]_vars, op' # op PROVE Reads(inode, inode', op')
    OBVIOUS
  <2>1. PICK i \in Inode, j \in Inode : i = inode /\ j = inode'
    BY DEF Inv, Typed
  <2>2. PICK did : did = op'
    OBVIOUS
  <2>3. \A m \in Name : Value(j, m) = Entry(j, m) /\ Value(i, m) = Entry(i, m) /\ (m \in Present(j) <=> Entry(j, m) # None)
    BY EntryIs
  <2>4. ASSUME NEW n \in Name, RemoveAttribute(n) PROVE Reads(i, j, did)
    <3>1. /\ \A m \in Name : m # n => Entry(j, m) = Entry(i, m)
          /\ did = [kind |-> "remove", name |-> n] /\ Entry(j, n) = None
      BY <2>1, <2>2, <2>4, RemoveStep
    <3>2. did.kind = "remove" /\ did.name = n
      BY <3>1
    <3> QED
      BY ONLY <2>3, <3>1, <3>2, n \in Name DEF Reads
  <2>5. ASSUME NEW n \in Name, NEW pos \in Position, NEW buffer \in Data, WriteAttribute(n, pos, buffer)
        PROVE  Reads(i, j, did)
    <3>1. /\ \A m \in Name : m # n => Entry(j, m) = Entry(i, m)
          /\ did = [kind |-> "write", name |-> n, pos |-> pos, data |-> buffer]
          /\ \/ j.file[n] = None /\ Entry(j, n) = buffer
             \/ /\ j.file[n] = Entry(j, n)
                /\ Entry(j, n) = WriteAt(IF i.file[n] = None THEN <<>> ELSE i.file[n], pos, buffer)
      BY <2>1, <2>2, <2>5, WriteStep
    <3>2. i.file[n] # None => Entry(i, n) = i.file[n]
      BY <2>1 DEF Inv, Placed, Entry
    <3>3. pos \in Nat /\ buffer \in Bytes
      BY DataIs
    <3> QED
      BY ONLY <3>1, <3>2, <3>3, i \in Inode, j \in Inode, n \in Name, WriteReads
  <2>6. ASSUME NEW data \in Data, SetName(data) PROVE Reads(i, j, did)
    <3>1. /\ \A m \in Name : Entry(j, m) = Entry(i, m)
          /\ did = [kind |-> "name", name |-> NameTag]
      BY <2>1, <2>2, <2>6, NameStep
    <3>2. did.kind # "remove" /\ did.kind # "write" /\ did.name = NameTag
      BY <3>1
    <3> QED
      BY ONLY <2>3, <3>1, <3>2 DEF Reads
  <2>7. ASSUME Free PROVE Reads(i, j, did)
    <3>1. did = [kind |-> "free", name |-> NameTag, small |-> Len(inode.small)]
      BY <2>2, <2>7, FreeStep
    <3>2. did.kind = "free"
      BY <3>1
    <3> QED
      BY <3>2 DEF Reads
  <2>8. ~ (GetNext \/ Rewind \/ UNCHANGED vars)
    BY IteratorStep DEF vars
  <2> QED
    BY <2>1, <2>2, <2>4, <2>5, <2>6, <2>7, <2>8 DEF Next
<1>2. Step => [LET n == op'.name
                   stayed == IF inode.file[n] # None /\ inode'.file[n] # None THEN Len(inode.file[n]) ELSE 0
               IN  op' # op =>
                   /\ \A m \in Name \ {n} : op'.kind # "free" => Value(inode', m) = Value(inode, m)
                   /\ op'.kind = "remove" => n \notin Present(inode')
                   /\ op'.kind = "write" /\ (op'.pos = 0 \/ inode'.file[n] # None) =>
                        /\ SubSeq(Value(inode', n), op'.pos + 1, op'.pos + Len(op'.data)) = op'.data
                        /\ Len(Value(inode', n)) = Max({stayed, op'.pos + Len(op'.data)})
                        /\ \A i \in 1 .. stayed :
                             i \in op'.pos + 1 .. op'.pos + Len(op'.data) \/ Value(inode', n)[i] = Value(inode, n)[i]]_<<inode, op>>
  BY DEF Reads, ReadsAs, StaysFor
<1>3. Spec => [][Next]_vars
  BY DEF Spec
<1> HIDE DEF Step
<1> QED
  BY <1>1, <1>2, <1>3, InvAlways, PTL DEF WritesRead

-----------------------------------------------------------------------------
(* Where the iterator is, while items move.                                *)

\* The iterator is not behind the items that it counts.
Sane(i, it) == it.current = -1 \/ (it.current >= 0 /\ it.current + Shift(i.small) <= Len(i.small))

\* It is behind an item of the section.
Passed(i, it, n) == it.current = -1 \/ FindSmallData(i.small, n) - 1 - Shift(i.small) < it.current

\* What stays in the section stays in front of the iterator, or behind it.
Ways(t, s) ==
  /\ s.iter.skips => t.iter.skips
  /\ ~ t.iter.skips /\ Sane(s.inode, s.iter) =>
       /\ Sane(t.inode, t.iter)
       /\ t.iter.last = s.iter.last
       /\ t.iter.current = -1 <=> s.iter.current = -1
       /\ \A m \in Name : FindSmallData(s.inode.small, m) # 0 /\ FindSmallData(t.inode.small, m) # 0
                            => (Passed(t.inode, t.iter, m) <=> Passed(s.inode, s.iter, m))

Alike(t, s) ==
  /\ t.inode.small = s.inode.small
  /\ t.iter.current = s.iter.current /\ t.iter.last = s.iter.last /\ t.iter.skips = s.iter.skips

LEMMA WaysAlike ==
  ASSUME NEW s, NEW t, NEW u, (Alike(u, s) /\ Ways(t, u)) \/ (Ways(u, s) /\ Alike(t, u))
  PROVE  Ways(t, s)
  BY DEF Ways, Alike, Sane, Passed

LEMMA AlikeWays ==
  ASSUME NEW s, NEW t, Alike(t, s)
  PROVE  Ways(t, s)
  BY DEF Ways, Alike, Sane, Passed

LEMMA FiledAlike ==
  ASSUME NEW s \in State, NEW n, NEW d, NEW t, Filed(t, s, n, d)
  PROVE  Alike(t, s)
<1>1. s.iter \in Iterator
  BY DEF State
<1>2. t.inode.small = s.inode.small /\ t.iter = [s.iter EXCEPT !.dir = t.iter.dir]
  BY DEF Filed
<1>3. PICK it : it = [s.iter EXCEPT !.dir = t.iter.dir]
  OBVIOUS
<1>4. it.current = s.iter.current /\ it.last = s.iter.last /\ it.skips = s.iter.skips
  BY ONLY <1>1, <1>3 DEF Iterator
<1> QED
  BY ONLY <1>2, <1>3, <1>4 DEF Alike

\* The names of the items are the same.
Renaming(new, small) ==
  /\ new \in Seq(Item) /\ Distinct(new) /\ Len(new) = Len(small)
  /\ \A i \in 1 .. Len(small) : new[i].name = small[i].name

LEMMA SameNames ==
  ASSUME NEW small, Section(small), NEW new, Renaming(new, small)
  PROVE  Shift(new) = Shift(small) /\ \A m : FindSmallData(new, m) = FindSmallData(small, m)
<1>1. small \in Seq(Item)
  BY DEF Section
<1>2. PICK l \in Nat : l = Len(small) /\ l = Len(new)
  BY <1>1, LenProperties DEF Renaming
<1>3. Shift(new) = Shift(small)
  <2>1. l > 0 => 1 \in 1 .. l
    OBVIOUS
  <2> QED
    BY <1>2, <2>1 DEF Shift, Renaming
<1>4. ASSUME NEW m PROVE FindSmallData(new, m) = FindSmallData(small, m)
  <2>1. PICK p \in 0 .. l : p = FindSmallData(small, m)
    BY <1>1, <1>2, FindIs
  <2>2. CASE p = 0
    <3>1. \A i \in 1 .. l : new[i].name # m
      <4>1. \A i \in 1 .. l : small[i].name # m
        BY <1>1, <1>2, <2>1, <2>2, FindIs
      <4>2. \A i \in 1 .. l : new[i].name = small[i].name
        BY <1>2 DEF Renaming
      <4> QED
        BY <4>1, <4>2
    <3>2. PICK q \in 0 .. l : q = FindSmallData(new, m)
      BY <1>2, FindIs DEF Renaming
    <3>3. q # 0 => new[q].name = m
      BY <3>2, FindIs DEF Renaming
    <3> QED
      BY <2>1, <2>2, <3>1, <3>2, <3>3
  <2>3. CASE p # 0
    <3>1. p \in 1 .. l /\ small[p].name = m
      BY <1>1, <1>2, <2>1, <2>3, FindIs
    <3>2. p \in 1 .. Len(new) /\ new[p].name = m /\ new \in Seq(Item) /\ Distinct(new)
      BY <1>2, <3>1 DEF Renaming
    <3>3. FindSmallData(new, new[p].name) = p
      BY ONLY <3>2, FoundAt
    <3> QED
      BY <2>1, <3>2, <3>3
  <2> QED
    BY <2>2, <2>3
<1> QED
  BY <1>3, <1>4

LEMMA RenamingWays ==
  ASSUME NEW s, Section(s.inode.small), NEW t, Renaming(t.inode.small, s.inode.small), t.iter = s.iter
  PROVE  Ways(t, s)
<1>1. /\ Shift(t.inode.small) = Shift(s.inode.small) /\ Len(t.inode.small) = Len(s.inode.small)
      /\ \A m : FindSmallData(t.inode.small, m) = FindSmallData(s.inode.small, m)
  BY SameNames DEF Renaming
<1> QED
  BY <1>1 DEF Ways, Sane, Passed

LEMMA RemovalWays ==
  ASSUME NEW s \in State, Section(s.inode.small), NEW k \in 1 .. Len(s.inode.small),
         s.inode.small[k].name # NameTag, NEW t, Removal(t, s, k)
  PROVE  Ways(t, s) /\ t.iter.dir = s.iter.dir
<1>1. s.inode \in Inode /\ s.inode.small \in Seq(Item) /\ s.iter \in Iterator /\ Distinct(s.inode.small)
  BY DEF State, Inode, Section
<1>2. PICK small : small = s.inode.small
  OBVIOUS
<1>3. PICK l \in Nat : l = Len(small)
  BY <1>1, <1>2, LenProperties
<1>4. PICK new : new = RemoveAt(small, k)
  OBVIOUS
<1>5. /\ new \in Seq(Item) /\ Len(new) = l - 1
      /\ \A i \in 1 .. l - 1 : new[i] = IF i < k THEN small[i] ELSE small[i + 1]
  BY <1>1, <1>2, <1>3, <1>4, RemoveAtIs
<1>6. Becomes(new, small, small[k].name, None)
  BY ONLY <1>2, <1>4, Section(s.inode.small), k \in 1 .. Len(s.inode.small), SectionRemoved
<1>7. Section(new) /\ Distinct(new)
  BY <1>6 DEF Becomes, Section
<1>8. PICK d \in Nat : d = Shift(small) /\ d = Shift(new) /\ d <= 1
  <2>1. Kept(new, NameTag) = Kept(small, NameTag)
    BY <1>2, <1>6 DEF Becomes
  <2>2. Shift(new) = Shift(small)
    BY ONLY <1>2, <1>7, <2>1, Section(s.inode.small), ShiftIs
  <2>3. Shift(small) \in Nat /\ Shift(small) <= 1
    BY DEF Shift
  <2> QED
    BY <2>2, <2>3
<1>9. PICK c \in Int, e \in Int : c = s.iter.current /\ e = t.iter.current /\ e = IF k - 1 < c THEN c - 1 ELSE c
  <2>1. s.iter.current \in Int
    BY <1>1 DEF Iterator
  <2>2. t.iter.current = IF k - 1 < s.iter.current THEN s.iter.current - 1 ELSE s.iter.current
    BY DEF Removal
  <2> QED
    BY <2>1, <2>2
<1>10. /\ t.inode.small = new /\ t.iter.dir = s.iter.dir /\ t.iter.last = s.iter.last
       /\ t.iter.skips = (s.iter.skips \/ (small[1].name = NameTag /\ k - 1 = c))
  <2>1. t.inode = [s.inode EXCEPT !.small = RemoveAt(s.inode.small, k)]
    BY DEF Removal
  <2>2. t.inode.small = new
    BY ONLY <1>1, <1>2, <1>4, <2>1 DEF Inode
  <2>3. t.iter.dir = s.iter.dir /\ t.iter.last = s.iter.last
        /\ t.iter.skips = (s.iter.skips \/ (s.inode.small[1].name = NameTag /\ k - 1 = s.iter.current))
    BY DEF Removal
  <2> QED
    BY <1>2, <1>9, <2>2, <2>3
<1>11. k \in 1 .. l /\ (d = 1 => small[1].name = NameTag /\ k >= 2)
  <2>1. d = 1 => small[1].name = NameTag
    BY <1>8 DEF Shift
  <2>2. k \in 1 .. l
    BY <1>2, <1>3
  <2>3. small[k].name # NameTag
    BY <1>2
  <2> QED
    BY <2>1, <2>2, <2>3
<1>12. s.iter.skips => t.iter.skips
  BY <1>10
<1>13. ASSUME ~ t.iter.skips, Sane(s.inode, s.iter)
       PROVE  /\ Sane(t.inode, t.iter)
              /\ t.iter.current = -1 <=> s.iter.current = -1
              /\ \A m \in Name : FindSmallData(s.inode.small, m) # 0 /\ FindSmallData(t.inode.small, m) # 0
                                   => (Passed(t.inode, t.iter, m) <=> Passed(s.inode, s.iter, m))
  <2>1. d = 1 => k - 1 # c
    BY <1>10, <1>11, <1>13
  <2>2. c = -1 \/ (c >= 0 /\ c + d <= l)
    BY <1>2, <1>3, <1>8, <1>9, <1>13 DEF Sane
  <2>3. e = -1 \/ (e >= 0 /\ e + d <= l - 1)
    <3>1. CASE c = -1
      BY ONLY <1>9, <1>11, <3>1
    <3>2. CASE c >= 0 /\ k - 1 < c
      <4>1. e = c - 1 /\ k >= 1
        BY <1>9, <1>11, <3>2
      <4>2. c + d <= l
        BY <2>2, <3>2
      <4> QED
        BY ONLY <1>11, <3>2, <4>1, <4>2, c \in Int, d \in Nat, l \in Nat
    <3>3. CASE c >= 0 /\ ~ (k - 1 < c)
      <4>1. e = c /\ c <= k - 1 /\ k <= l
        BY <1>9, <1>11, <3>3
      <4>2. d = 0 \/ (d = 1 /\ c <= k - 2)
        BY <1>8, <1>11, <2>1, <4>1
      <4> QED
        BY <3>3, <4>1, <4>2, <1>11
    <3> QED
      BY <2>2, <3>1, <3>2, <3>3
  <2>4. e = -1 <=> c = -1
    BY ONLY <1>8, <1>9, <1>11, <2>1, <2>2, l \in Nat, d \in Nat, c \in Int, e \in Int
  <2>5. ASSUME NEW m \in Name, FindSmallData(small, m) # 0, FindSmallData(new, m) # 0
        PROVE  Passed(t.inode, t.iter, m) <=> Passed(s.inode, s.iter, m)
    <3>1. PICK p \in Nat : p = FindSmallData(small, m) /\ p \in 1 .. l /\ small[p].name = m
      <4>1. FindSmallData(small, m) \in 1 .. l /\ small[FindSmallData(small, m)].name = m
        BY <1>1, <1>2, <1>3, <2>5, FindIs
      <4> QED
        BY <4>1
    <3>2. PICK q \in Nat : q = FindSmallData(new, m) /\ q \in 1 .. l - 1 /\ new[q].name = m
      <4>1. FindSmallData(new, m) \in 1 .. l - 1 /\ new[FindSmallData(new, m)].name = m
        BY <1>5, <2>5, FindIs
      <4> QED
        BY <4>1
    <3>3. p = IF q < k THEN q ELSE q + 1
      <4>1. PICK r \in 1 .. l : r = (IF q < k THEN q ELSE q + 1) /\ small[r].name = m
        <5>1. new[q] = IF q < k THEN small[q] ELSE small[q + 1]
          BY <1>5, <3>2
        <5>2. CASE q < k
          <6>1. q \in 1 .. l /\ small[q].name = m
            BY <3>2, <5>1, <5>2
          <6> QED
            BY <5>2, <6>1
        <5>3. CASE ~ (q < k)
          <6>1. q + 1 \in 1 .. l /\ small[q + 1].name = m
            BY <3>2, <5>1, <5>3
          <6> QED
            BY <5>3, <6>1
        <5> QED
          BY <5>2, <5>3
      <4>2. r = p
        BY <1>1, <1>2, <1>3, <3>1, <4>1 DEF Distinct
      <4> QED
        BY <4>1, <4>2
    <3>4. (e = -1 \/ q - 1 - d < e) <=> (c = -1 \/ p - 1 - d < c)
      <4>1. CASE c = -1
        BY <2>4, <4>1
      <4>2. CASE c # -1 /\ q < k
        <5>1. p = q /\ q <= k - 1
          BY <3>3, <4>2
        <5>2. CASE k - 1 < c
          <6>1. e = c - 1
            BY <1>9, <5>2
          <6> QED
            BY ONLY <1>8, <1>11, <2>1, <2>2, <2>4, <4>2, <5>1, <5>2, <6>1, c \in Int, q \in Nat, d \in Nat
        <5>3. CASE ~ (k - 1 < c)
          <6>1. e = c
            BY <1>9, <5>3
          <6> QED
            BY <5>1, <6>1
        <5> QED
          BY <5>2, <5>3
      <4>3. CASE c # -1 /\ ~ (q < k)
        <5>1. p = q + 1 /\ q >= k
          BY <1>11, <3>3, <4>3
        <5>2. CASE k - 1 < c
          <6>1. e = c - 1
            BY <1>9, <5>2
          <6> QED
            BY ONLY <2>2, <2>4, <4>3, <5>1, <6>1, c \in Int, q \in Nat, d \in Nat
        <5>3. CASE ~ (k - 1 < c)
          <6>1. e = c
            BY <1>9, <5>3
          <6>2. c <= k - 1 - d
            BY ONLY <1>8, <1>11, <2>1, <5>3, c \in Int, d \in Nat
          <6> QED
            BY ONLY <1>11, <4>3, <5>1, <6>1, <6>2, c \in Int, q \in Nat, d \in Nat
        <5> QED
          BY <5>2, <5>3
      <4> QED
        BY <4>1, <4>2, <4>3
    <3> QED
      BY ONLY <1>2, <1>8, <1>9, <1>10, <3>1, <3>2, <3>4 DEF Passed
  <2> QED
    BY <1>2, <1>5, <1>8, <1>9, <1>10, <2>3, <2>4, <2>5 DEF Sane
<1> QED
  BY <1>10, <1>12, <1>13 DEF Ways

LEMMA AdditionWays ==
  ASSUME NEW s \in State, Section(s.inode.small), NEW n \in Name, NEW data, NEW t, Addition(t, s, n, data), t.ok
  PROVE  Ways(t, s) /\ t.iter.dir = s.iter.dir
<1>1. s.inode \in Inode /\ s.inode.small \in Seq(Item) /\ s.iter \in Iterator /\ Distinct(s.inode.small)
  BY DEF State, Inode, Section
<1>2. PICK small, new : small = s.inode.small /\ new = t.inode.small
  OBVIOUS
<1>3. PICK at : at = FindSmallData(small, n)
  OBVIOUS
<1>4. PICK l \in Nat : l = Len(small)
  BY <1>1, <1>2, LenProperties
<1>5. /\ Becomes(new, small, n, data)
      /\ at # 0 => new = [small EXCEPT ![at] = [name |-> n, data |-> data]] /\ t.iter = s.iter
      /\ at = 0 => new = Append(small, [name |-> n, data |-> data]) /\ t.iter = Update(s.iter, l + 1, 1)
  BY ONLY <1>2, <1>3, <1>4, t.ok, Addition(t, s, n, data) DEF Addition
<1>6. Section(new) /\ new \in Seq(Item) /\ Distinct(new)
  BY <1>5 DEF Becomes, Section
<1>7. CASE at # 0
  <2>1. at \in 1 .. l /\ small[at].name = n
    BY <1>1, <1>2, <1>3, <1>4, <1>7, FindIs
  <2>2. DOMAIN small = 1 .. l
    BY <1>1, <1>2, <1>4, LenProperties
  <2>3. DOMAIN new = DOMAIN small /\ \A i \in DOMAIN small : new[i] = IF i = at THEN [name |-> n, data |-> data] ELSE small[i]
    <3>1. new = [small EXCEPT ![at] = [name |-> n, data |-> data]] /\ small \in Seq(Item)
      BY <1>1, <1>2, <1>5, <1>7
    <3>2. small = [i \in 1 .. l |-> small[i]]
      BY ONLY <1>4, <3>1, SequenceIs
    <3> QED
      BY ONLY <2>2, <3>1, <3>2
  <2>4. Len(new) = l
    <3>1. DOMAIN new = 1 .. Len(new) /\ Len(new) \in Nat
      BY <1>6, LenProperties
    <3> QED
      BY <2>2, <2>3, <3>1
  <2>5. \A i \in 1 .. l : new[i].name = small[i].name
    BY <2>1, <2>2, <2>3
  <2>6. Renaming(t.inode.small, s.inode.small)
    BY ONLY <1>2, <1>4, <1>6, <2>4, <2>5 DEF Renaming
  <2>7. t.iter = s.iter
    BY <1>5, <1>7
  <2> QED
    BY ONLY <2>6, <2>7, Section(s.inode.small), RenamingWays
<1>8. CASE at = 0
  <2>1. PICK x : x = [name |-> n, data |-> data]
    OBVIOUS
  <2>2. new = Append(small, x) /\ t.iter = Update(s.iter, l + 1, 1)
    BY <1>5, <1>8, <2>1
  <2>3. Len(new) = l + 1 /\ new[l + 1] = x /\ \A i \in 1 .. l : new[i] = small[i]
    BY <1>1, <1>2, <1>4, <2>2
  <2>4. x.name # NameTag
    BY <2>1, AttributesAssumption
  <2>5. /\ t.iter.skips = s.iter.skips /\ t.iter.dir = s.iter.dir /\ t.iter.last = s.iter.last
        /\ t.iter.current = IF (l + 1) - 1 < s.iter.current THEN s.iter.current + 1 ELSE s.iter.current
    <3>1. l + 1 \in Int /\ 1 \in Int
      OBVIOUS
    <3> QED
      BY ONLY <1>1, <2>2, <3>1, UpdateType
  <2>6. PICK d \in Nat : d = Shift(small) /\ d = Shift(new)
    <3>1. Shift(small) = Shift(new)
      <4>1. CASE l = 0
        <5>1. Shift(small) = 0
          BY <1>4, <4>1 DEF Shift
        <5>2. new[1] = x
          BY <2>3, <4>1
        <5>3. Shift(new) = 0
          BY <2>4, <5>2 DEF Shift
        <5> QED
          BY <5>1, <5>3
      <4>2. CASE l > 0
        <5>1. new[1] = small[1]
          BY <2>3, <4>2
        <5>2. Len(new) > 0
          BY <2>3
        <5> QED
          BY <1>4, <4>2, <5>1, <5>2 DEF Shift
      <4> QED
        BY <4>1, <4>2
    <3> QED
      BY <3>1 DEF Shift
  <2>7. ASSUME NEW m, FindSmallData(small, m) # 0 PROVE FindSmallData(new, m) = FindSmallData(small, m)
    <3>1. PICK p \in 1 .. l : p = FindSmallData(small, m) /\ small[p].name = m
      BY <1>1, <1>2, <1>4, <2>7, FindIs
    <3>2. p \in 1 .. Len(new) /\ new[p].name = m
      BY <2>3, <3>1
    <3>3. FindSmallData(new, new[p].name) = p
      BY ONLY <1>6, <3>2, FoundAt
    <3> QED
      BY <3>1, <3>2, <3>3
  <2>8. ASSUME Sane(s.inode, s.iter)
        PROVE  t.iter.current = s.iter.current /\ Sane(t.inode, t.iter)
    <3>1. PICK c \in Int : c = s.iter.current
      BY <1>1 DEF Iterator
    <3>2. c = -1 \/ (c >= 0 /\ c + d <= l)
      BY <1>2, <1>4, <2>6, <2>8, <3>1 DEF Sane
    <3>3. t.iter.current = c
      BY <2>5, <3>1, <3>2
    <3>4. c = -1 \/ (c >= 0 /\ c + d <= l + 1)
      BY <3>2
    <3> QED
      BY <1>2, <2>3, <2>6, <3>1, <3>3, <3>4 DEF Sane
  <2>9. ASSUME Sane(s.inode, s.iter), NEW m, FindSmallData(small, m) # 0
        PROVE  Passed(t.inode, t.iter, m) <=> Passed(s.inode, s.iter, m)
    BY <1>2, <2>6, <2>7, <2>8, <2>9 DEF Passed
  <2> QED
    BY ONLY <1>2, <2>5, <2>8, <2>9 DEF Ways
<1> QED
  BY <1>7, <1>8

\* The directory of the iterator is still there, or it has no files any more.
DirStays(t, s) == t.iter.dir = s.iter.dir \/ (t.iter.dir = "removed" /\ ~ HasFiles(t.inode))
GoesOn(t, s) == Ways(t, s) /\ DirStays(t, s)

LEMMA MovedInGoesOn ==
  ASSUME NEW s \in State, Placed(s.inode), NEW n \in Name, NEW buffer, NEW t, MovedIn(t, s, n, buffer)
  PROVE  GoesOn(t, s)
<1>1. PICK again \in State :
        /\ Addition(again, s, n, buffer) /\ again.ok
        /\ Filed(t, again, n, None)
        /\ t.iter.dir = IF ~ t.inode.dir /\ again.iter.dir = "current" THEN "removed" ELSE again.iter.dir
  BY DEF MovedIn
<1>2. Ways(again, s) /\ again.iter.dir = s.iter.dir
  BY <1>1, AdditionWays DEF Placed
<1>3. Alike(t, again)
  BY ONLY <1>1, again \in State, FiledAlike
<1>4. Ways(t, s)
  BY ONLY <1>2, <1>3, WaysAlike
<1>5. t.inode.dir = HasFiles(t.inode)
  BY <1>1 DEF Filed
<1> QED
  BY <1>1, <1>2, <1>4, <1>5 DEF GoesOn, DirStays

LEMMA OverwrittenGoesOn ==
  ASSUME NEW s \in State, NEW n \in Name, NEW pos, NEW buffer, NEW t, Overwritten(t, s, n, pos, buffer)
  PROVE  Alike(t, s) /\ t.iter = s.iter /\ GoesOn(t, s)
<1>1. Filed(t, s, n, WriteAt(s.inode.file[n], pos, buffer)) /\ t.iter = s.iter
  BY DEF Overwritten
<1>2. Alike(t, s)
  BY ONLY <1>1, s \in State, FiledAlike
<1> QED
  BY <1>1, <1>2, AlikeWays DEF GoesOn, DirStays

LEMMA TakenOutGoesOn ==
  ASSUME NEW s \in State, Placed(s.inode), NEW n \in Name, NEW t, TakenOut(t, s, n)
  PROVE  Ways(t, s) /\ t.iter.dir = s.iter.dir
<1>1. PICK at : at = FindSmallData(s.inode.small, n)
  OBVIOUS
<1>2. CASE at = 0
  <2>1. t = s
    BY <1>1, <1>2 DEF TakenOut
  <2>2. Alike(t, s)
    BY <2>1 DEF Alike
  <2> QED
    BY <2>1, <2>2, AlikeWays
<1>3. CASE at # 0
  <2>1. Removal(t, s, at)
    BY <1>1, <1>3 DEF TakenOut
  <2>2. s.inode.small \in Seq(Item) /\ Section(s.inode.small)
    BY DEF State, Inode, Placed
  <2>3. at \in 1 .. Len(s.inode.small) /\ s.inode.small[at].name = n
    <3>1. PICK l \in Nat : l = Len(s.inode.small)
      BY <2>2, LenProperties
    <3> QED
      BY <1>1, <1>3, <2>2, <3>1, FindIs
  <2>4. n # NameTag
    BY AttributesAssumption
  <2>5. s.inode.small[at].name # NameTag
    BY ONLY <2>3, <2>4
  <2> QED
    BY ONLY <2>1, <2>2, <2>3, <2>5, s \in State, RemovalWays
<1> QED
  BY <1>2, <1>3

LEMMA WrittenGoesOn ==
  ASSUME NEW s \in State, Placed(s.inode), NEW n \in Name, NEW pos \in Nat, NEW buffer \in Bytes,
         NEW t, WrittenBy(t, s, n, pos, buffer)
  PROVE  GoesOn(t, s)
<1>1. CASE s.inode.file[n] = None /\ Addition(t, s, n, buffer) /\ t.ok
  <2>1. Ways(t, s) /\ t.iter.dir = s.iter.dir
    BY <1>1, AdditionWays DEF Placed
  <2> QED
    BY <2>1 DEF GoesOn, DirStays
<1>2. CASE s.inode.file[n] # None /\ FileWrite(t, s, n, pos, buffer)
  BY <1>2, MovedInGoesOn, OverwrittenGoesOn DEF FileWrite
<1>3. ASSUME s.inode.file[n] = None, NEW removed \in State, NEW opened \in State,
             TakenOut(removed, s, n), Filed(opened, removed, n, <<>>), opened.iter = removed.iter,
             FileWrite(t, opened, n, pos, buffer),
             FindSmallData(s.inode.small, n) # 0 => Overwritten(t, opened, n, pos, buffer)
      PROVE  GoesOn(t, s)
  <2>1. Ways(removed, s) /\ removed.iter.dir = s.iter.dir
    BY <1>3, TakenOutGoesOn
  <2>2. Alike(opened, removed)
    BY <1>3, FiledAlike
  <2>3. Ways(opened, s) /\ opened.iter.dir = s.iter.dir
    BY ONLY <1>3, <2>1, <2>2, WaysAlike
  <2>4. CASE Overwritten(t, opened, n, pos, buffer)
    <3>1. Alike(t, opened) /\ t.iter = opened.iter
      BY ONLY <2>4, opened \in State, n \in Name, OverwrittenGoesOn
    <3>2. Ways(t, s)
      BY ONLY <2>3, <3>1, WaysAlike
    <3> QED
      BY <2>3, <3>1, <3>2 DEF GoesOn, DirStays
  <2>5. CASE FindSmallData(s.inode.small, n) = 0 /\ MovedIn(t, opened, n, buffer)
    <3>1. removed = s
      BY <1>3, <2>5 DEF TakenOut
    <3>2. Alike(opened, s)
      BY ONLY <2>2, <3>1
    <3>3. Placed(opened.inode)
      <4>1. Outcome(removed, s, n) /\ Kept(removed.inode.small, n) = None
        BY <1>3, TakenOutIs
      <4>2. Placed(removed.inode)
        BY <4>1 DEF Outcome
      <4>3. Turns(opened, removed, n, None, <<>>)
        BY <1>3, <4>1, <4>2, FiledTurns
      <4>4. Outcome(opened, removed, n)
        BY <4>2, <4>3, TurnsOut
      <4> QED
        BY <4>4 DEF Outcome
    <3>4. GoesOn(t, opened)
      BY ONLY <2>5, <3>3, opened \in State, n \in Name, MovedInGoesOn
    <3>5. Ways(t, s)
      BY ONLY <3>2, <3>4, WaysAlike DEF GoesOn
    <3> QED
      BY ONLY <2>3, <3>4, <3>5 DEF GoesOn, DirStays
  <2> QED
    BY <1>3, <2>4, <2>5 DEF FileWrite
<1> QED
  BY <1>1, <1>2, <1>3 DEF WrittenBy

LEMMA RemovedGoesOn ==
  ASSUME NEW s \in State, Placed(s.inode), NEW n \in Name, NEW told \in State, NEW t, RemovedFrom(t, told, s, n)
  PROVE  GoesOn(t, s)
<1>1. PICK at : at = FindSmallData(s.inode.small, n)
  OBVIOUS
<1>2. CASE Entry(s.inode, n) = None /\ t = s
  <2>1. Alike(t, s)
    BY <1>2 DEF Alike
  <2> QED
    BY <1>2, <2>1, AlikeWays DEF GoesOn, DirStays
<1>3. CASE Told(told, s, n, Key(Entry(s.inode, n)), None) /\ at # 0 /\ Removal(t, told, at)
  <2>1. told.inode = s.inode /\ told.iter = s.iter
    BY <1>3 DEF Told
  <2>2. TakenOut(t, told, n) /\ Placed(told.inode)
    BY <1>1, <1>3, <2>1 DEF TakenOut
  <2>3. Ways(t, told) /\ t.iter.dir = told.iter.dir
    BY ONLY <2>2, told \in State, n \in Name, TakenOutGoesOn
  <2>4. Alike(told, s)
    BY <2>1 DEF Alike
  <2>5. Ways(t, s)
    BY ONLY <2>3, <2>4, WaysAlike
  <2> QED
    BY <2>1, <2>3, <2>5 DEF GoesOn, DirStays
<1>4. CASE /\ Told(told, s, n, Key(Entry(s.inode, n)), None) /\ Filed(t, told, n, None)
           /\ t.iter.dir = IF ~ t.inode.dir /\ told.iter.dir = "current" THEN "removed" ELSE told.iter.dir
  <2>1. told.inode = s.inode /\ told.iter = s.iter
    BY <1>4 DEF Told
  <2>2. Alike(t, told)
    BY <1>4, FiledAlike
  <2>3. Alike(t, s)
    BY <2>1, <2>2 DEF Alike
  <2>4. Ways(t, s)
    BY <2>3, AlikeWays
  <2>5. t.inode.dir = HasFiles(t.inode)
    BY <1>4 DEF Filed
  <2> QED
    BY <1>4, <2>1, <2>4, <2>5 DEF GoesOn, DirStays
<1> QED
  BY <1>1, <1>2, <1>3, <1>4 DEF RemovedFrom

LEMMA RenamedGoesOn ==
  ASSUME NEW s \in State, Placed(s.inode), NEW made, NEW t, Renamed(t, made, s)
  PROVE  GoesOn(t, s)
<1>1. made \in State /\ Section(made.inode.small) /\ made.inode \in Inode
  BY DEF Renamed, Placed, State
<1>2. Ways(made, s) /\ made.iter.dir = s.iter.dir
  <2>1. CASE made = [s EXCEPT !.ok = TRUE]
    <3>1. made.inode = s.inode /\ made.iter = s.iter
      BY <2>1 DEF State
    <3>2. Alike(made, s)
      BY <3>1 DEF Alike
    <3> QED
      BY <3>1, <3>2, AlikeWays
  <2>2. ASSUME NEW k \in 1 .. Len(s.inode.small), NEW bytes \in Int, MovedOut(made, s, k, bytes)
        PROVE  Ways(made, s) /\ made.iter.dir = s.iter.dir
    <3>1. PICK filed \in State :
            /\ Filed(filed, s, s.inode.small[k].name, s.inode.small[k].data)
            /\ filed.iter = s.iter /\ Removal(made, filed, k)
      BY <2>2 DEF MovedOut
    <3>2. s.inode.small[k].name # NameTag
      BY <2>2 DEF MovedOut
    <3>3. Alike(filed, s) /\ filed.inode.small = s.inode.small
      <4>1. Alike(filed, s)
        BY ONLY <3>1, s \in State, FiledAlike
      <4> QED
        BY <4>1 DEF Alike
    <3>4. Section(filed.inode.small) /\ k \in 1 .. Len(filed.inode.small) /\ filed.inode.small[k].name # NameTag
      BY <3>2, <3>3 DEF Placed
    <3>5. Ways(made, filed) /\ made.iter.dir = filed.iter.dir
      BY ONLY <3>1, <3>4, filed \in State, RemovalWays
    <3> QED
      BY ONLY <3>1, <3>3, <3>5, WaysAlike
  <2> QED
    BY <2>1, <2>2 DEF Renamed
<1>3. PICK at \in 1 .. Len(made.inode.small), x \in Item :
        /\ made.inode.small[at].name = NameTag /\ x.name = NameTag
        /\ Becomes([made.inode.small EXCEPT ![at] = x], made.inode.small, NameTag, x.data)
        /\ t = [made EXCEPT !.inode = [made.inode EXCEPT !.small = [made.inode.small EXCEPT ![at] = x]]]
  BY DEF Renamed
<1>4. PICK new : new = [made.inode.small EXCEPT ![at] = x]
  OBVIOUS
<1>5. made.inode.small \in Seq(Item) /\ Distinct(new)
  BY <1>1, <1>3, <1>4 DEF Becomes, Section
<1>6. /\ new \in Seq(Item) /\ Len(new) = Len(made.inode.small)
      /\ \A i \in 1 .. Len(made.inode.small) : new[i] = IF i = at THEN x ELSE made.inode.small[i]
  BY ONLY <1>4, <1>5, at \in 1 .. Len(made.inode.small), x \in Item, ExceptSeq
<1>7. Renaming(new, made.inode.small)
  BY ONLY <1>3, <1>5, <1>6 DEF Renaming
<1>8. t.inode.small = new /\ t.iter = made.iter
  BY ONLY <1>1, <1>3, <1>4 DEF State, Inode
<1>9. Ways(t, s)
  <2>1. /\ Shift(t.inode.small) = Shift(made.inode.small) /\ Len(t.inode.small) = Len(made.inode.small)
        /\ \A m : FindSmallData(t.inode.small, m) = FindSmallData(made.inode.small, m)
    BY ONLY <1>1, <1>7, <1>8, SameNames DEF Renaming
  <2> QED
    BY ONLY <1>2, <1>8, <2>1 DEF Ways, Sane, Passed
<1> QED
  BY <1>2, <1>8, <1>9 DEF GoesOn, DirStays

-----------------------------------------------------------------------------
(* What Free passes over.                                                  *)

LEMMA NextSkips ==
  ASSUME NEW s \in State, NEW next, Next3(next, s)
  PROVE  next.iter.skips = s.iter.skips
<1>1. s.iter \in Iterator
  BY DEF State
<1>2. PICK dir : dir = IF s.iter.dir = "closed" THEN "current" ELSE s.iter.dir
  OBVIOUS
<1>3. \/ next.iter = [s.iter EXCEPT !.current = s.iter.current + 1]
      \/ next.iter = [s.iter EXCEPT !.current = -1]
      \/ GoneIn(next.iter, s.iter, dir)
      \/ GonePast(next.iter, s.iter, dir, next.name)
  BY <1>2 DEF Next3, GoneIn, GonePast
<1>4. \A c : [s.iter EXCEPT !.current = c].skips = s.iter.skips
  BY <1>1 DEF Iterator
<1>5. ASSUME GoneIn(next.iter, s.iter, dir) PROVE next.iter.skips = s.iter.skips
  BY ONLY <1>1, <1>5 DEF GoneIn, Iterator
<1>6. ASSUME GonePast(next.iter, s.iter, dir, next.name) PROVE next.iter.skips = s.iter.skips
  BY ONLY <1>1, <1>6 DEF GonePast, Iterator
<1> QED
  BY <1>3, <1>4, <1>5, <1>6

LEMMA RoundSkips ==
  ASSUME NEW s \in PlacedStates, s.iter.skips
  PROVE  Round(s).iter.skips
<1>1. PICK u : u = Round(s)
  OBVIOUS
<1>2. PICK next, t, told : RoundBy(u, s, next, t, told)
  BY <1>1, RoundIs
<1>3. CASE next.name = NameTag /\ u = s
  BY <1>1, <1>3
<1>4. CASE next.name \in Name /\ ~ (next.name = NameTag /\ u = s)
  <2>1. /\ t \in State /\ t.inode = s.inode /\ t.iter = next.iter
        /\ told \in State /\ RemovedFrom(u, told, t, next.name) /\ Next3(next, s)
    BY <1>2, <1>4 DEF RoundBy
  <2>2. Placed(t.inode) /\ s \in State
    BY <2>1 DEF PlacedStates
  <2>3. GoesOn(u, t)
    BY ONLY <1>4, <2>1, <2>2, RemovedGoesOn
  <2>4. next.iter.skips = s.iter.skips
    BY ONLY <2>1, <2>2, NextSkips
  <2>5. t.iter.skips
    BY <2>1, <2>4
  <2> QED
    BY <1>1, <2>3, <2>5 DEF GoesOn, Ways
<1> QED
  BY <1>2, <1>3, <1>4 DEF RoundBy

\* With the name in front, the iterator does not go back when the item that it
\* returned first is removed.
LEMMA FirstSkips ==
  ASSUME NEW s \in PlacedStates, s.iter.current = 0, Shift(s.inode.small) = 1, Len(s.inode.small) > 2
  PROVE  Round(s).iter.skips
<1>1. PICK u : u = Round(s)
  OBVIOUS
<1>2. PICK next, t, told : RoundBy(u, s, next, t, told)
  BY <1>1, RoundIs
<1>3. s \in State /\ s.inode \in Inode /\ s.inode.small \in Seq(Item) /\ s.iter \in Iterator
      /\ Placed(s.inode) /\ Distinct(s.inode.small)
  BY DEF PlacedStates, State, Inode, Placed, Section
<1>4. PICK l \in Nat : l = Len(s.inode.small) /\ l > 2
  BY <1>3, LenProperties
<1>5. Next3(next, s)
  BY <1>2 DEF RoundBy
<1>6. next.name \in Name /\ next.name = s.inode.small[2].name /\ next.iter = [s.iter EXCEPT !.current = 1]
  <2>1. 0 + 1 + 1 \in 1 .. l /\ ~ (0 < 0 \/ 0 + 1 + 1 > l) /\ 0 + 1 + 1 = 2 /\ 0 + 1 = 1
    BY <1>4
  <2>2. \/ /\ next.name \in Name /\ next.name = s.inode.small[0 + 1 + 1].name
           /\ next.iter = [s.iter EXCEPT !.current = 0 + 1]
        \/ 0 < 0 \/ 0 + 1 + 1 > l
    BY <1>4, <1>5 DEF Next3
  <2> QED
    BY ONLY <2>1, <2>2
<1>7. PICK n \in Name : n = next.name /\ n # NameTag
  BY <1>6, AttributesAssumption
<1>8. /\ t \in State /\ t.inode = s.inode /\ t.iter = next.iter
      /\ told \in State /\ RemovedFrom(u, told, t, n)
  BY <1>2, <1>7 DEF RoundBy
<1>9. next.iter.current = 1
  BY <1>3, <1>6 DEF Iterator
<1>10. FindSmallData(s.inode.small, n) = 2 /\ Kept(s.inode.small, n) # None
  <2>1. 2 \in 1 .. Len(s.inode.small) /\ 2 # 0
    BY <1>4
  <2>2. FindSmallData(s.inode.small, s.inode.small[2].name) = 2
    BY ONLY <1>3, <2>1, FoundAt
  <2>3. FindSmallData(s.inode.small, n) = 2
    BY <1>6, <1>7, <2>2
  <2> QED
    BY ONLY <1>3, <2>1, <2>3, KeptIs
<1>11. Entry(t.inode, n) # None
  BY <1>8, <1>10 DEF Entry
<1>12. Told(told, t, n, Key(Entry(t.inode, n)), None) /\ Removal(u, told, 2)
  <2>1. 2 # 0
    OBVIOUS
  <2> QED
    BY <1>8, <1>10, <1>11, <2>1 DEF RemovedFrom
<1>13. told.inode = s.inode /\ told.iter.current = 1
  BY <1>8, <1>9, <1>12 DEF Told
<1>14. s.inode.small[1].name = NameTag
  BY DEF Shift
<1>15. u.iter.skips = (told.iter.skips \/ (told.inode.small[1].name = NameTag /\ 2 - 1 = told.iter.current))
  BY <1>12 DEF Removal
<1>16. told.inode.small[1].name = NameTag /\ 2 - 1 = told.iter.current
  BY <1>13, <1>14
<1> QED
  BY ONLY <1>1, <1>15, <1>16

LEMMA FreedAll ==
  ASSUME NEW s \in PlacedStates, s.iter = NewIterator
  PROVE  Freed(s).iter.skips \/ Present(Freed(s).inode) = {}
<1>1. SUFFICES ASSUME ~ Orderly(s) PROVE Freed(s).iter.skips
  BY FreedLeaves
<1>2. PICK f : RoundsOf(f, s) /\ Freed(s) = f[Rounds]
  BY FreedIs
<1>3. PICK r \in Nat : r = Rounds
  BY RoundsIs
<1>4. f \in [0 .. r -> PlacedStates] /\ f[0] = s /\ \A k \in 1 .. r : f[k] = Round(f[k - 1])
  BY <1>2, <1>3 DEF RoundsOf
<1>5. Shift(s.inode.small) = 1 /\ Len(s.inode.small) > 2 /\ s.iter.current = 0
  <2>1. s.iter.current = 0 /\ s.iter.dir # "removed" /\ s.iter.last = 0
    BY DEF NewIterator
  <2>2. \A n \in Name : n > 0
    BY AttributesAssumption DEF NameTag
  <2>3. PICK l \in Nat : l = Len(s.inode.small)
    BY LenProperties DEF PlacedStates, State, Inode
  <2> QED
    BY <1>1, <2>1, <2>2, <2>3 DEF Orderly
<1>6. f[0 + 1].iter.skips /\ 1 <= r
  <2>1. Present(s.inode) # {}
    <3>1. s.inode.small \in Seq(Item) /\ Distinct(s.inode.small) /\ \A i \in 1 .. Len(s.inode.small) : s.inode.small[i].name = NameTag => i = 1
      BY DEF PlacedStates, State, Inode, Placed, Section
    <3>2. PICK l \in Nat : l = Len(s.inode.small) /\ l > 2
      BY <1>5, <3>1, LenProperties
    <3>3. 2 \in 1 .. Len(s.inode.small) /\ 2 # 1 /\ 2 # 0
      BY <3>2
    <3>4. s.inode.small[2] \in Item /\ s.inode.small[2].name # NameTag
      BY ONLY <3>1, <3>3, ElementOfSeq
    <3>5. s.inode.small[2].name \in Name
      BY <3>4 DEF Item
    <3>6. FindSmallData(s.inode.small, s.inode.small[2].name) = 2
      BY ONLY <3>1, <3>3, FoundAt
    <3> QED
      BY <3>3, <3>5, <3>6 DEF Present
  <2>2. Name # {}
    BY <2>1 DEF Present
  <2>3. r # 0
    <3>1. Cardinality(Name) # 0
      BY <2>2, AttributesAssumption, FS_EmptySet
    <3> QED
      BY <1>3, <3>1 DEF Rounds
  <2>4. 0 + 1 \in 1 .. r /\ (0 + 1) - 1 = 0
    BY <2>3
  <2> QED
    BY <1>4, <1>5, <2>4, FirstSkips
<1> DEFINE P == {k \in Nat : k + 1 <= r => f[k + 1].iter.skips}
<1>7. 0 \in P
  BY <1>6
<1>8. ASSUME NEW k \in Nat, k \in P PROVE k + 1 \in P
  <2> SUFFICES ASSUME (k + 1) + 1 <= r PROVE f[(k + 1) + 1].iter.skips
    OBVIOUS
  <2>1. k + 1 \in 0 .. r /\ (k + 1) + 1 \in 1 .. r /\ ((k + 1) + 1) - 1 = k + 1
    OBVIOUS
  <2>2. f[k + 1].iter.skips /\ f[k + 1] \in PlacedStates /\ f[(k + 1) + 1] = Round(f[k + 1])
    BY <1>4, <1>8, <2>1
  <2> QED
    BY <2>2, RoundSkips
<1>9. Nat \subseteq P
  <2> HIDE DEF P
  <2> QED
    BY <1>7, <1>8, NumberInduction
<1>10. r - 1 \in P /\ (r - 1) + 1 = r
  BY <1>6, <1>9
<1> QED
  BY <1>2, <1>3, <1>10

-----------------------------------------------------------------------------
(* What the iterator has returned.                                         *)

Walk == [it : Iterator, ended : BOOLEAN, seen : Seq(Name), stay : SUBSET Name]

\* How often an attribute was returned.
Times(seen, n) == Cardinality({i \in 1 .. Len(seen) : seen[i] = n})

\* Once, if the iterator has passed it.
Tracked(i, w, n) ==
  /\ n \in Present(i)
  /\ FindSmallData(i.small, n) # 0 => Times(w.seen, n) = IF Passed(i, w.it, n) THEN 1 ELSE 0
  /\ i.file[n] # None =>
       /\ w.it.dir # "removed"
       /\ Times(w.seen, n) = IF n <= w.it.last THEN 1 ELSE 0
       /\ w.ended => n <= w.it.last

Tracking(i, w) ==
  ~ w.it.skips =>
    IF i.freed THEN w.stay = {}
    ELSE /\ Sane(i, w.it)
         /\ w.ended => w.it.current = -1
         /\ \A n \in w.stay : Tracked(i, w, n)

LEMMA TimesIs ==
  ASSUME NEW seen \in Seq(Name), NEW n
  PROVE  Times(seen, n) \in Nat /\ (seen = <<>> => Times(seen, n) = 0)
<1>1. PICK l \in Nat : l = Len(seen)
  BY LenProperties
<1>2. PICK S : S = {i \in 1 .. Len(seen) : seen[i] = n}
  OBVIOUS
<1>3. IsFiniteSet(1 .. l) /\ S \subseteq 1 .. l
  BY <1>1, <1>2, FS_Interval
<1>4. IsFiniteSet(S)
  BY ONLY <1>3, FS_Subset
<1>5. Cardinality(S) \in Nat
  BY ONLY <1>4, FS_CardinalityType
<1>6. seen = <<>> => S = {}
  BY <1>2
<1>7. Cardinality({}) = 0
  BY ONLY FS_EmptySet
<1> QED
  BY ONLY <1>2, <1>5, <1>6, <1>7 DEF Times

LEMMA TimesMore ==
  ASSUME NEW seen \in Seq(Name), NEW x \in Name, NEW n
  PROVE  Times(Append(seen, x), n) = IF n = x THEN Times(seen, n) + 1 ELSE Times(seen, n)
<1>1. PICK l \in Nat : l = Len(seen)
  BY LenProperties
<1>2. PICK more \in Seq(Name) : more = Append(seen, x)
  BY AppendProperties
<1>3. Len(more) = l + 1 /\ more[l + 1] = x /\ \A i \in 1 .. l : more[i] = seen[i]
  BY <1>1, <1>2, AppendProperties
<1>4. PICK S, R : S = {i \in 1 .. Len(seen) : seen[i] = n} /\ R = {i \in 1 .. Len(more) : more[i] = n}
  OBVIOUS
<1>5. S = {i \in 1 .. l : seen[i] = n} /\ R = {i \in 1 .. l + 1 : more[i] = n}
  BY <1>1, <1>3, <1>4
<1>6. IsFiniteSet(S) /\ l + 1 \notin S
  <2>1. IsFiniteSet(1 .. l) /\ S \subseteq 1 .. l
    BY <1>5, FS_Interval
  <2>2. IsFiniteSet(S)
    BY ONLY <2>1, FS_Subset
  <2> QED
    BY <1>5, <2>2
<1>7. CASE n = x
  <2>1. R = S \cup {l + 1}
    BY <1>3, <1>5, <1>7
  <2>2. Cardinality(S \cup {l + 1}) = Cardinality(S) + 1
    <3>1. Cardinality(S \cup {l + 1}) = IF l + 1 \in S THEN Cardinality(S) ELSE Cardinality(S) + 1
      BY ONLY <1>6, FS_AddElement
    <3> QED
      BY ONLY <1>6, <3>1
  <2> QED
    BY ONLY <1>2, <1>4, <1>7, <2>1, <2>2 DEF Times
<1>8. CASE n # x
  <2>1. R = S
    BY <1>3, <1>5, <1>8
  <2> QED
    BY ONLY <1>2, <1>4, <1>8, <2>1 DEF Times
<1> QED
  BY <1>7, <1>8

\* An iterator that starts has nothing returned and nothing passed.
LEMMA AtStart ==
  ASSUME NEW i \in Inode, Placed(i), ~ i.freed, NEW w \in Walk,
         w.it.current = 0, w.it.last = 0, w.seen = <<>>, ~ w.ended,
         \A n \in w.stay : n \in Present(i) /\ (w.it.dir # "removed" \/ i.file[n] = None)
  PROVE  Tracking(i, w)
<1>1. Section(i.small) /\ i.small \in Seq(Item)
  BY DEF Placed, Section
<1>2. PICK l \in Nat : l = Len(i.small)
  BY <1>1, LenProperties
<1>3. PICK d \in {0, 1} : d = Shift(i.small) /\ (d = 1 => l > 0 /\ i.small[1].name = NameTag)
  BY <1>2 DEF Shift
<1>4. Sane(i, w.it)
  <2>1. 0 >= 0 /\ 0 + d <= l
    BY <1>3
  <2> QED
    BY <1>2, <1>3, <2>1 DEF Sane
<1>5. ASSUME NEW n \in w.stay PROVE Tracked(i, w, n)
  <2>1. n \in Present(i) /\ n \in Name /\ (w.it.dir # "removed" \/ i.file[n] = None)
    BY <1>5 DEF Walk
  <2>2. Times(w.seen, n) = 0
    <3>1. w.seen \in Seq(Name)
      BY DEF Walk
    <3> QED
      BY <3>1, TimesIs
  <2>3. FindSmallData(i.small, n) # 0 => ~ Passed(i, w.it, n)
    <3> SUFFICES ASSUME FindSmallData(i.small, n) # 0 PROVE ~ Passed(i, w.it, n)
      OBVIOUS
    <3>1. PICK p \in 1 .. l : p = FindSmallData(i.small, n) /\ i.small[p].name = n
      BY <1>1, <1>2, FindIs
    <3>2. d = 1 => p # 1
      BY <1>3, <2>1, <3>1, DataIs
    <3>3. ~ (p - 1 - d < 0)
      BY <3>2
    <3>4. w.it.current # -1
      OBVIOUS
    <3> QED
      BY <1>3, <3>1, <3>3, <3>4 DEF Passed
  <2>4. ~ (n <= w.it.last)
    <3>1. n \in Nat \ {0}
      BY <2>1, AttributesAssumption DEF NameTag
    <3> QED
      BY <3>1
  <2> QED
    BY <2>1, <2>2, <2>3, <2>4 DEF Tracked
<1> QED
  BY <1>4, <1>5 DEF Tracking

\* What a change leaves to the iterator.
LEMMA ChangeTracks ==
  ASSUME NEW s \in State, Placed(s.inode), ~ s.inode.freed,
         NEW t \in State, Placed(t.inode), ~ t.inode.freed, GoesOn(t, s),
         NEW w \in Walk, w.it = s.iter, Tracking(s.inode, w),
         NEW x \in Walk, x.it = t.iter, x.ended = w.ended, x.seen = w.seen,
         x.stay = w.stay \cap InPlace(s.inode, t.inode)
  PROVE  Tracking(t.inode, x)
<1>1. SUFFICES ASSUME ~ t.iter.skips PROVE Tracking(t.inode, x)
  BY DEF Tracking
<1>2. ~ s.iter.skips /\ Sane(s.inode, s.iter)
  BY <1>1 DEF Tracking, GoesOn, Ways
<1>3. /\ Sane(t.inode, t.iter) /\ t.iter.last = s.iter.last
      /\ t.iter.current = -1 <=> s.iter.current = -1
      /\ \A m \in Name : FindSmallData(s.inode.small, m) # 0 /\ FindSmallData(t.inode.small, m) # 0
                           => (Passed(t.inode, t.iter, m) <=> Passed(s.inode, s.iter, m))
  BY <1>1, <1>2 DEF GoesOn, Ways
<1>4. x.ended => x.it.current = -1
  <2>1. w.ended => w.it.current = -1
    BY <1>2 DEF Tracking
  <2> QED
    BY ONLY <1>3, <2>1, w.it = s.iter, x.it = t.iter, x.ended = w.ended
<1>5. ASSUME NEW n \in x.stay PROVE Tracked(t.inode, x, n)
  <2>1. n \in Name /\ n \in InPlace(s.inode, t.inode) /\ Tracked(s.inode, w, n)
    BY <1>1, <1>2, <1>5 DEF Walk, Tracking
  <2>2. s.inode.small \in Seq(Item) /\ t.inode.small \in Seq(Item)
    BY DEF State, Inode
  <2>3. /\ FindSmallData(s.inode.small, n) # 0 => s.inode.file[n] = None
        /\ FindSmallData(t.inode.small, n) # 0 => t.inode.file[n] = None
    BY <2>1, <2>2, KeptIs DEF Placed
  <2>4. n \in Present(t.inode)
    BY <2>1 DEF InPlace, Present
  <2>5. CASE FindSmallData(t.inode.small, n) # 0
    <3>1. FindSmallData(s.inode.small, n) # 0
      BY <2>1, <2>3, <2>5 DEF InPlace
    <3>2. Times(w.seen, n) = IF Passed(s.inode, w.it, n) THEN 1 ELSE 0
      BY <2>1, <3>1 DEF Tracked
    <3>3. Passed(t.inode, x.it, n) <=> Passed(s.inode, w.it, n)
      BY <1>3, <2>1, <2>5, <3>1
    <3> QED
      BY <2>3, <2>4, <2>5, <3>2, <3>3 DEF Tracked
  <2>6. CASE FindSmallData(t.inode.small, n) = 0
    <3>1. t.inode.file[n] # None /\ s.inode.file[n] # None
      BY <2>1, <2>4, <2>6 DEF InPlace, Present
    <3>2. /\ w.it.dir # "removed"
          /\ Times(w.seen, n) = IF n <= w.it.last THEN 1 ELSE 0
          /\ w.ended => n <= w.it.last
      BY <2>1, <3>1 DEF Tracked
    <3>3. t.iter.dir = s.iter.dir
      BY <2>1, <3>1 DEF GoesOn, DirStays, HasFiles, HasAny
    <3> QED
      BY <1>3, <2>4, <2>6, <3>2, <3>3 DEF Tracked
  <2> QED
    BY <2>5, <2>6
<1> QED
  BY <1>3, <1>4, <1>5 DEF Tracking

\* One call of GetNext: it returns an attribute, or it has come to the end.
GoneOn(x, w, next) ==
  /\ x.it = next.iter /\ x.stay = w.stay
  /\ x.ended = (next.name = NameTag)
  /\ x.seen = IF next.name = NameTag THEN w.seen ELSE Append(w.seen, next.name)

LEMMA SeenNext ==
  ASSUME NEW w \in Walk, NEW x, NEW next, next.name \in Name \cup {NameTag}, GoneOn(x, w, next), NEW n \in Name
  PROVE  Times(w.seen, n) \in Nat
         /\ Times(x.seen, n) = IF next.name = n THEN Times(w.seen, n) + 1 ELSE Times(w.seen, n)
<1>1. w.seen \in Seq(Name) /\ NameTag \notin Name
  BY DataIs DEF Walk
<1>2. CASE next.name = NameTag
  BY <1>1, <1>2, TimesIs DEF GoneOn
<1>3. CASE next.name \in Name
  <2>1. Times(Append(w.seen, next.name), n) = IF n = next.name THEN Times(w.seen, n) + 1 ELSE Times(w.seen, n)
    BY ONLY <1>1, <1>3, TimesMore
  <2>2. x.seen = Append(w.seen, next.name)
    BY ONLY <1>1, <1>3, GoneOn(x, w, next) DEF GoneOn
  <2> QED
    BY <1>1, <2>1, <2>2, TimesIs
<1> QED
  BY <1>2, <1>3

\* In the section: the item behind those it has passed.
LEMMA ItemTracks ==
  ASSUME NEW s \in State, Placed(s.inode), ~ s.inode.freed, NEW w \in Walk, w.it = s.iter, ~ w.it.skips,
         Tracking(s.inode, w), NEW next, next.name \in Name,
         s.iter.current >= 0, s.iter.current + 1 + Shift(s.inode.small) \in 1 .. Len(s.inode.small),
         next.name = s.inode.small[s.iter.current + 1 + Shift(s.inode.small)].name,
         next.iter = [s.iter EXCEPT !.current = s.iter.current + 1],
         NEW x, GoneOn(x, w, next)
  PROVE  Tracking(s.inode, x)
<1>1. s.iter \in Iterator /\ Section(s.inode.small) /\ s.inode.small \in Seq(Item) /\ Distinct(s.inode.small)
  BY DEF State, Placed, Section
<1>2. PICK small, i : small = s.inode.small /\ i = s.inode
  OBVIOUS
<1>3. PICK l \in Nat : l = Len(small)
  BY <1>1, <1>2, LenProperties
<1>4. PICK c \in Nat, d \in Nat : c = s.iter.current /\ d = Shift(small)
  BY <1>1 DEF Iterator, Shift
<1>5. PICK a \in 1 .. l : a = c + 1 + d /\ next.name = small[a].name
  BY <1>2, <1>3, <1>4
<1>6. x.it.current = c + 1 /\ x.it.dir = w.it.dir /\ x.it.last = w.it.last
  BY <1>1, <1>4 DEF GoneOn, Iterator
<1>7. ~ x.ended /\ x.stay = w.stay
  BY DataIs DEF GoneOn
<1>8. Sane(i, x.it)
  <2>1. c + 1 >= 0 /\ (c + 1) + d <= l
    BY <1>5
  <2> QED
    BY <1>2, <1>3, <1>4, <1>6, <2>1 DEF Sane
<1>9. FindSmallData(small, next.name) = a
  BY ONLY <1>1, <1>2, <1>3, <1>5, FoundAt
<1>10. ASSUME NEW n \in x.stay PROVE Tracked(i, x, n)
  <2>1. n \in Name /\ Tracked(i, w, n)
    BY <1>2, <1>7, <1>10 DEF Walk, Tracking
  <2>2. PICK z \in Nat : z = Times(w.seen, n) /\ Times(x.seen, n) = IF next.name = n THEN z + 1 ELSE z
    <3>1. n \in Name /\ next.name \in Name \cup {NameTag}
      BY <2>1
    <3>2. /\ Times(w.seen, n) \in Nat
          /\ Times(x.seen, n) = IF next.name = n THEN Times(w.seen, n) + 1 ELSE Times(w.seen, n)
      BY ONLY <3>1, w \in Walk, GoneOn(x, w, next), SeenNext
    <3> QED
      BY ONLY <3>2
  <2>3. i.file[n] # None => next.name # n
    <3>1. Kept(small, n) # None => i.file[n] = None
      BY <1>2, <2>1 DEF Placed
    <3>2. next.name = n => Kept(small, n) # None
      BY <1>1, <1>2, <1>9, KeptIs, a # 0
    <3> QED
      BY <3>1, <3>2
  <2>4. FindSmallData(small, n) # 0 => Times(x.seen, n) = IF Passed(i, x.it, n) THEN 1 ELSE 0
    <3> SUFFICES ASSUME FindSmallData(small, n) # 0
                 PROVE  Times(x.seen, n) = IF Passed(i, x.it, n) THEN 1 ELSE 0
      OBVIOUS
    <3>1. PICK p \in 1 .. l : p = FindSmallData(small, n) /\ small[p].name = n
      BY <1>1, <1>2, <1>3, FindIs
    <3>2. z = IF Passed(i, w.it, n) THEN 1 ELSE 0
      BY <1>2, <2>1, <2>2 DEF Tracked
    <3>3. Passed(i, w.it, n) <=> p - 1 - d < c
      BY <1>2, <1>4, <3>1 DEF Passed
    <3>4. Passed(i, x.it, n) <=> p - 1 - d < c + 1
      BY <1>2, <1>4, <1>6, <3>1 DEF Passed
    <3>5. next.name = n <=> p = a
      BY <1>5, <1>9, <3>1
    <3>6. CASE p = a
      <4>1. ~ (p - 1 - d < c) /\ p - 1 - d < c + 1
        BY <1>5, <3>6
      <4> QED
        BY <2>2, <3>2, <3>3, <3>4, <3>5, <3>6, <4>1
    <3>7. CASE p # a
      <4>1. p - 1 - d < c <=> p - 1 - d < c + 1
        BY <1>5, <3>7
      <4> QED
        BY <2>2, <3>2, <3>3, <3>4, <3>5, <3>7, <4>1
    <3> QED
      BY <3>6, <3>7
  <2>5. i.file[n] # None =>
          /\ x.it.dir # "removed"
          /\ Times(x.seen, n) = IF n <= x.it.last THEN 1 ELSE 0
    BY <1>6, <2>1, <2>2, <2>3 DEF Tracked
  <2> QED
    BY <1>2, <1>7, <2>1, <2>4, <2>5 DEF Tracked
<1> QED
  BY <1>2, <1>7, <1>8, <1>10 DEF Tracking

\* Behind the section: the next file, or the end.
PastItems(next, s, dir, later) ==
  \/ ~ s.inode.dir /\ next.name = NameTag /\ next.iter = [s.iter EXCEPT !.current = -1]
  \/ s.inode.dir /\ later = {} /\ next.name = NameTag /\ GoneIn(next.iter, s.iter, dir)
  \/ /\ s.inode.dir /\ next.name \in later /\ GonePast(next.iter, s.iter, dir, next.name)
     /\ \A m \in later : next.name <= m

LEMMA FileTracks ==
  ASSUME NEW s \in State, Placed(s.inode), ~ s.inode.freed, NEW w \in Walk, w.it = s.iter, ~ w.it.skips,
         Tracking(s.inode, w), NEW next, next.name \in Name \cup {NameTag},
         s.iter.current < 0 \/ s.iter.current + 1 + Shift(s.inode.small) > Len(s.inode.small),
         NEW dir, dir = IF s.iter.dir = "closed" THEN "current" ELSE s.iter.dir,
         NEW later, later = {n \in Name : dir = "current" /\ s.inode.file[n] # None /\ n > s.iter.last},
         PastItems(next, s, dir, later),
         NEW x, GoneOn(x, w, next)
  PROVE  Tracking(s.inode, x)
<1>1. s.iter \in Iterator /\ Section(s.inode.small) /\ s.inode.small \in Seq(Item) /\ s.inode \in Inode
  BY DEF State, Placed, Section
<1>2. PICK small, i : small = s.inode.small /\ i = s.inode
  OBVIOUS
<1>3. PICK l \in Nat : l = Len(small)
  BY <1>1, <1>2, LenProperties
<1>4. PICK c \in Int, d \in Nat : c = s.iter.current /\ d = Shift(small)
  BY <1>1 DEF Iterator, Shift
<1>5. PICK last \in Nat : last = s.iter.last
  BY <1>1 DEF Iterator
<1>6. x.stay = w.stay /\ x.it = next.iter /\ NameTag \notin Name
  BY DataIs DEF GoneOn
<1>7. x.it.current = -1
  <2>1. \A m : GoneIn(m, s.iter, dir) => m.current = -1
    BY ONLY <1>1 DEF GoneIn, Iterator
  <2>2. \A m, k : GonePast(m, s.iter, dir, k) => m.current = -1
    BY ONLY <1>1 DEF GonePast, Iterator
  <2>3. [s.iter EXCEPT !.current = -1].current = -1
    BY ONLY <1>1 DEF Iterator
  <2> QED
    BY <1>6, <2>1, <2>2, <2>3 DEF PastItems
<1>8. Sane(i, x.it)
  BY <1>7 DEF Sane
<1>9. c < 0 => c = -1
  <2>1. c = -1 \/ c >= 0
    BY <1>4 DEF Tracking, Sane
  <2> QED
    BY <2>1
<1>10. ASSUME NEW n \in x.stay PROVE Tracked(i, x, n)
  <2>1. n \in Name /\ Tracked(i, w, n)
    BY <1>2, <1>6, <1>10 DEF Walk, Tracking
  <2>2. PICK z \in Nat : z = Times(w.seen, n) /\ Times(x.seen, n) = IF next.name = n THEN z + 1 ELSE z
    <3>1. n \in Name /\ next.name \in Name \cup {NameTag}
      BY <2>1
    <3>2. /\ Times(w.seen, n) \in Nat
          /\ Times(x.seen, n) = IF next.name = n THEN Times(w.seen, n) + 1 ELSE Times(w.seen, n)
      BY ONLY <3>1, w \in Walk, GoneOn(x, w, next), SeenNext
    <3> QED
      BY ONLY <3>2
  <2>3. FindSmallData(small, n) # 0 => Times(x.seen, n) = IF Passed(i, x.it, n) THEN 1 ELSE 0
    <3> SUFFICES ASSUME FindSmallData(small, n) # 0
                 PROVE  Times(x.seen, n) = IF Passed(i, x.it, n) THEN 1 ELSE 0
      OBVIOUS
    <3>1. PICK p \in 1 .. l : p = FindSmallData(small, n)
      BY <1>1, <1>2, <1>3, FindIs
    <3>2. z = IF Passed(i, w.it, n) THEN 1 ELSE 0
      BY <1>2, <2>1, <2>2 DEF Tracked
    <3>3. Passed(i, w.it, n)
      <4>1. c = -1 \/ p - 1 - d < c
        <5>1. c < 0 \/ c + 1 + d > l
          BY <1>2, <1>3, <1>4
        <5> QED
          BY <1>9, <5>1
      <4> QED
        BY <1>2, <1>4, <3>1, <4>1 DEF Passed
    <3>4. Passed(i, x.it, n)
      BY <1>7 DEF Passed
    <3>5. next.name # n
      <4>1. Kept(small, n) # None
        BY <1>1, <1>2, KeptIs
      <4>2. i.file[n] = None
        BY <1>2, <2>1, <4>1 DEF Placed
      <4>3. n \notin later /\ n # NameTag
        BY <1>2, <1>6, <2>1, <4>2
      <4> QED
        BY <4>3 DEF PastItems
    <3> QED
      BY <2>2, <3>2, <3>3, <3>4, <3>5
  <2>4. ASSUME i.file[n] # None
        PROVE  /\ x.it.dir # "removed"
               /\ Times(x.seen, n) = IF n <= x.it.last THEN 1 ELSE 0
               /\ x.ended => n <= x.it.last
    <3>1. s.iter.dir # "removed" /\ z = IF n <= last THEN 1 ELSE 0
      BY <1>5, <2>1, <2>2, <2>4 DEF Tracked
    <3>2. dir = "current"
      BY <1>1, <3>1 DEF Iterator
    <3>3. s.inode.dir
      BY <1>2, <2>1, <2>4 DEF Placed, HasFiles, HasAny
    <3>4. n \in Nat
      BY <2>1, AttributesAssumption
    <3>5. n \in later <=> ~ (n <= last)
      BY <1>2, <1>5, <2>1, <2>4, <3>2, <3>4
    <3>6. CASE later = {} /\ next.name = NameTag /\ GoneIn(next.iter, s.iter, dir)
      <4>1. next.iter.dir = dir /\ next.iter.last = last
        BY ONLY <1>1, <1>5, <3>6 DEF GoneIn, Iterator
      <4>2. n <= last /\ next.name # n
        BY <1>6, <2>1, <3>5, <3>6
      <4>3. z = 1 /\ x.it.dir = "current" /\ x.it.last = last
        BY <1>6, <3>1, <3>2, <4>1, <4>2
      <4> QED
        BY ONLY <2>2, <4>2, <4>3
    <3>7. CASE next.name \in later /\ GonePast(next.iter, s.iter, dir, next.name) /\ \A m \in later : next.name <= m
      <4>1. next.iter.dir = dir /\ next.iter.last = next.name
        BY ONLY <1>1, <3>7 DEF GonePast, Iterator
      <4>2. PICK q \in Nat : q = next.name /\ q > last /\ q \in Name
        BY <1>5, <3>7, AttributesAssumption
      <4>3. ~ x.ended
        BY <1>6, <4>2 DEF GoneOn
      <4>4. x.it.dir = "current" /\ x.it.last = q
        BY <1>6, <3>2, <4>1, <4>2
      <4>5. CASE n = q
        <5>1. z = 0 /\ n <= q
          BY <3>1, <4>2, <4>5
        <5> QED
          BY <2>2, <4>2, <4>3, <4>4, <4>5, <5>1
      <4>6. CASE n # q
        <5>1. n <= q <=> n <= last
          BY <3>4, <3>5, <3>7, <4>2, <4>6
        <5> QED
          BY <2>2, <3>1, <4>2, <4>3, <4>4, <4>6, <5>1
      <4> QED
        BY <4>5, <4>6
    <3> QED
      BY <3>3, <3>6, <3>7 DEF PastItems
  <2> QED
    BY <1>2, <2>1, <2>3, <2>4 DEF Tracked
<1> QED
  BY <1>2, <1>7, <1>8, <1>10 DEF Tracking

LEMMA NextTracks ==
  ASSUME NEW s \in State, Placed(s.inode), ~ s.inode.freed, NEW w \in Walk, w.it = s.iter,
         Tracking(s.inode, w), NEW next, Next3(next, s), NEW x, GoneOn(x, w, next)
  PROVE  Tracking(s.inode, x)
<1>1. next.iter.skips = s.iter.skips
  BY NextSkips
<1>2. SUFFICES ASSUME ~ w.it.skips PROVE Tracking(s.inode, x)
  BY <1>1 DEF Tracking, GoneOn
<1>3. PICK dir : dir = IF s.iter.dir = "closed" THEN "current" ELSE s.iter.dir
  OBVIOUS
<1>4. PICK later : later = {n \in Name : dir = "current" /\ s.inode.file[n] # None /\ n > s.iter.last}
  OBVIOUS
<1>5. PICK at : at = s.iter.current + 1 + Shift(s.inode.small)
  OBVIOUS
<1>6. /\ next.name \in Name \cup {NameTag}
      /\ \/ /\ s.iter.current >= 0 /\ at \in 1 .. Len(s.inode.small)
            /\ next.name \in Name /\ next.name = s.inode.small[at].name
            /\ next.iter = [s.iter EXCEPT !.current = s.iter.current + 1]
         \/ /\ s.iter.current < 0 \/ at > Len(s.inode.small)
            /\ PastItems(next, s, dir, later)
  BY ONLY <1>3, <1>4, <1>5, Next3(next, s) DEF Next3, PastItems, GoneIn, GonePast
<1>7. CASE /\ s.iter.current >= 0 /\ at \in 1 .. Len(s.inode.small)
           /\ next.name \in Name /\ next.name = s.inode.small[at].name
           /\ next.iter = [s.iter EXCEPT !.current = s.iter.current + 1]
  BY <1>2, <1>5, <1>7, ItemTracks
<1>8. CASE (s.iter.current < 0 \/ at > Len(s.inode.small)) /\ PastItems(next, s, dir, later)
  BY <1>2, <1>3, <1>4, <1>5, <1>6, <1>8, FileTracks
<1> QED
  BY <1>6, <1>7, <1>8

-----------------------------------------------------------------------------
(* What the actions leave to the iterator.                                 *)

\* A change is made of the inode s and leaves t.
Made(s, t) ==
  /\ s \in State /\ s.inode = inode /\ s.iter = iter.it
  /\ t \in State /\ t.inode = inode' /\ ~ inode.freed
  /\ iter' = [iter EXCEPT !.it = t.iter, !.stay = iter.stay \cap InPlace(inode, t.inode)]

LEMMA MadeIs ==
  ASSUME Inv, NEW s \in State, s.inode = inode, s.iter = iter.it, NEW t \in State, NEW what, Change(t, what)
  PROVE  Made(s, t)
<1>1. Changed(t, what)
  BY ChangeIs DEF Inv
<1> QED
  BY ONLY <1>1, s \in State, t \in State, s.inode = inode, s.iter = iter.it DEF Changed, Made

LEMMA WriteMade ==
  ASSUME Inv, NEW n \in Name, NEW pos \in Position, NEW buffer \in Data, WriteAttribute(n, pos, buffer)
  PROVE  \E s, t : Made(s, t) /\ GoesOn(t, s) /\ ~ t.inode.freed
<1>1. PICK s \in State : s = Now /\ s.inode = inode /\ s.iter = iter.it
  BY NowIs DEF Inv
<1>2. Placed(s.inode) /\ pos \in Nat /\ buffer \in Bytes
  BY <1>1, DataIs DEF Inv
<1>3. PICK t : t = Written(s, n, pos, buffer)
  OBVIOUS
<1>4. PICK done : WrittenAndTold(t, done, s, n, pos, buffer)
  BY ONLY <1>2, <1>3, s \in State, n \in Name, WrittenIs
<1>5. WrittenBy(done, s, n, pos, buffer)
  BY ONLY <1>4 DEF WrittenAndTold
<1>6. GoesOn(done, s)
  BY ONLY <1>2, <1>5, s \in State, n \in Name, WrittenGoesOn
<1>7. t.inode = done.inode /\ t.iter = done.iter
  BY ONLY <1>4 DEF WrittenAndTold, Told
<1>8. GoesOn(t, s)
  BY ONLY <1>6, <1>7 DEF GoesOn, Ways, DirStays
<1>9. t \in State /\ t.inode.freed = s.inode.freed
  BY ONLY <1>2, <1>4, s \in State, n \in Name, WrittenFollows DEF Outcome
<1>10. PICK what : Change(t, what)
  BY <1>1, <1>3 DEF WriteAttribute
<1>11. Made(s, t)
  BY <1>1, <1>9, <1>10, MadeIs
<1>12. ~ t.inode.freed
  BY <1>1, <1>9, <1>11 DEF Made
<1> QED
  BY <1>8, <1>11, <1>12

LEMMA RemoveMade ==
  ASSUME Inv, NEW n \in Name, RemoveAttribute(n)
  PROVE  \E s, t : Made(s, t) /\ GoesOn(t, s) /\ ~ t.inode.freed
<1>1. PICK s \in State : s = Now /\ s.inode = inode /\ s.iter = iter.it
  BY NowIs DEF Inv
<1>2. Placed(s.inode)
  BY <1>1 DEF Inv
<1>3. PICK t : t = Removed(s, n)
  OBVIOUS
<1>4. PICK told \in State : RemovedFrom(t, told, s, n)
  BY ONLY <1>2, <1>3, s \in State, n \in Name, RemovedIs
<1>5. GoesOn(t, s)
  BY ONLY <1>2, <1>4, s \in State, n \in Name, RemovedGoesOn
<1>6. Outcome(t, s, n)
  BY ONLY <1>2, <1>4, s \in State, n \in Name, RemovedResult
<1>7. t \in State /\ t.inode.freed = s.inode.freed
  BY <1>6 DEF Outcome
<1>8. PICK what : Change(t, what)
  BY <1>1, <1>3 DEF RemoveAttribute
<1>9. Made(s, t)
  BY <1>1, <1>7, <1>8, MadeIs
<1>10. ~ t.inode.freed
  BY <1>1, <1>7, <1>9 DEF Made
<1> QED
  BY <1>5, <1>9, <1>10

LEMMA NameMade ==
  ASSUME Inv, NEW data \in Data, SetName(data)
  PROVE  \E s, t : Made(s, t) /\ GoesOn(t, s) /\ ~ t.inode.freed
<1>1. PICK s \in State : s = Now /\ s.inode = inode /\ s.iter = iter.it
  BY NowIs DEF Inv
<1>2. Placed(s.inode) /\ data \in Bytes
  BY <1>1, DataIs DEF Inv
<1>3. PICK t : t = NameSet(s, data)
  OBVIOUS
<1>4. PICK what : Change(t, what) /\ t.ok /\ FindSmallData(s.inode.small, NameTag) # 0
  BY <1>1, <1>3 DEF SetName
<1>5. PICK made : Renamed(t, made, s)
  BY ONLY <1>2, <1>3, <1>4, s \in State, NameSetIs
<1>6. GoesOn(t, s)
  BY ONLY <1>2, <1>5, s \in State, RenamedGoesOn
<1>7. Unchanged(t, s)
  BY ONLY <1>2, <1>5, s \in State, RenamedResult
<1>8. t \in State /\ t.inode.freed = s.inode.freed
  BY <1>7 DEF Unchanged
<1>9. Made(s, t)
  BY <1>1, <1>4, <1>8, MadeIs
<1>10. ~ t.inode.freed
  BY <1>1, <1>8, <1>9 DEF Made
<1> QED
  BY <1>6, <1>9, <1>10

LEMMA MadeTracks ==
  ASSUME Inv, Inv', Tracking(inode, iter), NEW s, NEW t, Made(s, t), GoesOn(t, s), ~ t.inode.freed
  PROVE  Tracking(inode', iter')
<1>1. PICK w \in Walk, x \in Walk : w = iter /\ x = iter'
  BY DEF Inv, Typed, Walk
<1>2. /\ s \in State /\ s.inode = inode /\ s.iter = w.it
      /\ t \in State /\ t.inode = inode' /\ ~ inode.freed
      /\ x = [w EXCEPT !.it = t.iter, !.stay = w.stay \cap InPlace(s.inode, t.inode)]
  BY <1>1 DEF Made
<1>3. x.it = t.iter /\ x.ended = w.ended /\ x.seen = w.seen /\ x.stay = w.stay \cap InPlace(s.inode, t.inode)
  BY ONLY <1>2, w \in Walk DEF Walk
<1>4. Placed(s.inode) /\ Placed(t.inode) /\ ~ t.inode.freed /\ ~ s.inode.freed /\ Tracking(s.inode, w)
  BY <1>1, <1>2 DEF Inv
<1>5. Tracking(t.inode, x)
  BY ONLY <1>2, <1>3, <1>4, w \in Walk, x \in Walk, GoesOn(t, s), ChangeTracks
<1> QED
  BY <1>1, <1>2, <1>5

LEMMA FreeTracks ==
  ASSUME Inv, Free
  PROVE  Tracking(inode', iter')
<1>1. PICK s \in State : s = Now /\ s.inode = inode /\ s.iter = iter.it /\ s.index = index
  BY NowIs DEF Inv
<1>2. PICK v : v = [s EXCEPT !.iter = NewIterator]
  OBVIOUS
<1>3. NewIterator \in Iterator
  BY DEF NewIterator, Iterator
<1>4. v \in State /\ v.inode = inode /\ v.iter = NewIterator
  BY <1>1, <1>2, <1>3 DEF State
<1>5. v \in PlacedStates
  BY <1>4 DEF Inv, PlacedStates
<1>6. PICK u : u = Freed(v)
  OBVIOUS
<1>7. u \in PlacedStates /\ (u.iter.skips \/ Present(u.inode) = {})
  BY ONLY <1>4, <1>5, <1>6, FreedLeaves, FreedAll
<1>8. u \in State /\ u.inode \in Inode
  BY <1>7 DEF PlacedStates, State
<1>9. PICK t : t = [u EXCEPT !.inode = [u.inode EXCEPT !.freed = TRUE]]
  OBVIOUS
<1>10. PICK what : Change(t, what)
  <2>1. t = [u EXCEPT !.inode.freed = TRUE]
    BY <1>8, <1>9
  <2> QED
    BY <1>1, <1>2, <1>6, <2>1 DEF Free
<1>11. t.iter = u.iter /\ t.inode.small = u.inode.small /\ t.inode.file = u.inode.file /\ t.inode.freed
  BY <1>8, <1>9 DEF State, Inode
<1>12. /\ inode' = t.inode
       /\ iter' = [iter EXCEPT !.it = t.iter, !.stay = iter.stay \cap InPlace(inode, t.inode)]
  BY <1>10 DEF Change
<1>13. iter'.it = t.iter /\ iter'.stay = iter.stay \cap InPlace(inode, t.inode)
  BY ONLY <1>12, Inv DEF Inv, Typed
<1>14. Present(t.inode) = Present(u.inode) /\ InPlace(inode, t.inode) \subseteq Present(t.inode)
  BY <1>11 DEF Present, InPlace
<1> QED
  BY <1>7, <1>11, <1>12, <1>13, <1>14 DEF Tracking

LEMMA IterationTracks ==
  ASSUME Inv, Inv', Tracking(inode, iter), GetNext \/ Rewind
  PROVE  Tracking(inode', iter')
<1>1. PICK w \in Walk, x \in Walk : w = iter /\ x = iter'
  BY DEF Inv, Typed, Walk
<1>2. inode' = inode /\ inode \in Inode /\ Placed(inode) /\ ~ inode.freed
  BY DEF GetNext, Rewind, Inv, Typed
<1>3. CASE GetNext
  <2>1. PICK s \in State : s = Now /\ s.inode = inode /\ s.iter = iter.it
    BY NowIs DEF Inv
  <2>2. PICK next : next = NextAttribute(s)
    OBVIOUS
  <2>3. Section(s.inode.small)
    BY <1>2, <2>1 DEF Placed
  <2>4. Next3(next, s)
    BY ONLY <2>2, <2>3, s \in State, NextAttributeIs
  <2>5. PICK ended, seen : /\ ended = (next.name = NameTag)
                           /\ seen = IF next.name = NameTag THEN w.seen ELSE Append(w.seen, next.name)
    OBVIOUS
  <2>6. x = [w EXCEPT !.it = next.iter, !.ended = ended, !.seen = seen]
    BY <1>1, <1>3, <2>1, <2>2, <2>5 DEF GetNext
  <2>7. x.it = next.iter /\ x.stay = w.stay /\ x.ended = ended /\ x.seen = seen
    BY ONLY <2>6, w \in Walk DEF Walk
  <2>8. GoneOn(x, w, next)
    BY ONLY <2>5, <2>7 DEF GoneOn
  <2>9. Tracking(s.inode, x)
    BY <1>1, <1>2, <2>1, <2>4, <2>8, NextTracks
  <2> QED
    BY <1>1, <1>2, <2>1, <2>9
<1>4. CASE Rewind
  <2>1. x = [it |-> Rewound(w.it), ended |-> FALSE, seen |-> <<>>,
             stay |-> {n \in Present(inode) : w.it.dir # "removed" \/ inode.file[n] = None}]
    BY <1>1, <1>4 DEF Rewind
  <2>2. Rewound(w.it).current = 0 /\ Rewound(w.it).last = 0 /\ Rewound(w.it).dir = w.it.dir
    <3>1. PICK it \in Iterator : it = w.it
      BY DEF Walk
    <3>2. PICK no \in BOOLEAN : Rewound(it) = [it EXCEPT !.current = 0, !.last = 0, !.skips = no]
      BY Zenon DEF Rewound
    <3>3. Rewound(it).current = 0 /\ Rewound(it).last = 0 /\ Rewound(it).dir = it.dir
      BY ONLY <3>2, it \in Iterator, no \in BOOLEAN DEF Iterator
    <3> QED
      BY <3>1, <3>3
  <2>3. /\ x.it.current = 0 /\ x.it.last = 0 /\ x.it.dir = w.it.dir /\ ~ x.ended /\ x.seen = <<>>
        /\ x.stay = {n \in Present(inode) : w.it.dir # "removed" \/ inode.file[n] = None}
    BY <2>1, <2>2
  <2>4. Tracking(inode, x)
    BY <1>2, <2>3, AtStart
  <2> QED
    BY <1>1, <1>2, <2>4
<1> QED
  BY <1>3, <1>4

LEMMA TracksAtFirst == Init => Tracking(inode, iter)
<1> SUFFICES ASSUME Init PROVE Tracking(inode, iter)
  OBVIOUS
<1>1. PICK name \in {<<>>} \cup {<<[name |-> NameTag, data |-> Short]>>}, small \in SUBSET Name, files \in SUBSET Name :
        /\ small \cap files = {}
        /\ Used(name \o FirstItems(small)) <= Capacity
        /\ inode = [small |-> name \o FirstItems(small), dir |-> files # {},
                    file |-> [n \in Name |-> IF n \in files THEN Long ELSE None], freed |-> FALSE]
        /\ iter = [it |-> NewIterator, ended |-> FALSE, seen |-> <<>>, stay |-> small \cup files]
  BY DEF Init, FirstItems
<1>2. /\ Section(name \o FirstItems(small))
      /\ \A n \in Name : Kept(name \o FirstItems(small), n) = IF n \in small THEN Short ELSE None
  BY <1>1, FirstSection
<1>3. Short # None /\ Long # None
  BY AttributesAssumption, NoneIsNoData DEF Bytes, Byte
<1>4. inode.small = name \o FirstItems(small) /\ \A n \in Name : inode.file[n] = IF n \in files THEN Long ELSE None
  BY <1>1
<1>5. \A n \in small \cup files : n \in Present(inode)
  <2> SUFFICES ASSUME NEW n \in small \cup files PROVE n \in Present(inode)
    OBVIOUS
  <2>1. n \in Name
    OBVIOUS
  <2>2. CASE n \in files
    BY <1>3, <1>4, <2>1, <2>2 DEF Present
  <2>3. CASE n \in small
    <3>1. Kept(inode.small, n) # None
      BY <1>2, <1>3, <1>4, <2>1, <2>3
    <3> QED
      BY <2>1, <3>1 DEF Present, Kept
  <2> QED
    BY <2>2, <2>3
<1>6. /\ iter.it.current = 0 /\ iter.it.last = 0 /\ iter.it.dir = "closed" /\ ~ iter.ended
      /\ iter.seen = <<>> /\ iter.stay = small \cup files
  BY <1>1 DEF NewIterator
<1>7. iter \in Walk /\ inode \in Inode /\ Placed(inode) /\ ~ inode.freed
  BY AtFirst DEF Typed, Walk
<1> QED
  BY <1>5, <1>6, <1>7, AtStart


LEMMA TrackingAlways == Spec => [](Inv /\ Tracking(inode, iter))
<1> DEFINE Both == Inv /\ Tracking(inode, iter)
<1>1. Init => Both
  BY AtFirst, TracksAtFirst DEF Inv
<1>2. Both /\ [Next]_vars => Both'
  <2> SUFFICES ASSUME Inv, Tracking(inode, iter), [Next]_vars PROVE Inv' /\ Tracking(inode', iter')
    OBVIOUS
  <2>1. ASSUME NEW n \in Name, RemoveAttribute(n) PROVE Inv' /\ Tracking(inode', iter')
    <3>1. Inv'
      BY <2>1, RemoveStep
    <3> QED
      BY <2>1, <3>1, RemoveMade, MadeTracks
  <2>2. ASSUME NEW n \in Name, NEW pos \in Position, NEW buffer \in Data, WriteAttribute(n, pos, buffer)
        PROVE  Inv' /\ Tracking(inode', iter')
    <3>1. Inv'
      BY <2>2, WriteStep
    <3> QED
      BY <2>2, <3>1, WriteMade, MadeTracks
  <2>3. ASSUME NEW data \in Data, SetName(data) PROVE Inv' /\ Tracking(inode', iter')
    <3>1. Inv'
      BY <2>3, NameStep
    <3> QED
      BY <2>3, <3>1, NameMade, MadeTracks
  <2>4. CASE Free
    BY <2>4, FreeStep, FreeTracks
  <2>5. CASE GetNext \/ Rewind
    <3>1. Inv'
      BY <2>5, IteratorStep
    <3> QED
      BY <2>5, <3>1, IterationTracks
  <2>6. CASE UNCHANGED vars
    <3>1. Inv' /\ inode' = inode /\ iter' = iter
      BY <2>6, StutterStep DEF vars
    <3> QED
      BY <3>1
  <2> QED
    BY <2>1, <2>2, <2>3, <2>4, <2>5, <2>6 DEF Next
<1> QED
  BY <1>1, <1>2, PTL DEF Spec

\* An AttributeIterator that came to its end has returned each attribute that
\* stayed in its place, and once only, whatever was written, moved, renamed and
\* removed meanwhile, except when the item it had returned last was removed from
\* behind the name, which AttributeIterator::Update does not correct.
THEOREM IteratorReturnsAll == Spec => []IteratorSeesAll
<1>1. Inv /\ Tracking(inode, iter) => IteratorSeesAll
  <2> SUFFICES ASSUME Inv, Tracking(inode, iter), iter.ended, ~ iter.it.skips, NEW n \in iter.stay
               PROVE  Times(iter.seen, n) = 1
    BY DEF IteratorSeesAll, Times
  <2>1. ~ inode.freed /\ iter.it.current = -1 /\ Tracked(inode, iter, n)
    BY DEF Tracking
  <2>2. CASE FindSmallData(inode.small, n) # 0
    BY <2>1, <2>2 DEF Tracked, Passed
  <2>3. CASE inode.file[n] # None
    BY <2>1, <2>3 DEF Tracked
  <2> QED
    BY <2>1, <2>2, <2>3 DEF Tracked, Present
<1> QED
  BY <1>1, TrackingAlways, PTL
=============================================================================
