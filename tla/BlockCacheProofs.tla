-------------------------- MODULE BlockCacheProofs --------------------------
(***************************************************************************)
(* The block cache's invariants for every number of holders, blocks, keys  *)
(* and addresses and every limit.                                          *)
(*                                                                         *)
(* The argument: every operation of the cache maps a good cache (its list, *)
(* its hash table and its heap agree) to a good one, whatever the holders  *)
(* do; Consistent adds the holders, whose number is what the entries       *)
(* count.  Each get is a put of the old block, room made, and a gain of    *)
(* one reference, so each step of the specification is a chain of lemmas.  *)
(*                                                                         *)
(* The limit: allocated_block_count is never less than the number of       *)
(* cached blocks, so what it is too high by is at least what the cache has *)
(* too many of; RemoveUnusedBlocks takes that many or leaves no block      *)
(* unused.                                                                 *)
(*                                                                         *)
(* The order: each step is a put, after which one block more may wait      *)
(* behind the others (Joins), room made at the front of the list (Drops),  *)
(* and one block taken out of it to be used (Uses).                        *)
(*                                                                         *)
(* The refinement: every holder sees the block it asked for, so what the   *)
(* holders see follows from what they have asked for, before and after     *)
(* each step; and a step changes what is asked for as a Read, a Clear or a *)
(* Move does. Whoever reads metadata through CachedBlock or CachedNode     *)
(* cannot tell the cache from the disk.                                    *)
(***************************************************************************)
EXTENDS BlockCache, FiniteSetTheorems, TLAPS

\* The hash table has a place for every block number.
LEMMA KeyOfType == \A n \in Int : KeyOf(n) \in Key
  BY SizesAssumption DEF KeyOf, Key

\* On volumes of at most KeyModulus blocks, cached_block::Compare tells the
\* blocks apart.
LEMMA KeyOfInjective ==
  ASSUME MaxBlocks <= KeyModulus
  PROVE  \A m, n \in Block : KeyOf(m) = KeyOf(n) => m = n
<1>1. \A n \in Block : KeyOf(n) = n
  BY SizesAssumption DEF KeyOf, Block
<1> QED
  BY <1>1

\* Taking an element out of the unused list leaves the others, each once.
LEMMA UnlinkList ==
  ASSUME NEW list \in Seq(Key), NEW k \in Key,
         \A i, j \in 1 .. Len(list) : list[i] = list[j] => i = j,
         \E i \in 1 .. Len(list) : list[i] = k
  PROVE  /\ Unlink(list, k) \in Seq(Key)
         /\ Len(Unlink(list, k)) = Len(list) - 1
         /\ {Unlink(list, k)[i] : i \in 1 .. Len(Unlink(list, k))}
              = {list[i] : i \in 1 .. Len(list)} \ {k}
         /\ \A i, j \in 1 .. Len(Unlink(list, k)) :
              Unlink(list, k)[i] = Unlink(list, k)[j] => i = j
<1> DEFINE at == CHOOSE i \in 1 .. Len(list) : list[i] = k
           L  == Unlink(list, k)
<1>1. at \in 1 .. Len(list) /\ list[at] = k
  OBVIOUS
<1>2. L = [i \in 1 .. Len(list) - 1 |-> IF i < at THEN list[i] ELSE list[i + 1]]
  BY DEF Unlink
<1> HIDE DEF at, L
<1>3. L \in Seq(Key) /\ Len(L) = Len(list) - 1
  BY <1>1, <1>2
<1>4. \A i, j \in 1 .. Len(L) : L[i] = L[j] => i = j
  BY <1>1, <1>2, <1>3
<1>5. ASSUME NEW i \in 1 .. Len(L)
      PROVE  L[i] \in {list[j] : j \in 1 .. Len(list)} \ {k}
  BY <1>1, <1>2, <1>3, <1>5
<1>6. ASSUME NEW j \in 1 .. Len(list), list[j] # k
      PROVE  \E i \in 1 .. Len(L) : L[i] = list[j]
  <2>1. CASE j < at
    BY <1>1, <1>2, <1>3, <2>1
  <2>2. CASE j > at
    <3>1. j - 1 \in 1 .. Len(L) /\ L[j - 1] = list[j]
      BY <1>1, <1>2, <1>3, <2>2
    <3> QED
      BY <3>1
  <2> QED
    BY <1>1, <1>6, <2>1, <2>2
<1>7. {L[i] : i \in 1 .. Len(L)} = {list[i] : i \in 1 .. Len(list)} \ {k}
  <2> DEFINE here  == {L[i] : i \in 1 .. Len(L)}
             there == {list[i] : i \in 1 .. Len(list)}
  <2>1. ASSUME NEW x \in here
        PROVE  x \in there \ {k}
    BY <1>5
  <2>2. ASSUME NEW x \in there, x # k
        PROVE  x \in here
    <3>1. PICK j \in 1 .. Len(list) : x = list[j]
      OBVIOUS
    <3>2. PICK i \in 1 .. Len(L) : L[i] = list[j]
      BY <1>6, <2>2, <3>1
    <3> QED
      BY <3>1, <3>2
  <2> HIDE DEF here, there
  <2>3. here = there \ {k}
    BY <2>1, <2>2
  <2> QED
    BY <2>3 DEF here, there
<1> QED
  BY <1>3, <1>4, <1>7 DEF L

-----------------------------------------------------------------------------
(* The parts of the inductive invariant, for any cache c and holders H.    *)

Listed(c) ==
  /\ \A i, j \in 1 .. Len(c.unused) : c.unused[i] = c.unused[j] => i = j
  /\ \A k \in Cached(c) : c.hash[k].refs = 0 => k \in Unused(c)
  /\ \A k \in Unused(c) : k \in Cached(c) /\ c.hash[k].refs = 0
  /\ \A k \in Cached(c) : c.hash[k].unused <=> k \in Unused(c)

Owned(c) ==
  /\ \A k, l \in Cached(c) : c.hash[k].data = c.hash[l].data => k = l
  /\ \A a \in Addr : c.memory[a] # Free => \E k \in Cached(c) : c.hash[k].data = a
  /\ \A k \in Cached(c) :
       /\ KeyOf(c.hash[k].number) = k
       /\ c.memory[c.hash[k].data] = c.hash[k].number

Good(c) == c \in CacheState /\ Listed(c) /\ Owned(c)

Keepers(H, k) == {h \in Holder : H[h] # NoBlock /\ KeyOf(H[h].number) = k}

Counted(c, H) == \A k \in Cached(c) : c.hash[k].refs = Cardinality(Keepers(H, k))

Pinned(c, H) ==
  \A h \in Holder : H[h] # NoBlock =>
    /\ KeyOf(H[h].number) \in Cached(c)
    /\ c.hash[KeyOf(H[h].number)].data = H[h].data

Holders == [Holder -> Handle \cup {NoBlock}]

Consistent(c, H) == Good(c) /\ H \in Holders /\ Counted(c, H) /\ Pinned(c, H)

\* The entry type, spelled out for the steps below.
LEMMA EntryFields ==
  ASSUME NEW c \in CacheState, NEW k \in Cached(c)
  PROVE  /\ k \in Key
         /\ c.hash[k] \in Entry
         /\ c.hash[k].number \in Block
         /\ c.hash[k].data \in Addr
         /\ c.hash[k].refs \in Nat
         /\ c.hash[k].unused \in BOOLEAN
  BY DEF CacheState, Cached, Entry

\* RemoveUnusedBlocks leaves a good cache: it frees the buffers of exactly the
\* entries it drops, all of them unreferenced.
LEMMA RemoveUnusedGood ==
  ASSUME NEW c, Good(c), NEW count \in Nat,
         NEW d, d = RemoveUnusedBlocks(c, count)
  PROVE  /\ Good(d)
         /\ \A k \in Key : \/ d.hash[k] = c.hash[k]
                           \/ /\ d.hash[k] = Absent
                              /\ k \in Cached(c) 
                              /\ c.hash[k].refs = 0
<1> DEFINE n       == IF count <= Len(c.unused) THEN count ELSE Len(c.unused)
           gone    == {c.unused[i] : i \in 1 .. n}
           buffers == {c.hash[k].data : k \in gone}
           rest    == [i \in 1 .. Len(c.unused) - n |-> c.unused[i + n]]
<1>1. /\ c \in CacheState
      /\ c.unused \in Seq(Key)
      /\ c.hash \in [Key -> Entry \cup {Absent}]
      /\ c.memory \in [Addr -> Block \cup {Free}]
      /\ c.allocated \in Nat
  BY DEF Good, CacheState
<1>2. n \in 0 .. Len(c.unused)
  BY <1>1
<1>3. /\ d = [hash |-> d.hash, unused |-> d.unused, allocated |-> d.allocated, memory |-> d.memory]
      /\ d.hash = [k \in Key |-> IF k \in gone THEN Absent ELSE c.hash[k]]
      /\ d.unused = rest
      /\ d.allocated = c.allocated
      /\ d.memory = [a \in Addr |-> IF a \in buffers THEN Free ELSE c.memory[a]]
  BY DEF RemoveUnusedBlocks
<1> HIDE DEF n
<1>4. rest \in Seq(Key) /\ Len(rest) = Len(c.unused) - n
  BY <1>1, <1>2
<1>5. d \in CacheState
  <2>1. d.hash \in [Key -> Entry \cup {Absent}]
    BY <1>1, <1>3
  <2>2. d.memory \in [Addr -> Block \cup {Free}]
    BY <1>1, <1>3
  <2> HIDE DEF gone, buffers, rest
  <2> QED
    BY <2>1, <2>2, <1>1, <1>3, <1>4 DEF CacheState
<1>6. gone \subseteq Unused(c)
  BY <1>1, <1>2 DEF Unused
<1>7. \A k \in gone : k \in Cached(c) /\ c.hash[k].refs = 0
  BY <1>6 DEF Good, Listed
<1>8. Cached(d) = Cached(c) \ gone
  BY <1>1, <1>3 DEF Cached
<1>9. \A k \in Cached(d) : d.hash[k] = c.hash[k] /\ k \in Cached(c)
  BY <1>1, <1>3, <1>8 DEF Cached
<1>10. Unused(d) = Unused(c) \ gone
  <2>1. ASSUME NEW i \in 1 .. Len(rest)
        PROVE  rest[i] \in Unused(c) \ gone
    <3>1. i + n \in 1 .. Len(c.unused) /\ rest[i] = c.unused[i + n]
      BY <1>1, <1>2, <1>4
    <3>2. \A j \in 1 .. n : c.unused[j] # c.unused[i + n]
      BY <1>1, <1>2, <1>4, <3>1 DEF Good, Listed
    <3> QED
      BY <3>1, <3>2 DEF Unused
  <2>2. ASSUME NEW k \in Unused(c), k \notin gone
        PROVE  \E i \in 1 .. Len(rest) : rest[i] = k
    <3>1. PICK j \in 1 .. Len(c.unused) : c.unused[j] = k
      BY DEF Unused
    <3>2. j \notin 1 .. n
      BY <2>2, <3>1
    <3>3. j - n \in 1 .. Len(rest) /\ rest[j - n] = k
      BY <1>1, <1>2, <1>4, <3>1, <3>2
    <3> QED
      BY <3>3
  <2>3. Unused(d) = {rest[i] : i \in 1 .. Len(rest)}
    BY <1>3 DEF Unused
  <2>4. Unused(d) \subseteq Unused(c) \ gone
    BY <2>1, <2>3
  <2>5. Unused(c) \ gone \subseteq Unused(d)
    BY <2>2, <2>3
  <2> QED
    BY <2>4, <2>5
<1>11. Listed(d)
  <2>1. ASSUME NEW i \in 1 .. Len(rest), NEW j \in 1 .. Len(rest), rest[i] = rest[j]
        PROVE  i = j
    <3>1. /\ i + n \in 1 .. Len(c.unused) /\ rest[i] = c.unused[i + n]
          /\ j + n \in 1 .. Len(c.unused) /\ rest[j] = c.unused[j + n]
      BY <1>1, <1>2, <1>4
    <3>2. i + n = j + n
      BY <2>1, <3>1 DEF Good, Listed
    <3> QED
      BY <3>2, <1>2, <1>4
  <2>2. \A i, j \in 1 .. Len(d.unused) : d.unused[i] = d.unused[j] => i = j
    BY <2>1, <1>3
  <2> HIDE DEF gone, rest, buffers
  <2>3. \A k \in Cached(d) : d.hash[k].refs = 0 => k \in Unused(d)
    BY <1>8, <1>9, <1>10 DEF Good, Listed
  <2>4. \A k \in Unused(d) : k \in Cached(d) /\ d.hash[k].refs = 0
    BY <1>8, <1>9, <1>10 DEF Good, Listed
  <2>5. \A k \in Cached(d) : d.hash[k].unused <=> k \in Unused(d)
    BY <1>8, <1>9, <1>10 DEF Good, Listed
  <2> QED
    BY <2>2, <2>3, <2>4, <2>5 DEF Listed
<1>12. Owned(d)
  <2>1. \A k \in Cached(d) : c.hash[k].data \in Addr /\ c.hash[k].data \notin buffers
    BY <1>1, <1>7, <1>8, EntryFields DEF Good, Owned
  <2>2. ASSUME NEW k \in Cached(d)
        PROVE  d.memory[d.hash[k].data] = c.memory[c.hash[k].data]
    <3>1. \A a \in Addr : a \notin buffers => d.memory[a] = c.memory[a]
      BY <1>3
    <3> HIDE DEF gone, rest, buffers
    <3> QED
      BY <3>1, <2>1, <1>9
  <2>3. ASSUME NEW a \in Addr, d.memory[a] # Free
        PROVE  \E k \in Cached(d) : d.hash[k].data = a
    <3>1. a \notin buffers /\ c.memory[a] # Free
      BY <1>3, <2>3
    <3>2. PICK k \in Cached(c) : c.hash[k].data = a
      BY <3>1 DEF Good, Owned
    <3>3. k \in Cached(d)
      BY <3>1, <3>2, <1>8
    <3> QED
      BY <3>2, <3>3, <1>9
  <2> HIDE DEF gone, rest, buffers
  <2> QED
    BY <2>2, <2>3, <1>9 DEF Good, Owned
<1>13. \A k \in Key : \/ d.hash[k] = c.hash[k]
                      \/ d.hash[k] = Absent /\ k \in Cached(c) /\ c.hash[k].refs = 0
  BY <1>3, <1>7
<1> QED
  BY <1>5, <1>11, <1>12, <1>13 DEF Good

\* Room is made without touching an entry that is in use.
LEMMA MakeRoomGood ==
  ASSUME NEW c, Good(c), NEW d, d = MakeRoom(c)
  PROVE  /\ Good(d)
         /\ \A k \in Key : \/ d.hash[k] = c.hash[k]
                           \/ /\ d.hash[k] = Absent
                              /\ k \in Cached(c)
                              /\ c.hash[k].refs = 0
<1>1. CASE c.allocated >= kMaxBlockCount
  <2>1. c.allocated - kMaxBlockCount + 1 \in Nat
    BY <1>1, SizesAssumption DEF Good, CacheState
  <2>2. d = RemoveUnusedBlocks(c, c.allocated - kMaxBlockCount + 1)
    BY <1>1 DEF MakeRoom
  <2> QED
    BY <2>1, <2>2, RemoveUnusedGood
<1>2. CASE ~ (c.allocated >= kMaxBlockCount)
  BY <1>2 DEF MakeRoom
<1> QED
  BY <1>1, <1>2

\* A put leaves a good cache, and only the count of its entry has changed.
LEMMA DereferenceGood ==
  ASSUME NEW c, Good(c), NEW k \in Cached(c), c.hash[k].refs > 0,
         NEW d, d = Dereference(c, k)
  PROVE  /\ Good(d)
         /\ d.hash = [c.hash EXCEPT ![k] = d.hash[k]]
         /\ d.hash[k] # Absent
         /\ d.hash[k].data = c.hash[k].data
         /\ d.hash[k].refs = c.hash[k].refs - 1
<1>1. /\ c \in CacheState
      /\ c.unused \in Seq(Key)
      /\ c.hash \in [Key -> Entry \cup {Absent}]
      /\ c.memory \in [Addr -> Block \cup {Free}]
      /\ c.allocated \in Nat
      /\ c = [hash |-> c.hash, unused |-> c.unused, allocated |-> c.allocated, memory |-> c.memory]
  BY DEF Good, CacheState
<1>2. /\ k \in Key
      /\ c.hash[k] \in Entry
      /\ c.hash[k].refs \in Nat
  BY <1>1, EntryFields
<1>3. k \notin Unused(c) /\ c.hash[k].unused = FALSE
  BY <1>1, <1>2, EntryFields DEF Good, Listed
<1> DEFINE last == c.hash[k].refs - 1 = 0
           refs == c.hash[k].refs - 1
           e == IF last THEN [c.hash[k] EXCEPT !.refs = refs, !.unused = TRUE]
                        ELSE [c.hash[k] EXCEPT !.refs = refs]
<1>4. /\ d.hash = [c.hash EXCEPT ![k] = e]
      /\ d.unused = IF last THEN Append(c.unused, k) ELSE c.unused
      /\ d.allocated = c.allocated
      /\ d.memory = c.memory
      /\ d = [hash |-> d.hash, unused |-> d.unused, allocated |-> d.allocated, memory |-> d.memory]
  <2>1. CASE last
    BY <1>1, <2>1 DEF Dereference
  <2>2. CASE ~ last
    BY <1>1, <2>2 DEF Dereference
  <2> QED
    BY <2>1, <2>2
<1>5. e \in Entry /\ e # Absent
  <2>1. e \in Entry
    <3>1. refs \in Nat
      BY <1>2
    <3> HIDE DEF refs
    <3>2. [c.hash[k] EXCEPT !.refs = refs, !.unused = TRUE] \in Entry
      BY <1>2, <3>1 DEF Entry
    <3>3. [c.hash[k] EXCEPT !.refs = refs] \in Entry
      BY <1>2, <3>1 DEF Entry
    <3> QED
      BY <3>2, <3>3
  <2> HIDE DEF e
  <2> QED
    BY <2>1, SentinelAssumption
<1>6. d.hash[k] = e
  BY <1>1, <1>2, <1>4
<1>7. \A l \in Key : l # k => d.hash[l] = c.hash[l]
  BY <1>1, <1>4
<1>8. Cached(d) = Cached(c)
  BY <1>5, <1>6, <1>7 DEF Cached
<1>9. /\ e.number = c.hash[k].number
      /\ e.data = c.hash[k].data
      /\ e.refs = c.hash[k].refs - 1
      /\ e.unused <=> last
  <2>1. CASE last
    BY <1>2, <2>1 DEF Entry
  <2>2. CASE ~ last
    BY <1>2, <1>3, <2>2 DEF Entry
  <2> QED
    BY <2>1, <2>2
<1> HIDE DEF e
<1>10. d \in CacheState
  <2>1. d.hash \in [Key -> Entry \cup {Absent}]
    BY <1>1, <1>4, <1>5
  <2>2. d.unused \in Seq(Key)
    BY <1>1, <1>2, <1>4
  <2> QED
    BY <2>1, <2>2, <1>1, <1>4 DEF CacheState
<1>11. Unused(d) = IF last THEN Unused(c) \cup {k} ELSE Unused(c)
  <2>1. CASE last
    <3>1. /\ Len(d.unused) = Len(c.unused) + 1
          /\ \A i \in 1 .. Len(c.unused) : d.unused[i] = c.unused[i]
          /\ d.unused[Len(c.unused) + 1] = k
      BY <2>1, <1>1, <1>2, <1>4
    <3>2. 1 .. Len(d.unused) = 1 .. Len(c.unused) \cup {Len(c.unused) + 1}
      BY <3>1, <1>1
    <3> QED
      BY <2>1, <3>1, <3>2 DEF Unused
  <2>2. CASE ~ last
    BY <2>2, <1>4 DEF Unused
  <2> QED
    BY <2>1, <2>2
<1>12. Listed(d)
  <2>1. \A i, j \in 1 .. Len(d.unused) : d.unused[i] = d.unused[j] => i = j
    <3>1. CASE last
      <4>1. /\ Len(d.unused) = Len(c.unused) + 1
            /\ \A i \in 1 .. Len(c.unused) : d.unused[i] = c.unused[i]
            /\ d.unused[Len(c.unused) + 1] = k
        BY <3>1, <1>1, <1>2, <1>4
      <4>2. \A i \in 1 .. Len(c.unused) : c.unused[i] # k
        BY <1>3 DEF Unused
      <4>3. Len(c.unused) \in Nat
        BY <1>1
      <4>4. \A i, j \in 1 .. Len(c.unused) : c.unused[i] = c.unused[j] => i = j
        BY DEF Good, Listed
      <4>5. \A i \in 1 .. Len(d.unused) : i \in 1 .. Len(c.unused) \/ i = Len(c.unused) + 1
        BY <4>1, <4>3
      <4> HIDE DEF last, refs
      <4> SUFFICES ASSUME NEW i \in 1 .. Len(d.unused), NEW j \in 1 .. Len(d.unused),
                          d.unused[i] = d.unused[j]
                   PROVE  i = j
        OBVIOUS
      <4>6. CASE i \in 1 .. Len(c.unused) /\ j \in 1 .. Len(c.unused)
        BY <4>1, <4>4, <4>6
      <4>7. CASE i \in 1 .. Len(c.unused) /\ j = Len(c.unused) + 1
        BY <4>1, <4>2, <4>7
      <4>8. CASE i = Len(c.unused) + 1 /\ j \in 1 .. Len(c.unused)
        BY <4>1, <4>2, <4>8
      <4> QED
        BY <4>5, <4>6, <4>7, <4>8
    <3>2. CASE ~ last
      BY <3>2, <1>4 DEF Good, Listed
    <3> QED
      BY <3>1, <3>2
  <2>2. \A l \in Cached(d) : d.hash[l].refs = 0 => l \in Unused(d)
    BY <1>6, <1>7, <1>8, <1>9, <1>11 DEF Good, Listed, Cached
  <2>3. \A l \in Unused(d) : l \in Cached(d) /\ d.hash[l].refs = 0
    BY <1>3, <1>6, <1>7, <1>8, <1>9, <1>11 DEF Good, Listed, Cached
  <2>4. \A l \in Cached(d) : d.hash[l].unused <=> l \in Unused(d)
    BY <1>3, <1>6, <1>7, <1>8, <1>9, <1>11 DEF Good, Listed, Cached
  <2> QED
    BY <2>1, <2>2, <2>3, <2>4 DEF Listed
<1>13. Owned(d)
  <2>1. \A l \in Cached(d) : /\ d.hash[l].data = c.hash[l].data
                             /\ d.hash[l].number = c.hash[l].number
    BY <1>6, <1>7, <1>9 DEF Cached
  <2> QED
    BY <2>1, <1>1, <1>4, <1>8 DEF Good, Owned
<1>14. d.hash = [c.hash EXCEPT ![k] = d.hash[k]]
  BY <1>4, <1>6
<1> QED
  BY <1>5, <1>6, <1>9, <1>10, <1>12, <1>13, <1>14 DEF Good

\* A get of a cached block leaves a good cache: the block is off the unused
\* list and counts one reference more.
LEMMA ReferenceGood ==
  ASSUME NEW c, Good(c), NEW k \in Cached(c), NEW d, d = Reference(c, k)
  PROVE  /\ Good(d)
         /\ d.hash = [c.hash EXCEPT ![k] = d.hash[k]]
         /\ d.hash[k] # Absent
         /\ d.hash[k].data = c.hash[k].data
         /\ d.hash[k].refs = c.hash[k].refs + 1
<1>1. /\ c \in CacheState
      /\ c.unused \in Seq(Key)
      /\ c.hash \in [Key -> Entry \cup {Absent}]
      /\ c.memory \in [Addr -> Block \cup {Free}]
      /\ c.allocated \in Nat
      /\ c = [hash |-> c.hash, unused |-> c.unused, allocated |-> c.allocated, memory |-> c.memory]
  BY DEF Good, CacheState
<1>2. /\ k \in Key
      /\ c.hash[k] \in Entry
      /\ c.hash[k].refs \in Nat
  BY <1>1, EntryFields
<1>3. c.hash[k].unused <=> k \in Unused(c)
  BY DEF Good, Listed
<1> DEFINE refs == c.hash[k].refs + 1
           e == [c.hash[k] EXCEPT !.refs = refs, !.unused = FALSE]
           list == IF c.hash[k].unused THEN Unlink(c.unused, k) ELSE c.unused
<1>4. /\ d.hash = [c.hash EXCEPT ![k] = e]
      /\ d.unused = list
      /\ d.allocated = c.allocated
      /\ d.memory = c.memory
      /\ d = [hash |-> d.hash, unused |-> d.unused, allocated |-> d.allocated, memory |-> d.memory]
  BY <1>1 DEF Reference
<1>5. /\ e \in Entry
      /\ e.number = c.hash[k].number
      /\ e.data = c.hash[k].data
      /\ e.refs = c.hash[k].refs + 1
      /\ e.unused = FALSE
  <2>1. refs \in Nat
    BY <1>2
  <2> HIDE DEF refs
  <2>2. /\ e \in Entry
        /\ e.number = c.hash[k].number
        /\ e.data = c.hash[k].data
        /\ e.refs = refs
        /\ e.unused = FALSE
    BY <1>2, <2>1 DEF Entry
  <2> QED
    BY <2>2 DEF refs
<1> HIDE DEF e
<1>6. d.hash[k] = e /\ e # Absent /\ e.refs # 0
  BY <1>1, <1>2, <1>4, <1>5, SentinelAssumption
<1>7. \A l \in Key : l # k => d.hash[l] = c.hash[l]
  BY <1>1, <1>4
<1>8. Cached(d) = Cached(c)
  BY <1>6, <1>7 DEF Cached
<1>9. /\ list \in Seq(Key)
      /\ \A i, j \in 1 .. Len(list) : list[i] = list[j] => i = j
      /\ {list[i] : i \in 1 .. Len(list)} = Unused(c) \ {k}
  <2>1. CASE c.hash[k].unused
    <3>1. \E i \in 1 .. Len(c.unused) : c.unused[i] = k
      BY <2>1, <1>3 DEF Unused
    <3>2. \A i, j \in 1 .. Len(c.unused) : c.unused[i] = c.unused[j] => i = j
      BY DEF Good, Listed
    <3>3. list = Unlink(c.unused, k)
      BY <2>1
    <3>4. /\ Unlink(c.unused, k) \in Seq(Key)
          /\ {Unlink(c.unused, k)[i] : i \in 1 .. Len(Unlink(c.unused, k))}
               = {c.unused[i] : i \in 1 .. Len(c.unused)} \ {k}
          /\ \A i, j \in 1 .. Len(Unlink(c.unused, k)) :
               Unlink(c.unused, k)[i] = Unlink(c.unused, k)[j] => i = j
      <4> HIDE DEF list
      <4> QED
        BY <1>1, <1>2, <3>1, <3>2, UnlinkList
    <3> HIDE DEF list
    <3> QED
      BY <3>3, <3>4 DEF Unused
  <2>2. CASE ~ c.hash[k].unused
    BY <2>2, <1>1, <1>3 DEF Good, Listed, Unused
  <2> QED
    BY <2>1, <2>2
<1> HIDE DEF list
<1>10. Unused(d) = Unused(c) \ {k}
  <2>1. Unused(d) = {list[i] : i \in 1 .. Len(list)}
    BY <1>4 DEF Unused
  <2> QED
    BY <2>1, <1>9
<1>11. d \in CacheState
  <2>1. d.hash \in [Key -> Entry \cup {Absent}]
    BY <1>1, <1>4, <1>5
  <2> QED
    BY <2>1, <1>1, <1>4, <1>9 DEF CacheState
<1>12. Listed(d)
  <2>1. \A i, j \in 1 .. Len(d.unused) : d.unused[i] = d.unused[j] => i = j
    BY <1>4, <1>9
  <2>2. \A l \in Cached(d) : d.hash[l].refs = 0 => l \in Unused(d)
    BY <1>6, <1>7, <1>8, <1>10 DEF Good, Listed, Cached
  <2>3. \A l \in Unused(d) : l \in Cached(d) /\ d.hash[l].refs = 0
    BY <1>6, <1>7, <1>8, <1>10 DEF Good, Listed, Cached
  <2>4. \A l \in Cached(d) : d.hash[l].unused <=> l \in Unused(d)
    BY <1>5, <1>6, <1>7, <1>8, <1>10 DEF Good, Listed, Cached
  <2> QED
    BY <2>1, <2>2, <2>3, <2>4 DEF Listed
<1>13. Owned(d)
  <2>1. \A l \in Cached(d) : /\ d.hash[l].data = c.hash[l].data
                             /\ d.hash[l].number = c.hash[l].number
    BY <1>5, <1>6, <1>7 DEF Cached
  <2> QED
    BY <2>1, <1>1, <1>4, <1>8 DEF Good, Owned
<1>14. d.hash = [c.hash EXCEPT ![k] = d.hash[k]]
  BY <1>4, <1>6
<1> QED
  BY <1>5, <1>6, <1>11, <1>12, <1>13, <1>14 DEF Good

\* A block that was read is in the cache with the one reference its reader
\* has.
LEMMA ReadGood ==
  ASSUME NEW c, Good(c), NEW n \in Block, NEW a \in Addr,
         c.hash[KeyOf(n)] = Absent,
         NEW room, room = MakeRoom(c), room.memory[a] = Free,
         NEW d, d = Reference(ReadIntoCache(c, n, a), KeyOf(n))
  PROVE  /\ Good(d)
         /\ d.hash = [room.hash EXCEPT ![KeyOf(n)] = d.hash[KeyOf(n)]]
         /\ d.hash[KeyOf(n)] # Absent
         /\ d.hash[KeyOf(n)].data = a
         /\ d.hash[KeyOf(n)].refs = 1
<1> DEFINE k  == KeyOf(n)
           e0 == [number |-> n, data |-> a, refs |-> 0, unused |-> FALSE]
           e  == [e0 EXCEPT !.refs = e0.refs + 1, !.unused = FALSE]
<1>1. /\ Good(room)
      /\ room.hash[k] = Absent
  <2>1. k \in Key
    BY KeyOfType DEF Block
  <2> QED
    BY <2>1, MakeRoomGood
<1>2. /\ room.unused \in Seq(Key)
      /\ room.hash \in [Key -> Entry \cup {Absent}]
      /\ room.memory \in [Addr -> Block \cup {Free}]
      /\ room.allocated \in Nat
      /\ room = [hash |-> room.hash, unused |-> room.unused, allocated |-> room.allocated, memory |-> room.memory]
  BY <1>1 DEF Good, CacheState
<1>3. k \in Key /\ KeyOf(n) = k
  BY KeyOfType DEF Block
<1> HIDE DEF k
<1>4. /\ d.hash = [room.hash EXCEPT ![k] = e]
      /\ d.unused = room.unused
      /\ d.allocated = room.allocated + 1
      /\ d.memory = [room.memory EXCEPT ![a] = n]
      /\ d = [hash |-> d.hash, unused |-> d.unused, allocated |-> d.allocated, memory |-> d.memory]
  <2>1. PICK r : r = ReadIntoCache(c, n, a)
    OBVIOUS
  <2>2. r = [hash |-> [room.hash EXCEPT ![k] = e0], unused |-> room.unused,
             allocated |-> room.allocated + 1, memory |-> [room.memory EXCEPT ![a] = n]]
    BY <1>3, <2>1 DEF ReadIntoCache
  <2>3. /\ r.hash = [room.hash EXCEPT ![k] = e0]
        /\ r.unused = room.unused
        /\ r.allocated = room.allocated + 1
        /\ r.memory = [room.memory EXCEPT ![a] = n]
    BY <2>2
  <2>4. r.hash[k] = e0
    BY <1>2, <1>3, <2>3
  <2>5. e0.unused = FALSE
    OBVIOUS
  <2> HIDE DEF e0
  <2>6. d = Reference(r, k)
    BY <1>3, <2>1
  <2>7. d = [r EXCEPT !.hash[k] = e, !.unused = r.unused]
    BY <2>4, <2>5, <2>6 DEF Reference
  <2> HIDE DEF e
  <2>8. r = [hash |-> r.hash, unused |-> r.unused, allocated |-> r.allocated, memory |-> r.memory]
    BY <2>2, <2>3
  <2>9. /\ d.hash = [r.hash EXCEPT ![k] = e]
        /\ d.unused = r.unused
        /\ d.allocated = r.allocated
        /\ d.memory = r.memory
        /\ d = [hash |-> d.hash, unused |-> d.unused, allocated |-> d.allocated, memory |-> d.memory]
    BY <2>7, <2>8
  <2>10. [r.hash EXCEPT ![k] = e] = [room.hash EXCEPT ![k] = e]
    BY <1>2, <1>3, <2>3
  <2> QED
    BY <2>3, <2>9, <2>10
<1>5. e \in Entry /\ e.number = n /\ e.data = a /\ e.refs = 1 /\ e.unused = FALSE
  <2>1. e0 \in Entry /\ e0.number = n /\ e0.data = a /\ e0.refs = 0
    BY DEF Entry
  <2>2. e0.refs + 1 = 1 /\ 1 \in Nat
    BY <2>1
  <2> HIDE DEF e0
  <2>3. [e0 EXCEPT !.refs = 1, !.unused = FALSE] \in Entry
    BY <2>1 DEF Entry
  <2>4. e = [e0 EXCEPT !.refs = 1, !.unused = FALSE]
    BY <2>2
  <2>5. e.number = n /\ e.data = a /\ e.refs = 1 /\ e.unused = FALSE
    BY <2>1, <2>4 DEF Entry
  <2> QED
    BY <2>3, <2>4, <2>5
<1> HIDE DEF e
<1>6. d.hash[k] = e /\ e # Absent
  BY <1>2, <1>3, <1>4, <1>5, SentinelAssumption
<1>7. \A l \in Key : l # k => d.hash[l] = room.hash[l]
  BY <1>2, <1>4
<1>8. Cached(d) = Cached(room) \cup {k} /\ k \notin Cached(room)
  BY <1>1, <1>3, <1>6, <1>7 DEF Cached
<1>9. Unused(d) = Unused(room) /\ k \notin Unused(room)
  BY <1>1, <1>4, <1>8 DEF Unused, Good, Listed
<1>10. d \in CacheState
  <2>1. d.hash \in [Key -> Entry \cup {Absent}]
    BY <1>2, <1>3, <1>4, <1>5
  <2>2. d.memory \in [Addr -> Block \cup {Free}]
    BY <1>2, <1>4
  <2>3. d.allocated \in Nat
    BY <1>2, <1>4
  <2> QED
    BY <2>1, <2>2, <2>3, <1>2, <1>4 DEF CacheState
<1>11. Listed(d)
  <2>1. \A l \in Cached(d) : l # k => d.hash[l] = room.hash[l] /\ l \in Cached(room)
    BY <1>7, <1>8 DEF Cached
  <2> QED
    BY <1>1, <1>4, <1>5, <1>6, <1>8, <1>9, <2>1 DEF Good, Listed
<1>12. Owned(d)
  <2>1. \A l \in Cached(d) : l # k => d.hash[l] = room.hash[l] /\ l \in Cached(room)
    BY <1>7, <1>8 DEF Cached
  <2>2. \A l \in Cached(room) : room.hash[l].data \in Addr /\ room.hash[l].data # a
    <3>1. TAKE l \in Cached(room)
    <3>2. room.hash[l].data \in Addr /\ room.hash[l].number \in Block
      BY <1>1, EntryFields DEF Good
    <3>3. room.memory[room.hash[l].data] = room.hash[l].number
      BY <1>1 DEF Good, Owned
    <3> QED
      BY <3>2, <3>3, SentinelAssumption
  <2>3. d.memory[a] = n /\ \A b \in Addr : b # a => d.memory[b] = room.memory[b]
    BY <1>2, <1>4
  <2>4. \A l \in Cached(d) : /\ KeyOf(d.hash[l].number) = l
                             /\ d.memory[d.hash[l].data] = d.hash[l].number
    <3>1. TAKE l \in Cached(d)
    <3>2. CASE l = k
      BY <1>3, <1>5, <1>6, <2>3, <3>2
    <3>3. CASE l # k
      BY <1>1, <2>1, <2>2, <2>3, <3>3 DEF Good, Owned
    <3> QED
      BY <3>2, <3>3
  <2>5. \A l, m \in Cached(d) : d.hash[l].data = d.hash[m].data => l = m
    BY <1>1, <1>5, <1>6, <2>1, <2>2 DEF Good, Owned
  <2>6. ASSUME NEW b \in Addr, d.memory[b] # Free
        PROVE  \E l \in Cached(d) : d.hash[l].data = b
    <3>1. CASE b = a
      BY <1>5, <1>6, <1>8, <3>1
    <3>2. CASE b # a
      <4>1. PICK l \in Cached(room) : room.hash[l].data = b
        BY <1>1, <2>3, <2>6, <3>2 DEF Good, Owned
      <4>2. l \in Cached(d) /\ l # k
        BY <4>1, <1>8
      <4> QED
        BY <4>1, <4>2, <2>1
    <3> QED
      BY <3>1, <3>2
  <2> QED
    BY <2>4, <2>5, <2>6 DEF Owned
<1> QED
  BY <1>3, <1>4, <1>5, <1>6, <1>10, <1>11, <1>12 DEF Good

-----------------------------------------------------------------------------
(* The same facts with the holders taken into account.                     *)

\* The holders of an entry can be counted.
LEMMA KeepersFinite ==
  \A H, k : IsFiniteSet(Keepers(H, k)) /\ Cardinality(Keepers(H, k)) \in Nat
<1>1. \A H, k : Keepers(H, k) \in SUBSET Holder
  BY DEF Keepers
<1> QED
  BY <1>1, HolderAssumption, FS_Subset, FS_CardinalityType

\* An entry that some holder points to has at least one reference.
LEMMA KeptIsReferenced ==
  ASSUME NEW c, NEW H, Consistent(c, H), NEW h \in Holder, H[h] # NoBlock
  PROVE  /\ KeyOf(H[h].number) \in Cached(c)
         /\ c.hash[KeyOf(H[h].number)].refs > 0
<1> DEFINE k == KeyOf(H[h].number)
<1>1. k \in Cached(c) /\ c.hash[k].refs = Cardinality(Keepers(H, k))
  BY DEF Consistent, Pinned, Counted
<1>2. h \in Keepers(H, k)
  BY DEF Keepers
<1>3. Cardinality(Keepers(H, k)) # 0
  BY <1>2, KeepersFinite, FS_EmptySet
<1> QED
  BY <1>1, <1>3, KeepersFinite

\* Evicting unreferenced entries disturbs no holder.
LEMMA EvictionConsistent ==
  ASSUME NEW c, NEW H, Consistent(c, H), NEW d, Good(d),
         \A k \in Key : \/ d.hash[k] = c.hash[k]
                        \/ /\ d.hash[k] = Absent
                           /\ k \in Cached(c)
                           /\ c.hash[k].refs = 0
  PROVE  Consistent(d, H)
<1>1. Counted(d, H)
  BY DEF Consistent, Counted, Cached
<1>2. Pinned(d, H)
  <2>1. SUFFICES ASSUME NEW h \in Holder, H[h] # NoBlock
                 PROVE  /\ KeyOf(H[h].number) \in Cached(d)
                        /\ d.hash[KeyOf(H[h].number)].data = H[h].data
    BY DEF Pinned
  <2>2. H[h] # NoBlock
    BY <2>1
  <2>3. /\ KeyOf(H[h].number) \in Cached(c)
        /\ c.hash[KeyOf(H[h].number)].refs > 0
        /\ c.hash[KeyOf(H[h].number)].data = H[h].data
    BY <2>2, KeptIsReferenced DEF Consistent, Pinned
  <2>4. d.hash[KeyOf(H[h].number)] = c.hash[KeyOf(H[h].number)]
    BY <2>3 DEF Cached
  <2> QED
    BY <2>3, <2>4 DEF Cached
<1> QED
  BY <1>1, <1>2 DEF Consistent

\* put_cached_block leaves cache and holders consistent: one of the counted
\* holders is gone.
LEMMA UnsetConsistent ==
  ASSUME NEW c, NEW H, Consistent(c, H), NEW h \in Holder,
         NEW d, d = Unset(c, H[h]), NEW G, G = [H EXCEPT ![h] = NoBlock]
  PROVE  Consistent(d, G)
<1>1. CASE H[h] = NoBlock
  <2>1. G = H
    BY <1>1 DEF Consistent, Holders
  <2>2. d = c
    BY <1>1 DEF Unset
  <2> QED
    BY <2>1, <2>2
<1>2. CASE H[h] # NoBlock
  <2> DEFINE k == KeyOf(H[h].number)
             m == Dereference(c, k)
  <2>1. k \in Cached(c) /\ c.hash[k].refs > 0
    BY <1>2, KeptIsReferenced
  <2> HIDE DEF k
  <2>2. /\ Good(m)
        /\ m.hash = [c.hash EXCEPT ![k] = m.hash[k]]
        /\ m.hash[k] # Absent
        /\ m.hash[k].data = c.hash[k].data
        /\ m.hash[k].refs = c.hash[k].refs - 1
    BY <2>1, DereferenceGood DEF Consistent
  <2>3. c.hash \in [Key -> Entry \cup {Absent}] /\ H \in Holders
    BY DEF Consistent, Good, CacheState
  <2> HIDE DEF m
  <2>4. G \in Holders
    BY <2>3 DEF Holders
  <2>5. \A g \in Holder : G[g] = IF g = h THEN NoBlock ELSE H[g]
    BY <2>3 DEF Holders
  <2>6. \A l \in Key : l # k => m.hash[l] = c.hash[l]
    BY <2>2, <2>3
  <2>7. Cached(m) = Cached(c)
    BY <2>1, <2>2, <2>6 DEF Cached
  <2>8. \A l : Keepers(G, l) = IF l = k THEN Keepers(H, l) \ {h} ELSE Keepers(H, l)
    BY <1>2, <2>5 DEF Keepers, k
  <2>9. Counted(m, G)
    <3>1. SUFFICES ASSUME NEW l \in Cached(m)
                   PROVE  m.hash[l].refs = Cardinality(Keepers(G, l))
      BY DEF Counted
    <3>2. c.hash[l].refs = Cardinality(Keepers(H, l))
      BY <2>7 DEF Consistent, Counted
    <3>3. CASE l = k
      <4>1. h \in Keepers(H, k)
        BY <1>2 DEF Keepers, k
      <4>2. Cardinality(Keepers(H, k) \ {h}) = Cardinality(Keepers(H, k)) - 1
        BY <4>1, KeepersFinite, FS_RemoveElement
      <4> QED
        BY <2>2, <2>8, <3>2, <3>3, <4>2
    <3>4. CASE l # k
      BY <2>6, <2>8, <3>2, <3>4 DEF Cached
    <3> QED
      BY <3>3, <3>4
  <2>10. Pinned(m, G)
    <3>1. \A l \in Cached(c) : m.hash[l].data = c.hash[l].data
      BY <2>2, <2>6 DEF Cached
    <3> QED
      BY <3>1, <2>5, <2>7 DEF Consistent, Pinned
  <2>11. Consistent(m, G)
    BY <2>2, <2>4, <2>9, <2>10 DEF Consistent
  <2>12. CASE c.allocated > kMaxBlockCount
    <3>1. d = RemoveUnusedBlocks(m, c.allocated - kMaxBlockCount)
      BY <1>2, <2>1, <2>12 DEF Unset, PutBlock, m, k, Cached
    <3>2. c.allocated - kMaxBlockCount \in Nat
      BY <2>12, SizesAssumption DEF Consistent, Good, CacheState
    <3> QED
      BY <2>2, <2>11, <3>1, <3>2, RemoveUnusedGood, EvictionConsistent
  <2>13. CASE ~ (c.allocated > kMaxBlockCount)
    <3>1. d = m
      BY <1>2, <2>1, <2>13 DEF Unset, PutBlock, m, k, Cached
    <3> QED
      BY <2>11, <3>1
  <2> QED
    BY <2>12, <2>13
<1> QED
  BY <1>1, <1>2

\* NewBlock makes room without disturbing a holder.
LEMMA MakeRoomConsistent ==
  ASSUME NEW c, NEW H, Consistent(c, H), NEW d, d = MakeRoom(c)
  PROVE  Consistent(d, H)
  BY MakeRoomGood, EvictionConsistent DEF Consistent

\* A get that succeeds adds the one reference of its holder.
LEMMA GainConsistent ==
  ASSUME NEW c, NEW H, Consistent(c, H), NEW h \in Holder, H[h] = NoBlock,
         NEW n \in Block, NEW d, Good(d),
         \A k \in Key \ {KeyOf(n)} : d.hash[k] = c.hash[k],
         d.hash[KeyOf(n)] # Absent,
         KeyOf(n) \in Cached(c) => d.hash[KeyOf(n)].data = c.hash[KeyOf(n)].data,
         d.hash[KeyOf(n)].refs = Cardinality(Keepers(H, KeyOf(n))) + 1,
         NEW handle \in Handle, handle.number = n,
         handle.data = d.hash[KeyOf(n)].data,
         NEW G \in Holders,
         \A g \in Holder : G[g] = IF g = h THEN handle ELSE H[g]
  PROVE  Consistent(d, G)
<1> DEFINE k == KeyOf(n)
<1>1. k \in Key
  BY KeyOfType DEF Block
<1>2. c.hash \in [Key -> Entry \cup {Absent}] /\ H \in Holders
  BY DEF Consistent, Good, CacheState
<1>4. handle # NoBlock /\ handle.number = n /\ handle.data = d.hash[k].data
  BY SentinelAssumption
<1>5. G \in Holders
  OBVIOUS
<1>6. \A g \in Holder : G[g] = IF g = h THEN handle ELSE H[g]
  OBVIOUS
<1>7. \A l \in Key : l # k => d.hash[l] = c.hash[l]
  BY <1>2
<1>8. Cached(d) = Cached(c) \cup {k}
  BY <1>1, <1>7 DEF Cached
<1>9. \A l : Keepers(G, l) = IF l = k THEN Keepers(H, l) \cup {h} ELSE Keepers(H, l)
  BY <1>4, <1>6 DEF Keepers
<1>10. Counted(d, G)
  <2>1. SUFFICES ASSUME NEW l \in Cached(d)
                 PROVE  d.hash[l].refs = Cardinality(Keepers(G, l))
    BY DEF Counted
  <2>2. CASE l = k
    <3>1. h \notin Keepers(H, k)
      BY DEF Keepers
    <3>2. Cardinality(Keepers(H, k) \cup {h}) = Cardinality(Keepers(H, k)) + 1
      BY <3>1, KeepersFinite, FS_AddElement
    <3> QED
      BY <1>9, <2>2, <3>2
  <2>3. CASE l # k
    BY <1>7, <1>8, <1>9, <2>3 DEF Consistent, Counted, Cached
  <2> QED
    BY <2>2, <2>3
<1>11. Pinned(d, G)
  <2>1. SUFFICES ASSUME NEW g \in Holder, G[g] # NoBlock
                 PROVE  /\ KeyOf(G[g].number) \in Cached(d)
                        /\ d.hash[KeyOf(G[g].number)].data = G[g].data
    BY DEF Pinned
  <2>2. G[g] # NoBlock
    BY <2>1
  <2>3. CASE g = h
    BY <1>4, <1>6, <1>8, <2>3
  <2>4. CASE g # h
    <3>1. G[g] = H[g] /\ H[g] # NoBlock
      BY <1>6, <2>2, <2>4
    <3>2. /\ KeyOf(H[g].number) \in Cached(c)
          /\ c.hash[KeyOf(H[g].number)].data = H[g].data
      BY <3>1 DEF Consistent, Pinned
    <3>3. d.hash[KeyOf(H[g].number)].data = c.hash[KeyOf(H[g].number)].data
      BY <1>7, <3>2 DEF Cached
    <3> QED
      BY <1>8, <3>1, <3>2, <3>3
  <2> QED
    BY <2>3, <2>4
<1> QED
  BY <1>5, <1>10, <1>11 DEF Consistent

\* A failed read leaves a consistent cache: only the count has grown.
LEMMA ReadFailedConsistent ==
  ASSUME NEW c, NEW H, Consistent(c, H), NEW d, d = ReadFailed(c)
  PROVE  Consistent(d, H)
<1>1. PICK room : room = MakeRoom(c)
  OBVIOUS
<1>2. Consistent(room, H)
  BY <1>1, MakeRoomConsistent
<1>3. d = [room EXCEPT !.allocated = room.allocated + 1]
  BY <1>1 DEF ReadFailed
<1>4. /\ d.hash = room.hash
      /\ d.unused = room.unused
      /\ d.memory = room.memory
      /\ d.allocated = room.allocated + 1
      /\ d \in CacheState
  BY <1>2, <1>3, SMTT(60) DEF Consistent, Good, CacheState
<1>5. Cached(d) = Cached(room) /\ Unused(d) = Unused(room)
  BY <1>4 DEF Cached, Unused
<1>6. Listed(d) /\ Owned(d)
  BY <1>2, <1>4, <1>5 DEF Consistent, Good, Listed, Owned
<1>7. Counted(d, H) /\ Pinned(d, H)
  BY <1>2, <1>4, <1>5 DEF Consistent, Counted, Pinned
<1> QED
  BY <1>2, <1>4, <1>6, <1>7 DEF Consistent, Good

\* A get that hits the cache.
LEMMA CachedConsistent ==
  ASSUME NEW c, NEW H, Consistent(c, H), NEW h \in Holder, H[h] = NoBlock,
         NEW n \in Block, c.hash[KeyOf(n)] # Absent,
         NEW d, d = Reference(c, KeyOf(n)),
         NEW handle \in Handle, handle.number = n,
         handle.data = c.hash[KeyOf(n)].data,
         NEW G \in Holders,
         \A g \in Holder : G[g] = IF g = h THEN handle ELSE H[g]
  PROVE  Consistent(d, G)
<1>1. KeyOf(n) \in Cached(c)
  BY KeyOfType DEF Cached, Block
<1>2. Good(c) /\ c.hash[KeyOf(n)].refs = Cardinality(Keepers(H, KeyOf(n)))
  BY <1>1 DEF Consistent, Counted
<1>3. /\ Good(d)
      /\ d.hash = [c.hash EXCEPT ![KeyOf(n)] = d.hash[KeyOf(n)]]
      /\ d.hash[KeyOf(n)] # Absent
      /\ d.hash[KeyOf(n)].data = c.hash[KeyOf(n)].data
      /\ d.hash[KeyOf(n)].refs = c.hash[KeyOf(n)].refs + 1
  BY <1>1, <1>2, ReferenceGood
<1>4. \A k \in Key \ {KeyOf(n)} : d.hash[k] = c.hash[k]
  BY <1>2, <1>3 DEF Good, CacheState
<1> QED
  BY <1>2, <1>3, <1>4, GainConsistent

\* A get that misses and reads the disk.
LEMMA ReadConsistent ==
  ASSUME NEW c, NEW H, Consistent(c, H), NEW h \in Holder, H[h] = NoBlock,
         NEW n \in Block, c.hash[KeyOf(n)] = Absent,
         NEW a \in Addr, MakeRoom(c).memory[a] = Free,
         NEW d, d = Reference(ReadIntoCache(c, n, a), KeyOf(n)),
         NEW handle \in Handle, handle.number = n, handle.data = a,
         NEW G \in Holders,
         \A g \in Holder : G[g] = IF g = h THEN handle ELSE H[g]
  PROVE  Consistent(d, G)
<1>1. PICK room : room = MakeRoom(c)
  OBVIOUS
<1>2. Consistent(room, H)
  BY <1>1, MakeRoomConsistent
<1>3. Good(c) /\ room.memory[a] = Free
  BY <1>1 DEF Consistent
<1>4. /\ Good(d)
      /\ d.hash = [room.hash EXCEPT ![KeyOf(n)] = d.hash[KeyOf(n)]]
      /\ d.hash[KeyOf(n)] # Absent
      /\ d.hash[KeyOf(n)].data = a
      /\ d.hash[KeyOf(n)].refs = 1
  BY <1>1, <1>3, ReadGood
<1>5. KeyOf(n) \in Key
  BY KeyOfType DEF Block
<1>6. room.hash[KeyOf(n)] = Absent
  BY <1>1, <1>3, <1>5, MakeRoomGood
<1>7. Keepers(H, KeyOf(n)) = {}
  BY <1>2, <1>6 DEF Consistent, Pinned, Keepers, Cached
<1>8. d.hash[KeyOf(n)].refs = Cardinality(Keepers(H, KeyOf(n))) + 1
  BY <1>4, <1>7, FS_EmptySet
<1>9. KeyOf(n) \notin Cached(room)
  BY <1>6 DEF Cached
<1>10. \A k \in Key \ {KeyOf(n)} : d.hash[k] = room.hash[k]
  BY <1>2, <1>4 DEF Consistent, Good, CacheState
<1> QED
  BY <1>2, <1>4, <1>8, <1>9, <1>10, GainConsistent

\* The holders are interchangeable: handing a block over changes no count.
LEMMA TransferConsistent ==
  ASSUME NEW c, NEW H, Consistent(c, H), NEW h \in Holder,
         NEW g \in Holder \ {h}, H[g] = NoBlock,
         NEW G, G = [H EXCEPT ![g] = H[h], ![h] = NoBlock]
  PROVE  Consistent(c, G)
<1>1. H \in Holders /\ Good(c)
  BY DEF Consistent
<1>2. G \in Holders
  BY <1>1 DEF Holders
<1>3. \A f \in Holder : G[f] = IF f = h THEN NoBlock
                               ELSE IF f = g THEN H[h] ELSE H[f]
  BY <1>1 DEF Holders
<1>4. Pinned(c, G)
  BY <1>3 DEF Consistent, Pinned
<1>5. ASSUME NEW k \in Cached(c)
      PROVE  Cardinality(Keepers(G, k)) = Cardinality(Keepers(H, k))
  <2>1. CASE h \in Keepers(H, k)
    <3>1. Keepers(G, k) = (Keepers(H, k) \ {h}) \cup {g}
      BY <1>3, <2>1 DEF Keepers
    <3>2. g \notin Keepers(H, k) \ {h}
      BY DEF Keepers
    <3>3. /\ IsFiniteSet(Keepers(H, k) \ {h})
          /\ Cardinality(Keepers(H, k) \ {h}) = Cardinality(Keepers(H, k)) - 1
      BY <2>1, KeepersFinite, FS_RemoveElement
    <3>4. Cardinality((Keepers(H, k) \ {h}) \cup {g}) = Cardinality(Keepers(H, k) \ {h}) + 1
      BY <3>2, <3>3, FS_AddElement
    <3>5. Cardinality(Keepers(H, k)) \in Nat
      BY KeepersFinite
    <3>6. Cardinality(Keepers(G, k)) = Cardinality(Keepers(H, k)) - 1 + 1
      BY <3>1, <3>3, <3>4
    <3> QED
      BY <3>5, <3>6
  <2>2. CASE h \notin Keepers(H, k)
    <3>1. Keepers(G, k) = Keepers(H, k)
      BY <1>3, <2>2 DEF Keepers
    <3> QED
      BY <3>1
  <2> QED
    BY <2>1, <2>2
<1>6. Counted(c, G)
  BY <1>5 DEF Consistent, Counted
<1> QED
  BY <1>1, <1>2, <1>4, <1>6 DEF Consistent

-----------------------------------------------------------------------------
(* The inductive invariant and what follows from it.                       *)

IInv == Consistent(cache, held)

\* The empty cache without holders is consistent.
LEMMA InitConsistent == Init => IInv
<1> SUFFICES ASSUME Init PROVE IInv
  OBVIOUS
<1>1. /\ cache.hash = [k \in Key |-> Absent]
      /\ cache.unused = << >>
      /\ cache.allocated = 0
      /\ cache.memory = [a \in Addr |-> Free]
      /\ cache \in CacheState
  BY DEF Init, CacheState
<1>2. Cached(cache) = {}
  BY <1>1 DEF Cached
<1>3. Unused(cache) = {}
  BY <1>1 DEF Unused
<1>4. Listed(cache) /\ Owned(cache)
  BY <1>1, <1>2, <1>3 DEF Listed, Owned
<1>5. held \in Holders /\ \A h \in Holder : held[h] = NoBlock
  BY DEF Init, Holders
<1>6. Counted(cache, held) /\ Pinned(cache, held)
  BY <1>2, <1>5 DEF Counted, Pinned
<1> QED
  BY <1>1, <1>4, <1>5, <1>6 DEF IInv, Consistent, Good

\* Every step of a holder leaves cache and holders consistent.
LEMMA NextConsistent == IInv /\ [Next]_vars => IInv'
<1> SUFFICES ASSUME Consistent(cache, held), [Next]_vars
             PROVE  Consistent(cache', held')
  BY DEF IInv
<1>1. CASE UNCHANGED vars
  BY <1>1 DEF vars
<1>2. ASSUME NEW h \in Holder, NEW n \in Requested, SetTo(h, n)
      PROVE  Consistent(cache', held')
  <2>1. PICK c : c = Unset(cache, held[h])
    OBVIOUS
  <2>2. PICK H : H = [held EXCEPT ![h] = NoBlock]
    OBVIOUS
  <2>3. Consistent(c, H)
    BY <2>1, <2>2, UnsetConsistent
  <2>4. held \in Holders
    BY DEF Consistent
  <2>5. H[h] = NoBlock
    BY <2>2, <2>4 DEF Holders
  <2>6. ASSUME NEW handle \in Handle, held' = [held EXCEPT ![h] = handle]
        PROVE  /\ held' \in Holders
               /\ \A g \in Holder : held'[g] = IF g = h THEN handle ELSE H[g]
    BY <2>2, <2>4, <2>6 DEF Holders
  <2>7. CASE SetToOutside(h, n)
    BY <2>1, <2>2, <2>3, <2>7 DEF SetToOutside
  <2>8. CASE SetToCached(h, n)
    <3>1. /\ n \in Block
          /\ c.hash[KeyOf(n)] # Absent
          /\ cache' = Reference(c, KeyOf(n))
          /\ held' = [held EXCEPT ![h] = [number |-> n, data |-> c.hash[KeyOf(n)].data]]
      BY <2>1, <2>8 DEF SetToCached
    <3>2. PICK handle \in Handle : handle = [number |-> n, data |-> c.hash[KeyOf(n)].data]
      <4>1. c.hash[KeyOf(n)].data \in Addr
        BY <2>3, <3>1, KeyOfType, EntryFields DEF Consistent, Good, Cached, Block
      <4> QED
        BY <3>1, <4>1 DEF Handle
    <3>3. /\ held' \in Holders
          /\ \A g \in Holder : held'[g] = IF g = h THEN handle ELSE H[g]
      BY <2>6, <3>1, <3>2
    <3>4. handle \in Handle /\ handle.number = n /\ handle.data = c.hash[KeyOf(n)].data
      BY <3>2
    <3>5. PICK G \in Holders : G = held'
      BY <3>3
    <3>6. \A g \in Holder : G[g] = IF g = h THEN handle ELSE H[g]
      BY <3>3, <3>5
    <3>7. n \in Block /\ c.hash[KeyOf(n)] # Absent
      BY <3>1
    <3>8. Consistent(Reference(c, KeyOf(n)), G)
      BY <2>3, <2>5, <3>4, <3>6, <3>7, CachedConsistent
    <3> QED
      BY <3>1, <3>5, <3>8
  <2>9. CASE SetToRead(h, n)
    <3>1. n \in Block /\ c.hash[KeyOf(n)] = Absent
      BY <2>1, <2>9 DEF SetToRead
    <3>2. PICK a \in Addr : /\ MakeRoom(c).memory[a] = Free
                            /\ cache' = Reference(ReadIntoCache(c, n, a), KeyOf(n))
                            /\ held' = [held EXCEPT ![h] = [number |-> n, data |-> a]]
      BY <2>1, <2>9 DEF SetToRead
    <3>3. PICK handle \in Handle : handle = [number |-> n, data |-> a]
      BY <3>1 DEF Handle
    <3>4. /\ held' \in Holders
          /\ \A g \in Holder : held'[g] = IF g = h THEN handle ELSE H[g]
      BY <2>6, <3>2, <3>3
    <3>5. handle \in Handle /\ handle.number = n /\ handle.data = a
      BY <3>3
    <3>6. PICK G \in Holders : G = held'
      BY <3>4
    <3>7. \A g \in Holder : G[g] = IF g = h THEN handle ELSE H[g]
      BY <3>4, <3>6
    <3>8. MakeRoom(c).memory[a] = Free
      BY <3>2
    <3>9. Consistent(Reference(ReadIntoCache(c, n, a), KeyOf(n)), G)
      BY <2>3, <2>5, <3>1, <3>5, <3>7, <3>8, ReadConsistent
    <3> QED
      BY <3>2, <3>6, <3>9
  <2>10. CASE SetToReadFails(h, n)
    BY <2>1, <2>2, <2>3, <2>10, ReadFailedConsistent DEF SetToReadFails
  <2>11. CASE SetToNoMemory(h, n)
    BY <2>1, <2>2, <2>3, <2>11, MakeRoomConsistent DEF SetToNoMemory
  <2> QED
    BY <1>2, <2>7, <2>8, <2>9, <2>10, <2>11 DEF SetTo
<1>3. ASSUME NEW h \in Holder, Release(h)
      PROVE  Consistent(cache', held')
  BY <1>3, UnsetConsistent DEF Release
<1>4. ASSUME NEW h \in Holder, NEW g \in Holder \ {h}, Transfer(h, g)
      PROVE  Consistent(cache', held')
  BY <1>4, TransferConsistent DEF Transfer
<1> QED
  BY <1>1, <1>2, <1>3, <1>4 DEF Next

\* The invariant holds in every reachable state of the block cache.
THEOREM CacheConsistent == Spec => []IInv
  BY InitConsistent, NextConsistent, PTL DEF Spec

\* Hash table, unused list, count, heap and holders always have their types.
THEOREM CacheTypes == Spec => []TypeOK
<1>1. IInv => TypeOK
  BY DEF IInv, Consistent, Good, Holders, TypeOK
<1> QED
  BY <1>1, CacheConsistent, PTL

\* get_cached_block and put_cached_block count references exactly, for any
\* number of holders and blocks and over any sequence of calls and failures.
THEOREM CacheCountsReferences == Spec => []ReferenceCounts
<1>1. IInv => ReferenceCounts
  BY DEF IInv, Consistent, Counted, ReferenceCounts, Keepers, HoldersOf
<1> QED
  BY <1>1, CacheConsistent, PTL

\* What RemoveUnusedBlocks may free is exactly what nobody refers to.
THEOREM CacheListsUnused == Spec => []UnusedList
<1>1. IInv => UnusedList
  BY DEF IInv, Consistent, Good, Listed, UnusedList, Unused
<1> QED
  BY <1>1, CacheConsistent, PTL

\* Buffers are neither shared, nor leaked, nor freed under an entry, and each
\* holds the bytes of its entry's block.
THEOREM CacheOwnsBuffers == Spec => []BuffersOwned
<1>1. IInv => BuffersOwned
  <2> SUFFICES ASSUME IInv PROVE BuffersOwned
    OBVIOUS
  <2>1. cache \in CacheState /\ Owned(cache)
    BY DEF IInv, Consistent, Good
  <2>2. \A k \in Cached(cache) : /\ cache.hash[k].data \in Addr
                                 /\ cache.hash[k].number \in Block
    BY <2>1, EntryFields
  <2>3. \A k \in Cached(cache) : cache.memory[cache.hash[k].data] # Free
    BY <2>1, <2>2, SentinelAssumption DEF Owned
  <2> QED
    BY <2>1, <2>2, <2>3 DEF Owned, BuffersOwned
<1> QED
  BY <1>1, CacheConsistent, PTL

\* Types and the three together, as the cache is checked: over any sequence of calls and
\* failures it agrees with itself and with those who hold its blocks.
THEOREM CacheIsSound == Spec => []CacheSound
  BY CacheTypes, CacheCountsReferences, CacheListsUnused, CacheOwnsBuffers, PTL DEF CacheSound

\* No CachedBlock or CachedNode ever points to a buffer the cache freed.
THEOREM HoldersKeepTheirBlock == Spec => []HeldBlocksStay
<1>1. IInv => HeldBlocksStay
  BY DEF IInv, Consistent, Pinned, HeldBlocksStay
<1> QED
  BY <1>1, CacheConsistent, PTL

\* On volumes of at most 2^32 blocks, where the truncated difference of
\* cached_block::Compare is exact, every holder reads the block it asked for.
THEOREM HoldersReadRight ==
  ASSUME MaxBlocks <= KeyModulus
  PROVE  Spec => []HoldersReadTheirBlock
<1>1. IInv => HoldersReadTheirBlock
  <2> SUFFICES ASSUME IInv, NEW h \in Holder, held[h] # NoBlock
               PROVE  cache.memory[held[h].data] = held[h].number
    BY DEF HoldersReadTheirBlock
  <2> DEFINE k == KeyOf(held[h].number)
  <2>1. cache \in CacheState /\ k \in Cached(cache) /\ cache.hash[k].data = held[h].data
    BY DEF IInv, Consistent, Good, Pinned
  <2>2. /\ KeyOf(cache.hash[k].number) = k
        /\ cache.memory[cache.hash[k].data] = cache.hash[k].number
    BY <2>1 DEF IInv, Consistent, Good, Owned
  <2>3. cache.hash[k].number \in Block /\ held[h].number \in Block
    BY <2>1, EntryFields DEF IInv, Consistent, Holders, Handle
  <2>4. cache.hash[k].number = held[h].number
    BY <2>2, <2>3, KeyOfInjective
  <2> QED
    BY <2>1, <2>2, <2>4
<1> QED
  BY <1>1, CacheConsistent, PTL

-----------------------------------------------------------------------------
(* The cache keeps to its limit.                                           *)

Many(c) == Cardinality(Cached(c))

\* The strengthening: the count is not below the blocks it stands for.
Within(c) ==
  /\ Many(c) <= c.allocated
  /\ Many(c) > kMaxBlockCount => c.unused = << >>

\* The hash table is finite, and so is what it holds.
LEMMA CachedFinite ==
  ASSUME NEW c
  PROVE  IsFiniteSet(Cached(c)) /\ Many(c) \in Nat
<1>1. IsFiniteSet(Key)
  BY FS_Interval, SizesAssumption DEF Key
<1>2. Cached(c) \in SUBSET Key
  BY DEF Cached
<1>3. IsFiniteSet(Cached(c))
  BY <1>1, <1>2, FS_Subset
<1> QED
  BY <1>3, FS_CardinalityType DEF Many

\* The parts of a good cache that are used below.
LEMMA GoodTypes ==
  ASSUME NEW c, Good(c)
  PROVE  /\ c.unused \in Seq(Key) /\ Len(c.unused) \in Nat
         /\ c.allocated \in Nat
         /\ c.hash \in [Key -> Entry \cup {Absent}]
         /\ c = [hash |-> c.hash, unused |-> c.unused, allocated |-> c.allocated, memory |-> c.memory]
  BY DEF Good, CacheState

\* RemoveUnusedBlocks leaves nothing unused, or has dropped as many as it should.
LEMMA RemoveUnusedDrops ==
  ASSUME NEW c, Good(c), NEW count \in Nat, NEW d, d = RemoveUnusedBlocks(c, count)
  PROVE  /\ d.allocated = c.allocated
         /\ Many(d) <= Many(c)
         /\ d.unused = << >> \/ Many(d) = Many(c) - count
<1> DEFINE n == IF count <= Len(c.unused) THEN count ELSE Len(c.unused)
           gone == {c.unused[i] : i \in 1 .. n}
           f == [i \in 1 .. n |-> c.unused[i]]
<1>1. /\ c.unused \in Seq(Key) /\ Len(c.unused) \in Nat
      /\ c.hash \in [Key -> Entry \cup {Absent}]
  BY GoodTypes
<1>2. /\ d.hash = [k \in Key |-> IF k \in gone THEN Absent ELSE c.hash[k]]
      /\ d.unused = [i \in 1 .. Len(c.unused) - n |-> c.unused[i + n]]
      /\ d.allocated = c.allocated
  BY DEF RemoveUnusedBlocks
<1>3. n \in 0 .. Len(c.unused)
  BY <1>1
<1>4. Cached(d) = Cached(c) \ gone
  <2> HIDE DEF gone
  <2> QED
    BY <1>1, <1>2 DEF Cached
<1>5. IsFiniteSet(Cached(c)) /\ Many(c) \in Nat /\ Many(d) \in Nat
  BY CachedFinite
<1>6. Many(d) <= Many(c)
  BY <1>4, <1>5, FS_Subset DEF Many
<1>7. Many(d) = Many(c) - n
  <2>1. gone \subseteq Cached(c)
    <3>1. gone \subseteq Unused(c)
      BY <1>1, <1>3 DEF Unused
    <3> QED
      BY <3>1 DEF Good, Listed
  <2>2. f \in Bijection(1 .. n, gone)
    <3>1. \A i, j \in 1 .. n : f[i] = f[j] => i = j
      BY <1>1, <1>3 DEF Good, Listed
    <3>2. f \in [1 .. n -> gone] /\ \A k \in gone : \E i \in 1 .. n : f[i] = k
      OBVIOUS
    <3> HIDE DEF gone, f, n
    <3> QED
      BY <3>1, <3>2 DEF Bijection, Injection, Surjection, IsInjective
  <2>3. Cardinality(gone) = n
    <3>1. ExistsBijection(1 .. n, gone)
      BY <2>2 DEF ExistsBijection
    <3>2. n \in Nat
      BY <1>1, <1>3
    <3> HIDE DEF gone, n
    <3> QED
      BY <3>1, <3>2, FS_CountingElements
  <2> HIDE DEF gone, n
  <2>4. Cardinality(Cached(c) \ gone) = Cardinality(Cached(c)) - Cardinality(Cached(c) \cap gone)
    BY <1>5, FS_Difference
  <2>5. Cached(c) \cap gone = gone
    BY <2>1
  <2> QED
    BY <1>4, <2>3, <2>4, <2>5 DEF Many
<1>8. CASE count <= Len(c.unused)
  <2>1. n = count
    BY <1>8
  <2> QED
    BY <1>2, <1>6, <1>7, <2>1
<1>9. CASE ~ (count <= Len(c.unused))
  <2>1. n = Len(c.unused)
    BY <1>9
  <2>2. d.unused = << >>
    <3>1. 1 .. Len(c.unused) - n = {}
      BY <1>1, <2>1
    <3> HIDE DEF n
    <3> QED
      BY <1>2, <3>1
  <2> QED
    BY <1>2, <1>6, <2>2
<1> QED
  BY <1>8, <1>9

\* After room was made, one block more is still within the limit.
LEMMA MakeRoomWithin ==
  ASSUME NEW c, Good(c), Within(c), NEW d, d = MakeRoom(c)
  PROVE  /\ d.allocated = c.allocated
         /\ Many(d) <= d.allocated
         /\ Many(d) + 1 > kMaxBlockCount => d.unused = << >>
<1>1. c.allocated \in Nat /\ kMaxBlockCount \in Nat /\ Many(c) \in Nat /\ Many(d) \in Nat
  BY GoodTypes, CachedFinite, SizesAssumption
<1>2. CASE c.allocated >= kMaxBlockCount
  <2>1. PICK count \in Nat : count = c.allocated - kMaxBlockCount + 1
    BY <1>1, <1>2
  <2>2. d = RemoveUnusedBlocks(c, count)
    BY <1>2, <2>1 DEF MakeRoom
  <2>3. /\ d.allocated = c.allocated
        /\ Many(d) <= Many(c)
        /\ d.unused = << >> \/ Many(d) = Many(c) - count
    BY <2>2, RemoveUnusedDrops
  <2> QED
    BY <1>1, <2>1, <2>3 DEF Within
<1>3. CASE ~ (c.allocated >= kMaxBlockCount)
  BY <1>1, <1>3 DEF MakeRoom, Within
<1> QED
  BY <1>2, <1>3

\* A put trims the cache by what it has too many of.
LEMMA PutWithin ==
  ASSUME NEW c, Good(c), Within(c), NEW number \in Block, NEW d, d = PutBlock(c, number),
         KeyOf(number) \in Cached(c), c.hash[KeyOf(number)].refs > 0
  PROVE  Within(d)
<1>1. PICK k : k = KeyOf(number)
  OBVIOUS
<1>2. PICK left : left = Dereference(c, k)
  OBVIOUS
<1>3. /\ Good(left)
      /\ left.hash = [c.hash EXCEPT ![k] = left.hash[k]]
      /\ left.hash[k] # Absent
  BY <1>1, <1>2, DereferenceGood
<1>4. left.allocated = c.allocated
  <2>1. c = [hash |-> c.hash, unused |-> c.unused, allocated |-> c.allocated, memory |-> c.memory]
    BY GoodTypes
  <2> QED
    BY <1>2, <2>1 DEF Dereference
<1>5. Cached(left) = Cached(c)
  <2>1. c.hash \in [Key -> Entry \cup {Absent}] /\ k \in Cached(c)
    BY <1>1, GoodTypes
  <2> QED
    BY <1>3, <2>1 DEF Cached
<1>6. c.allocated \in Nat /\ kMaxBlockCount \in Nat /\ Many(c) \in Nat /\ Many(d) \in Nat /\ Many(left) = Many(c)
  BY <1>5, GoodTypes, CachedFinite, SizesAssumption DEF Many
<1>7. c.hash[k] # Absent
  BY <1>1 DEF Cached
<1>8. CASE c.allocated > kMaxBlockCount
  <2>1. PICK count \in Nat : count = c.allocated - kMaxBlockCount
    BY <1>6, <1>8
  <2>2. d = RemoveUnusedBlocks(left, count)
    BY <1>1, <1>2, <1>7, <1>8, <2>1 DEF PutBlock
  <2>3. /\ d.allocated = c.allocated
        /\ Many(d) <= Many(c)
        /\ d.unused = << >> \/ Many(d) = Many(c) - count
    BY <1>3, <1>4, <1>6, <2>2, RemoveUnusedDrops
  <2> QED
    BY <1>6, <2>1, <2>3 DEF Within
<1>9. CASE ~ (c.allocated > kMaxBlockCount)
  <2>1. d = left
    BY <1>1, <1>2, <1>7, <1>9 DEF PutBlock
  <2> QED
    BY <1>4, <1>6, <1>9, <2>1 DEF Within
<1> QED
  BY <1>8, <1>9

\* A new reference makes no block unused.
LEMMA ReferenceWithin ==
  ASSUME NEW c, Good(c), Within(c), NEW k \in Cached(c), NEW d, d = Reference(c, k)
  PROVE  Within(d)
<1>1. /\ c = [hash |-> c.hash, unused |-> c.unused, allocated |-> c.allocated, memory |-> c.memory]
      /\ c.hash \in [Key -> Entry \cup {Absent}]
  BY GoodTypes
<1>2. /\ d.allocated = c.allocated
      /\ d.unused = IF c.hash[k].unused THEN Unlink(c.unused, k) ELSE c.unused
  BY <1>1 DEF Reference
<1>3. Cached(d) = Cached(c)
  <2>1. d.hash = [c.hash EXCEPT ![k] = d.hash[k]] /\ d.hash[k] # Absent
    BY ReferenceGood
  <2> QED
    BY <1>1, <2>1 DEF Cached
<1>4. c.unused = << >> => ~ c.hash[k].unused
  <2>1. c.unused = << >> => Unused(c) = {}
    BY DEF Unused
  <2> QED
    BY <2>1, EntryFields DEF Good, Listed
<1> QED
  BY <1>2, <1>3, <1>4 DEF Within, Many

\* A block that is read takes the place that was made for it.
LEMMA ReadWithin ==
  ASSUME NEW c, Good(c), Within(c), NEW n \in Block, NEW a \in Addr,
         NEW d, d = Reference(ReadIntoCache(c, n, a), KeyOf(n))
  PROVE  Within(d)
<1>1. PICK room : room = MakeRoom(c)
  OBVIOUS
<1>2. PICK k \in Key : k = KeyOf(n)
  BY KeyOfType DEF Block
<1>3. PICK e0 : e0 = [number |-> n, data |-> a, refs |-> 0, unused |-> FALSE]
  OBVIOUS
<1>4. PICK r : r = ReadIntoCache(c, n, a)
  OBVIOUS
<1>5. Good(room)
  BY <1>1, MakeRoomGood
<1>6. /\ room.allocated \in Nat
      /\ room.hash \in [Key -> Entry \cup {Absent}]
  BY <1>5, GoodTypes
<1>7. /\ r = [hash |-> r.hash, unused |-> r.unused, allocated |-> r.allocated, memory |-> r.memory]
      /\ r.hash = [room.hash EXCEPT ![k] = e0]
      /\ r.unused = room.unused
      /\ r.allocated = room.allocated + 1
  BY <1>1, <1>2, <1>3, <1>4 DEF ReadIntoCache
<1>8. r.hash[k] = e0 /\ ~ e0.unused
  BY <1>3, <1>6, <1>7
<1>9. PICK e : e = [e0 EXCEPT !.refs = e0.refs + 1, !.unused = FALSE]
  OBVIOUS
<1>10. d = [r EXCEPT !.hash[k] = e, !.unused = r.unused]
  BY <1>2, <1>4, <1>8, <1>9 DEF Reference
<1>11. /\ d.hash = [r.hash EXCEPT ![k] = e]
       /\ d.unused = room.unused
       /\ d.allocated = room.allocated + 1
  BY <1>7, <1>10
<1>12. Cached(d) \subseteq Cached(room) \cup {k}
  BY <1>6, <1>7, <1>11 DEF Cached
<1>13. IsFiniteSet(Cached(room)) /\ Many(room) \in Nat /\ Many(d) \in Nat
  BY CachedFinite
<1>14. Many(d) <= Many(room) + 1
  <2>1. /\ IsFiniteSet(Cached(room) \cup {k})
        /\ Cardinality(Cached(room) \cup {k}) \in {Many(room), Many(room) + 1}
    BY <1>13, FS_AddElement DEF Many
  <2>2. Cardinality(Cached(d)) <= Cardinality(Cached(room) \cup {k})
    BY <1>12, <2>1, FS_Subset
  <2> QED
    BY <1>13, <2>1, <2>2 DEF Many
<1>15. /\ Many(room) <= room.allocated
       /\ Many(room) + 1 > kMaxBlockCount => room.unused = << >>
  BY <1>1, MakeRoomWithin
<1> QED
  BY <1>6, <1>11, <1>13, <1>14, <1>15, SizesAssumption DEF Within

\* The Unset that a holder begins with.
LEMMA UnsetWithin ==
  ASSUME IInv, Within(cache), NEW h \in Holder, NEW c, c = Unset(cache, held[h])
  PROVE  Within(c) /\ Good(c)
<1>1. Consistent(c, [held EXCEPT ![h] = NoBlock])
  BY UnsetConsistent DEF IInv
<1>2. CASE held[h] = NoBlock
  BY <1>1, <1>2 DEF Unset, Consistent
<1>3. CASE held[h] # NoBlock
  <2>1. PICK k : k = KeyOf(held[h].number)
    OBVIOUS
  <2>2. held[h].number \in Block /\ k \in Cached(cache)
    BY <1>3, <2>1 DEF IInv, Consistent, Pinned, Holders, Handle
  <2>3. h \in Keepers(held, k)
    BY <1>3, <2>1 DEF Keepers
  <2>4. cache.hash[k].refs = Cardinality(Keepers(held, k))
    BY <2>2 DEF IInv, Consistent, Counted
  <2>5. cache.hash[k].refs > 0
    <3>1. Cardinality(Keepers(held, k)) # 0 /\ Cardinality(Keepers(held, k)) \in Nat
      BY <2>3, KeepersFinite, FS_EmptySet, FS_CardinalityType
    <3> QED
      BY <2>4, <3>1
  <2>6. Good(cache) /\ c = PutBlock(cache, held[h].number)
    BY <1>3 DEF IInv, Consistent, Unset
  <2>7. Within(c)
    BY <2>1, <2>2, <2>5, <2>6, PutWithin
  <2> QED
    BY <1>1, <2>7 DEF Consistent
<1> QED
  BY <1>2, <1>3

\* Every step of a holder keeps the cache within its limit.
LEMMA NextWithin == IInv /\ Within(cache) /\ [Next]_vars => Within(cache')
<1> SUFFICES ASSUME IInv, Within(cache), [Next]_vars
             PROVE  Within(cache')
  OBVIOUS
<1>1. CASE UNCHANGED vars
  BY <1>1 DEF vars, Within, Many, Cached
<1>2. ASSUME NEW h \in Holder, NEW n \in Requested, SetTo(h, n)
      PROVE  Within(cache')
  <2>1. PICK c : c = Unset(cache, held[h])
    OBVIOUS
  <2>2. Within(c) /\ Good(c)
    BY <2>1, UnsetWithin
  <2>3. PICK d : d = cache'
    OBVIOUS
  <2>4. CASE SetToOutside(h, n)
    BY <2>1, <2>2, <2>4 DEF SetToOutside
  <2>5. CASE SetToCached(h, n)
    <3>1. PICK k : k = KeyOf(n)
      OBVIOUS
    <3>2. k \in Cached(c) /\ d = Reference(c, k)
      BY <2>1, <2>3, <2>5, <3>1, KeyOfType DEF SetToCached, Cached, Block
    <3> QED
      BY <2>2, <2>3, <3>2, ReferenceWithin
  <2>6. CASE SetToRead(h, n)
    <3>1. n \in Block /\ \E a \in Addr : d = Reference(ReadIntoCache(c, n, a), KeyOf(n))
      BY <2>1, <2>3, <2>6 DEF SetToRead
    <3> QED
      BY <2>2, <2>3, <3>1, ReadWithin
  <2>7. CASE SetToReadFails(h, n) \/ SetToNoMemory(h, n)
    <3>1. PICK room : room = MakeRoom(c)
      OBVIOUS
    <3>2. /\ Many(room) <= room.allocated
          /\ Many(room) + 1 > kMaxBlockCount => room.unused = << >>
      BY <2>2, <3>1, MakeRoomWithin
    <3>3. Good(room)
      BY <2>2, <3>1, MakeRoomGood
    <3>4. /\ room.allocated \in Nat /\ Many(room) \in Nat /\ kMaxBlockCount \in Nat
          /\ room = [hash |-> room.hash, unused |-> room.unused, allocated |-> room.allocated, memory |-> room.memory]
      BY <3>3, GoodTypes, CachedFinite, SizesAssumption
    <3>5. d = room \/ d = [room EXCEPT !.allocated = room.allocated + 1]
      BY <2>1, <2>3, <2>7, <3>1 DEF SetToReadFails, SetToNoMemory, ReadFailed
    <3>6. /\ d.hash = room.hash
          /\ d.unused = room.unused
          /\ d.allocated \in {room.allocated, room.allocated + 1}
      BY <3>4, <3>5
    <3>7. Many(d) = Many(room)
      BY <3>6 DEF Many, Cached
    <3> QED
      BY <2>3, <3>2, <3>4, <3>6, <3>7 DEF Within
  <2> QED
    BY <1>2, <2>4, <2>5, <2>6, <2>7 DEF SetTo
<1>3. ASSUME NEW h \in Holder, Release(h)
      PROVE  Within(cache')
  <2>1. PICK c : c = cache'
    OBVIOUS
  <2> QED
    BY <1>3, <2>1, UnsetWithin DEF Release
<1>4. ASSUME NEW h \in Holder, NEW g \in Holder \ {h}, Transfer(h, g)
      PROVE  Within(cache')
  BY <1>4 DEF Transfer
<1> QED
  BY <1>1, <1>2, <1>3, <1>4 DEF Next

\* RemoveUnusedBlocks, called by NewBlock and put_cached_block with what the count
\* is too high by, never leaves an unused block in a cache that is too large.
THEOREM CacheStaysWithinLimit == Spec => []StaysWithinLimit
<1>1. Init => Within(cache)
  <2> SUFFICES ASSUME Init PROVE Within(cache)
    OBVIOUS
  <2>1. Cached(cache) = {} /\ cache.allocated = 0 /\ cache.unused = << >>
    BY DEF Init, Cached
  <2> QED
    BY <2>1, FS_EmptySet DEF Within, Many
<1>2. Within(cache) => StaysWithinLimit
  BY DEF Within, Many, StaysWithinLimit
<1>3. IInv /\ Within(cache) /\ [Next]_vars => Within(cache)'
  BY NextWithin DEF Within, Many, Cached
<1> QED
  BY <1>1, <1>2, <1>3, CacheConsistent, PTL DEF Spec

-----------------------------------------------------------------------------
(* The order of the unused blocks.                                         *)

Oldest(c, n) == {c.unused[i] : i \in 1 .. n}

\* The n blocks of c that wait longest are gone from d.
DropsOldest(d, c, n) ==
  /\ n \in 0 .. Len(c.unused)
  /\ Cached(d) = Cached(c) \ Oldest(c, n)
  /\ Len(d.unused) = Len(c.unused) - n
  /\ \A i \in 1 .. Len(c.unused) - n : d.unused[i] = c.unused[i + n]

Drops(d, c) == \E n \in Nat : DropsOldest(d, c, n)

\* One more block waits in d at most, behind all others.
Joins(d, c) ==
  /\ Cached(d) = Cached(c)
  /\ d.unused = c.unused \/ \E x \in Key \ Unused(c) : d.unused = Append(c.unused, x)

\* One block less waits in d at most, because it is used.
Uses(d, c) ==
  /\ Cached(c) \subseteq Cached(d)
  /\ d.unused = c.unused \/ \E x \in Unused(c) : d.unused = Unlink(c.unused, x)

InOrder(c, d) ==
  /\ \A k, l \in Unused(c) : Before(c, k, l) /\ l \notin Cached(d) => k \notin Unused(d)
  /\ \A k \in Unused(c) \cap Unused(d), l \in Unused(d) \ Unused(c) : Before(d, k, l)

LEMMA GoodLists ==
  ASSUME NEW c, Good(c)
  PROVE  /\ c.unused \in Seq(Key) /\ Len(c.unused) \in Nat
         /\ Unused(c) \subseteq Cached(c)
         /\ \A i, j \in 1 .. Len(c.unused) : c.unused[i] = c.unused[j] => i = j
  BY DEF Good, CacheState, Listed

LEMMA DropsNone ==
  ASSUME NEW c, Good(c)
  PROVE  Drops(c, c)
<1>1. 0 \in Nat /\ 0 \in 0 .. Len(c.unused) /\ Len(c.unused) = Len(c.unused) - 0
      /\ \A i \in 1 .. Len(c.unused) - 0 : i + 0 = i
  BY GoodLists
<1>2. Oldest(c, 0) = {}
  BY DEF Oldest
<1> QED
  BY <1>1, <1>2 DEF Drops, DropsOldest

LEMMA RemoveUnusedInOrder ==
  ASSUME NEW c, Good(c), NEW count \in Nat, NEW d, d = RemoveUnusedBlocks(c, count)
  PROVE  Drops(d, c)
<1>1. PICK l \in Nat : l = Len(c.unused)
  BY GoodLists
<1>2. PICK n \in Nat : n = (IF count <= l THEN count ELSE l) /\ n <= l
  BY <1>1
<1>3. /\ d.hash = [k \in Key |-> IF k \in Oldest(c, n) THEN Absent ELSE c.hash[k]]
      /\ d.unused = [i \in 1 .. l - n |-> c.unused[i + n]]
  BY <1>1, <1>2 DEF RemoveUnusedBlocks, Oldest
<1>4. Cached(d) = Cached(c) \ Oldest(c, n)
  BY <1>3 DEF Cached
<1>5. Len(d.unused) = l - n
  BY <1>2, <1>3
<1>6. \A i \in 1 .. l - n : d.unused[i] = c.unused[i + n]
  BY ONLY <1>3, n \in Nat, l \in Nat
<1>7. n \in 0 .. l
  BY <1>2
<1>8. DropsOldest(d, c, n)
  BY ONLY <1>1, <1>4, <1>5, <1>6, <1>7 DEF DropsOldest
<1> QED
  BY ONLY n \in Nat, <1>8 DEF Drops

LEMMA DropsMore ==
  ASSUME NEW c, Good(c), NEW d, Good(d), Drops(d, c), NEW e, Drops(e, d)
  PROVE  Drops(e, c)
<1>1. PICK n \in Nat : DropsOldest(d, c, n)
  BY DEF Drops
<1>2. PICK m \in Nat : DropsOldest(e, d, m)
  BY DEF Drops
<1>3. PICK l \in Nat, k \in Nat : l = Len(c.unused) /\ k = Len(d.unused)
  BY GoodLists
<1>4. n \in 0 .. l /\ k = l - n /\ \A i \in 1 .. l - n : d.unused[i] = c.unused[i + n]
  BY <1>1, <1>3 DEF DropsOldest
<1>5. m \in 0 .. k /\ Len(e.unused) = k - m /\ \A i \in 1 .. k - m : e.unused[i] = d.unused[i + m]
  BY <1>2, <1>3 DEF DropsOldest
<1>6. n + m \in 0 .. l /\ Len(e.unused) = l - (n + m)
  BY <1>4, <1>5
<1>7. ASSUME NEW i \in 1 .. l - (n + m) PROVE e.unused[i] = c.unused[i + (n + m)]
  <2>1. i \in 1 .. k - m /\ i + m \in 1 .. l - n /\ (i + m) + n = i + (n + m)
    BY <1>4, <1>5
  <2> QED
    BY <1>4, <1>5, <2>1
<1>8. Oldest(c, n + m) = Oldest(c, n) \cup Oldest(d, m)
  <2>1. ASSUME NEW i \in 1 .. n + m PROVE c.unused[i] \in Oldest(c, n) \cup Oldest(d, m)
    <3>1. CASE i \in 1 .. n
      BY <3>1 DEF Oldest
    <3>2. CASE i \notin 1 .. n
      <4>1. i - n \in 1 .. m /\ i - n \in 1 .. l - n /\ (i - n) + n = i
        BY <1>4, <1>5, <3>2
      <4>2. d.unused[i - n] = c.unused[i]
        BY <1>4, <4>1
      <4> QED
        BY <4>1, <4>2 DEF Oldest
    <3> QED
      BY <3>1, <3>2
  <2>2. \A i \in 1 .. n : i \in 1 .. n + m
    OBVIOUS
  <2>3. \A i \in 1 .. m : i + n \in 1 .. n + m /\ i \in 1 .. l - n
    BY <1>4, <1>5
  <2>4. \A i \in 1 .. m : d.unused[i] = c.unused[i + n]
    BY <1>4, <2>3
  <2>5. Oldest(c, n + m) \subseteq Oldest(c, n) \cup Oldest(d, m)
    BY <2>1 DEF Oldest
  <2>6. Oldest(c, n) \subseteq Oldest(c, n + m) /\ Oldest(d, m) \subseteq Oldest(c, n + m)
    BY <2>2, <2>3, <2>4 DEF Oldest
  <2> QED
    BY <2>5, <2>6
<1>9. Cached(e) = Cached(c) \ Oldest(c, n + m)
  BY <1>1, <1>2, <1>8 DEF DropsOldest
<1>10. PICK t \in Nat : t = n + m
  OBVIOUS
<1>11. DropsOldest(e, c, t)
  <2>1. \A i \in 1 .. l - t : e.unused[i] = c.unused[i + t]
    BY ONLY <1>7, <1>10
  <2> QED
    BY ONLY <1>3, <1>6, <1>9, <1>10, <2>1 DEF DropsOldest
<1> QED
  BY ONLY t \in Nat, <1>11 DEF Drops

LEMMA MakeRoomInOrder ==
  ASSUME NEW c, Good(c), NEW d, d = MakeRoom(c)
  PROVE  Drops(d, c)
<1>1. CASE c.allocated >= kMaxBlockCount
  <2>1. c.allocated - kMaxBlockCount + 1 \in Nat
    BY <1>1, SizesAssumption DEF Good, CacheState
  <2>2. d = RemoveUnusedBlocks(c, c.allocated - kMaxBlockCount + 1)
    BY <1>1 DEF MakeRoom
  <2> QED
    BY <2>1, <2>2, RemoveUnusedInOrder
<1>2. CASE ~ (c.allocated >= kMaxBlockCount)
  BY <1>2, DropsNone DEF MakeRoom
<1> QED
  BY <1>1, <1>2

\* A put: the block may join the list, and then the oldest leave.
LEMMA UnsetInOrder ==
  ASSUME NEW c, NEW H, Consistent(c, H), NEW h \in Holder, NEW d, d = Unset(c, H[h])
  PROVE  \E m : Good(m) /\ Joins(m, c) /\ Drops(d, m)
<1>1. CASE H[h] = NoBlock
  <2>1. d = c /\ Good(c) /\ Joins(c, c)
    BY <1>1 DEF Unset, Consistent, Joins
  <2> QED
    BY <2>1, DropsNone
<1>2. CASE H[h] # NoBlock
  <2>1. PICK k : k = KeyOf(H[h].number)
    OBVIOUS
  <2>2. k \in Cached(c) /\ c.hash[k].refs > 0 /\ Good(c)
    BY <1>2, <2>1, KeptIsReferenced DEF Consistent
  <2>3. PICK m : m = Dereference(c, k)
    OBVIOUS
  <2>4. /\ Good(m)
        /\ m.hash = [c.hash EXCEPT ![k] = m.hash[k]]
        /\ m.hash[k] # Absent
    BY <2>2, <2>3, DereferenceGood
  <2>5. c.hash \in [Key -> Entry \cup {Absent}] /\ k \in Key /\ c.hash[k].refs \in Nat
    BY <2>2, EntryFields DEF Good, CacheState
  <2>6. Cached(m) = Cached(c)
    <3>1. \A l \in Key : l # k => m.hash[l] = c.hash[l]
      BY <2>4, <2>5
    <3> QED
      BY <2>2, <2>4, <3>1 DEF Cached
  <2>7. k \notin Unused(c)
    BY <2>2, <2>5 DEF Good, Listed
  <2>8. m.unused = c.unused \/ m.unused = Append(c.unused, k)
    <3>1. c = [hash |-> c.hash, unused |-> c.unused, allocated |-> c.allocated, memory |-> c.memory]
      BY <2>2 DEF Good, CacheState
    <3>2. CASE c.hash[k].refs - 1 = 0
      BY <2>3, <3>1, <3>2 DEF Dereference
    <3>3. CASE c.hash[k].refs - 1 # 0
      BY <2>3, <3>1, <3>3 DEF Dereference
    <3> QED
      BY <3>2, <3>3
  <2>9. Joins(m, c)
    BY <2>5, <2>6, <2>7, <2>8 DEF Joins
  <2>10. Drops(d, m)
    <3>1. CASE c.allocated > kMaxBlockCount
      <4>1. d = RemoveUnusedBlocks(m, c.allocated - kMaxBlockCount)
        BY <1>2, <2>1, <2>2, <2>3, <3>1 DEF Unset, PutBlock, Cached
      <4>2. c.allocated - kMaxBlockCount \in Nat
        BY <2>2, <3>1, SizesAssumption DEF Good, CacheState
      <4> QED
        BY <2>4, <4>1, <4>2, RemoveUnusedInOrder
    <3>2. CASE ~ (c.allocated > kMaxBlockCount)
      <4>1. d = m
        BY <1>2, <2>1, <2>2, <2>3, <3>2 DEF Unset, PutBlock, Cached
      <4> QED
        BY <2>4, <4>1, DropsNone
    <3> QED
      BY <3>1, <3>2
  <2> QED
    BY <2>4, <2>9, <2>10
<1> QED
  BY <1>1, <1>2

\* Taking out an element leaves the others in their order.
LEMMA UnlinkInOrder ==
  ASSUME NEW list \in Seq(Key), \A i, j \in 1 .. Len(list) : list[i] = list[j] => i = j,
         NEW x, \E i \in 1 .. Len(list) : list[i] = x,
         NEW i \in 1 .. Len(list), NEW j \in 1 .. Len(list), i < j, list[i] # x, list[j] # x
  PROVE  \E p, q \in 1 .. Len(list) - 1 : p < q /\ Unlink(list, x)[p] = list[i] /\ Unlink(list, x)[q] = list[j]
<1>1. PICK l \in Nat : l = Len(list)
  OBVIOUS
<1>2. PICK at \in 1 .. l : at = (CHOOSE k \in 1 .. Len(list) : list[k] = x) /\ list[at] = x
  BY <1>1
<1>3. Unlink(list, x) = [k \in 1 .. l - 1 |-> IF k < at THEN list[k] ELSE list[k + 1]]
  BY <1>1, <1>2 DEF Unlink
<1> DEFINE Place(k) == IF k < at THEN k ELSE k - 1
<1>4. ASSUME NEW k \in 1 .. l, list[k] # x
      PROVE  Place(k) \in 1 .. l - 1 /\ Unlink(list, x)[Place(k)] = list[k]
  <2>1. k # at
    BY <1>2, <1>4
  <2>2. CASE k < at
    BY <1>3, <2>2
  <2>3. CASE k > at
    <3>1. k - 1 \in 1 .. l - 1 /\ ~ (k - 1 < at) /\ (k - 1) + 1 = k
      BY <2>3
    <3> QED
      BY <1>3, <2>3, <3>1
  <2> QED
    BY <2>1, <2>2, <2>3
<1>5. Place(i) < Place(j)
  BY <1>1, <1>2
<1> HIDE DEF Place
<1> QED
  BY <1>1, <1>4, <1>5

LEMMA OrderKept ==
  ASSUME NEW c, Good(c), NEW b, Good(b), Joins(b, c), NEW d, Good(d), Drops(d, b), NEW e, Good(e), Uses(e, d)
  PROVE  InOrder(c, e)
<1>1. PICK n \in Nat : DropsOldest(d, b, n)
  BY DEF Drops
<1>2. PICK l \in Nat, k \in Nat : l = Len(b.unused) /\ k = Len(c.unused) /\ k <= l
      /\ \A i \in 1 .. k : b.unused[i] = c.unused[i]
  <2>1. c.unused \in Seq(Key) /\ Len(c.unused) \in Nat
    BY GoodLists
  <2>2. CASE b.unused = c.unused
    BY <2>1, <2>2
  <2>3. ASSUME NEW x \in Key, b.unused = Append(c.unused, x)
        PROVE  Len(b.unused) = Len(c.unused) + 1 /\ \A i \in 1 .. Len(c.unused) : b.unused[i] = c.unused[i]
    BY ONLY <2>1, <2>3
  <2>4. /\ Len(b.unused) \in Nat /\ Len(c.unused) <= Len(b.unused)
        /\ \A i \in 1 .. Len(c.unused) : b.unused[i] = c.unused[i]
    BY <2>1, <2>2, <2>3 DEF Joins
  <2> QED
    BY ONLY <2>1, <2>4
<1>3. n \in 0 .. l /\ Len(d.unused) = l - n /\ \A i \in 1 .. l - n : d.unused[i] = b.unused[i + n]
  BY <1>1, <1>2 DEF DropsOldest
<1>4. \A i, j \in 1 .. l : b.unused[i] = b.unused[j] => i = j
  BY <1>2, GoodLists
<1>5. Unused(e) \subseteq Unused(d)
  <2>1. CASE e.unused = d.unused
    BY <2>1 DEF Unused
  <2>2. ASSUME NEW x \in Unused(d), e.unused = Unlink(d.unused, x) PROVE Unused(e) \subseteq Unused(d)
    <3>1. d.unused \in Seq(Key) /\ x \in Key
      BY GoodLists DEF Unused, Cached
    <3>2. {Unlink(d.unused, x)[i] : i \in 1 .. Len(Unlink(d.unused, x))} = {d.unused[i] : i \in 1 .. Len(d.unused)} \ {x}
      BY <3>1, GoodLists, UnlinkList DEF Unused
    <3> QED
      BY <2>2, <3>2 DEF Unused
  <2> QED
    BY <2>1, <2>2 DEF Uses
<1>6. ASSUME NEW x \in Unused(d)
      PROVE  \E i \in 1 .. l : i > n /\ b.unused[i] = x
  <2>1. PICK i \in 1 .. l - n : d.unused[i] = x
    BY <1>3 DEF Unused
  <2>2. i + n \in 1 .. l /\ i + n > n /\ b.unused[i + n] = x
    BY <1>3, <2>1
  <2> QED
    BY <2>2
<1>7. ASSUME NEW x \in Unused(c), NEW y \in Unused(c), Before(c, x, y), y \notin Cached(e)
      PROVE  x \notin Unused(e)
  <2>1. PICK i \in 1 .. k, j \in 1 .. k : i < j /\ c.unused[i] = x /\ c.unused[j] = y
    <3>1. \E p, q \in 1 .. Len(c.unused) : p < q /\ c.unused[p] = x /\ c.unused[q] = y
      BY <1>7 DEF Before
    <3> QED
      BY ONLY <1>2, <3>1
  <2>2. y \in Cached(b) /\ y \notin Cached(d)
    BY <1>7, GoodLists DEF Joins, Uses
  <2>3. PICK m \in 1 .. n : b.unused[m] = y
    BY <1>1, <2>2 DEF DropsOldest, Oldest
  <2>4. m = j
    BY <1>2, <1>3, <1>4, <2>1, <2>3
  <2>5. \A p \in 1 .. l : p > n => b.unused[p] # x
    <3>1. b.unused[i] = x /\ i < n /\ i \in 1 .. l
      BY <1>2, <2>1, <2>3, <2>4
    <3> QED
      BY <1>4, <3>1
  <2> QED
    BY <1>5, <1>6, <2>5
<1>8. ASSUME NEW x \in Unused(c) \cap Unused(e), NEW y \in Unused(e) \ Unused(c)
      PROVE  Before(e, x, y)
  <2>1. PICK i \in 1 .. l, j \in 1 .. l : i > n /\ b.unused[i] = x /\ j > n /\ b.unused[j] = y
    BY <1>5, <1>6
  <2>2. j > k
    <3>1. ASSUME j \in 1 .. k PROVE FALSE
      BY <1>2, <2>1, <3>1 DEF Unused
    <3> QED
      BY <3>1
  <2>3. i \in 1 .. k
    <3>1. PICK p \in 1 .. k : c.unused[p] = x
      BY <1>2 DEF Unused
    <3>2. p = i
      BY <1>2, <1>4, <2>1, <3>1
    <3> QED
      BY <3>2
  <2>4. i - n \in 1 .. l - n /\ j - n \in 1 .. l - n /\ i - n < j - n
    BY <1>3, <2>1, <2>2, <2>3
  <2>5. d.unused[i - n] = x /\ d.unused[j - n] = y
    BY <1>3, <2>1, <2>4
  <2>6. CASE e.unused = d.unused
    BY <1>3, <2>4, <2>5, <2>6 DEF Before
  <2>7. ASSUME NEW z \in Unused(d), e.unused = Unlink(d.unused, z) PROVE Before(e, x, y)
    <3>1. d.unused \in Seq(Key) /\ z \in Key /\ \E p \in 1 .. Len(d.unused) : d.unused[p] = z
      BY GoodLists DEF Unused, Cached
    <3>2. \A p, q \in 1 .. Len(d.unused) : d.unused[p] = d.unused[q] => p = q
      BY GoodLists
    <3>3. /\ Len(Unlink(d.unused, z)) = Len(d.unused) - 1
          /\ {Unlink(d.unused, z)[p] : p \in 1 .. Len(Unlink(d.unused, z))} = {d.unused[p] : p \in 1 .. Len(d.unused)} \ {z}
      BY ONLY <3>1, <3>2, z \in Key, UnlinkList
    <3>4. x # z /\ y # z
      <4>1. Unused(e) = Unused(d) \ {z}
        BY <2>7, <3>3 DEF Unused
      <4> QED
        BY <1>8, <4>1
    <3>5. i - n \in 1 .. Len(d.unused) /\ j - n \in 1 .. Len(d.unused)
      BY <1>3, <2>4
    <3>6. PICK p \in 1 .. Len(d.unused) - 1, q \in 1 .. Len(d.unused) - 1 :
            p < q /\ Unlink(d.unused, z)[p] = d.unused[i - n] /\ Unlink(d.unused, z)[q] = d.unused[j - n]
      <4>1. PICK list : list = d.unused
        OBVIOUS
      <4>2. PICK p0 \in Int, q0 \in Int : p0 = i - n /\ q0 = j - n
        OBVIOUS
      <4>3. /\ list \in Seq(Key) /\ \A p, q \in 1 .. Len(list) : list[p] = list[q] => p = q
            /\ \E p \in 1 .. Len(list) : list[p] = z
        BY ONLY <3>1, <3>2, <4>1
      <4>4. /\ p0 \in 1 .. Len(list) /\ q0 \in 1 .. Len(list) /\ p0 < q0
            /\ list[p0] # z /\ list[q0] # z
        BY ONLY <2>4, <2>5, <3>4, <3>5, <4>1, <4>2
      <4>5. \E p, q \in 1 .. Len(list) - 1 :
              p < q /\ Unlink(list, z)[p] = list[p0] /\ Unlink(list, z)[q] = list[q0]
        BY ONLY <4>3, <4>4, UnlinkInOrder
      <4> QED
        BY ONLY <4>1, <4>2, <4>5
    <3> QED
      BY <2>5, <2>7, <3>3, <3>6 DEF Before
  <2> QED
    BY <2>6, <2>7 DEF Uses
<1> QED
  BY <1>7, <1>8 DEF InOrder

LEMMA ReferenceInOrder ==
  ASSUME NEW c, Good(c), NEW k \in Cached(c), NEW d, d = Reference(c, k)
  PROVE  Uses(d, c)
<1>1. /\ d.hash = [c.hash EXCEPT ![k] = d.hash[k]] /\ d.hash[k] # Absent
  BY ReferenceGood
<1>2. c.hash \in [Key -> Entry \cup {Absent}] /\ k \in Key
      /\ c = [hash |-> c.hash, unused |-> c.unused, allocated |-> c.allocated, memory |-> c.memory]
  BY DEF Good, CacheState, Cached
<1>3. Cached(c) \subseteq Cached(d)
  BY <1>1, <1>2 DEF Cached
<1>4. d.unused = IF c.hash[k].unused THEN Unlink(c.unused, k) ELSE c.unused
  BY <1>2 DEF Reference
<1>5. c.hash[k].unused => k \in Unused(c)
  BY DEF Good, Listed
<1> QED
  BY <1>3, <1>4, <1>5 DEF Uses

LEMMA ReadInOrder ==
  ASSUME NEW c, Good(c), NEW n \in Block, NEW a \in Addr, c.hash[KeyOf(n)] = Absent,
         NEW room, room = MakeRoom(c), room.memory[a] = Free,
         NEW d, d = Reference(ReadIntoCache(c, n, a), KeyOf(n))
  PROVE  Uses(d, room)
<1>1. /\ d.hash = [room.hash EXCEPT ![KeyOf(n)] = d.hash[KeyOf(n)]]
      /\ d.hash[KeyOf(n)] # Absent
  BY ReadGood
<1>2. Good(room) /\ KeyOf(n) \in Key
  BY MakeRoomGood, KeyOfType DEF Block
<1>3. room.hash \in [Key -> Entry \cup {Absent}]
  BY <1>2 DEF Good, CacheState
<1>4. Cached(room) \subseteq Cached(d)
  BY <1>1, <1>2, <1>3 DEF Cached
<1>5. PICK m : m = ReadIntoCache(c, n, a)
  OBVIOUS
<1>6. m.unused = room.unused /\ m.hash[KeyOf(n)].unused = FALSE
  BY <1>2, <1>3, <1>5 DEF ReadIntoCache
<1>7. d.unused = room.unused
  <2>1. m = [hash |-> m.hash, unused |-> m.unused, allocated |-> m.allocated, memory |-> m.memory]
    BY <1>5 DEF ReadIntoCache
  <2> QED
    BY <1>5, <1>6, <2>1 DEF Reference
<1> QED
  BY <1>4, <1>7 DEF Uses

LEMMA NextInOrder == IInv /\ IInv' /\ [Next]_vars => InOrder(cache, cache')
<1> SUFFICES ASSUME Consistent(cache, held), Good(cache'), [Next]_vars
             PROVE  InOrder(cache, cache')
  BY DEF IInv, Consistent
<1>1. Good(cache)
  BY DEF Consistent
<1>2. CASE cache' = cache
  BY <1>1, <1>2, GoodLists DEF InOrder
<1>3. ASSUME NEW h \in Holder, NEW d, Good(d), Drops(d, Unset(cache, held[h])), Uses(cache', d)
      PROVE  InOrder(cache, cache')
  <2>1. PICK c : c = Unset(cache, held[h])
    OBVIOUS
  <2>2. PICK m : Good(m) /\ Joins(m, cache) /\ Drops(c, m)
    BY <2>1, UnsetInOrder
  <2>3. PICK H : H = [held EXCEPT ![h] = NoBlock]
    OBVIOUS
  <2>4. Good(c)
    BY <2>1, <2>3, UnsetConsistent DEF Consistent
  <2>5. Drops(d, m)
    BY <1>3, <2>1, <2>2, <2>4, DropsMore
  <2> QED
    BY <1>1, <1>3, <2>2, <2>5, OrderKept
<1>4. ASSUME NEW h \in Holder, NEW n \in Requested, SetTo(h, n)
      PROVE  InOrder(cache, cache')
  <2>1. PICK c : c = Unset(cache, held[h])
    OBVIOUS
  <2>2. PICK H : H = [held EXCEPT ![h] = NoBlock]
    OBVIOUS
  <2>3. Good(c) /\ Drops(c, c)
    BY <2>1, <2>2, UnsetConsistent, DropsNone DEF Consistent
  <2>4. \A d : Uses(d, d)
    BY DEF Uses
  <2>5. PICK room : room = MakeRoom(c)
    OBVIOUS
  <2>6. Good(room) /\ Drops(room, c)
    BY <2>3, <2>5, MakeRoomGood, MakeRoomInOrder
  <2>7. CASE SetToOutside(h, n)
    BY <1>3, <2>1, <2>3, <2>4, <2>7 DEF SetToOutside
  <2>8. CASE SetToCached(h, n)
    <3>1. KeyOf(n) \in Cached(c) /\ cache' = Reference(c, KeyOf(n))
      BY <2>1, <2>8, KeyOfType DEF SetToCached, Cached, Block
    <3>2. Uses(cache', c)
      BY <2>3, <3>1, ReferenceInOrder
    <3> QED
      BY <1>3, <2>1, <2>3, <3>2
  <2>9. CASE SetToRead(h, n)
    <3>1. n \in Block /\ c.hash[KeyOf(n)] = Absent
      BY <2>1, <2>9 DEF SetToRead
    <3>2. PICK a \in Addr : room.memory[a] = Free /\ cache' = Reference(ReadIntoCache(c, n, a), KeyOf(n))
      BY <2>1, <2>5, <2>9 DEF SetToRead
    <3>3. Uses(cache', room)
      BY <2>3, <2>5, <3>1, <3>2, ReadInOrder
    <3> QED
      BY <1>3, <2>1, <2>6, <3>3
  <2>10. CASE SetToReadFails(h, n)
    <3>1. cache' = [room EXCEPT !.allocated = room.allocated + 1]
      BY <2>1, <2>5, <2>10 DEF SetToReadFails, ReadFailed
    <3>2. cache'.hash = room.hash /\ cache'.unused = room.unused
      BY <2>6, <3>1 DEF Good, CacheState
    <3>3. Uses(cache', room)
      BY <3>2 DEF Uses, Cached
    <3> QED
      BY <1>3, <2>1, <2>6, <3>3
  <2>11. CASE SetToNoMemory(h, n)
    <3>1. cache' = room
      BY <2>1, <2>5, <2>11 DEF SetToNoMemory
    <3> QED
      BY <1>3, <2>1, <2>4, <2>6, <3>1
  <2> QED
    BY <1>4, <2>7, <2>8, <2>9, <2>10, <2>11 DEF SetTo
<1>5. ASSUME NEW h \in Holder, Release(h) PROVE InOrder(cache, cache')
  <2>1. cache' = Unset(cache, held[h])
    BY <1>5 DEF Release
  <2>2. PICK c : c = cache'
    OBVIOUS
  <2>3. Good(c) /\ Drops(c, c) /\ Uses(c, c)
    BY <2>2, DropsNone DEF Uses
  <2> QED
    BY <1>3, <2>1, <2>2, <2>3
<1> QED
  BY <1>2, <1>4, <1>5 DEF Next, Transfer, vars

\* RemoveUnusedBlocks takes the blocks from the front of the list and
\* put_cached_block puts them behind it: a block that leaves the cache was
\* released before all that stay unused, whatever was read and released in
\* between.
THEOREM CacheEvictsOldest == Spec => OldestLeaveFirst
<1>1. IInv /\ IInv' /\ [Next]_vars =>
        [/\ \A k, l \in Unused(cache) :
              Before(cache, k, l) /\ l \notin Cached(cache') => k \notin Unused(cache')
         /\ \A k \in Unused(cache) \cap Unused(cache'), l \in Unused(cache') \ Unused(cache) :
              Before(cache', k, l)]_vars
  BY NextInOrder DEF InOrder
<1>2. Spec => [][Next]_vars
  BY DEF Spec
<1> QED
  BY <1>1, <1>2, CacheConsistent, PTL DEF OldestLeaveFirst

-----------------------------------------------------------------------------
(* The cache implements BlockStore.                                        *)


\* What the holders asked for, as a function of what they hold.
Asked(H) == [h \in Holder |-> IF H[h] = NoBlock THEN NoBlock ELSE H[h].number]

\* What they see in the buffers of a cache.
Seen(c, H) == [h \in Holder |-> IF H[h] = NoBlock THEN NoBlock ELSE c.memory[H[h].data]]

\* A holder that reads its own block sees what it asked for.
LEMMA SeenIsAsked == HoldersReadTheirBlock => Seen(cache, held) = Asked(held)
  BY DEF HoldersReadTheirBlock, Seen, Asked

\* A holder that lets go, or got nothing, asks for nothing.
LEMMA AskedCleared ==
  ASSUME NEW H \in Holders, NEW h \in Holder, 
         NEW G, \A f \in Holder : G[f] = IF f = h THEN NoBlock ELSE H[f]
  PROVE  Asked(G) = [Asked(H) EXCEPT ![h] = NoBlock]
  BY DEF Asked

\* A holder that got a block asks for that block.
LEMMA AskedRead ==
  ASSUME NEW H \in Holders, NEW h \in Holder, NEW handle \in Handle,
         NEW G, \A f \in Holder : G[f] = IF f = h THEN handle ELSE H[f]
  PROVE  Asked(G) = [Asked(H) EXCEPT ![h] = handle.number]
<1>1. handle # NoBlock
  BY SentinelAssumption
<1> QED
  BY <1>1 DEF Asked

\* A block that is handed over is asked for by the other holder.
LEMMA AskedMoved ==
  ASSUME NEW H \in Holders, NEW h \in Holder, NEW g \in Holder \ {h}, H[g] = NoBlock,
         NEW G, \A f \in Holder : G[f] = IF f = h THEN NoBlock ELSE IF f = g THEN H[h] ELSE H[f]
  PROVE  /\ Asked(G) = [Asked(H) EXCEPT ![g] = Asked(H)[h], ![h] = NoBlock]
         /\ Asked(H)[g] = NoBlock
  BY DEF Asked

\* A step of a holder is a step of the store, as far as it shows.
LEMMA StepIsStoreStep ==
  ASSUME IInv, HoldersReadTheirBlock, HoldersReadTheirBlock', [Next]_vars
  PROVE  [Store!StoreNext]_(Store!StoreVars)
<1> DEFINE A == Asked(held)
           B == Asked(held')
<1>1. held \in Holders /\ cache \in CacheState
  BY DEF IInv, Consistent, Good
<1>2. Seen(cache, held) = A
  BY SeenIsAsked
<1>3. Seen(cache', held') = B
  BY DEF HoldersReadTheirBlock, Seen, Asked
<1>4. SUFFICES \/ B = A
               \/ \E h \in Holder :
                    \/ \E b \in Block : B = [A EXCEPT ![h] = b]
                    \/ B = [A EXCEPT ![h] = NoBlock]
                    \/ \E g \in Holder \ {h} : A[g] = NoBlock /\ B = [A EXCEPT ![g] = A[h], ![h] = NoBlock]
  <2>1. B = A => UNCHANGED Store!StoreVars
    BY <1>2, <1>3 DEF Store!StoreVars, Asked, Seen
  <2>2. ASSUME NEW h \in Holder, NEW b \in Block, B = [A EXCEPT ![h] = b]
        PROVE  Store!Read(h, b)
    BY <1>2, <1>3, <2>2 DEF Store!Read, Asked, Seen
  <2>3. ASSUME NEW h \in Holder, B = [A EXCEPT ![h] = NoBlock]
        PROVE  Store!Clear(h)
    BY <1>2, <1>3, <2>3 DEF Store!Clear, Asked, Seen
  <2>4. ASSUME NEW h \in Holder, NEW g \in Holder \ {h},
               A[g] = NoBlock, B = [A EXCEPT ![g] = A[h], ![h] = NoBlock]
        PROVE  Store!Move(h, g)
    BY <1>2, <1>3, <2>4 DEF Store!Move, Asked, Seen
  <2> HIDE DEF A, B
  <2> QED
    BY <2>1, <2>2, <2>3, <2>4 DEF Store!StoreNext
<1>5. CASE UNCHANGED vars
  BY <1>5 DEF vars
<1>6. ASSUME NEW h \in Holder, NEW n \in Requested, SetTo(h, n)
      PROVE  \/ \E b \in Block : B = [A EXCEPT ![h] = b]
             \/ B = [A EXCEPT ![h] = NoBlock]
  <2>1. CASE held' = [held EXCEPT ![h] = NoBlock]
    <3>1. \A f \in Holder : held'[f] = IF f = h THEN NoBlock ELSE held[f]
      BY <1>1, <2>1 DEF Holders
    <3>2. PICK G : G = held'
      OBVIOUS
    <3> QED
      BY <1>1, <3>1, <3>2, AskedCleared
  <2>2. ASSUME NEW a \in Addr, n \in Block, held' = [held EXCEPT ![h] = [number |-> n, data |-> a]]
        PROVE  \E b \in Block : B = [A EXCEPT ![h] = b]
    <3>1. PICK handle \in Handle : handle = [number |-> n, data |-> a]
      BY <2>2 DEF Handle
    <3>2. \A f \in Holder : held'[f] = IF f = h THEN handle ELSE held[f]
      BY <1>1, <2>2, <3>1 DEF Holders
    <3>3. PICK G : G = held'
      OBVIOUS
    <3>4. Asked(G) = [A EXCEPT ![h] = handle.number]
      BY <1>1, <3>2, <3>3, AskedRead
    <3>5. handle.number = n
      BY <3>1
    <3> HIDE DEF A
    <3> QED
      BY <2>2, <3>3, <3>4, <3>5
  <2>3. CASE SetToCached(h, n)
    <3>1. PICK c : c = Unset(cache, held[h])
      OBVIOUS
    <3>2. Consistent(c, [held EXCEPT ![h] = NoBlock])
      BY <3>1, UnsetConsistent DEF IInv
    <3>3. n \in Block /\ c.hash[KeyOf(n)].data \in Addr
      BY <2>3, <3>1, <3>2, KeyOfType, EntryFields DEF SetToCached, Consistent, Good, Cached, Block
    <3>4. held' = [held EXCEPT ![h] = [number |-> n, data |-> c.hash[KeyOf(n)].data]]
      BY <2>3, <3>1 DEF SetToCached
    <3> QED
      BY <2>2, <3>3, <3>4
  <2>4. CASE SetToRead(h, n)
    BY <2>2, <2>4 DEF SetToRead
  <2> QED
    BY <1>6, <2>1, <2>3, <2>4 DEF SetTo, SetToOutside, SetToReadFails, SetToNoMemory
<1>7. ASSUME NEW h \in Holder, Release(h)
      PROVE  B = [A EXCEPT ![h] = NoBlock]
  <2>1. \A f \in Holder : held'[f] = IF f = h THEN NoBlock ELSE held[f]
    BY <1>1, <1>7 DEF Holders, Release
  <2>2. PICK G : G = held'
    OBVIOUS
  <2> QED
    BY <1>1, <2>1, <2>2, AskedCleared
<1>8. ASSUME NEW h \in Holder, NEW g \in Holder \ {h}, Transfer(h, g)
      PROVE  A[g] = NoBlock /\ B = [A EXCEPT ![g] = A[h], ![h] = NoBlock]
  <2>1. /\ held[g] = NoBlock
        /\ \A f \in Holder : held'[f] = IF f = h THEN NoBlock ELSE IF f = g THEN held[h] ELSE held[f]
    BY <1>1, <1>8 DEF Holders, Transfer
  <2>2. PICK G : G = held'
    OBVIOUS
  <2> QED
    BY <1>1, <2>1, <2>2, AskedMoved
<1> HIDE DEF A, B
<1> QED
  BY <1>5, <1>6, <1>7, <1>8 DEF Next

\* On volumes of at most 2^32 blocks, reading through the block cache is reading
\* the disk: SetTo, Unset and Keep do to what an object sees what BlockStore says.
THEOREM CacheImplementsStore ==
  ASSUME MaxBlocks <= KeyModulus
  PROVE  Spec => ImplementsStore
<1>1. Init => Store!StoreInit
  BY DEF Init, Store!StoreInit
<1>2. IInv /\ HoldersReadTheirBlock /\ HoldersReadTheirBlock' /\ [Next]_vars => [Store!StoreNext]_(Store!StoreVars)
  BY StepIsStoreStep
<1>3. Spec => []HoldersReadTheirBlock
  BY HoldersReadRight
<1> QED
  BY <1>1, <1>2, <1>3, CacheConsistent, PTL DEF Spec, ImplementsStore, Store!StoreSpec
=============================================================================
