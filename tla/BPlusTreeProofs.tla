--------------------------- MODULE BPlusTreeProofs ---------------------------
(***************************************************************************)
(* The B+tree is a dictionary and overfills none of its nodes, for every   *)
(* set of keys, every length they have up to what a split can cope with    *)
(* (KeysAreShort, HalvesHaveRoom), every size of a node and every number   *)
(* of nodes.                                                               *)
(*                                                                         *)
(* The argument: what Find returns depends only on the shape of the tree,  *)
(* the nodes that can be reached with their entries and overflow links.    *)
(* A shape is a search tree (SearchTree) when every node has a height and  *)
(* a set of keys that are looked for below it (its span) so that each way  *)
(* down leads one lower and takes just the part of the span that lies      *)
(* between its two keys, and no two ways lead to one node.  For every key  *)
(* Find ends in the one leaf whose span has it, so what a search tree      *)
(* shows is what its leaves hold (Shows).                                  *)
(*                                                                         *)
(* Insert works from the leaf upwards.  From the first turn on the new     *)
(* entry belongs to the shape, and the stored tree lacks just that entry,  *)
(* in the node on top of the stack (Growing).  A split makes the upper     *)
(* half known to the shape at once, and then the entry that the parent     *)
(* lacks is the one for the other half.  Remove takes the key out of the   *)
(* shape first; while it goes up, one way of the node on top of the stack  *)
(* leads nowhere (Shrinking), and no key is looked for there.              *)
(*                                                                         *)
(* Free nodes are a list through marked nodes, in which none comes twice   *)
(* (FreeSound), so a node that is allocated is not part of the tree.       *)
(***************************************************************************)
EXTENDS BPlusTree, InductionLemmas

-----------------------------------------------------------------------------
(* Sequences.                                                              *)

LEMMA Joined ==
  ASSUME NEW S, NEW a \in Seq(S), NEW b \in Seq(S)
  PROVE  /\ a \o b \in Seq(S)
         /\ Len(a \o b) = Len(a) + Len(b)
         /\ \A j \in 1 .. Len(a) + Len(b) : (a \o b)[j] = IF j <= Len(a) THEN a[j] ELSE b[j - Len(a)]
  OBVIOUS

LEMMA PartIs ==
  ASSUME NEW S, NEW e \in Seq(S), NEW a \in 1 .. Len(e) + 1, NEW b \in 0 .. Len(e), a <= b + 1
  PROVE  /\ SubSeq(e, a, b) \in Seq(S) /\ Len(SubSeq(e, a, b)) = b - a + 1
         /\ \A j \in 1 .. b - a + 1 : SubSeq(e, a, b)[j] = e[a + j - 1]
  OBVIOUS

LEMMA InsertAtIs ==
  ASSUME NEW S, NEW e \in Seq(S), NEW i \in 1 .. Len(e) + 1, NEW x \in S
  PROVE  /\ InsertAt(e, i, x) \in Seq(S)
         /\ Len(InsertAt(e, i, x)) = Len(e) + 1
         /\ \A j \in 1 .. Len(e) + 1 :
              InsertAt(e, i, x)[j] = IF j < i THEN e[j] ELSE IF j = i THEN x ELSE e[j - 1]
<1>1. PICK n \in Nat : n = Len(e)
  OBVIOUS
<1>2. i \in Int /\ 1 <= i /\ i <= n + 1
  BY <1>1
<1> DEFINE front == SubSeq(e, 1, i - 1)
           back == SubSeq(e, i, Len(e))
           head == front \o <<x>>
           all == InsertAt(e, i, x)
<1>3. front \in Seq(S) /\ Len(front) = i - 1 /\ \A j \in 1 .. i - 1 : front[j] = e[j]
  BY <1>1, <1>2
<1>4. back \in Seq(S) /\ Len(back) = n - i + 1 /\ \A j \in 1 .. n - i + 1 : back[j] = e[i + j - 1]
  BY <1>1, <1>2
<1>5. all = head \o back
  BY DEF InsertAt
<1>6. <<x>> \in Seq(S) /\ Len(<<x>>) = 1 /\ <<x>>[1] = x
  OBVIOUS
<1> HIDE DEF front, back, all
<1>7. head \in Seq(S) /\ Len(head) = i /\ \A j \in 1 .. i : head[j] = IF j <= i - 1 THEN front[j] ELSE <<x>>[j - (i - 1)]
  BY ONLY <1>2, <1>3, <1>6, Joined
<1> HIDE DEF head
<1>8. all \in Seq(S) /\ Len(all) = n + 1 /\ \A j \in 1 .. n + 1 : all[j] = IF j <= i THEN head[j] ELSE back[j - i]
  <2>1. /\ head \o back \in Seq(S) /\ Len(head \o back) = Len(head) + Len(back)
        /\ \A j \in 1 .. Len(head) + Len(back) :
             (head \o back)[j] = IF j <= Len(head) THEN head[j] ELSE back[j - Len(head)]
    BY ONLY <1>4, <1>7, Joined
  <2>2. Len(head) + Len(back) = n + 1
    BY <1>1, <1>2, <1>4, <1>7
  <2> QED
    BY <1>5, <1>7, <2>1, <2>2
<1>9. \A j \in 1 .. n + 1 : all[j] = IF j < i THEN e[j] ELSE IF j = i THEN x ELSE e[j - 1]
  <2> SUFFICES ASSUME NEW j \in 1 .. n + 1
               PROVE  all[j] = IF j < i THEN e[j] ELSE IF j = i THEN x ELSE e[j - 1]
    OBVIOUS
  <2>1. CASE j < i
    <3>1. j \in 1 .. i - 1 /\ j \in 1 .. i /\ j <= i
      BY <1>2, <2>1
    <3> QED
      BY <1>3, <1>7, <1>8, <2>1, <3>1
  <2>2. CASE j = i
    <3>1. j \in 1 .. i /\ j - (i - 1) = 1 /\ ~ (j <= i - 1) /\ j <= i
      BY <1>2, <2>2
    <3> QED
      BY <1>6, <1>7, <1>8, <2>2, <3>1
  <2>3. CASE j > i
    <3>1. j - i \in 1 .. n - i + 1 /\ i + (j - i) - 1 = j - 1 /\ ~ (j <= i)
      BY <1>1, <1>2, <2>3
    <3>2. all[j] = back[j - i]
      BY <1>8, <3>1
    <3>3. back[j - i] = e[i + (j - i) - 1]
      BY <1>4, <3>1
    <3>4. ~ (j < i) /\ j # i
      BY <1>2, <2>3
    <3> QED
      BY <3>1, <3>2, <3>3, <3>4
  <2> QED
    BY <1>2, <2>1, <2>2, <2>3
<1> QED
  BY <1>1, <1>8, <1>9 DEF all

LEMMA RemoveAtIs ==
  ASSUME NEW S, NEW e \in Seq(S), NEW i \in 1 .. Len(e)
  PROVE  /\ RemoveAt(e, i) \in Seq(S)
         /\ Len(RemoveAt(e, i)) = Len(e) - 1
         /\ \A j \in 1 .. Len(e) - 1 : RemoveAt(e, i)[j] = IF j < i THEN e[j] ELSE e[j + 1]
<1>1. PICK n \in Nat : n = Len(e)
  OBVIOUS
<1>2. i \in Int /\ 1 <= i /\ i <= n
  BY <1>1
<1> DEFINE front == SubSeq(e, 1, i - 1)
           back == SubSeq(e, i + 1, Len(e))
           all == RemoveAt(e, i)
<1>3. front \in Seq(S) /\ Len(front) = i - 1 /\ \A j \in 1 .. i - 1 : front[j] = e[j]
  BY <1>1, <1>2
<1>4. back \in Seq(S) /\ Len(back) = n - i /\ \A j \in 1 .. n - i : back[j] = e[i + j]
  BY <1>1, <1>2
<1>5. all = front \o back
  BY DEF RemoveAt
<1> HIDE DEF front, back, all
<1>6. all \in Seq(S) /\ Len(all) = n - 1 /\ \A j \in 1 .. n - 1 : all[j] = IF j <= i - 1 THEN front[j] ELSE back[j - (i - 1)]
  <2>1. /\ front \o back \in Seq(S) /\ Len(front \o back) = Len(front) + Len(back)
        /\ \A j \in 1 .. Len(front) + Len(back) :
             (front \o back)[j] = IF j <= Len(front) THEN front[j] ELSE back[j - Len(front)]
    BY ONLY <1>3, <1>4, Joined
  <2>2. Len(front) + Len(back) = n - 1
    BY <1>1, <1>2, <1>3, <1>4
  <2> QED
    BY <1>3, <1>5, <2>1, <2>2
<1>7. \A j \in 1 .. n - 1 : all[j] = IF j < i THEN e[j] ELSE e[j + 1]
  <2> SUFFICES ASSUME NEW j \in 1 .. n - 1
               PROVE  all[j] = IF j < i THEN e[j] ELSE e[j + 1]
    OBVIOUS
  <2>1. CASE j < i
    <3>1. j \in 1 .. i - 1 /\ j <= i - 1
      BY <1>2, <2>1
    <3> QED
      BY <1>3, <1>6, <2>1, <3>1
  <2>2. CASE ~ (j < i)
    <3>1. j - (i - 1) \in 1 .. n - i /\ i + (j - (i - 1)) = j + 1 /\ ~ (j <= i - 1)
      BY <1>1, <1>2, <2>2
    <3>2. all[j] = back[j - (i - 1)]
      BY <1>6, <3>1
    <3>3. back[j - (i - 1)] = e[i + (j - (i - 1))]
      BY <1>4, <3>1
    <3> QED
      BY <2>2, <3>1, <3>2, <3>3
  <2> QED
    BY <2>1, <2>2
<1> QED
  BY <1>1, <1>6, <1>7 DEF all

LEMMA FrontIs ==
  ASSUME NEW S, NEW e \in Seq(S), e # <<>>
  PROVE  /\ Front(e) \in Seq(S) /\ Len(Front(e)) = Len(e) - 1 /\ Len(e) \in Nat \ {0}
         /\ \A j \in 1 .. Len(e) - 1 : Front(e)[j] = e[j]
         /\ Last(e) = e[Len(e)] /\ Last(e) \in S
<1>1. PICK n \in Nat : n = Len(e) /\ n # 0
  OBVIOUS
<1>2. 1 \in 1 .. Len(e) + 1 /\ n - 1 \in 0 .. Len(e) /\ 1 <= (n - 1) + 1
  BY <1>1
<1>3. /\ SubSeq(e, 1, n - 1) \in Seq(S) /\ Len(SubSeq(e, 1, n - 1)) = (n - 1) - 1 + 1
      /\ \A j \in 1 .. (n - 1) - 1 + 1 : SubSeq(e, 1, n - 1)[j] = e[1 + j - 1]
  BY ONLY <1>2, e \in Seq(S), PartIs
<1>4. (n - 1) - 1 + 1 = n - 1 /\ \A j \in 1 .. n - 1 : 1 + j - 1 = j
  BY <1>1
<1>5. Front(e) = SubSeq(e, 1, n - 1) /\ Last(e) = e[n]
  BY <1>1 DEF Front, Last
<1>6. e[n] \in S
  BY <1>1
<1> QED
  BY <1>1, <1>3, <1>4, <1>5, <1>6

LEMMA ElementIs ==
  ASSUME NEW S, NEW e \in Seq(S)
  PROVE  Len(e) \in Nat /\ \A i \in 1 .. Len(e) : e[i] \in S
  OBVIOUS

-----------------------------------------------------------------------------
(* Keys of a node.                                                         *)

\* The keys of entries are ascending.
Ascending(e) == \A i, j \in 1 .. Len(e) : i < j => e[i].key < e[j].key

\* The way for key k leads behind the first i entries.
Between(e, i, k) ==
  /\ i > 0 => e[i].key < k
  /\ i < Len(e) => k <= e[i + 1].key

LEMMA KeysAreNumbers == Key \subseteq Nat /\ Key \subseteq Int /\ \A k \in Key : k > 0
  BY NodesAssumption

LEMMA EntryIs ==
  ASSUME NEW e \in Seq(Entry)
  PROVE  \A i \in 1 .. Len(e) : /\ e[i] \in Entry /\ e[i].key \in Key /\ e[i].key \in Nat /\ e[i].key \in Int
                                 /\ e[i].value \in Nat
<1>1. \A i \in 1 .. Len(e) : e[i] \in Entry
  BY ElementIs
<1>2. \A x \in Entry : x.key \in Key /\ x.value \in Nat
  BY DEF Entry
<1> QED
  BY <1>1, <1>2, KeysAreNumbers

LEMMA OneBetween ==
  ASSUME NEW e \in Seq(Entry), Ascending(e), NEW k \in Int
  PROVE  \E i \in 0 .. Len(e) : Between(e, i, k)
<1>1. PICK n \in Nat : n = Len(e)
  OBVIOUS
<1>2. \A i \in 1 .. n : e[i].key \in Int
  BY <1>1, EntryIs
<1> DEFINE S == {i \in 0 .. n : i > 0 => e[i].key < k}
<1>3. 0 \in S /\ S \subseteq Nat /\ \A y \in S : y <= n
  OBVIOUS
<1>4. PICK i \in S : \A y \in S : y <= i
  BY <1>3, MaxIsGreatest
<1>5. i < n => k <= e[i + 1].key
  BY <1>2, <1>4
<1> QED
  BY <1>1, <1>3, <1>4, <1>5 DEF Between

LEMMA BetweenIsUnique ==
  ASSUME NEW e \in Seq(Entry), Ascending(e), NEW k \in Int,
         NEW i \in 0 .. Len(e), Between(e, i, k), NEW j \in 0 .. Len(e), Between(e, j, k)
  PROVE  i = j
<1>1. PICK n \in Nat : n = Len(e)
  OBVIOUS
<1>2. \A a \in 1 .. n : e[a].key \in Int
  BY <1>1, EntryIs
<1>3. \A a, b \in 0 .. n : a < b /\ Between(e, a, k) => ~ Between(e, b, k)
  <2> SUFFICES ASSUME NEW a \in 0 .. n, NEW b \in 0 .. n, a < b, Between(e, a, k), Between(e, b, k)
               PROVE  FALSE
    OBVIOUS
  <2>1. k <= e[a + 1].key /\ e[b].key < k
    BY <1>1 DEF Between
  <2>2. a + 1 = b \/ e[a + 1].key < e[b].key
    BY <1>1 DEF Ascending
  <2> QED
    BY <1>2, <2>1, <2>2
<1> QED
  BY <1>1, <1>3

\* The entries in front of the way are those with smaller keys.
LEMMA BetweenCounts ==
  ASSUME NEW e \in Seq(Entry), Ascending(e), NEW k \in Int, NEW i \in 0 .. Len(e), Between(e, i, k)
  PROVE  {j \in 1 .. Len(e) : e[j].key < k} = 1 .. i
<1>1. PICK n \in Nat : n = Len(e)
  OBVIOUS
<1>2. \A a \in 1 .. n : e[a].key \in Int
  BY <1>1, EntryIs
<1>3. ASSUME NEW j \in 1 .. n
      PROVE  e[j].key < k <=> j <= i
  <2>1. CASE j <= i
    <3>1. e[i].key < k /\ (j = i \/ e[j].key < e[i].key)
      BY <1>1, <2>1 DEF Between, Ascending
    <3> QED
      BY <1>1, <1>2, <2>1, <3>1
  <2>2. CASE j > i
    <3>1. k <= e[i + 1].key /\ (j = i + 1 \/ e[i + 1].key < e[j].key)
      BY <1>1, <2>2 DEF Between, Ascending
    <3> QED
      BY <1>1, <1>2, <2>2, <3>1
  <2> QED
    BY <1>1, <2>1, <2>2
<1> QED
  BY <1>1, <1>3

LEMMA KeyIndexIs ==
  ASSUME NEW node, node.entries \in Seq(Entry), Ascending(node.entries), NEW k \in Int,
         NEW i \in 0 .. Len(node.entries), Between(node.entries, i, k)
  PROVE  KeyIndex(node, k) = i
<1>1. {j \in 1 .. NumKeys(node) : node.entries[j].key < k} = 1 .. i
  BY BetweenCounts DEF NumKeys
<1>2. Cardinality(1 .. i) = i
  BY FS_Interval
<1> QED
  BY <1>1, <1>2 DEF KeyIndex

\* A node has a key if the way for it leads to the key.
LEMMA HasKeyIs ==
  ASSUME NEW node, node.entries \in Seq(Entry), Ascending(node.entries), NEW k \in Int,
         NEW i \in 0 .. Len(node.entries), Between(node.entries, i, k), HasKey(node, k)
  PROVE  i < Len(node.entries) /\ node.entries[i + 1].key = k
<1>1. PICK n \in Nat : n = Len(node.entries)
  OBVIOUS
<1>2. PICK j \in 1 .. n : node.entries[j].key = k
  BY <1>1 DEF HasKey, NumKeys
<1>3. Between(node.entries, j - 1, k) /\ j - 1 \in 0 .. n
  <2>1. j - 1 > 0 => node.entries[j - 1].key < node.entries[j].key
    BY <1>1 DEF Ascending
  <2> QED
    BY <1>1, <1>2, <2>1, EntryIs DEF Between
<1>4. i = j - 1
  BY <1>1, <1>3, BetweenIsUnique
<1> QED
  BY <1>1, <1>2, <1>4

-----------------------------------------------------------------------------
(* Search trees.  What a tree shows depends only on the nodes that are in  *)
(* it, their entries and overflow links: its shape.  To it belong, of each *)
(* node, its height above the leaves (rank) and keys that are searched for *)
(* below it (span), among them those in it.                                *)

Below(s, n, i) == IF i < Len(s.entries[n]) THEN s.entries[n][i + 1].value ELSE s.over[n]

\* A way down from node n, but not one of the missing ones.
Slot(s, missing, n, i) ==
  n \in s.nodes /\ s.rank[n] > 1 /\ i \in 0 .. Len(s.entries[n]) /\ <<n, i>> \notin missing

Shape(s) ==
  /\ s.nodes \subseteq Nat
  /\ s.root \in s.nodes
  /\ s.entries \in [s.nodes -> Seq(Entry)]
  /\ s.over \in [s.nodes -> Int]
  /\ s.rank \in [s.nodes -> Nat \ {0}]
  /\ s.span \in [s.nodes -> SUBSET Key]

\* A node has ascending keys, and is a leaf if it has no overflow link.
Ordered(s, n) ==
  /\ Ascending(s.entries[n])
  /\ \A i \in 1 .. Len(s.entries[n]) : s.entries[n][i].key \in s.span[n]
  /\ s.over[n] # FreeMark
  /\ s.rank[n] = 1 <=> s.over[n] = Null
  /\ s.rank[n] = 1 => \A i \in 1 .. Len(s.entries[n]) : s.entries[n][i].value # NoValue

\* A node below the root is lower, has been given keys, and has a parent.
Inner(s, missing, n) ==
  /\ s.rank[n] < s.rank[s.root]
  /\ s.span[n] # {}
  /\ \E p \in s.nodes, i \in Nat : Slot(s, missing, p, i) /\ Below(s, p, i) = n

\* The way leads to a lower node, for keys that are looked for there.
Leads(s, p, i) ==
  /\ Below(s, p, i) \in s.nodes
  /\ s.rank[Below(s, p, i)] = s.rank[p] - 1
  /\ \A k \in s.span[Below(s, p, i)] : k \in s.span[p] /\ Between(s.entries[p], i, k)

\* No two ways lead to the same node.
Apart(s, missing) ==
  \A p, q \in s.nodes : \A i, j \in Nat :
    Slot(s, missing, p, i) /\ Slot(s, missing, q, j) /\ Below(s, p, i) = Below(s, q, j) => p = q /\ i = j

SearchTree(s, missing) ==
  /\ Shape(s)
  /\ \A n \in s.nodes : Ordered(s, n)
  /\ \A n \in s.nodes \ {s.root} : Inner(s, missing, n)
  /\ \A p \in s.nodes : \A i \in Nat : Slot(s, missing, p, i) => Leads(s, p, i)
  /\ Apart(s, missing)

\* A leaf has value v for key k.
EntryIn(e, k, v) == \E i \in 1 .. Len(e) : e[i].key = k /\ e[i].value = v
Has(s, k, v) == \E n \in s.nodes : s.rank[n] = 1 /\ EntryIn(s.entries[n], k, v)

\* The leaves have the keys and the values of f.
Shows(s, f) == \A k \in Key : \A v : Has(s, k, v) <=> v = f[k] /\ v # NoValue

LEMMA ShapeIs ==
  ASSUME NEW s, Shape(s), NEW n \in s.nodes
  PROVE  /\ n \in Nat /\ s.rank[n] \in Nat /\ s.rank[n] > 0 /\ s.over[n] \in Int /\ s.span[n] \subseteq Key
         /\ s.entries[n] \in Seq(Entry) /\ Len(s.entries[n]) \in Nat
         /\ \A i \in 1 .. Len(s.entries[n]) : /\ s.entries[n][i] \in Entry
                                              /\ s.entries[n][i].key \in Key
                                              /\ s.entries[n][i].key \in Int
                                              /\ s.entries[n][i].value \in Nat
<1>1. s.entries[n] \in Seq(Entry)
  BY DEF Shape
<1> QED
  BY <1>1, EntryIs, ElementIs DEF Shape

\* Where the way for a key that is below a node leads.
LEMMA WayIs ==
  ASSUME NEW s, NEW missing, SearchTree(s, missing), NEW p \in s.nodes, NEW i \in Nat,
         Slot(s, missing, p, i), NEW k \in s.span[Below(s, p, i)]
  PROVE  k \in s.span[p] /\ \A j \in 0 .. Len(s.entries[p]) : Between(s.entries[p], j, k) => j = i
<1>1. Shape(s) /\ Leads(s, p, i) /\ Ordered(s, p) /\ i \in 0 .. Len(s.entries[p])
  BY DEF SearchTree, Slot
<1>2. k \in s.span[p] /\ Between(s.entries[p], i, k) /\ Ascending(s.entries[p])
  BY <1>1 DEF Leads, Ordered
<1>3. s.entries[p] \in Seq(Entry) /\ k \in Int
  BY <1>1, <1>2, ShapeIs, KeysAreNumbers
<1> QED
  BY ONLY <1>1, <1>2, <1>3, BetweenIsUnique

\* A way down: from the root, each node below the one before.
Way(s, missing, st) ==
  /\ st \in Seq([node : Nat, index : Nat]) /\ st # <<>>
  /\ st[1].node = s.root
  /\ \A i \in 1 .. Len(st) : /\ st[i].node \in s.nodes
                             /\ s.rank[st[i].node] = s.rank[s.root] + 1 - i
  /\ \A i \in 1 .. Len(st) - 1 : /\ Slot(s, missing, st[i].node, st[i].index)
                                 /\ Below(s, st[i].node, st[i].index) = st[i + 1].node

-----------------------------------------------------------------------------
(* The way down.                                                           *)

NodeType == [entries : Seq(Entry), overflow : Int, left : Int, right : Int]

TreeType == [nodes : Seq(NodeType), root : Nat, levels : Int, free : Int]

\* The nodes of the tree are those of the shape.
Represents(t, s) ==
  /\ t.root = s.root
  /\ \A n \in s.nodes : /\ Loads(t, n)
                        /\ t.nodes[n].entries = s.entries[n]
                        /\ t.nodes[n].overflow = s.over[n]

LEMMA NodeIs ==
  ASSUME NEW t \in TreeType, NEW n
  PROVE  /\ Node(t, n) \in NodeType
         /\ NumKeys(Node(t, n)) \in Nat
         /\ \A i \in Nat : Child(Node(t, n), i) \in Int
<1>1. t.nodes \in Seq(NodeType) /\ DOMAIN t.nodes = 1 .. Len(t.nodes)
  BY DEF TreeType
<1>2. NewNode \in NodeType
  BY DEF NewNode, NodeType, Null
<1>3. Node(t, n) \in NodeType
  BY <1>1, <1>2, ElementIs DEF Node, Loads
<1>4. PICK node \in NodeType : node = Node(t, n)
  BY <1>3
<1>5. node.entries \in Seq(Entry) /\ node.overflow \in Int
  BY DEF NodeType
<1>6. Len(node.entries) \in Nat /\ \A i \in 1 .. Len(node.entries) : node.entries[i].value \in Nat
  BY <1>5, ElementIs, EntryIs
<1>7. \A i \in Nat : Child(node, i) \in Int
  BY <1>5, <1>6 DEF Child, NumKeys
<1> QED
  BY <1>3, <1>4, <1>6, <1>7 DEF NumKeys

LEMMA KeyIndexType ==
  ASSUME NEW t \in TreeType, NEW n, NEW k
  PROVE  KeyIndex(Node(t, n), k) \in 0 .. NumKeys(Node(t, n)) /\ KeyIndex(Node(t, n), k) \in Nat
<1>1. PICK l \in Nat : l = NumKeys(Node(t, n))
  BY NodeIs
<1> DEFINE S == {i \in 1 .. NumKeys(Node(t, n)) : Node(t, n).entries[i].key < k}
<1>2. IsFiniteSet(1 .. l) /\ Cardinality(1 .. l) = l /\ S \in SUBSET (1 .. l)
  <2>1. S \in SUBSET (1 .. l)
    BY <1>1
  <2>2. IsFiniteSet(1 .. l) /\ Cardinality(1 .. l) = l
    BY ONLY l \in Nat, FS_Interval
  <2> QED
    BY <2>1, <2>2
<1> HIDE DEF S
<1>3. IsFiniteSet(S) /\ Cardinality(S) <= Cardinality(1 .. l)
  BY ONLY <1>2, FS_Subset
<1>4. Cardinality(S) \in Nat
  BY ONLY <1>3, FS_CardinalityType
<1>5. KeyIndex(Node(t, n), k) = Cardinality(S)
  BY DEF KeyIndex, S
<1> QED
  BY ONLY <1>1, <1>2, <1>3, <1>4, <1>5

\* What is in a node of the shape.
LEMMA ShapeNodeIs ==
  ASSUME NEW t, NEW s, Represents(t, s), NEW n \in s.nodes
  PROVE  /\ Node(t, n).entries = s.entries[n]
         /\ Node(t, n).overflow = s.over[n]
         /\ NumKeys(Node(t, n)) = Len(s.entries[n])
         /\ \A i : Child(Node(t, n), i) = Below(s, n, i)
  BY DEF Represents, Node, Child, Below, NumKeys

-----------------------------------------------------------------------------

Here(t, k, n) == [node |-> n, index |-> KeyIndex(Node(t, n), k)]

\* One step of the recursion of Descent.
DownFrom(t, k, n, last, below) ==
  IF IsLeaf(Node(t, n)) \/ last
    THEN <<Here(t, k, n)>>
    ELSE <<Here(t, k, n)>> \o below[Child(Node(t, n), Here(t, k, n).index)]

Downs(t, k, down) ==
  down = [d \in 0 .. MaxNodes |-> [n \in Int |-> DownFrom(t, k, n, d = 0, down[d - 1])]]

Steps == [node : Int, index : Nat]

LEMMA DownsExist ==
  ASSUME NEW t \in TreeType, NEW k
  PROVE  \E down : Downs(t, k, down)
<1> DEFINE V == [Int -> Seq(Steps)]
           b == [n \in Int |-> <<Here(t, k, n)>>]
           H == [d \in 1 .. MaxNodes |-> [v \in V |-> [n \in Int |-> DownFrom(t, k, n, FALSE, v)]]]
<1>1. MaxNodes \in Nat
  BY NodesAssumption
<1>2. \A n \in Int : Here(t, k, n) \in Steps /\ Here(t, k, n).index \in Nat
  BY KeyIndexType DEF Here, Steps
<1>3. b \in V
  BY <1>2
<1>4. ASSUME NEW v \in V, NEW n \in Int
      PROVE  DownFrom(t, k, n, FALSE, v) \in Seq(Steps)
  <2>1. Child(Node(t, n), Here(t, k, n).index) \in Int
    BY <1>2, NodeIs
  <2>2. v[Child(Node(t, n), Here(t, k, n).index)] \in Seq(Steps)
    BY <2>1
  <2>3. <<Here(t, k, n)>> \in Seq(Steps)
    BY <1>2
  <2> QED
    BY <2>2, <2>3, Joined DEF DownFrom
<1>5. Stays(MaxNodes, V, H)
  BY <1>4 DEF Stays
<1> HIDE DEF V, b
<1>6. PICK f : Stepwise(MaxNodes, V, b, H, f)
  BY <1>1, <1>3, <1>5, StepwiseExists
<1>7. f \in [0 .. MaxNodes -> V] /\ f[0] = b /\ \A d \in 1 .. MaxNodes : f[d] = H[d][f[d - 1]]
  BY <1>6 DEF Stepwise
<1>8. ASSUME NEW d \in 0 .. MaxNodes
      PROVE  f[d] = [n \in Int |-> DownFrom(t, k, n, d = 0, f[d - 1])]
  <2>1. CASE d = 0
    BY <1>7, <2>1 DEF b, DownFrom
  <2>2. CASE d # 0
    <3>1. d \in 1 .. MaxNodes /\ d - 1 \in 0 .. MaxNodes
      BY <1>1, <2>2
    <3>2. f[d - 1] \in V /\ f[d] = H[d][f[d - 1]]
      BY <1>7, <3>1
    <3>3. f[d] = [n \in Int |-> DownFrom(t, k, n, FALSE, f[d - 1])]
      BY <3>1, <3>2
    <3> QED
      BY <2>2, <3>3
  <2> QED
    BY <2>1, <2>2
<1> DEFINE G(d) == [n \in Int |-> DownFrom(t, k, n, d = 0, f[d - 1])]
<1>9. \A d \in 0 .. MaxNodes : f[d] = G(d)
  BY <1>8
<1>10. f = [d \in 0 .. MaxNodes |-> f[d]]
  BY <1>7
<1>11. f = [d \in 0 .. MaxNodes |-> G(d)]
  <2> HIDE DEF G
  <2> QED
    BY <1>9, <1>10
<1> QED
  BY <1>11 DEF Downs

LEMMA DescentIs ==
  ASSUME NEW t \in TreeType, NEW k
  PROVE  \E down : /\ Descent(t, k) = down[MaxNodes][t.root]
                   /\ \A d \in 0 .. MaxNodes : \A n \in Int :
                        down[d][n] = DownFrom(t, k, n, d = 0, down[d - 1])
<1> DEFINE down == CHOOSE down : Downs(t, k, down)
<1>1. Downs(t, k, down)
  BY DownsExist
<1>2. Descent(t, k) = down[MaxNodes][t.root]
  BY DEF Descent, Downs, DownFrom, Here
<1> HIDE DEF down
<1> DEFINE G(d) == [n \in Int |-> DownFrom(t, k, n, d = 0, down[d - 1])]
<1>3. \A d \in 0 .. MaxNodes : down[d] = G(d)
  <2>1. down = [d \in 0 .. MaxNodes |-> G(d)]
    BY <1>1 DEF Downs
  <2> HIDE DEF G
  <2> QED
    BY <2>1
<1>4. \A d \in 0 .. MaxNodes : \A n \in Int : down[d][n] = DownFrom(t, k, n, d = 0, down[d - 1])
  BY <1>3
<1> QED
  BY <1>2, <1>4

\* What a leaf has for a key.
ValueIn(t, k, n) ==
  IF HasKey(Node(t, n), k) THEN Node(t, n).entries[KeyIndex(Node(t, n), k) + 1].value ELSE NoValue

\* One step of the recursion of LookUp.
FindFrom(t, k, n, more, below) ==
  IF ~ IsLeaf(Node(t, n)) /\ more
    THEN below[Child(Node(t, n), KeyIndex(Node(t, n), k))]
    ELSE ValueIn(t, k, n)

Finds(t, k, find) ==
  find = [d \in 0 .. MaxNodes |-> [n \in Int |-> FindFrom(t, k, n, d > 0, find[d - 1])]]

LEMMA FindsExist ==
  ASSUME NEW t \in TreeType, NEW k
  PROVE  \E find : Finds(t, k, find)
<1> DEFINE X == {ValueIn(t, k, n) : n \in Int}
           V == [Int -> X]
           b == [n \in Int |-> ValueIn(t, k, n)]
           H == [d \in 1 .. MaxNodes |-> [v \in V |-> [n \in Int |-> FindFrom(t, k, n, TRUE, v)]]]
<1>1. MaxNodes \in Nat
  BY NodesAssumption
<1>2. b \in V
  OBVIOUS
<1>3. ASSUME NEW v \in V, NEW n \in Int
      PROVE  FindFrom(t, k, n, TRUE, v) \in X
  <2>1. Child(Node(t, n), KeyIndex(Node(t, n), k)) \in Int
    BY NodeIs, KeyIndexType
  <2>2. v[Child(Node(t, n), KeyIndex(Node(t, n), k))] \in X
    BY <2>1
  <2> QED
    BY <2>2 DEF FindFrom
<1>4. Stays(MaxNodes, V, H)
  BY <1>3 DEF Stays
<1> HIDE DEF V, b
<1>5. PICK f : Stepwise(MaxNodes, V, b, H, f)
  BY <1>1, <1>2, <1>4, StepwiseExists
<1>6. f \in [0 .. MaxNodes -> V] /\ f[0] = b /\ \A d \in 1 .. MaxNodes : f[d] = H[d][f[d - 1]]
  BY <1>5 DEF Stepwise
<1> DEFINE G(d) == [n \in Int |-> FindFrom(t, k, n, d > 0, f[d - 1])]
<1>7. ASSUME NEW d \in 0 .. MaxNodes
      PROVE  f[d] = G(d)
  <2>1. CASE d = 0
    BY <1>6, <2>1 DEF b, FindFrom
  <2>2. CASE d # 0
    <3>1. d \in 1 .. MaxNodes /\ d - 1 \in 0 .. MaxNodes /\ d > 0
      BY <1>1, <2>2
    <3>2. f[d - 1] \in V /\ f[d] = H[d][f[d - 1]]
      BY <1>6, <3>1
    <3>3. f[d] = [n \in Int |-> FindFrom(t, k, n, TRUE, f[d - 1])]
      BY <3>1, <3>2
    <3> QED
      BY <3>1, <3>3
  <2> QED
    BY <2>1, <2>2
<1>8. f = [d \in 0 .. MaxNodes |-> f[d]]
  BY <1>6
<1>9. f = [d \in 0 .. MaxNodes |-> G(d)]
  <2> HIDE DEF G
  <2> QED
    BY <1>7, <1>8
<1> QED
  BY <1>9 DEF Finds

LEMMA LookUpIs ==
  ASSUME NEW t \in TreeType, NEW k
  PROVE  \E find : /\ LookUp(t, k) = find[MaxNodes][t.root]
                   /\ \A d \in 0 .. MaxNodes : \A n \in Int :
                        find[d][n] = FindFrom(t, k, n, d > 0, find[d - 1])
<1> DEFINE find == CHOOSE find : Finds(t, k, find)
<1>1. Finds(t, k, find)
  BY FindsExist
<1>2. LookUp(t, k) = find[MaxNodes][t.root]
  BY DEF LookUp, Finds, FindFrom, ValueIn
<1> HIDE DEF find
<1> DEFINE G(d) == [n \in Int |-> FindFrom(t, k, n, d > 0, find[d - 1])]
<1>3. \A d \in 0 .. MaxNodes : find[d] = G(d)
  <2>1. find = [d \in 0 .. MaxNodes |-> G(d)]
    BY <1>1 DEF Finds
  <2> HIDE DEF G
  <2> QED
    BY <2>1
<1>4. \A d \in 0 .. MaxNodes : \A n \in Int : find[d][n] = FindFrom(t, k, n, d > 0, find[d - 1])
  BY <1>3
<1> QED
  BY <1>2, <1>4

\* A way from node n down to a leaf that key k leads to.
WayFrom(s, n, k, w) ==
  /\ w \in Seq([node : Nat, index : Nat])
  /\ Len(w) = s.rank[n]
  /\ w[1].node = n
  /\ \A i \in 1 .. Len(w) : /\ w[i].node \in s.nodes
                            /\ s.rank[w[i].node] = s.rank[n] + 1 - i
                            /\ w[i].index \in 0 .. Len(s.entries[w[i].node])
                            /\ Between(s.entries[w[i].node], w[i].index, k)
  /\ \A i \in 1 .. Len(w) - 1 : Below(s, w[i].node, w[i].index) = w[i + 1].node

LEMMA HereIs ==
  ASSUME NEW t \in TreeType, NEW s, NEW missing, SearchTree(s, missing), Represents(t, s), NEW k \in Int, NEW n \in s.nodes
  PROVE  /\ Here(t, k, n) \in [node : Nat, index : Nat] /\ Here(t, k, n).node = n
         /\ Here(t, k, n).index = KeyIndex(Node(t, n), k)
         /\ Here(t, k, n).index \in 0 .. Len(s.entries[n])
         /\ Between(s.entries[n], Here(t, k, n).index, k)
<1>1. Shape(s) /\ Ordered(s, n)
  BY DEF SearchTree
<1>2. s.entries[n] \in Seq(Entry) /\ Ascending(s.entries[n]) /\ n \in Nat /\ Len(s.entries[n]) \in Nat
  BY <1>1, ShapeIs DEF Ordered
<1>3. PICK i \in 0 .. Len(s.entries[n]) : Between(s.entries[n], i, k)
  BY <1>2, OneBetween
<1>4. Node(t, n).entries = s.entries[n]
  BY ShapeNodeIs
<1>5. KeyIndex(Node(t, n), k) = i
  <2>1. PICK node : node = Node(t, n)
    OBVIOUS
  <2>2. /\ node.entries \in Seq(Entry) /\ Ascending(node.entries)
        /\ i \in 0 .. Len(node.entries) /\ Between(node.entries, i, k)
    BY <1>2, <1>3, <1>4, <2>1
  <2>3. KeyIndex(node, k) = i
    BY ONLY <2>2, k \in Int, KeyIndexIs
  <2> QED
    BY <2>1, <2>3
<1>6. i \in Nat
  BY <1>2
<1> QED
  BY <1>2, <1>3, <1>5, <1>6 DEF Here

\* A way is made longer by a step in front of it.
LEMMA WayLonger ==
  ASSUME NEW s, Shape(s), NEW n \in s.nodes, NEW k, NEW c \in s.nodes, s.rank[c] = s.rank[n] - 1,
         NEW h \in [node : Nat, index : Nat], h.node = n, h.index \in 0 .. Len(s.entries[n]),
         Between(s.entries[n], h.index, k), Below(s, n, h.index) = c,
         NEW w, WayFrom(s, c, k, w)
  PROVE  WayFrom(s, n, k, <<h>> \o w) /\ Last(<<h>> \o w) = Last(w)
<1> DEFINE T == [node : Nat, index : Nat]
           x == <<h>> \o w
<1>1. PICK r \in Nat : r = s.rank[c] /\ s.rank[n] = r + 1 /\ r > 0
  BY ShapeIs
<1>2. w \in Seq(T) /\ Len(w) = r /\ w[1].node = c
  BY <1>1 DEF WayFrom
<1>3. PICK u : u = <<h>> /\ u \in Seq(T) /\ Len(u) = 1 /\ u[1] = h
  <2>1. <<h>> \in Seq(T) /\ Len(<<h>>) = 1 /\ <<h>>[1] = h
    OBVIOUS
  <2> QED
    BY <2>1
<1> HIDE DEF T
<1>4. /\ x \in Seq(T) /\ Len(x) = 1 + r
      /\ \A j \in 1 .. 1 + r : x[j] = IF j <= 1 THEN u[j] ELSE w[j - 1]
  <2>1. /\ u \o w \in Seq(T) /\ Len(u \o w) = Len(u) + Len(w)
        /\ \A j \in 1 .. Len(u) + Len(w) : (u \o w)[j] = IF j <= Len(u) THEN u[j] ELSE w[j - Len(u)]
    BY ONLY <1>2, <1>3, Joined
  <2>2. x = u \o w
    BY <1>3
  <2> QED
    BY <1>2, <1>3, <2>1, <2>2
<1> HIDE DEF x
<1>5. x[1] = h /\ \A j \in 2 .. r + 1 : x[j] = w[j - 1] /\ j - 1 \in 1 .. r
  <2>1. 1 \in 1 .. 1 + r
    BY <1>1
  <2>2. x[1] = h
    BY <1>3, <1>4, <2>1
  <2>3. ASSUME NEW j \in 2 .. r + 1
        PROVE  x[j] = w[j - 1] /\ j - 1 \in 1 .. r
    <3>1. j \in 1 .. 1 + r /\ ~ (j <= 1) /\ j - 1 \in 1 .. r
      BY <1>1
    <3> QED
      BY <1>4, <3>1
  <2> QED
    BY <2>2, <2>3
<1>10. Len(x) = r + 1 /\ Len(w) = r
  <2>1. 1 + r = r + 1
    BY ONLY r \in Nat
  <2> QED
    BY <1>2, <1>4, <2>1
<1>6. ASSUME NEW i \in 1 .. r + 1
      PROVE  /\ x[i].node \in s.nodes
             /\ s.rank[x[i].node] = s.rank[n] + 1 - i
             /\ x[i].index \in 0 .. Len(s.entries[x[i].node])
             /\ Between(s.entries[x[i].node], x[i].index, k)
  <2>1. CASE i = 1
    <3>1. s.rank[n] + 1 - 1 = s.rank[n]
      BY ONLY <1>1, r \in Nat
    <3>2. x[i] = h
      BY <1>5, <2>1
    <3> QED
      BY <2>1, <3>1, <3>2
  <2>2. CASE i # 1
    <3>1. i \in 2 .. r + 1 /\ i - 1 \in 1 .. Len(w)
      BY ONLY r \in Nat, i \in 1 .. r + 1, <1>10, <2>2
    <3>2. /\ w[i - 1].node \in s.nodes
          /\ s.rank[w[i - 1].node] = s.rank[c] + 1 - (i - 1)
          /\ w[i - 1].index \in 0 .. Len(s.entries[w[i - 1].node])
          /\ Between(s.entries[w[i - 1].node], w[i - 1].index, k)
      BY <3>1 DEF WayFrom
    <3>3. s.rank[c] + 1 - (i - 1) = s.rank[n] + 1 - i
      BY <1>1, <3>1
    <3> QED
      BY <1>5, <3>1, <3>2, <3>3
  <2> QED
    BY <2>1, <2>2
<1>7. ASSUME NEW i \in 1 .. r
      PROVE  Below(s, x[i].node, x[i].index) = x[i + 1].node
  <2>0. i + 1 \in 2 .. r + 1 /\ (i + 1) - 1 = i
    BY ONLY r \in Nat, i \in 1 .. r
  <2>1. x[i + 1] = w[i]
    BY <1>5, <2>0
  <2>2. CASE i = 1
    BY <1>2, <1>5, <2>1, <2>2
  <2>3. CASE i # 1
    <3>1. i \in 2 .. r + 1 /\ i - 1 \in 1 .. Len(w) - 1 /\ (i - 1) + 1 = i
      BY ONLY r \in Nat, i \in 1 .. r, <1>10, <2>3
    <3>2. Below(s, w[i - 1].node, w[i - 1].index) = w[(i - 1) + 1].node
      BY <3>1 DEF WayFrom
    <3> QED
      BY <1>5, <2>1, <3>1, <3>2
  <2> QED
    BY <2>2, <2>3
<1>8. x[Len(x)] = w[Len(w)]
  <2>1. r + 1 \in 2 .. r + 1 /\ (r + 1) - 1 = r
    BY <1>1
  <2> QED
    BY <1>5, <1>10, <2>1
<1>9. WayFrom(s, n, k, x)
  <2>1. \A i \in 1 .. Len(x) : i \in 1 .. r + 1
    BY <1>10
  <2>2. \A i \in 1 .. Len(x) - 1 : i \in 1 .. r
    BY <1>10, <1>1
  <2>3. x \in Seq(T) /\ Len(x) = s.rank[n] /\ x[1].node = n
    BY <1>1, <1>4, <1>5, <1>10
  <2> QED
    BY <1>6, <1>7, <2>1, <2>2, <2>3 DEF WayFrom, T
<1> QED
  BY <1>8, <1>9 DEF x, Last

\* A leaf and a node above one.
LEMMA LeafIs ==
  ASSUME NEW t, NEW s, NEW missing, SearchTree(s, missing), Represents(t, s), NEW n \in s.nodes
  PROVE  IsLeaf(Node(t, n)) <=> s.rank[n] = 1
<1>1. Ordered(s, n)
  BY DEF SearchTree
<1>2. Node(t, n).overflow = s.over[n]
  BY ShapeNodeIs
<1> QED
  BY <1>1, <1>2 DEF Ordered, IsLeaf

Arrives(t, s, k, n, w, v) == WayFrom(s, n, k, w) /\ v = ValueIn(t, k, Last(w).node)

LEMMA WaysArrive ==
  ASSUME NEW t \in TreeType, NEW s, SearchTree(s, {}), Represents(t, s), NEW k \in Int,
         NEW down, \A d \in 0 .. MaxNodes : \A n \in Int : down[d][n] = DownFrom(t, k, n, d = 0, down[d - 1]),
         NEW find, \A d \in 0 .. MaxNodes : \A n \in Int : find[d][n] = FindFrom(t, k, n, d > 0, find[d - 1])
  PROVE  \A d \in 0 .. MaxNodes : \A n \in s.nodes : s.rank[n] <= d + 1 => Arrives(t, s, k, n, down[d][n], find[d][n])
<1> DEFINE P == {d \in Nat : d <= MaxNodes =>
                   \A n \in s.nodes : s.rank[n] <= d + 1 => Arrives(t, s, k, n, down[d][n], find[d][n])}
<1>1. MaxNodes \in Nat /\ Shape(s)
  BY NodesAssumption DEF SearchTree
<1>2. ASSUME NEW d \in 0 .. MaxNodes, NEW n \in s.nodes, s.rank[n] = 1
      PROVE  Arrives(t, s, k, n, down[d][n], find[d][n])
  <2>1. n \in Int /\ n \in Nat
    BY <1>1, ShapeIs
  <2>2. IsLeaf(Node(t, n))
    BY <1>2, LeafIs
  <2>3. PICK h : h = Here(t, k, n)
    OBVIOUS
  <2>4. down[d][n] = <<h>>
    BY <2>1, <2>2, <2>3 DEF DownFrom
  <2>5. find[d][n] = ValueIn(t, k, n)
    BY <2>1, <2>2 DEF FindFrom
  <2>6. /\ h \in [node : Nat, index : Nat] /\ h.node = n
        /\ h.index \in 0 .. Len(s.entries[n])
        /\ Between(s.entries[n], h.index, k)
    BY <2>3, HereIs
  <2>7. PICK w : w = <<h>>
    OBVIOUS
  <2>8. w \in Seq([node : Nat, index : Nat]) /\ Len(w) = 1 /\ w[1] = h /\ Last(w) = h
    BY <2>6, <2>7 DEF Last
  <2>9. WayFrom(s, n, k, w)
    BY <1>2, <2>6, <2>8 DEF WayFrom
  <2> QED
    BY <2>4, <2>5, <2>6, <2>7, <2>8, <2>9 DEF Arrives
<1>3. 0 \in P
  <2>1. \A n \in s.nodes : s.rank[n] <= 0 + 1 => s.rank[n] = 1
    BY <1>1, ShapeIs
  <2>2. 0 \in 0 .. MaxNodes
    BY <1>1
  <2> QED
    BY <1>2, <2>1, <2>2
<1>4. ASSUME NEW d \in Nat, d \in P
      PROVE  d + 1 \in P
  <2> SUFFICES ASSUME d + 1 <= MaxNodes, NEW n \in s.nodes, s.rank[n] <= (d + 1) + 1
               PROVE  Arrives(t, s, k, n, down[d + 1][n], find[d + 1][n])
    OBVIOUS
  <2>1. d + 1 \in 0 .. MaxNodes /\ d \in 0 .. MaxNodes /\ (d + 1) - 1 = d /\ ~ (d + 1 = 0) /\ d + 1 > 0
    BY <1>1
  <2>2. CASE s.rank[n] = 1
    BY <1>2, <2>1, <2>2
  <2>3. CASE s.rank[n] # 1
    <3>1. n \in Nat /\ n \in Int /\ s.rank[n] > 1 /\ s.rank[n] \in Nat /\ s.rank[n] - 1 <= d + 1
      BY <1>1, <2>3, ShapeIs
    <3>2. ~ IsLeaf(Node(t, n))
      BY <2>3, LeafIs
    <3>3. PICK h : h = Here(t, k, n)
      OBVIOUS
    <3>4. /\ h \in [node : Nat, index : Nat] /\ h.node = n /\ h.index = KeyIndex(Node(t, n), k)
          /\ h.index \in 0 .. Len(s.entries[n])
          /\ Between(s.entries[n], h.index, k)
      BY <3>3, HereIs
    <3>5. PICK c : c = Below(s, n, h.index)
      OBVIOUS
    <3>6. Child(Node(t, n), h.index) = c
      BY <3>5, ShapeNodeIs
    <3>7. Slot(s, {}, n, h.index) /\ h.index \in Nat
      BY <3>1, <3>4 DEF Slot
    <3>8. c \in s.nodes /\ s.rank[c] = s.rank[n] - 1
      BY <3>5, <3>7 DEF SearchTree, Leads
    <3>9. down[d + 1][n] = <<h>> \o down[d][c] /\ find[d + 1][n] = find[d][c]
      <4>1. down[d + 1][n] = DownFrom(t, k, n, FALSE, down[d])
        BY <2>1, <3>1
      <4>2. find[d + 1][n] = FindFrom(t, k, n, d + 1 > 0, find[d])
        <5>1. \A e \in 0 .. MaxNodes : \A q \in Int : find[e][q] = FindFrom(t, k, q, e > 0, find[e - 1])
          OBVIOUS
        <5>2. find[d + 1][n] = FindFrom(t, k, n, d + 1 > 0, find[(d + 1) - 1])
          BY ONLY <2>1, <3>1, <5>1, Zenon
        <5> QED
          BY ONLY <2>1, <5>2, Zenon
      <4>3. down[d + 1][n] = <<h>> \o down[d][c]
        BY <3>2, <3>3, <3>6, <4>1 DEF DownFrom
      <4>4. find[d + 1][n] = find[d][c]
        BY <2>1, <3>2, <3>4, <3>6, <4>2 DEF FindFrom
      <4> QED
        BY <4>3, <4>4
    <3>10. Arrives(t, s, k, c, down[d][c], find[d][c])
      BY <1>4, <2>1, <3>1, <3>8
    <3>11. PICK w : w = down[d][c]
      OBVIOUS
    <3>12. WayFrom(s, c, k, w) /\ find[d][c] = ValueIn(t, k, Last(w).node)
      BY <3>10, <3>11 DEF Arrives
    <3>13. WayFrom(s, n, k, <<h>> \o w) /\ Last(<<h>> \o w) = Last(w)
      BY ONLY <1>1, <3>4, <3>5, <3>8, <3>12, n \in s.nodes, WayLonger, SMTT(30)
    <3> QED
      BY <3>9, <3>11, <3>12, <3>13 DEF Arrives
  <2> QED
    BY <2>2, <2>3
<1>5. Nat \subseteq P
  <2> HIDE DEF P
  <2> QED
    BY <1>3, <1>4, NumberInduction
<1> QED
  BY <1>5, <1>1

\* Nodes are lower than the root or the root.
LEMMA RankIs ==
  ASSUME NEW s, NEW missing, SearchTree(s, missing), NEW n \in s.nodes
  PROVE  /\ s.rank[n] \in Nat /\ s.rank[n] > 0 /\ s.rank[s.root] \in Nat /\ s.rank[s.root] > 0 /\ s.root \in s.nodes
         /\ n # s.root => s.rank[n] < s.rank[s.root]
         /\ s.rank[n] <= s.rank[s.root]
<1>1. Shape(s) /\ s.root \in s.nodes
  BY DEF SearchTree, Shape
<1>2. s.rank[n] \in Nat /\ s.rank[n] > 0 /\ s.rank[s.root] \in Nat /\ s.rank[s.root] > 0
  BY <1>1, ShapeIs
<1>3. n # s.root => s.rank[n] < s.rank[s.root]
  BY DEF SearchTree, Inner
<1> QED
  BY <1>1, <1>2, <1>3

\* There is a node of every height up to the root's, and so not more heights
\* than nodes.
LEMMA LevelsBounded ==
  ASSUME NEW s, SearchTree(s, {}), NEW N \in Nat, s.nodes \subseteq 1 .. N
  PROVE  s.rank[s.root] <= N
<1>1. PICK r \in Nat : r = s.rank[s.root] /\ r > 0 /\ s.root \in s.nodes
  BY RankIs DEF SearchTree, Shape
<1>2. Shape(s)
  BY DEF SearchTree
<1> DEFINE P == {m \in Nat : m < r => \E n \in s.nodes : s.rank[n] = r - m}
<1>3. 0 \in P
  BY <1>1
<1>4. ASSUME NEW m \in Nat, m \in P
      PROVE  m + 1 \in P
  <2> SUFFICES ASSUME m + 1 < r
               PROVE  \E n \in s.nodes : s.rank[n] = r - (m + 1)
    OBVIOUS
  <2>1. PICK n \in s.nodes : s.rank[n] = r - m
    BY <1>4
  <2>2. s.rank[n] > 1 /\ Len(s.entries[n]) \in Nat /\ r - m - 1 = r - (m + 1)
    BY <1>2, <2>1, ShapeIs
  <2>3. Slot(s, {}, n, 0)
    BY <2>2 DEF Slot
  <2>4. Leads(s, n, 0)
    BY <2>3 DEF SearchTree
  <2> QED
    BY <2>1, <2>2, <2>4 DEF Leads
<1>5. Nat \subseteq P
  <2> HIDE DEF P
  <2> QED
    BY <1>3, <1>4, NumberInduction
<1> DEFINE f == [h \in 1 .. r |-> CHOOSE n \in s.nodes : s.rank[n] = h]
<1>6. \A h \in 1 .. r : f[h] \in s.nodes /\ s.rank[f[h]] = h
  <2> SUFFICES ASSUME NEW h \in 1 .. r
               PROVE  f[h] \in s.nodes /\ s.rank[f[h]] = h
    OBVIOUS
  <2>1. r - h \in Nat /\ r - h < r /\ r - (r - h) = h
    OBVIOUS
  <2>2. r - h \in P
    BY <1>5, <2>1
  <2>3. \E n \in s.nodes : s.rank[n] = h
    BY <2>1, <2>2
  <2> QED
    BY <2>3
<1>7. f \in [1 .. r -> 1 .. N] /\ \A a, b \in 1 .. r : f[a] = f[b] => a = b
  BY <1>6
<1> HIDE DEF f
<1>8. f \in Injection(1 .. r, 1 .. N)
  BY <1>7 DEF Injection, IsInjective
<1>9. IsFiniteSet(1 .. N) /\ Cardinality(1 .. N) = N
  BY ONLY N \in Nat, FS_Interval
<1>10. Cardinality(1 .. r) <= Cardinality(1 .. N)
  BY ONLY <1>8, <1>9, FS_Injection
<1>11. Cardinality(1 .. r) = r
  BY ONLY r \in Nat, FS_Interval
<1> QED
  BY <1>1, <1>9, <1>10, <1>11

\* Each node below which a key is looked for is on the way for that key.
LEMMA OnWay ==
  ASSUME NEW s, SearchTree(s, {}), NEW k \in Int, NEW w, WayFrom(s, s.root, k, w)
  PROVE  \A q \in s.nodes : k \in s.span[q] => w[s.rank[s.root] + 1 - s.rank[q]].node = q
<1>1. PICK r \in Nat : r = s.rank[s.root] /\ r > 0 /\ s.root \in s.nodes
  BY RankIs DEF SearchTree, Shape
<1>2. Len(w) = r /\ w[1].node = s.root
  BY <1>1 DEF WayFrom
<1> DEFINE Q(q) == k \in s.span[q] => w[r + 1 - s.rank[q]].node = q
           P == {m \in Nat : \A q \in s.nodes : s.rank[q] = r - m => Q(q)}
<1>3. 0 \in P
  <2> SUFFICES ASSUME NEW q \in s.nodes, s.rank[q] = r - 0
               PROVE  Q(q)
    OBVIOUS
  <2>1. q = s.root
    BY <1>1, RankIs
  <2>2. r + 1 - s.rank[q] = 1
    BY <1>1
  <2> QED
    BY <1>2, <2>1, <2>2
<1>4. ASSUME NEW m \in Nat, m \in P
      PROVE  m + 1 \in P
  <2> SUFFICES ASSUME NEW q \in s.nodes, s.rank[q] = r - (m + 1), k \in s.span[q]
               PROVE  w[r + 1 - s.rank[q]].node = q
    OBVIOUS
  <2>1. q # s.root
    BY <1>1
  <2>2. PICK p \in s.nodes, i \in Nat : Slot(s, {}, p, i) /\ Below(s, p, i) = q
    BY <2>1 DEF SearchTree, Inner
  <2>3. s.rank[q] = s.rank[p] - 1 /\ i \in 0 .. Len(s.entries[p])
    BY <2>2 DEF SearchTree, Leads, Slot
  <2>4. k \in s.span[p] /\ \A j \in 0 .. Len(s.entries[p]) : Between(s.entries[p], j, k) => j = i
    BY <2>2, WayIs
  <2>5. PICK h \in Nat : h = s.rank[p] /\ h > 0 /\ h <= r
    BY <1>1, RankIs
  <2>6. s.rank[p] = r - m
    BY <1>1, <2>3, <2>5, SMTT(30)
  <2>7. w[r + 1 - h].node = p
    BY <1>4, <2>4, <2>5, <2>6
  <2>8. PICK a : a = r + 1 - h
    OBVIOUS
  <2>9. a \in 1 .. Len(w) /\ a \in 1 .. Len(w) - 1 /\ r + 1 - s.rank[q] = a + 1
    <3>1. PICK g \in Nat : g = s.rank[q] /\ g > 0
      BY RankIs
    <3>2. g = h - 1
      BY <2>3, <2>5, <3>1
    <3>3. a \in 1 .. r /\ a \in 1 .. r - 1 /\ r + 1 - g = a + 1
      BY ONLY <2>5, <2>8, <3>1, <3>2, r \in Nat, h \in Nat, g \in Nat
    <3> QED
      BY <1>2, <3>1, <3>3
  <2>10. w[a].index \in 0 .. Len(s.entries[p]) /\ Between(s.entries[p], w[a].index, k)
    BY <2>7, <2>8, <2>9 DEF WayFrom
  <2>11. w[a].index = i
    BY <2>4, <2>10
  <2>12. Below(s, w[a].node, w[a].index) = w[a + 1].node
    BY <2>9 DEF WayFrom
  <2> QED
    BY <2>2, <2>7, <2>8, <2>9, <2>11, <2>12
<1>5. Nat \subseteq P
  <2> HIDE DEF P
  <2> QED
    BY <1>3, <1>4, NumberInduction
<1>6. ASSUME NEW q \in s.nodes
      PROVE  Q(q)
  <2>1. PICK h \in Nat : h = s.rank[q] /\ h > 0 /\ h <= r
    BY <1>1, RankIs
  <2>2. r - h \in P /\ h = r - (r - h)
    BY <1>5, <2>1
  <2> QED
    BY <2>1, <2>2
<1> QED
  BY <1>1, <1>6

\* A tree as it is stored, with room for MaxNodes nodes.
Stored(t) == t \in TreeType /\ Len(t.nodes) <= MaxNodes

\* What is stored is a search tree that shows f.
Sound(t, f) == Stored(t) /\ \E s : SearchTree(s, {}) /\ Represents(t, s) /\ Shows(s, f)

LEMMA NodesBounded ==
  ASSUME NEW t, Stored(t), NEW s, Shape(s), Represents(t, s)
  PROVE  s.nodes \subseteq 1 .. Len(t.nodes) /\ s.nodes \subseteq 1 .. MaxNodes /\ MaxNodes \in Nat /\ MaxNodes > 0
<1>1. MaxNodes \in Nat /\ MaxNodes > 0
  BY NodesAssumption
<1>2. t.nodes \in Seq(NodeType) /\ Len(t.nodes) \in Nat /\ DOMAIN t.nodes = 1 .. Len(t.nodes) /\ Len(t.nodes) <= MaxNodes
  BY DEF Stored, TreeType
<1>3. s.nodes \subseteq DOMAIN t.nodes
  BY DEF Represents, Loads
<1> QED
  BY <1>1, <1>2, <1>3

\* The way that Descent takes ends at a leaf, and LookUp looks there.
LEMMA DescentArrives ==
  ASSUME NEW t, Stored(t), NEW s, SearchTree(s, {}), Represents(t, s), NEW k \in Int
  PROVE  Arrives(t, s, k, s.root, Descent(t, k), LookUp(t, k))
<1>1. t \in TreeType /\ Shape(s) /\ s.root \in s.nodes /\ t.root = s.root
  BY DEF Stored, SearchTree, Shape, Represents
<1>2. PICK down : /\ Descent(t, k) = down[MaxNodes][t.root]
                  /\ \A d \in 0 .. MaxNodes : \A n \in Int : down[d][n] = DownFrom(t, k, n, d = 0, down[d - 1])
  BY <1>1, DescentIs
<1>3. PICK find : /\ LookUp(t, k) = find[MaxNodes][t.root]
                  /\ \A d \in 0 .. MaxNodes : \A n \in Int : find[d][n] = FindFrom(t, k, n, d > 0, find[d - 1])
  BY <1>1, LookUpIs
<1>4. s.nodes \subseteq 1 .. MaxNodes /\ MaxNodes \in Nat /\ MaxNodes > 0
  BY <1>1, NodesBounded
<1>5. s.rank[s.root] <= MaxNodes /\ s.rank[s.root] \in Nat
  BY <1>1, <1>4, LevelsBounded, RankIs
<1>6. \A d \in 0 .. MaxNodes : \A n \in s.nodes : s.rank[n] <= d + 1 => Arrives(t, s, k, n, down[d][n], find[d][n])
  BY <1>1, <1>2, <1>3, WaysArrive
<1>7. MaxNodes \in 0 .. MaxNodes /\ s.rank[s.root] <= MaxNodes + 1
  BY <1>4, <1>5
<1> QED
  BY <1>1, <1>2, <1>3, <1>6, <1>7

\* The leaf at the end of a way has the key if any has it.
LEMMA LeafOnWay ==
  ASSUME NEW s, SearchTree(s, {}), NEW k \in Int, NEW w, WayFrom(s, s.root, k, w)
  PROVE  /\ Last(w).node \in s.nodes /\ s.rank[Last(w).node] = 1
         /\ Last(w).index \in 0 .. Len(s.entries[Last(w).node])
         /\ Between(s.entries[Last(w).node], Last(w).index, k)
         /\ \A v : Has(s, k, v) <=> /\ Last(w).index < Len(s.entries[Last(w).node])
                                    /\ s.entries[Last(w).node][Last(w).index + 1].key = k
                                    /\ s.entries[Last(w).node][Last(w).index + 1].value = v
<1>1. PICK r \in Nat : r = s.rank[s.root] /\ r > 0 /\ s.root \in s.nodes
  BY RankIs DEF SearchTree, Shape
<1>2. Len(w) = r /\ r \in 1 .. Len(w) /\ Last(w) = w[r] /\ r + 1 - 1 = r
  BY <1>1 DEF WayFrom, Last
<1>3. PICK m, i : m = Last(w).node /\ i = Last(w).index
  OBVIOUS
<1>4. m \in s.nodes /\ s.rank[m] = 1 /\ i \in 0 .. Len(s.entries[m]) /\ Between(s.entries[m], i, k)
  <2>1. /\ w[r].node \in s.nodes /\ s.rank[w[r].node] = s.rank[s.root] + 1 - r
        /\ w[r].index \in 0 .. Len(s.entries[w[r].node])
        /\ Between(s.entries[w[r].node], w[r].index, k)
    BY <1>2 DEF WayFrom
  <2>2. m = w[r].node /\ i = w[r].index
    BY <1>2, <1>3
  <2>3. s.rank[s.root] + 1 - r = 1
    BY ONLY <1>1, r \in Nat
  <2> QED
    BY <2>1, <2>2, <2>3
<1>5. Shape(s) /\ Ordered(s, m)
  BY <1>4 DEF SearchTree
<1>6. s.entries[m] \in Seq(Entry) /\ Len(s.entries[m]) \in Nat /\ Ascending(s.entries[m])
  BY <1>4, <1>5, ShapeIs DEF Ordered
<1>7. ASSUME NEW v, Has(s, k, v)
      PROVE  i < Len(s.entries[m]) /\ s.entries[m][i + 1].key = k /\ s.entries[m][i + 1].value = v
  <2>1. PICK n \in s.nodes : /\ s.rank[n] = 1
                            /\ \E j \in 1 .. Len(s.entries[n]) : s.entries[n][j].key = k /\ s.entries[n][j].value = v
    BY <1>7 DEF Has, EntryIn
  <2>2. PICK j \in 1 .. Len(s.entries[n]) : s.entries[n][j].key = k /\ s.entries[n][j].value = v
    BY <2>1
  <2>3. Ordered(s, n)
    BY DEF SearchTree
  <2>4. k \in s.span[n]
    BY <2>2, <2>3 DEF Ordered
  <2>5. w[s.rank[s.root] + 1 - s.rank[n]].node = n
    BY <2>4, OnWay
  <2>6. n = m
    BY <1>1, <1>2, <1>3, <2>1, <2>5
  <2>7. j - 1 \in 0 .. Len(s.entries[m]) /\ j \in 1 .. Len(s.entries[m])
    BY <1>6, <2>6
  <2>8. Between(s.entries[m], j - 1, k)
    <3>1. j - 1 > 0 => s.entries[m][j - 1].key < k
      <4> SUFFICES ASSUME j - 1 > 0
                   PROVE  s.entries[m][j - 1].key < k
        OBVIOUS
      <4>1. j - 1 \in 1 .. Len(s.entries[m]) /\ j - 1 < j
        BY <1>6, <2>7
      <4> QED
        BY <1>6, <2>2, <2>6, <2>7, <4>1 DEF Ascending
    <3>2. (j - 1) + 1 = j
      BY <2>7
    <3> QED
      BY <2>2, <2>6, <3>1, <3>2 DEF Between
  <2>9. j - 1 = i
    BY ONLY <1>4, <1>6, <2>7, <2>8, k \in Int, BetweenIsUnique
  <2>10. i < Len(s.entries[m]) /\ i + 1 = j
    BY <1>6, <2>7, <2>9
  <2> QED
    BY <2>2, <2>6, <2>10
<1>8. ASSUME NEW v, i < Len(s.entries[m]), s.entries[m][i + 1].key = k, s.entries[m][i + 1].value = v
      PROVE  Has(s, k, v)
  <2>1. i + 1 \in 1 .. Len(s.entries[m])
    BY <1>4, <1>6, <1>8
  <2> QED
    BY <1>4, <1>8, <2>1 DEF Has, EntryIn
<1> QED
  BY <1>3, <1>4, <1>7, <1>8

\* What a sound tree shows is what LookUp returns, and the leaf that Descent
\* comes to has each key that the tree shows.
LEMMA ShownIsFound ==
  ASSUME NEW t, Stored(t), NEW s, SearchTree(s, {}), Represents(t, s), NEW f, Shows(s, f), NEW k \in Key
  PROVE  /\ LookUp(t, k) = f[k]
         /\ WayFrom(s, s.root, k, Descent(t, k))
         /\ HasKey(Node(t, LeafFor(t, k)), k) <=> f[k] # NoValue
         /\ LeafFor(t, k) \in s.nodes /\ s.rank[LeafFor(t, k)] = 1
         /\ Last(Descent(t, k)).index = KeyIndex(Node(t, LeafFor(t, k)), k)
<1>1. k \in Int
  BY KeysAreNumbers
<1>2. Arrives(t, s, k, s.root, Descent(t, k), LookUp(t, k))
  BY <1>1, DescentArrives
<1>3. PICK w : w = Descent(t, k)
  OBVIOUS
<1>4. PICK m, i : m = Last(w).node /\ i = Last(w).index
  OBVIOUS
<1>5. WayFrom(s, s.root, k, w) /\ LookUp(t, k) = ValueIn(t, k, m)
  BY <1>2, <1>3, <1>4 DEF Arrives
<1>6. /\ m \in s.nodes /\ s.rank[m] = 1
      /\ i \in 0 .. Len(s.entries[m])
      /\ Between(s.entries[m], i, k)
      /\ \A v : Has(s, k, v) <=> /\ i < Len(s.entries[m])
                                 /\ s.entries[m][i + 1].key = k
                                 /\ s.entries[m][i + 1].value = v
  <2>1. /\ Last(w).node \in s.nodes /\ s.rank[Last(w).node] = 1
        /\ Last(w).index \in 0 .. Len(s.entries[Last(w).node])
        /\ Between(s.entries[Last(w).node], Last(w).index, k)
        /\ \A v : Has(s, k, v) <=> /\ Last(w).index < Len(s.entries[Last(w).node])
                                   /\ s.entries[Last(w).node][Last(w).index + 1].key = k
                                   /\ s.entries[Last(w).node][Last(w).index + 1].value = v
    BY ONLY <1>1, <1>5, SearchTree(s, {}), LeafOnWay
  <2> QED
    BY <1>4, <2>1
<1>7. Shape(s) /\ Ordered(s, m)
  BY <1>6 DEF SearchTree
<1>8. PICK node : node = Node(t, m)
  OBVIOUS
<1>9. node.entries = s.entries[m] /\ NumKeys(node) = Len(s.entries[m])
  BY <1>6, <1>8, ShapeNodeIs
<1>10. node.entries \in Seq(Entry) /\ Ascending(node.entries) /\ Len(node.entries) \in Nat
  BY <1>6, <1>7, <1>9, ShapeIs DEF Ordered
<1>11. i \in 0 .. Len(node.entries) /\ Between(node.entries, i, k)
  BY <1>6, <1>9
<1>12. KeyIndex(node, k) = i
  BY ONLY <1>1, <1>10, <1>11, KeyIndexIs
<1>13. HasKey(node, k) => i < Len(node.entries) /\ node.entries[i + 1].key = k
  BY ONLY <1>1, <1>10, <1>11, HasKeyIs
<1>14. HasKey(node, k) <=> i < Len(node.entries) /\ node.entries[i + 1].key = k
  <2>1. ASSUME i < Len(node.entries), node.entries[i + 1].key = k
        PROVE  HasKey(node, k)
    <3>1. i + 1 \in 1 .. Len(node.entries)
      BY <1>10, <1>11, <2>1
    <3> QED
      BY <2>1, <3>1 DEF HasKey, NumKeys
  <2> QED
    BY <1>13, <2>1
<1>15. LookUp(t, k) = IF HasKey(node, k) THEN node.entries[i + 1].value ELSE NoValue
  BY <1>5, <1>8, <1>12 DEF ValueIn
<1>16. \A v : Has(s, k, v) <=> HasKey(node, k) /\ node.entries[i + 1].value = v
  BY <1>6, <1>9, <1>14
<1>17. \A v : Has(s, k, v) <=> v = f[k] /\ v # NoValue
  BY DEF Shows
<1>18. LookUp(t, k) = f[k] /\ (HasKey(node, k) <=> f[k] # NoValue)
  BY ONLY <1>15, <1>16, <1>17
<1>19. LeafFor(t, k) = m
  BY <1>3, <1>4 DEF LeafFor
<1> QED
  BY <1>3, <1>4, <1>5, <1>6, <1>8, <1>12, <1>18, <1>19

LEMMA SoundIsFound ==
  ASSUME NEW t, NEW f, Sound(t, f)
  PROVE  \A k \in Key : LookUp(t, k) = f[k]
  BY ShownIsFound DEF Sound

-----------------------------------------------------------------------------
(* Changes of leaves.                                                      *)

\* Of the leaves, only the one on the way for a key has it.
LEMMA OnlyLeaf ==
  ASSUME NEW s, SearchTree(s, {}), NEW k \in Int, NEW w, WayFrom(s, s.root, k, w),
         NEW m \in s.nodes, s.rank[m] = 1, NEW v, EntryIn(s.entries[m], k, v)
  PROVE  m = Last(w).node
<1>1. PICK r \in Nat : r = s.rank[s.root] /\ r > 0 /\ s.root \in s.nodes
  BY RankIs DEF SearchTree, Shape
<1>2. Len(w) = r /\ Last(w) = w[r] /\ r + 1 - 1 = r
  BY <1>1 DEF WayFrom, Last
<1>3. k \in s.span[m]
  BY DEF EntryIn, SearchTree, Ordered
<1>4. w[s.rank[s.root] + 1 - s.rank[m]].node = m
  BY <1>3, OnWay
<1> QED
  BY <1>1, <1>2, <1>4

\* The shape with other entries in node n.
WithEntries(s, n, e) ==
  [root |-> s.root, nodes |-> s.nodes, entries |-> [s.entries EXCEPT ![n] = e],
   over |-> s.over, rank |-> s.rank, span |-> s.span]

LEMMA WithEntriesIs ==
  ASSUME NEW s, Shape(s), NEW n \in s.nodes, NEW e \in Seq(Entry), NEW z, z = WithEntries(s, n, e)
  PROVE  /\ Shape(z)
         /\ z.root = s.root /\ z.nodes = s.nodes /\ z.over = s.over /\ z.rank = s.rank /\ z.span = s.span
         /\ z.entries[n] = e
         /\ \A m \in s.nodes : m # n => z.entries[m] = s.entries[m] /\ \A i : Below(z, m, i) = Below(s, m, i)
<1>1. /\ z.root = s.root /\ z.nodes = s.nodes /\ z.over = s.over /\ z.rank = s.rank /\ z.span = s.span
      /\ z.entries = [s.entries EXCEPT ![n] = e]
  BY DEF WithEntries
<1>2. s.entries \in [s.nodes -> Seq(Entry)]
  BY DEF Shape
<1>3. z.entries \in [s.nodes -> Seq(Entry)] /\ z.entries[n] = e /\ \A m \in s.nodes : m # n => z.entries[m] = s.entries[m]
  BY <1>1, <1>2
<1> QED
  BY <1>1, <1>3 DEF Shape, Below

\* A leaf can have these entries.
LeafEntries(s, n, e) ==
  /\ n \in s.nodes /\ s.rank[n] = 1
  /\ e \in Seq(Entry) /\ Ascending(e)
  /\ \A i \in 1 .. Len(e) : e[i].key \in s.span[n] /\ e[i].value # NoValue

LEMMA LeafChanged ==
  ASSUME NEW s, NEW missing, SearchTree(s, missing), NEW n, NEW e, LeafEntries(s, n, e)
  PROVE  SearchTree(WithEntries(s, n, e), missing)
<1>0. /\ n \in s.nodes /\ s.rank[n] = 1
      /\ e \in Seq(Entry) /\ Ascending(e)
      /\ \A i \in 1 .. Len(e) : e[i].key \in s.span[n] /\ e[i].value # NoValue
  BY DEF LeafEntries
<1>1. PICK z : z = WithEntries(s, n, e)
  OBVIOUS
<1>2. Shape(s)
  BY DEF SearchTree
<1>3. /\ Shape(z)
      /\ z.root = s.root /\ z.nodes = s.nodes /\ z.over = s.over /\ z.rank = s.rank /\ z.span = s.span
      /\ z.entries[n] = e
      /\ \A m \in s.nodes : m # n => z.entries[m] = s.entries[m] /\ \A i : Below(z, m, i) = Below(s, m, i)
  BY <1>0, <1>1, <1>2, WithEntriesIs
<1>4. \A m \in z.nodes : Ordered(z, m)
  BY <1>0, <1>3 DEF SearchTree, Ordered
<1>5. ASSUME NEW p, NEW i
      PROVE  /\ Slot(z, missing, p, i) <=> Slot(s, missing, p, i)
             /\ Slot(s, missing, p, i) => p # n /\ Below(z, p, i) = Below(s, p, i) /\ z.entries[p] = s.entries[p]
  BY <1>0, <1>3 DEF Slot
<1>6. \A m \in z.nodes \ {z.root} : Inner(z, missing, m)
  BY <1>3, <1>5 DEF SearchTree, Inner
<1>7. ASSUME NEW p \in z.nodes, NEW i \in Nat, Slot(z, missing, p, i)
      PROVE  Leads(z, p, i)
  <2>1. Leads(s, p, i)
    BY <1>3, <1>5, <1>7 DEF SearchTree
  <2> QED
    BY <1>3, <1>5, <1>7, <2>1 DEF Leads
<1>8. Apart(z, missing)
  BY <1>3, <1>5 DEF SearchTree, Apart
<1>9. SearchTree(z, missing)
  BY <1>3, <1>4, <1>6, <1>7, <1>8 DEF SearchTree
<1> QED
  BY <1>1, <1>9

\* A leaf on the way for a key is given or loses it.
LEMMA LeafShows ==
  ASSUME NEW s, SearchTree(s, {}), NEW k \in Key, NEW w, WayFrom(s, s.root, k, w), NEW n, n = Last(w).node,
         NEW f \in [Key -> Nat \cup {NoValue}], Shows(s, f), NEW x, NEW e \in Seq(Entry),
         \A k2 \in Key \ {k} : \A v : EntryIn(e, k2, v) <=> EntryIn(s.entries[n], k2, v),
         \A v : EntryIn(e, k, v) <=> v = x /\ v # NoValue
  PROVE  Shows(WithEntries(s, n, e), [f EXCEPT ![k] = x])
<1>1. PICK z, g : z = WithEntries(s, n, e) /\ g = [f EXCEPT ![k] = x]
  OBVIOUS
<1>2. Shape(s) /\ k \in Int
  BY KeysAreNumbers DEF SearchTree
<1>3. n \in s.nodes /\ s.rank[n] = 1
  BY <1>2, LeafOnWay
<1>4. /\ z.nodes = s.nodes /\ z.rank = s.rank /\ z.entries[n] = e
      /\ \A m \in s.nodes : m # n => z.entries[m] = s.entries[m]
  BY <1>1, <1>2, <1>3, WithEntriesIs
<1>5. \A m \in s.nodes : \A v : s.rank[m] = 1 /\ EntryIn(s.entries[m], k, v) => m = n
  BY <1>2, OnlyLeaf
<1>6. ASSUME NEW k2 \in Key, NEW v
      PROVE  Has(z, k2, v) <=> v = g[k2] /\ v # NoValue
  <2>1. CASE k2 = k
    <3>1. g[k2] = x
      BY <1>1, <2>1
    <3>2. Has(z, k, v) <=> EntryIn(e, k, v)
      BY <1>3, <1>4, <1>5 DEF Has
    <3> QED
      BY <2>1, <3>1, <3>2
  <2>2. CASE k2 # k
    <3>1. g[k2] = f[k2]
      BY <1>1, <2>2
    <3>2. Has(z, k2, v) <=> Has(s, k2, v)
      BY <1>4, <2>2 DEF Has
    <3> QED
      BY <3>1, <3>2 DEF Shows
  <2> QED
    BY <2>1, <2>2
<1>7. Shows(z, g)
  BY <1>6 DEF Shows
<1> QED
  BY <1>1, <1>7

\* The ways of WayFrom, from the root, are slots.
LEMMA WaySlots ==
  ASSUME NEW s, SearchTree(s, {}), NEW k, NEW w, WayFrom(s, s.root, k, w)
  PROVE  /\ Way(s, {}, w) /\ Len(w) = s.rank[s.root] /\ Len(w) \in Nat /\ Len(w) > 0
         /\ \A j \in 1 .. Len(w) - 1 : Slot(s, {}, w[j].node, w[j].index) /\ w[j].index \in Nat
<1>1. PICK r \in Nat : r = s.rank[s.root] /\ r > 0 /\ s.root \in s.nodes
  BY RankIs DEF SearchTree, Shape
<1>2. Len(w) = r
  BY <1>1 DEF WayFrom
<1>3. ASSUME NEW j \in 1 .. r - 1
      PROVE  /\ Slot(s, {}, w[j].node, w[j].index) /\ w[j].index \in Nat
             /\ Below(s, w[j].node, w[j].index) = w[j + 1].node
  <2>1. j \in 1 .. Len(w) /\ j \in 1 .. Len(w) - 1
    BY <1>1, <1>2
  <2>2. /\ w[j].node \in s.nodes /\ s.rank[w[j].node] = s.rank[s.root] + 1 - j
        /\ w[j].index \in 0 .. Len(s.entries[w[j].node])
        /\ Below(s, w[j].node, w[j].index) = w[j + 1].node
    BY <2>1 DEF WayFrom
  <2>3. s.rank[w[j].node] > 1
    BY ONLY <1>1, <2>2, r \in Nat, j \in 1 .. r - 1
  <2>4. Len(s.entries[w[j].node]) \in Nat
    BY <2>2, ShapeIs DEF SearchTree
  <2> QED
    BY <2>2, <2>3, <2>4 DEF Slot
<1>4. w # <<>>
  BY <1>1, <1>2
<1>5. Way(s, {}, w)
  BY <1>2, <1>3, <1>4 DEF Way, WayFrom
<1> QED
  BY <1>1, <1>2, <1>3, <1>5

\* Key k is looked for below the nodes on its way.
Passed(w, m) == \E j \in 1 .. Len(w) : w[j].node = m
Extended(s, w, k) ==
  [root |-> s.root, nodes |-> s.nodes, entries |-> s.entries, over |-> s.over, rank |-> s.rank,
   span |-> [m \in s.nodes |-> IF Passed(w, m) THEN s.span[m] \cup {k} ELSE s.span[m]]]

LEMMA ExtendedIs ==
  ASSUME NEW s, SearchTree(s, {}), NEW k \in Key, NEW w, WayFrom(s, s.root, k, w), NEW z, z = Extended(s, w, k)
  PROVE  /\ SearchTree(z, {})
         /\ z.root = s.root /\ z.nodes = s.nodes /\ z.entries = s.entries /\ z.over = s.over /\ z.rank = s.rank
         /\ WayFrom(z, z.root, k, w) /\ k \in z.span[Last(w).node]
<1>1. /\ z.root = s.root /\ z.nodes = s.nodes /\ z.entries = s.entries /\ z.over = s.over /\ z.rank = s.rank
      /\ z.span = [m \in s.nodes |-> IF Passed(w, m) THEN s.span[m] \cup {k} ELSE s.span[m]]
  BY DEF Extended
<1>2. Shape(s) /\ k \in Int
  BY KeysAreNumbers DEF SearchTree
<1>3. \A m \in s.nodes : /\ z.span[m] = IF Passed(w, m) THEN s.span[m] \cup {k} ELSE s.span[m]
                         /\ s.span[m] \subseteq z.span[m] /\ s.span[m] \subseteq Key
                         /\ Passed(w, m) => k \in z.span[m]
  BY <1>1, <1>2, ShapeIs
<1>4. Shape(z)
  <2> DEFINE g(m) == IF Passed(w, m) THEN s.span[m] \cup {k} ELSE s.span[m]
  <2>0. \A m \in s.nodes : g(m) \in SUBSET Key
    BY <1>3
  <2>1. z.span \in [z.nodes -> SUBSET Key]
    <3>1. z.span = [m \in s.nodes |-> g(m)]
      BY <1>1
    <3> HIDE DEF g
    <3> QED
      BY <1>1, <2>0, <3>1
  <2> QED
    BY <1>1, <1>2, <2>1 DEF Shape
<1>5. \A p, i : Below(z, p, i) = Below(s, p, i) /\ (Slot(z, {}, p, i) <=> Slot(s, {}, p, i))
  BY <1>1 DEF Below, Slot
<1>6. /\ Way(s, {}, w) /\ Len(w) = s.rank[s.root] /\ Len(w) \in Nat /\ Len(w) > 0
      /\ \A j \in 1 .. Len(w) - 1 : Slot(s, {}, w[j].node, w[j].index) /\ w[j].index \in Nat
  BY WaySlots
<1>7. \A m \in z.nodes : Ordered(z, m)
  <2> SUFFICES ASSUME NEW m \in z.nodes
               PROVE  Ordered(z, m)
    OBVIOUS
  <2>1. Ordered(s, m)
    BY <1>1 DEF SearchTree
  <2> QED
    BY <1>1, <1>3, <2>1 DEF Ordered
<1>8. \A m \in z.nodes \ {z.root} : Inner(z, {}, m)
  <2> SUFFICES ASSUME NEW m \in z.nodes \ {z.root}
               PROVE  Inner(z, {}, m)
    OBVIOUS
  <2>1. Inner(s, {}, m)
    BY <1>1 DEF SearchTree
  <2>2. z.span[m] # {}
    BY <1>1, <1>3, <2>1 DEF Inner
  <2> QED
    BY <1>1, <1>5, <2>1, <2>2 DEF Inner
<1>9. ASSUME NEW p \in z.nodes, NEW i \in Nat, Slot(z, {}, p, i)
      PROVE  Leads(z, p, i)
  <2>1. Slot(s, {}, p, i) /\ p \in s.nodes
    BY <1>1, <1>5, <1>9
  <2>2. PICK c : c = Below(s, p, i) /\ c \in s.nodes /\ s.rank[c] = s.rank[p] - 1
    BY <2>1 DEF SearchTree, Leads
  <2>3. \A k2 \in s.span[c] : k2 \in s.span[p] /\ Between(s.entries[p], i, k2)
    BY <2>1, <2>2 DEF SearchTree, Leads
  <2>4. ASSUME Passed(w, c)
        PROVE  k \in z.span[p] /\ Between(s.entries[p], i, k)
    <3>1. PICK j \in 1 .. Len(w) : w[j].node = c
      BY <2>4 DEF Passed
    <3>2. j # 1
      <4>1. s.rank[p] \in Nat /\ s.rank[c] \in Nat /\ s.rank[p] <= s.rank[s.root] /\ s.rank[s.root] \in Nat
        BY <2>1, <2>2, RankIs
      <4>2. s.rank[c] # s.rank[s.root]
        BY <2>2, <4>1
      <4> QED
        BY <3>1, <4>2 DEF WayFrom
    <3>3. PICK a : a = j - 1
      OBVIOUS
    <3>4. a \in 1 .. Len(w) - 1 /\ a + 1 = j /\ a \in 1 .. Len(w)
      BY <1>6, <3>2, <3>3
    <3>5. Slot(s, {}, w[a].node, w[a].index) /\ Below(s, w[a].node, w[a].index) = c /\ w[a].index \in Nat
      BY <1>6, <3>1, <3>4 DEF WayFrom
    <3>6. Between(s.entries[w[a].node], w[a].index, k) /\ w[a].node \in s.nodes
      BY <3>4 DEF WayFrom
    <3>7. w[a].node = p /\ w[a].index = i
      BY <2>1, <2>2, <3>5, <3>6 DEF SearchTree, Apart
    <3>8. Passed(w, p)
      BY <3>4, <3>7 DEF Passed
    <3> QED
      BY <1>3, <2>1, <3>6, <3>7, <3>8
  <2>5. \A k2 \in z.span[c] : k2 \in z.span[p] /\ Between(s.entries[p], i, k2)
    BY <1>3, <2>1, <2>2, <2>3, <2>4
  <2> QED
    BY <1>1, <1>5, <2>2, <2>5 DEF Leads
<1>10. Apart(z, {})
  BY <1>1, <1>5 DEF SearchTree, Apart
<1>11. WayFrom(z, z.root, k, w)
  BY <1>1, <1>5 DEF WayFrom
<1>12. k \in z.span[Last(w).node]
  <2>1. Len(w) \in 1 .. Len(w) /\ Last(w) = w[Len(w)]
    BY <1>6 DEF Last
  <2>2. Passed(w, Last(w).node) /\ Last(w).node \in s.nodes
    BY <2>1 DEF Passed, WayFrom
  <2> QED
    BY <1>3, <2>2
<1>13. SearchTree(z, {})
  BY <1>4, <1>7, <1>8, <1>9, <1>10 DEF SearchTree
<1> QED
  BY <1>1, <1>11, <1>12, <1>13

-----------------------------------------------------------------------------
(* Entries put in and taken out.                                           *)

\* d is e with entry x put in behind the first i.
Inserted(e, i, x, d) ==
  /\ d \in Seq(Entry) /\ Len(d) = Len(e) + 1 /\ Ascending(d)
  /\ \A j \in 1 .. Len(e) + 1 : d[j] = IF j < i + 1 THEN e[j] ELSE IF j = i + 1 THEN x ELSE e[j - 1]
  /\ \A k, v : EntryIn(d, k, v) <=> EntryIn(e, k, v) \/ (k = x.key /\ v = x.value)

LEMMA EntryInserted ==
  ASSUME NEW e \in Seq(Entry), Ascending(e), NEW x \in Entry, NEW i \in 0 .. Len(e), Between(e, i, x.key),
         i < Len(e) => e[i + 1].key # x.key
  PROVE  Inserted(e, i, x, InsertAt(e, i + 1, x))
<1>0. PICK d : d = InsertAt(e, i + 1, x)
  OBVIOUS
<1>1. PICK l \in Nat : l = Len(e)
  OBVIOUS
<1>2. i \in Int /\ 0 <= i /\ i <= l
  BY <1>1
<1>3. i + 1 \in 1 .. Len(e) + 1
  BY <1>1, <1>2
<1>4. /\ d \in Seq(Entry) /\ Len(d) = l + 1
      /\ \A j \in 1 .. l + 1 : d[j] = IF j < i + 1 THEN e[j] ELSE IF j = i + 1 THEN x ELSE e[j - 1]
  <2>1. PICK m : m = i + 1
    OBVIOUS
  <2>2. m \in 1 .. Len(e) + 1
    BY <1>3, <2>1
  <2>3. /\ InsertAt(e, m, x) \in Seq(Entry) /\ Len(InsertAt(e, m, x)) = Len(e) + 1
        /\ \A j \in 1 .. Len(e) + 1 :
             InsertAt(e, m, x)[j] = IF j < m THEN e[j] ELSE IF j = m THEN x ELSE e[j - 1]
    BY ONLY <2>2, e \in Seq(Entry), x \in Entry, InsertAtIs
  <2> QED
    BY <1>0, <1>1, <2>1, <2>3
<1>5. \A j \in 1 .. l : e[j].key \in Int
  BY <1>1, EntryIs
<1>6. x.key \in Int
  BY KeysAreNumbers DEF Entry
<1>7. \A j \in 1 .. l : (j < i + 1 => e[j].key < x.key) /\ (j >= i + 1 => x.key < e[j].key)
  <2> SUFFICES ASSUME NEW j \in 1 .. l
               PROVE  (j < i + 1 => e[j].key < x.key) /\ (j >= i + 1 => x.key < e[j].key)
    OBVIOUS
  <2>1. CASE j < i + 1
    <3>1. e[i].key < x.key /\ (j = i \/ e[j].key < e[i].key)
      BY <1>1, <1>2, <2>1 DEF Between, Ascending
    <3> QED
      BY <1>2, <1>5, <1>6, <2>1, <3>1
  <2>2. CASE j >= i + 1
    <3>1. x.key < e[i + 1].key
      <4>1. i < Len(e) /\ i + 1 \in 1 .. l
        BY <1>1, <1>2, <2>2
      <4>2. x.key <= e[i + 1].key /\ e[i + 1].key # x.key
        BY <4>1 DEF Between
      <4> QED
        BY <1>5, <1>6, <4>1, <4>2
    <3>2. j = i + 1 \/ e[i + 1].key < e[j].key
      BY <1>1, <1>2, <2>2 DEF Ascending
    <3> QED
      BY <1>2, <1>5, <1>6, <2>2, <3>1, <3>2
  <2> QED
    BY <1>2, <2>1, <2>2
<1>8. ASSUME NEW a \in 1 .. l + 1, NEW b \in 1 .. l + 1, a < b
      PROVE  d[a].key < d[b].key
  <2>1. CASE b < i + 1
    <3>1. d[a] = e[a] /\ d[b] = e[b] /\ a \in 1 .. l /\ b \in 1 .. l
      BY <1>2, <1>4, <1>8, <2>1
    <3> QED
      BY <1>1, <1>8, <3>1 DEF Ascending
  <2>2. CASE b = i + 1
    <3>1. d[a] = e[a] /\ d[b] = x /\ a \in 1 .. l /\ a < i + 1
      BY <1>2, <1>4, <1>8, <2>2
    <3> QED
      BY <1>7, <3>1
  <2>3. CASE b > i + 1 /\ a < i + 1
    <3>0. a \in 1 .. l /\ b - 1 \in 1 .. l /\ a < b - 1
      BY ONLY l \in Nat, i \in Int, <1>2, <1>8, <2>3, a \in 1 .. l + 1, b \in 1 .. l + 1
    <3>1. d[a] = e[a] /\ d[b] = e[b - 1] /\ a \in 1 .. l /\ b - 1 \in 1 .. l /\ a < b - 1
      BY ONLY <3>0, <1>2, <1>4, <2>3, a \in 1 .. l + 1, b \in 1 .. l + 1
    <3> QED
      BY <1>1, <3>1 DEF Ascending
  <2>4. CASE b > i + 1 /\ a = i + 1
    <3>1. d[a] = x /\ d[b] = e[b - 1] /\ b - 1 \in 1 .. l /\ b - 1 >= i + 1
      BY <1>2, <1>4, <1>8, <2>4
    <3> QED
      BY <1>7, <3>1
  <2>5. CASE a > i + 1
    <3>1. d[a] = e[a - 1] /\ d[b] = e[b - 1] /\ a - 1 \in 1 .. l /\ b - 1 \in 1 .. l /\ a - 1 < b - 1
      BY <1>2, <1>4, <1>8, <2>5, SMTT(30)
    <3> QED
      BY <1>1, <3>1 DEF Ascending
  <2> QED
    BY <1>2, <1>8, <2>1, <2>2, <2>3, <2>4, <2>5
<1>9. Ascending(d)
  BY <1>4, <1>8 DEF Ascending
<1>10. ASSUME NEW k, NEW v
       PROVE  EntryIn(d, k, v) <=> EntryIn(e, k, v) \/ (k = x.key /\ v = x.value)
  <2>1. ASSUME EntryIn(d, k, v)
        PROVE  EntryIn(e, k, v) \/ (k = x.key /\ v = x.value)
    <3>1. PICK j \in 1 .. l + 1 : d[j].key = k /\ d[j].value = v
      BY <1>4, <2>1 DEF EntryIn
    <3>2. d[j] = x \/ (j \in 1 .. l /\ d[j] = e[j]) \/ (j - 1 \in 1 .. l /\ d[j] = e[j - 1])
      BY <1>2, <1>4
    <3> QED
      BY <1>1, <3>1, <3>2 DEF EntryIn
  <2>2. ASSUME EntryIn(e, k, v)
        PROVE  EntryIn(d, k, v)
    <3>1. PICK j \in 1 .. l : e[j].key = k /\ e[j].value = v
      BY <1>1, <2>2 DEF EntryIn
    <3>2. CASE j < i + 1
      <4>1. j \in 1 .. Len(d) /\ d[j] = e[j]
        BY <1>2, <1>4, <3>2
      <4> QED
        BY <3>1, <4>1 DEF EntryIn
    <3>3. CASE ~ (j < i + 1)
      <4>1. PICK b : b = j + 1
        OBVIOUS
      <4>2. b \in 1 .. Len(d) /\ d[b] = e[b - 1] /\ b - 1 = j
        BY <1>2, <1>4, <3>3, <4>1
      <4> QED
        BY <3>1, <4>2 DEF EntryIn
    <3> QED
      BY <3>2, <3>3
  <2>3. EntryIn(d, x.key, x.value)
    <3>1. i + 1 \in 1 .. Len(d) /\ d[i + 1] = x
      BY <1>2, <1>4
    <3> QED
      BY <3>1 DEF EntryIn
  <2> QED
    BY <2>1, <2>2, <2>3
<1>11. Inserted(e, i, x, d)
  BY <1>1, <1>4, <1>9, <1>10 DEF Inserted
<1> QED
  BY <1>0, <1>11

\* d is e without its i-th entry.
Dropped(e, i, d) ==
  /\ d \in Seq(Entry) /\ Len(d) = Len(e) - 1 /\ Ascending(d)
  /\ \A j \in 1 .. Len(e) - 1 : d[j] = IF j < i THEN e[j] ELSE e[j + 1]
  /\ \A k, v : EntryIn(d, k, v) <=> EntryIn(e, k, v) /\ k # e[i].key

LEMMA EntryRemoved ==
  ASSUME NEW e \in Seq(Entry), Ascending(e), NEW i \in 1 .. Len(e)
  PROVE  Dropped(e, i, RemoveAt(e, i))
<1>0. PICK d : d = RemoveAt(e, i)
  OBVIOUS
<1>1. PICK l \in Nat : l = Len(e)
  OBVIOUS
<1>2. i \in Int /\ 1 <= i /\ i <= l
  BY <1>1
<1>3. /\ d \in Seq(Entry) /\ Len(d) = l - 1
      /\ \A j \in 1 .. l - 1 : d[j] = IF j < i THEN e[j] ELSE e[j + 1]
  <2>1. /\ RemoveAt(e, i) \in Seq(Entry) /\ Len(RemoveAt(e, i)) = Len(e) - 1
        /\ \A j \in 1 .. Len(e) - 1 : RemoveAt(e, i)[j] = IF j < i THEN e[j] ELSE e[j + 1]
    BY ONLY e \in Seq(Entry), i \in 1 .. Len(e), RemoveAtIs
  <2> QED
    BY <1>0, <1>1, <2>1
<1>4. \A j \in 1 .. l : e[j].key \in Int
  BY <1>1, EntryIs
<1>5. ASSUME NEW j \in 1 .. l - 1
      PROVE  \E a \in 1 .. l : a = (IF j < i THEN j ELSE j + 1) /\ d[j] = e[a] /\ a # i
  <2>1. CASE j < i
    <3>1. j \in 1 .. l /\ d[j] = e[j]
      BY <1>2, <1>3, <2>1
    <3> QED
      BY <1>2, <2>1, <3>1
  <2>2. CASE ~ (j < i)
    <3>1. j + 1 \in 1 .. l /\ d[j] = e[j + 1] /\ j + 1 # i
      BY <1>2, <1>3, <2>2
    <3> QED
      BY <2>2, <3>1
  <2> QED
    BY <2>1, <2>2
<1>6. ASSUME NEW a \in 1 .. l - 1, NEW b \in 1 .. l - 1, a < b
      PROVE  d[a].key < d[b].key
  <2>1. PICK aa \in 1 .. l : aa = (IF a < i THEN a ELSE a + 1) /\ d[a] = e[aa]
    BY <1>5
  <2>2. PICK bb \in 1 .. l : bb = (IF b < i THEN b ELSE b + 1) /\ d[b] = e[bb]
    BY <1>5
  <2>3. aa < bb
    BY <1>2, <1>6, <2>1, <2>2
  <2> QED
    BY <1>1, <2>1, <2>2, <2>3 DEF Ascending
<1>7. Ascending(d)
  BY <1>3, <1>6 DEF Ascending
<1>8. \A j \in 1 .. l : j # i => e[j].key # e[i].key
  <2> SUFFICES ASSUME NEW j \in 1 .. l, j # i
               PROVE  e[j].key # e[i].key
    OBVIOUS
  <2>1. e[j].key < e[i].key \/ e[i].key < e[j].key
    BY <1>1, <1>2 DEF Ascending
  <2> QED
    BY <1>1, <1>4, <2>1
<1>9. ASSUME NEW k, NEW v
      PROVE  EntryIn(d, k, v) <=> EntryIn(e, k, v) /\ k # e[i].key
  <2>1. ASSUME EntryIn(d, k, v)
        PROVE  EntryIn(e, k, v) /\ k # e[i].key
    <3>1. PICK j \in 1 .. l - 1 : d[j].key = k /\ d[j].value = v
      BY <1>3, <2>1 DEF EntryIn
    <3>2. PICK a \in 1 .. l : d[j] = e[a] /\ a # i
      BY <1>5
    <3> QED
      BY <1>1, <1>8, <3>1, <3>2 DEF EntryIn
  <2>2. ASSUME EntryIn(e, k, v), k # e[i].key
        PROVE  EntryIn(d, k, v)
    <3>1. PICK j \in 1 .. l : e[j].key = k /\ e[j].value = v
      BY <1>1, <2>2 DEF EntryIn
    <3>2. j # i
      BY <2>2, <3>1
    <3>3. CASE j < i
      <4>1. j \in 1 .. Len(d) /\ d[j] = e[j]
        BY <1>2, <1>3, <3>3
      <4> QED
        BY <3>1, <4>1 DEF EntryIn
    <3>4. CASE j > i
      <4>1. PICK b : b = j - 1
        OBVIOUS
      <4>2. b \in 1 .. Len(d) /\ d[b] = e[b + 1] /\ b + 1 = j
        BY <1>2, <1>3, <3>4, <4>1
      <4> QED
        BY <3>1, <4>2 DEF EntryIn
    <3> QED
      BY <1>2, <3>2, <3>3, <3>4
  <2> QED
    BY <2>1, <2>2
<1>10. Dropped(e, i, d)
  BY <1>1, <1>3, <1>7, <1>9 DEF Dropped
<1> QED
  BY <1>0, <1>10

\* An ascending sequence has one entry for a key.
LEMMA EntryIsOnly ==
  ASSUME NEW e \in Seq(Entry), Ascending(e), NEW i \in 1 .. Len(e), NEW j \in 1 .. Len(e), e[i].key = e[j].key
  PROVE  i = j
<1>1. PICK l \in Nat : l = Len(e)
  OBVIOUS
<1>2. e[i].key \in Int /\ e[j].key \in Int
  BY EntryIs
<1>3. i < j => e[i].key < e[j].key
  BY DEF Ascending
<1>4. j < i => e[j].key < e[i].key
  BY DEF Ascending
<1> QED
  BY <1>1, <1>2, <1>3, <1>4

\* d is e with another value in its i-th entry.
Replaced(e, i, v, d) ==
  /\ d \in Seq(Entry) /\ Len(d) = Len(e) /\ Ascending(d)
  /\ \A j \in 1 .. Len(e) : d[j].key = e[j].key /\ d[j].value = IF j = i THEN v ELSE e[j].value

LEMMA ValueReplaced ==
  ASSUME NEW e \in Seq(Entry), Ascending(e), NEW i \in 1 .. Len(e), NEW v \in Nat
  PROVE  Replaced(e, i, v, [e EXCEPT ![i].value = v])
<1>0. PICK d : d = [e EXCEPT ![i].value = v]
  OBVIOUS
<1>1. PICK l \in Nat : l = Len(e) /\ DOMAIN e = 1 .. l
  OBVIOUS
<1>2. \A j \in 1 .. l : e[j] \in Entry
  BY <1>1, ElementIs
<1>3. PICK x : x = [e[i] EXCEPT !.value = v]
  OBVIOUS
<1>4. x \in Entry /\ x.key = e[i].key /\ x.value = v
  BY <1>1, <1>2, <1>3 DEF Entry
<1>5. d = [e EXCEPT ![i] = x]
  BY <1>0, <1>3
<1>6. d \in Seq(Entry) /\ Len(d) = l /\ \A j \in 1 .. l : d[j] = IF j = i THEN x ELSE e[j]
  BY <1>1, <1>4, <1>5
<1>7. \A j \in 1 .. l : d[j].key = e[j].key /\ d[j].value = IF j = i THEN v ELSE e[j].value
  BY <1>4, <1>6
<1>8. Ascending(d)
  BY <1>1, <1>6, <1>7 DEF Ascending
<1>9. Replaced(e, i, v, d)
  BY <1>1, <1>6, <1>7, <1>8 DEF Replaced
<1> QED
  BY <1>0, <1>9

Pairs == [Key -> Nat \cup {NoValue}]

\* The leaf for a key, and where in it the key is.
LEMMA AtLeaf ==
  ASSUME NEW s, SearchTree(s, {}), NEW f, Shows(s, f), NEW k \in Key, NEW w, WayFrom(s, s.root, k, w),
         NEW n, n = Last(w).node, NEW i, i = Last(w).index
  PROVE  /\ Shape(s) /\ n \in s.nodes /\ s.rank[n] = 1 /\ Ordered(s, n)
         /\ s.entries[n] \in Seq(Entry) /\ Len(s.entries[n]) \in Nat /\ Ascending(s.entries[n])
         /\ i \in 0 .. Len(s.entries[n]) /\ i + 1 \in 1 .. Len(s.entries[n]) + 1 /\ Between(s.entries[n], i, k)
         /\ f[k] = NoValue => (i < Len(s.entries[n]) => s.entries[n][i + 1].key # k)
         /\ f[k] # NoValue => /\ i + 1 \in 1 .. Len(s.entries[n]) /\ i < Len(s.entries[n])
                              /\ s.entries[n][i + 1].key = k /\ s.entries[n][i + 1].value = f[k]
<1>1. k \in Int /\ Shape(s)
  BY KeysAreNumbers DEF SearchTree
<1>2. /\ n \in s.nodes /\ s.rank[n] = 1
      /\ i \in 0 .. Len(s.entries[n]) /\ Between(s.entries[n], i, k)
      /\ \A v : Has(s, k, v) <=> i < Len(s.entries[n]) /\ s.entries[n][i + 1].key = k /\ s.entries[n][i + 1].value = v
  <2>1. /\ Last(w).node \in s.nodes /\ s.rank[Last(w).node] = 1
        /\ Last(w).index \in 0 .. Len(s.entries[Last(w).node])
        /\ Between(s.entries[Last(w).node], Last(w).index, k)
        /\ \A v : Has(s, k, v) <=> /\ Last(w).index < Len(s.entries[Last(w).node])
                                   /\ s.entries[Last(w).node][Last(w).index + 1].key = k
                                   /\ s.entries[Last(w).node][Last(w).index + 1].value = v
    BY ONLY <1>1, SearchTree(s, {}), WayFrom(s, s.root, k, w), LeafOnWay
  <2> QED
    BY <2>1
<1>3. Ordered(s, n)
  BY <1>2 DEF SearchTree
<1>4. s.entries[n] \in Seq(Entry) /\ Len(s.entries[n]) \in Nat /\ Ascending(s.entries[n])
  BY <1>1, <1>2, <1>3, ShapeIs DEF Ordered
<1>5. i + 1 \in 1 .. Len(s.entries[n]) + 1 /\ (i < Len(s.entries[n]) => i + 1 \in 1 .. Len(s.entries[n]))
  BY <1>2, <1>4
<1>6. \A v : Has(s, k, v) <=> v = f[k] /\ v # NoValue
  BY DEF Shows
<1>7. \A j \in 1 .. Len(s.entries[n]) : s.entries[n][j].value # NoValue
  BY <1>2, <1>3 DEF Ordered
<1>8. f[k] = NoValue => (i < Len(s.entries[n]) => s.entries[n][i + 1].key # k)
  BY <1>2, <1>5, <1>6, <1>7
<1>9. f[k] # NoValue => /\ i < Len(s.entries[n])
                        /\ s.entries[n][i + 1].key = k /\ s.entries[n][i + 1].value = f[k]
  BY <1>2, <1>6
<1> QED
  BY <1>1, <1>2, <1>3, <1>4, <1>5, <1>8, <1>9

LEMMA LeafInserted ==
  ASSUME NEW s, SearchTree(s, {}), NEW f \in Pairs, Shows(s, f), NEW k \in Key, f[k] = NoValue,
         NEW w, WayFrom(s, s.root, k, w), NEW v \in Nat, v # NoValue,
         NEW n, n = Last(w).node, NEW i, i = Last(w).index,
         NEW e, e = InsertAt(s.entries[n], i + 1, [key |-> k, value |-> v])
  PROVE  \E z : /\ SearchTree(z, {}) /\ Shows(z, [f EXCEPT ![k] = v]) /\ Way(z, {}, w)
                /\ z.root = s.root /\ z.nodes = s.nodes /\ z.over = s.over /\ z.rank = s.rank
                /\ z.entries[n] = e /\ \A m \in s.nodes : m # n => z.entries[m] = s.entries[m]
<1>1. PICK y : y = Extended(s, w, k)
  OBVIOUS
<1>2. /\ SearchTree(y, {})
      /\ y.root = s.root /\ y.nodes = s.nodes /\ y.entries = s.entries /\ y.over = s.over /\ y.rank = s.rank
      /\ WayFrom(y, y.root, k, w) /\ k \in y.span[Last(w).node]
  BY <1>1, ExtendedIs
<1>3. Shows(y, f)
  BY <1>2 DEF Shows, Has
<1>4. PICK e0 : e0 = y.entries[n]
  OBVIOUS
<1>5. /\ Shape(y) /\ n \in y.nodes /\ y.rank[n] = 1 /\ Ordered(y, n)
      /\ e0 \in Seq(Entry) /\ Len(e0) \in Nat /\ Ascending(e0)
      /\ i \in 0 .. Len(e0) /\ Between(e0, i, k)
      /\ i < Len(e0) => e0[i + 1].key # k
  BY <1>2, <1>3, <1>4, AtLeaf
<1>6. PICK x : x = [key |-> k, value |-> v]
  OBVIOUS
<1>7. x \in Entry /\ x.key = k /\ x.value = v
  BY <1>6 DEF Entry
<1>8. Inserted(e0, i, x, e)
  <2>1. Between(e0, i, x.key) /\ (i < Len(e0) => e0[i + 1].key # x.key)
    BY <1>5, <1>7
  <2>2. Inserted(e0, i, x, InsertAt(e0, i + 1, x))
    BY ONLY <1>5, <1>7, <2>1, EntryInserted
  <2>3. e = InsertAt(e0, i + 1, x)
    BY <1>2, <1>4, <1>6
  <2> QED
    BY ONLY <2>2, <2>3
<1>9. /\ e \in Seq(Entry) /\ Len(e) = Len(e0) + 1 /\ Ascending(e)
      /\ \A k2, v2 : EntryIn(e, k2, v2) <=> EntryIn(e0, k2, v2) \/ (k2 = x.key /\ v2 = x.value)
  BY ONLY <1>8 DEF Inserted
<1>10. LeafEntries(y, n, e)
  <2> SUFFICES ASSUME NEW j \in 1 .. Len(e)
               PROVE  e[j].key \in y.span[n] /\ e[j].value # NoValue
    BY <1>5, <1>9 DEF LeafEntries
  <2>1. EntryIn(e, e[j].key, e[j].value)
    BY DEF EntryIn
  <2>2. CASE e[j].key = x.key /\ e[j].value = x.value
    BY <1>2, <1>7, <2>2
  <2>3. CASE EntryIn(e0, e[j].key, e[j].value)
    BY <1>4, <1>5, <2>3 DEF Ordered, EntryIn
  <2> QED
    BY <1>9, <2>1, <2>2, <2>3
<1>11. PICK z : z = WithEntries(y, n, e)
  OBVIOUS
<1>12. SearchTree(z, {})
  BY ONLY <1>2, <1>10, <1>11, LeafChanged
<1>13. Shows(z, [f EXCEPT ![k] = v])
  <2>1. \A v2 : ~ EntryIn(e0, k, v2)
    <3>1. \A v2 : ~ Has(y, k, v2)
      BY <1>3 DEF Shows
    <3> QED
      BY <1>4, <1>5, <3>1 DEF Has
  <2>2. \A k2 \in Key \ {k} : \A v2 : EntryIn(e, k2, v2) <=> EntryIn(y.entries[n], k2, v2)
    BY <1>4, <1>7, <1>9
  <2>3. \A v2 : EntryIn(e, k, v2) <=> v2 = v /\ v2 # NoValue
    BY <1>7, <1>9, <2>1
  <2>4. Shows(WithEntries(y, n, e), [f EXCEPT ![k] = v])
    BY <1>2, <1>3, <1>9, <2>2, <2>3, LeafShows DEF Pairs
  <2> QED
    BY <1>11, <2>4
<1>14. /\ z.root = y.root /\ z.nodes = y.nodes /\ z.over = y.over /\ z.rank = y.rank
       /\ z.entries[n] = e
       /\ \A m \in y.nodes : m # n => z.entries[m] = y.entries[m] /\ \A j : Below(z, m, j) = Below(y, m, j)
  BY <1>5, <1>9, <1>11, WithEntriesIs
<1>15. Way(z, {}, w)
  <2>1. Way(y, {}, w)
    BY <1>2, WaySlots
  <2>2. \A p, j : Slot(y, {}, p, j) => Slot(z, {}, p, j) /\ Below(z, p, j) = Below(y, p, j)
    BY <1>5, <1>14 DEF Slot
  <2> QED
    BY <1>14, <2>1, <2>2 DEF Way
<1> QED
  BY <1>2, <1>12, <1>13, <1>14, <1>15

LEMMA LeafRemoved ==
  ASSUME NEW s, SearchTree(s, {}), NEW f \in Pairs, Shows(s, f), NEW k \in Key, f[k] # NoValue,
         NEW w, WayFrom(s, s.root, k, w), NEW n, n = Last(w).node, NEW i, i = Last(w).index,
         NEW e, e = RemoveAt(s.entries[n], i + 1)
  PROVE  SearchTree(WithEntries(s, n, e), {}) /\ Shows(WithEntries(s, n, e), [f EXCEPT ![k] = NoValue])
<1>1. PICK e0 : e0 = s.entries[n]
  OBVIOUS
<1>2. /\ Shape(s) /\ n \in s.nodes /\ s.rank[n] = 1 /\ Ordered(s, n)
      /\ e0 \in Seq(Entry) /\ Len(e0) \in Nat /\ Ascending(e0)
      /\ i + 1 \in 1 .. Len(e0) /\ e0[i + 1].key = k
  BY <1>1, AtLeaf
<1>3. PICK m : m = i + 1
  OBVIOUS
<1>4. m \in 1 .. Len(e0) /\ e0[m].key = k
  BY <1>2, <1>3
<1>5. Dropped(e0, m, e)
  <2>1. Dropped(e0, m, RemoveAt(e0, m))
    BY ONLY <1>2, <1>4, EntryRemoved
  <2>2. e = RemoveAt(e0, m)
    BY <1>1, <1>3
  <2> QED
    BY ONLY <2>1, <2>2
<1>6. /\ e \in Seq(Entry) /\ Len(e) = Len(e0) - 1 /\ Ascending(e)
      /\ \A k2, v2 : EntryIn(e, k2, v2) <=> EntryIn(e0, k2, v2) /\ k2 # e0[m].key
  BY ONLY <1>5 DEF Dropped
<1>7. SearchTree(WithEntries(s, n, e), {})
  <2>1. ASSUME NEW j \in 1 .. Len(e)
        PROVE  e[j].key \in s.span[n] /\ e[j].value # NoValue
    <3>1. EntryIn(e, e[j].key, e[j].value)
      BY DEF EntryIn
    <3>2. EntryIn(e0, e[j].key, e[j].value)
      BY <1>6, <3>1
    <3> QED
      BY <1>1, <1>2, <3>2 DEF Ordered, EntryIn
  <2>2. LeafEntries(s, n, e)
    BY <1>2, <1>6, <2>1 DEF LeafEntries
  <2> QED
    BY ONLY <2>2, SearchTree(s, {}), LeafChanged
<1>8. \A k2 \in Key \ {k} : \A v2 : EntryIn(e, k2, v2) <=> EntryIn(s.entries[n], k2, v2)
  BY <1>1, <1>4, <1>6
<1>9. \A v2 : EntryIn(e, k, v2) <=> v2 = NoValue /\ v2 # NoValue
  BY <1>4, <1>6
<1>10. Shows(WithEntries(s, n, e), [f EXCEPT ![k] = NoValue])
  BY <1>6, <1>8, <1>9, LeafShows DEF Pairs
<1> QED
  BY <1>7, <1>10

LEMMA LeafReplaced ==
  ASSUME NEW s, SearchTree(s, {}), NEW f \in Pairs, Shows(s, f), NEW k \in Key, f[k] # NoValue,
         NEW w, WayFrom(s, s.root, k, w), NEW n, n = Last(w).node, NEW i, i = Last(w).index,
         NEW v \in Nat, v # NoValue, NEW e, e = [s.entries[n] EXCEPT ![i + 1].value = v]
  PROVE  SearchTree(WithEntries(s, n, e), {}) /\ Shows(WithEntries(s, n, e), [f EXCEPT ![k] = v])
<1>1. PICK e0 : e0 = s.entries[n]
  OBVIOUS
<1>2. /\ Shape(s) /\ n \in s.nodes /\ s.rank[n] = 1 /\ Ordered(s, n)
      /\ e0 \in Seq(Entry) /\ Len(e0) \in Nat /\ Ascending(e0)
      /\ i + 1 \in 1 .. Len(e0) /\ e0[i + 1].key = k
  BY <1>1, AtLeaf
<1>3. PICK m : m = i + 1
  OBVIOUS
<1>4. m \in 1 .. Len(e0) /\ e0[m].key = k
  BY <1>2, <1>3
<1>5. Replaced(e0, m, v, e)
  <2>1. Replaced(e0, m, v, [e0 EXCEPT ![m].value = v])
    BY ONLY <1>2, <1>4, v \in Nat, ValueReplaced
  <2>2. e = [e0 EXCEPT ![m].value = v]
    BY <1>1, <1>3
  <2> QED
    BY ONLY <2>1, <2>2
<1>6. /\ e \in Seq(Entry) /\ Len(e) = Len(e0) /\ Ascending(e)
      /\ \A j \in 1 .. Len(e0) : e[j].key = e0[j].key /\ e[j].value = IF j = m THEN v ELSE e0[j].value
  BY ONLY <1>5 DEF Replaced
<1>7. SearchTree(WithEntries(s, n, e), {})
  <2>0. PICK span : span = s.span[n] /\ \A j \in 1 .. Len(e0) : e0[j].key \in span /\ e0[j].value # NoValue
    BY <1>1, <1>2 DEF Ordered
  <2>1. \A j \in 1 .. Len(e) : e[j].key \in span /\ e[j].value # NoValue
    BY ONLY <1>6, <2>0, v # NoValue
  <2>2. LeafEntries(s, n, e)
    BY ONLY <1>2, <1>6, <2>0, <2>1 DEF LeafEntries
  <2> QED
    BY ONLY <2>2, SearchTree(s, {}), LeafChanged
<1>8. \A j \in 1 .. Len(e0) : e0[j].key = k => j = m
  BY <1>2, <1>4, EntryIsOnly
<1>9. \A k2 \in Key \ {k} : \A v2 : EntryIn(e, k2, v2) <=> EntryIn(s.entries[n], k2, v2)
  <2>1. \A k2 \in Key \ {k} : \A v2 : EntryIn(e, k2, v2) <=> EntryIn(e0, k2, v2)
    BY ONLY <1>4, <1>6, <1>8 DEF EntryIn
  <2> QED
    BY ONLY <1>1, <2>1
<1>10. \A v2 : EntryIn(e, k, v2) <=> v2 = v /\ v2 # NoValue
  BY ONLY <1>4, <1>6, <1>8, v # NoValue DEF EntryIn
<1>11. Shows(WithEntries(s, n, e), [f EXCEPT ![k] = v])
  BY <1>6, <1>9, <1>10, LeafShows DEF Pairs
<1> QED
  BY <1>7, <1>11

-----------------------------------------------------------------------------
(* A node is split.                                                        *)

\* The first entries of node n, below slot i of node p, can go to a new node o;
\* of an index node, the one behind them goes up.
Divides(s, n, p, i, o, out, b) ==
  /\ SearchTree(s, {})
  /\ n \in s.nodes /\ p \in s.nodes /\ i \in Nat
  /\ Slot(s, {}, p, i) /\ Below(s, p, i) = n
  /\ o \in Nat /\ o \notin s.nodes
  /\ out \in 1 .. Len(s.entries[n]) - 1
  /\ b = IF s.rank[n] = 1 THEN out ELSE out + 1

LEMMA DividesIs ==
  ASSUME NEW s, NEW n, NEW p, NEW i, NEW o, NEW out, NEW b, Divides(s, n, p, i, o, out, b)
  PROVE  /\ Shape(s) /\ n \in s.nodes /\ p \in s.nodes /\ i \in Nat /\ Slot(s, {}, p, i)
         /\ n # p /\ o # n /\ o # p /\ o \in Nat
         /\ s.rank[p] > 1 /\ s.rank[n] = s.rank[p] - 1 /\ n # s.root
         /\ s.entries[n] \in Seq(Entry) /\ Len(s.entries[n]) \in Nat /\ Ascending(s.entries[n])
         /\ \A j \in 1 .. Len(s.entries[n]) : s.entries[n][j].key \in s.span[n]
         /\ s.entries[p] \in Seq(Entry) /\ Len(s.entries[p]) \in Nat /\ Ascending(s.entries[p])
         /\ i \in 0 .. Len(s.entries[p])
         /\ out \in Nat /\ b \in Nat /\ out > 0 /\ out < Len(s.entries[n]) /\ b \in 1 .. Len(s.entries[n]) /\ out <= b
         /\ s.rank[n] = 1 => b = out
         /\ s.rank[n] # 1 => b = out + 1
<1>1. /\ Shape(s) /\ n \in s.nodes /\ p \in s.nodes /\ i \in Nat /\ Slot(s, {}, p, i)
      /\ Ordered(s, n) /\ Ordered(s, p) /\ Leads(s, p, i) /\ o # n /\ o # p /\ o \in Nat
  BY DEF Divides, SearchTree
<1>2. PICK l \in Nat : l = Len(s.entries[n])
  BY <1>1, ShapeIs
<1>3. out \in Nat /\ out > 0 /\ out < l
  BY <1>2 DEF Divides
<1>4. b \in Nat /\ b \in 1 .. l /\ out <= b /\ (s.rank[n] = 1 => b = out) /\ (s.rank[n] # 1 => b = out + 1)
  <2>1. b = out \/ b = out + 1
    BY DEF Divides
  <2>2. (s.rank[n] = 1 => b = out) /\ (s.rank[n] # 1 => b = out + 1)
    BY DEF Divides
  <2>3. b \in Nat /\ b \in 1 .. l /\ out <= b
    BY ONLY <1>3, <2>1, l \in Nat
  <2> QED
    BY <2>2, <2>3
<1>5. s.rank[p] > 1 /\ s.rank[n] = s.rank[p] - 1 /\ i \in 0 .. Len(s.entries[p])
  BY <1>1 DEF Divides, Slot, Leads
<1>6. n # p
  BY <1>1, <1>5, ShapeIs
<1>7. n # s.root
  <2>1. s.rank[p] <= s.rank[s.root] /\ s.rank[p] \in Nat
    BY <1>1, RankIs DEF Divides
  <2> QED
    BY <1>5, <2>1
<1> QED
  BY <1>1, <1>2, <1>3, <1>4, <1>5, <1>6, <1>7, ShapeIs DEF Ordered

\* The key that goes up is one of the node, and there are greater ones.
LEMMA KeyGoesUp ==
  ASSUME NEW s, NEW n, NEW p, NEW i, NEW o, NEW out, NEW b, Divides(s, n, p, i, o, out, b),
         NEW up, up = s.entries[n][b].key
  PROVE  /\ up \in Key /\ up \in Int /\ up \in s.span[n]
         /\ \E k \in s.span[n] : k \in Int /\ k > up
         /\ s.span[n] \subseteq s.span[p] /\ \A k \in s.span[n] : Between(s.entries[p], i, k) /\ k \in Int
<1>1. /\ Shape(s) /\ n \in s.nodes /\ p \in s.nodes /\ i \in Nat /\ Slot(s, {}, p, i)
      /\ s.entries[n] \in Seq(Entry) /\ Len(s.entries[n]) \in Nat /\ Ascending(s.entries[n])
      /\ \A j \in 1 .. Len(s.entries[n]) : s.entries[n][j].key \in s.span[n]
      /\ out \in Nat /\ b \in Nat /\ out > 0 /\ out < Len(s.entries[n]) /\ b \in 1 .. Len(s.entries[n])
      /\ s.rank[n] = 1 => b = out
      /\ s.rank[n] # 1 => b = out + 1
  BY DividesIs
<1>2. up \in s.span[n] /\ s.span[n] \subseteq Key
  BY <1>1, ShapeIs
<1>3. up \in Key /\ up \in Int
  BY <1>2, KeysAreNumbers
<1>4. Leads(s, p, i) /\ Below(s, p, i) = n
  BY <1>1 DEF Divides, SearchTree
<1>5. s.span[n] \subseteq s.span[p] /\ \A k \in s.span[n] : Between(s.entries[p], i, k) /\ k \in Int
  BY <1>2, <1>4, KeysAreNumbers DEF Leads
<1>6. CASE s.rank[n] = 1
  <2>1. b + 1 \in 1 .. Len(s.entries[n]) /\ b < b + 1
    BY <1>1, <1>6
  <2>2. s.entries[n][b + 1].key > up
    BY <1>1, <2>1 DEF Ascending
  <2> QED
    BY <1>1, <1>3, <1>5, <2>1, <2>2
<1>7. CASE s.rank[n] # 1
  <2>1. PICK l \in Nat : l = Len(s.entries[n])
    BY <1>1
  <2>2. Slot(s, {}, n, l) /\ l \in Nat
    BY <1>1, <1>7, <2>1, ShapeIs DEF Slot
  <2>3. PICK c \in s.nodes : c = Below(s, n, l) /\ s.rank[c] = s.rank[n] - 1
    BY <1>1, <2>2 DEF Divides, SearchTree, Leads
  <2>4. c # s.root
    <3>1. s.rank[n] <= s.rank[s.root] /\ s.rank[n] \in Nat
      BY <1>1, RankIs DEF Divides
    <3> QED
      BY <2>3, <3>1
  <2>5. PICK k \in s.span[c] : TRUE
    BY <2>4 DEF Divides, SearchTree, Inner
  <2>6. k \in s.span[n] /\ Between(s.entries[n], l, k)
    BY <1>1, <2>2, <2>3, <2>5 DEF Divides, SearchTree, Leads
  <2>7. s.entries[n][l].key < k
    BY <1>1, <2>1, <2>6 DEF Between
  <2>8. up <= s.entries[n][l].key
    <3>1. b = l \/ b < l
      BY <1>1, <2>1
    <3>2. l \in 1 .. Len(s.entries[n]) /\ s.entries[n][l].key \in Int
      BY <1>1, <2>1, EntryIs
    <3> QED
      BY <1>1, <1>3, <2>1, <3>1, <3>2 DEF Ascending
  <2>9. k \in Int /\ s.entries[n][l].key \in Int
    BY <1>1, <1>5, <2>1, <2>6, EntryIs
  <2>10. k > up
    BY ONLY <1>3, <2>7, <2>8, <2>9
  <2> QED
    BY <1>2, <1>3, <1>5, <2>6, <2>9, <2>10
<1> QED
  BY <1>2, <1>3, <1>5, <1>6, <1>7

\* The shape with the node split.
Raised(s, n, p, i, o, out, b) ==
  LET up == s.entries[n][b].key
      nodes == s.nodes \cup {o}
  IN  [root    |-> s.root,
       nodes   |-> nodes,
       entries |-> [m \in nodes |->
                      IF m = o THEN SubSeq(s.entries[n], 1, out)
                      ELSE IF m = n THEN SubSeq(s.entries[n], b + 1, Len(s.entries[n]))
                      ELSE IF m = p THEN InsertAt(s.entries[p], i + 1, [key |-> up, value |-> o])
                      ELSE s.entries[m]],
       over    |-> [m \in nodes |->
                      IF m # o THEN s.over[m] ELSE IF s.rank[n] = 1 THEN Null ELSE s.entries[n][b].value],
       rank    |-> [m \in nodes |-> IF m = o THEN s.rank[n] ELSE s.rank[m]],
       span    |-> [m \in nodes |->
                      IF m = o THEN {k \in s.span[n] : k <= up}
                      ELSE IF m = n THEN {k \in s.span[n] : k > up}
                      ELSE s.span[m]]]

\* What is in its nodes.
RaisedAs(s, n, p, i, o, out, b, z) ==
  /\ z.root = s.root /\ z.nodes = s.nodes \cup {o}
  /\ Shape(z)
  /\ z.rank[o] = s.rank[n] /\ \A m \in s.nodes : z.rank[m] = s.rank[m] /\ z.over[m] = s.over[m]
  /\ s.rank[n] = 1 => z.over[o] = Null
  /\ s.rank[n] # 1 => z.over[o] = s.entries[n][b].value
  /\ \A m \in s.nodes \ {n} : z.span[m] = s.span[m] /\ (m # p => z.entries[m] = s.entries[m])
  /\ z.span[o] = {k \in s.span[n] : k <= s.entries[n][b].key}
  /\ z.span[n] = {k \in s.span[n] : k > s.entries[n][b].key}
  /\ Len(z.entries[o]) = out /\ \A j \in 1 .. out : z.entries[o][j] = s.entries[n][j]
  /\ Len(z.entries[n]) = Len(s.entries[n]) - b
  /\ \A j \in 1 .. Len(s.entries[n]) - b : z.entries[n][j] = s.entries[n][b + j]
  /\ Inserted(s.entries[p], i, [key |-> s.entries[n][b].key, value |-> o], z.entries[p])

LEMMA RaisedIs ==
  ASSUME NEW s, NEW n, NEW p, NEW i, NEW o, NEW out, NEW b, Divides(s, n, p, i, o, out, b)
  PROVE  RaisedAs(s, n, p, i, o, out, b, Raised(s, n, p, i, o, out, b))
<1>0. /\ Shape(s) /\ n \in s.nodes /\ p \in s.nodes /\ i \in Nat
      /\ n # p /\ o # n /\ o # p /\ o \in Nat
      /\ s.entries[n] \in Seq(Entry) /\ Len(s.entries[n]) \in Nat
      /\ s.entries[p] \in Seq(Entry) /\ Len(s.entries[p]) \in Nat /\ Ascending(s.entries[p])
      /\ i \in 0 .. Len(s.entries[p])
      /\ out \in Nat /\ b \in Nat /\ out > 0 /\ out < Len(s.entries[n]) /\ b \in 1 .. Len(s.entries[n])
  BY DividesIs
<1>a. PICK l \in Nat : l = Len(s.entries[n])
  BY <1>0
<1>b. PICK z, all, up, e : z = Raised(s, n, p, i, o, out, b) /\ all = s.entries[n] /\ up = all[b].key /\ e = s.entries[p]
  OBVIOUS
<1>c. PICK x : x = [key |-> up, value |-> o]
  OBVIOUS
<1>1. /\ z = Raised(s, n, p, i, o, out, b) /\ all = s.entries[n] /\ l = Len(all)
      /\ up = all[b].key /\ x = [key |-> up, value |-> o] /\ e = s.entries[p]
  BY <1>a, <1>b, <1>c
<1>2. up \in Key /\ up \in Int /\ up \in s.span[n] /\ Between(e, i, up)
      /\ \E k \in s.span[n] : k \in Int /\ k > up /\ Between(e, i, k)
  BY <1>1, KeyGoesUp
<1>3. x \in Entry /\ x.key = up /\ x.value = o
  BY <1>0, <1>1, <1>2 DEF Entry
<1>4. Inserted(e, i, x, InsertAt(e, i + 1, x))
  <2>1. i < Len(e) => e[i + 1].key # x.key
    <3>1. PICK k \in Int : k > up /\ Between(e, i, k)
      BY <1>2
    <3>2. i < Len(e) => k <= e[i + 1].key
      BY <3>1 DEF Between
    <3>3. k > x.key /\ x.key \in Int
      BY <1>2, <1>3, <3>1
    <3> QED
      BY ONLY <3>2, <3>3, k \in Int
  <2>2. e \in Seq(Entry) /\ Ascending(e) /\ i \in 0 .. Len(e) /\ Between(e, i, x.key)
    BY <1>0, <1>1, <1>2, <1>3
  <2> QED
    BY ONLY <1>3, <2>1, <2>2, EntryInserted
<1>5. PICK first, second, d : /\ first = SubSeq(all, 1, out) /\ second = SubSeq(all, b + 1, l)
                              /\ d = InsertAt(e, i + 1, x)
  OBVIOUS
<1>6. all \in Seq(Entry)
  BY <1>0, <1>1
<1>7. first \in Seq(Entry) /\ Len(first) = out /\ \A j \in 1 .. out : first[j] = all[j]
  <2>1. 1 \in 1 .. Len(all) + 1 /\ out \in 0 .. Len(all) /\ 1 <= out + 1
    BY <1>0, <1>1
  <2>2. /\ SubSeq(all, 1, out) \in Seq(Entry) /\ Len(SubSeq(all, 1, out)) = out - 1 + 1
        /\ \A j \in 1 .. out - 1 + 1 : SubSeq(all, 1, out)[j] = all[1 + j - 1]
    BY ONLY <1>6, <2>1, PartIs
  <2>3. out - 1 + 1 = out /\ \A j \in 1 .. out : 1 + j - 1 = j
    BY <1>0
  <2> QED
    BY <1>5, <2>2, <2>3
<1>8. second \in Seq(Entry) /\ Len(second) = l - b /\ \A j \in 1 .. l - b : second[j] = all[b + j]
  <2>1. PICK a : a = b + 1
    OBVIOUS
  <2>2. a \in 1 .. Len(all) + 1 /\ l \in 0 .. Len(all) /\ a <= l + 1
    BY <1>0, <1>1, <2>1
  <2>3. /\ SubSeq(all, a, l) \in Seq(Entry) /\ Len(SubSeq(all, a, l)) = l - a + 1
        /\ \A j \in 1 .. l - a + 1 : SubSeq(all, a, l)[j] = all[a + j - 1]
    BY ONLY <1>6, <2>2, PartIs
  <2>4. l - a + 1 = l - b /\ \A j \in 1 .. l - b : a + j - 1 = b + j
    <3>1. b \in Nat
      BY <1>0
    <3> QED
      BY ONLY <2>1, <3>1, l \in Nat
  <2> QED
    BY <1>5, <2>1, <2>3, <2>4
<1>9. d \in Seq(Entry)
  BY <1>4, <1>5 DEF Inserted
<1>10. /\ z.root = s.root /\ z.nodes = s.nodes \cup {o}
       /\ z.entries = [m \in s.nodes \cup {o} |-> IF m = o THEN first ELSE IF m = n THEN second
                                                  ELSE IF m = p THEN d ELSE s.entries[m]]
       /\ z.over = [m \in s.nodes \cup {o} |-> IF m # o THEN s.over[m]
                                               ELSE IF s.rank[n] = 1 THEN Null ELSE s.entries[n][b].value]
       /\ z.rank = [m \in s.nodes \cup {o} |-> IF m = o THEN s.rank[n] ELSE s.rank[m]]
       /\ z.span = [m \in s.nodes \cup {o} |-> IF m = o THEN {k \in s.span[n] : k <= up}
                                               ELSE IF m = n THEN {k \in s.span[n] : k > up} ELSE s.span[m]]
  BY <1>1, <1>5 DEF Raised
<1>11. \A m \in s.nodes : /\ m \in Nat /\ s.rank[m] \in Nat \ {0} /\ s.over[m] \in Int /\ s.span[m] \subseteq Key
                          /\ s.entries[m] \in Seq(Entry)
  BY <1>0, ShapeIs
<1>12. s.entries[n][b].value \in Int
  BY <1>0, EntryIs
<1>13. Shape(z)
  <2>1. z.entries \in [z.nodes -> Seq(Entry)]
    BY <1>7, <1>8, <1>9, <1>10, <1>11
  <2>2. z.over \in [z.nodes -> Int]
    BY <1>10, <1>11, <1>12 DEF Null
  <2>3. z.rank \in [z.nodes -> Nat \ {0}]
    BY <1>0, <1>10, <1>11
  <2>4. z.span \in [z.nodes -> SUBSET Key]
    BY <1>0, <1>10, <1>11
  <2>5. z.nodes \subseteq Nat /\ z.root \in z.nodes
    BY <1>0, <1>10 DEF Shape
  <2> QED
    BY <2>1, <2>2, <2>3, <2>4, <2>5 DEF Shape
<1>14. z.rank[o] = s.rank[n] /\ (\A m \in s.nodes : z.rank[m] = s.rank[m] /\ z.over[m] = s.over[m])
       /\ (s.rank[n] = 1 => z.over[o] = Null) /\ (s.rank[n] # 1 => z.over[o] = s.entries[n][b].value)
  <2>1. o \notin s.nodes
    BY DEF Divides
  <2> QED
    BY <1>10, <2>1
<1>15. /\ \A m \in s.nodes \ {n} : z.span[m] = s.span[m] /\ (m # p => z.entries[m] = s.entries[m])
       /\ z.span[o] = {k \in s.span[n] : k <= up}
       /\ z.span[n] = {k \in s.span[n] : k > up}
  <2>1. o \notin s.nodes
    BY DEF Divides
  <2> QED
    BY <1>0, <1>10, <2>1
<1>16. z.entries[o] = first /\ z.entries[n] = second /\ z.entries[p] = d
  BY <1>0, <1>10
<1>17. RaisedAs(s, n, p, i, o, out, b, z)
  <2>1. Inserted(s.entries[p], i, [key |-> s.entries[n][b].key, value |-> o], z.entries[p])
    BY <1>1, <1>4, <1>5, <1>16
  <2>2. Len(z.entries[o]) = out /\ \A j \in 1 .. out : z.entries[o][j] = s.entries[n][j]
    BY <1>1, <1>7, <1>16
  <2>3. /\ Len(z.entries[n]) = Len(s.entries[n]) - b
        /\ \A j \in 1 .. Len(s.entries[n]) - b : z.entries[n][j] = s.entries[n][b + j]
    BY <1>1, <1>8, <1>16
  <2> QED
    BY <1>1, <1>10, <1>13, <1>14, <1>15, <2>1, <2>2, <2>3 DEF RaisedAs
<1> QED
  BY <1>1, <1>17

\* The ways out of the parent: one more, to the new node.
LEMMA ParentWays ==
  ASSUME NEW s, NEW n, NEW p, NEW i, NEW o, NEW out, NEW b, Divides(s, n, p, i, o, out, b),
         NEW z, RaisedAs(s, n, p, i, o, out, b, z), NEW j \in Nat
  PROVE  /\ Slot(z, {}, p, j) <=> j <= Len(s.entries[p]) + 1
         /\ j < i => Below(z, p, j) = Below(s, p, j) /\ Slot(s, {}, p, j)
         /\ j = i => Below(z, p, j) = o
         /\ j > i /\ j <= Len(s.entries[p]) + 1 =>
              j - 1 \in Nat /\ Below(z, p, j) = Below(s, p, j - 1) /\ Slot(s, {}, p, j - 1)
<1>1. /\ p \in s.nodes /\ s.rank[p] > 1 /\ Len(s.entries[p]) \in Nat /\ i \in 0 .. Len(s.entries[p])
  BY DividesIs
<1>l. PICK l \in Nat : l = Len(s.entries[p])
  BY <1>1
<1>2. PICK e, d, x : /\ l \in Nat /\ l = Len(s.entries[p]) /\ e = s.entries[p] /\ d = z.entries[p]
                     /\ x = [key |-> s.entries[n][b].key, value |-> o]
  BY <1>l
<1>3. PICK h \in Nat : h = i /\ h <= l
  BY <1>1, <1>2
<1>4. /\ Len(d) = l + 1
      /\ \A a \in 1 .. l + 1 : d[a] = IF a < h + 1 THEN e[a] ELSE IF a = h + 1 THEN x ELSE e[a - 1]
  BY <1>2, <1>3 DEF RaisedAs, Inserted
<1>5. p \in z.nodes /\ z.rank[p] = s.rank[p] /\ z.over[p] = s.over[p] /\ x.value = o
  BY <1>1, <1>2 DEF RaisedAs
<1>6. Slot(z, {}, p, j) <=> j <= l + 1
  BY <1>1, <1>2, <1>4, <1>5 DEF Slot
<1>7. j <= l => Slot(s, {}, p, j)
  BY <1>1, <1>2 DEF Slot
<1>8. CASE j < h
  <2>1. j + 1 \in 1 .. l + 1 /\ j + 1 < h + 1 /\ j < l + 1 /\ j < l /\ j <= l
    BY <1>3, <1>8
  <2>2. d[j + 1] = e[j + 1]
    BY <1>4, <2>1
  <2>3. Below(z, p, j) = Below(s, p, j)
    BY <1>2, <1>4, <2>1, <2>2 DEF Below
  <2> QED
    BY <1>2, <1>3, <1>6, <1>7, <1>8, <2>1, <2>3
<1>9. CASE j = h
  <2>1. j + 1 \in 1 .. l + 1 /\ j + 1 = h + 1 /\ ~ (j + 1 < h + 1) /\ j < l + 1
    BY <1>3, <1>9
  <2>2. d[j + 1] = x
    BY <1>4, <2>1
  <2>3. Below(z, p, j) = o
    BY <1>2, <1>4, <1>5, <2>1, <2>2 DEF Below
  <2> QED
    BY <1>2, <1>3, <1>6, <1>7, <1>9, <2>3
<1>10. CASE j > h /\ j <= l + 1
  <2>0. PICK c \in Nat : c = j - 1
    BY <1>3, <1>10
  <2>1. c + 1 = j /\ c <= l
    BY <1>10, <2>0
  <2>2. Slot(s, {}, p, c)
    BY <1>1, <1>2, <2>1 DEF Slot
  <2>3. Below(z, p, j) = Below(s, p, c)
    <3>1. CASE j = l + 1
      BY <1>2, <1>4, <1>5, <2>1, <3>1 DEF Below
    <3>2. CASE j <= l
      <4>1. j + 1 \in 1 .. l + 1 /\ ~ (j + 1 < h + 1) /\ j + 1 # h + 1 /\ (j + 1) - 1 = c + 1 /\ c < l /\ j < l + 1
        BY <1>3, <1>10, <2>0, <3>2
      <4>2. d[j + 1] = e[c + 1]
        BY <1>4, <4>1
      <4> QED
        BY <1>2, <1>4, <4>1, <4>2 DEF Below
    <3> QED
      BY <1>10, <3>1, <3>2
  <2> QED
    BY <1>2, <1>3, <1>6, <1>10, <2>0, <2>2, <2>3
<1>11. CASE j > l + 1
  BY <1>2, <1>3, <1>6, <1>11
<1> QED
  BY <1>3, <1>8, <1>9, <1>10, <1>11

\* The ways out of the halves of an index node.
LEMMA HalvesWays ==
  ASSUME NEW s, NEW n, NEW p, NEW i, NEW o, NEW out, NEW b, Divides(s, n, p, i, o, out, b),
         NEW z, RaisedAs(s, n, p, i, o, out, b, z), s.rank[n] # 1, NEW j \in Nat
  PROVE  /\ Slot(z, {}, o, j) <=> j <= out
         /\ j <= out => Below(z, o, j) = Below(s, n, j) /\ Slot(s, {}, n, j)
         /\ Slot(z, {}, n, j) <=> j <= Len(s.entries[n]) - b
         /\ j <= Len(s.entries[n]) - b =>
              j + b \in Nat /\ Below(z, n, j) = Below(s, n, j + b) /\ Slot(s, {}, n, j + b)
<1>1. /\ Shape(s) /\ n \in s.nodes /\ Len(s.entries[n]) \in Nat
      /\ out \in Nat /\ b \in Nat /\ out > 0 /\ out < Len(s.entries[n]) /\ b \in 1 .. Len(s.entries[n]) /\ out <= b
      /\ b = out + 1
  BY DividesIs
<1>l. PICK l \in Nat : l = Len(s.entries[n])
  BY <1>1
<1>2. PICK all : l \in Nat /\ l = Len(s.entries[n]) /\ all = s.entries[n] /\ b \in Nat
  BY <1>1, <1>l
<1>3. s.rank[n] > 1
  BY <1>1, ShapeIs
<1>4. /\ o \in z.nodes /\ n \in z.nodes /\ z.rank[o] = s.rank[n] /\ z.rank[n] = s.rank[n]
      /\ z.over[o] = all[b].value /\ z.over[n] = s.over[n]
      /\ Len(z.entries[o]) = out /\ Len(z.entries[n]) = l - b
  BY <1>1, <1>2 DEF RaisedAs
<1>5. \A a \in 1 .. out : z.entries[o][a] = all[a]
  BY <1>2 DEF RaisedAs
<1>6. \A a \in 1 .. l - b : z.entries[n][a] = all[b + a]
  BY <1>2 DEF RaisedAs
<1>7. \A a \in Nat : Slot(s, {}, n, a) <=> a <= l
  BY <1>1, <1>2, <1>3 DEF Slot
<1>8. Slot(z, {}, o, j) <=> j <= out
  BY <1>1, <1>3, <1>4 DEF Slot
<1>9. Slot(z, {}, n, j) <=> j <= l - b
  BY <1>1, <1>2, <1>3, <1>4 DEF Slot
<1>10. ASSUME j <= out
       PROVE  Below(z, o, j) = Below(s, n, j) /\ Slot(s, {}, n, j)
  <2>1. j < l /\ j <= l
    BY <1>1, <1>2, <1>10
  <2>2. CASE j < out
    <3>1. j + 1 \in 1 .. out
      BY <1>1, <2>2
    <3> QED
      BY <1>2, <1>4, <1>5, <1>7, <2>1, <2>2, <3>1 DEF Below
  <2>3. CASE j = out
    BY <1>1, <1>2, <1>4, <1>7, <2>1, <2>3 DEF Below
  <2> QED
    BY <1>1, <1>10, <2>2, <2>3
<1>11. ASSUME j <= l - b
       PROVE  j + b \in Nat /\ Below(z, n, j) = Below(s, n, j + b) /\ Slot(s, {}, n, j + b)
  <2>0. PICK c \in Nat : c = j + b
    BY <1>1
  <2>1. c <= l
    BY <1>1, <1>2, <1>11, <2>0
  <2>2. Below(z, n, j) = Below(s, n, c)
    <3>1. CASE j < l - b
      <4>1. j + 1 \in 1 .. l - b /\ b + (j + 1) = c + 1 /\ c < l
        BY <1>1, <1>2, <2>0, <3>1
      <4>2. z.entries[n][j + 1] = all[c + 1]
        BY <1>6, <4>1
      <4> QED
        BY <1>2, <1>4, <3>1, <4>1, <4>2 DEF Below
    <3>2. CASE j = l - b
      <4>1. ~ (c < l)
        BY ONLY <1>2, <2>0, <3>2, j \in Nat, l \in Nat, c \in Nat
      <4>2. ~ (j < l - b)
        BY <1>1, <1>2, <3>2
      <4> QED
        BY <1>2, <1>4, <4>1, <4>2 DEF Below
    <3> QED
      BY <1>1, <1>2, <1>11, <3>1, <3>2
  <2> QED
    BY <1>7, <2>0, <2>1, <2>2
<1> QED
  BY <1>2, <1>8, <1>9, <1>10, <1>11

\* Way (q, j) of z is way (a, c) of s, for the same keys; behind the new node,
\* for greater ones.
Keeps(s, n, up, z, q, j, a, c) ==
  /\ a \in s.nodes /\ c \in Nat /\ Slot(s, {}, a, c)
  /\ Below(z, q, j) = Below(s, a, c)
  /\ z.rank[q] = s.rank[a]
  /\ \A k \in s.span[a] : Between(s.entries[a], c, k) /\ (Below(s, a, c) = n => k > up) =>
                            k \in z.span[q] /\ Between(z.entries[q], j, k)

LEMMA KeepsParent ==
  ASSUME NEW s, NEW n, NEW p, NEW i, NEW o, NEW out, NEW b, Divides(s, n, p, i, o, out, b),
         NEW z, RaisedAs(s, n, p, i, o, out, b, z), NEW j \in Nat, Slot(z, {}, p, j), j # i
  PROVE  Keeps(s, n, s.entries[n][b].key, z, p, j, p, IF j < i THEN j ELSE j - 1)
<1>1. /\ n # p /\ n \in s.nodes /\ p \in s.nodes /\ Len(s.entries[p]) \in Nat /\ i \in 0 .. Len(s.entries[p])
  BY DividesIs
<1>l. PICK l \in Nat : l = Len(s.entries[p])
  BY <1>1
<1>2. PICK e, d, x : /\ l \in Nat /\ l = Len(s.entries[p]) /\ e = s.entries[p] /\ d = z.entries[p]
                     /\ x = [key |-> s.entries[n][b].key, value |-> o]
  BY <1>l
<1>a. PICK h \in Nat : h = i /\ h <= l
  BY <1>1, <1>2
<1>b. PICK up : up = s.entries[n][b].key
  OBVIOUS
<1>3. h = i /\ h <= l /\ up = s.entries[n][b].key
  BY <1>a, <1>b
<1>4. /\ Len(d) = l + 1
      /\ \A a \in 1 .. l + 1 : d[a] = IF a < h + 1 THEN e[a] ELSE IF a = h + 1 THEN x ELSE e[a - 1]
  BY <1>2, <1>3 DEF RaisedAs, Inserted
<1>5. z.rank[p] = s.rank[p] /\ z.span[p] = s.span[p] /\ x.key = up
  BY <1>1, <1>2, <1>3 DEF RaisedAs
<1>6. Below(s, p, h) = n
  BY <1>3 DEF Divides
<1>7. CASE j < h
  <2>1. Below(z, p, j) = Below(s, p, j) /\ Slot(s, {}, p, j)
    BY <1>3, <1>7, ParentWays
  <2>2. ASSUME NEW k, Between(e, j, k)
        PROVE  Between(d, j, k)
    <3>1. j > 0 => j \in 1 .. l + 1 /\ j < h + 1
      BY <1>3, <1>7
    <3>2. j + 1 \in 1 .. l + 1 /\ j + 1 < h + 1 /\ j < l
      BY <1>3, <1>7
    <3>3. (j > 0 => d[j] = e[j]) /\ d[j + 1] = e[j + 1]
      BY <1>4, <3>1, <3>2
    <3> QED
      BY <1>2, <2>2, <3>2, <3>3 DEF Between
  <2>3. Keeps(s, n, up, z, p, j, p, j)
    BY <1>1, <1>2, <1>5, <2>1, <2>2 DEF Keeps
  <2> QED
    BY <1>3, <1>7, <2>3
<1>8. CASE j > h
  <2>0. j <= l + 1
    BY <1>2, ParentWays
  <2>1. PICK c \in Nat : c = j - 1 /\ Below(z, p, j) = Below(s, p, c) /\ Slot(s, {}, p, c)
    BY <1>2, <1>3, <1>8, <2>0, ParentWays
  <2>2. ASSUME NEW k, Between(e, c, k), Below(s, p, c) = n => k > up
        PROVE  Between(d, j, k)
    <3>1. d[j].key < k
      <4>1. CASE j = h + 1
        <5>1. c = h /\ j \in 1 .. l + 1 /\ ~ (j < h + 1)
          BY <2>1, <1>3, <4>1
        <5>2. d[j] = x /\ k > up
          BY <1>4, <1>6, <2>2, <4>1, <5>1
        <5> QED
          BY <1>5, <5>2
      <4>2. CASE j > h + 1
        <5>1. j \in 1 .. l + 1 /\ ~ (j < h + 1) /\ j # h + 1 /\ c > 0
          BY <2>0, <2>1, <1>3, <4>2
        <5>2. d[j] = e[c] /\ e[c].key < k
          BY <1>4, <2>1, <2>2, <5>1 DEF Between
        <5> QED
          BY <5>2
      <4> QED
        BY <1>8, <4>1, <4>2
    <3>2. j < l + 1 => k <= d[j + 1].key
      <4> SUFFICES ASSUME j < l + 1
                   PROVE  k <= d[j + 1].key
        OBVIOUS
      <4>1. j + 1 \in 1 .. l + 1 /\ ~ (j + 1 < h + 1) /\ j + 1 # h + 1 /\ (j + 1) - 1 = c + 1 /\ c < l
        BY <1>3, <1>8, <2>1
      <4>2. d[j + 1] = e[c + 1]
        BY <1>4, <4>1
      <4>3. k <= e[c + 1].key
        BY <1>2, <2>2, <4>1 DEF Between
      <4> QED
        BY <4>2, <4>3
    <3> QED
      BY <1>4, <3>1, <3>2 DEF Between
  <2>3. Keeps(s, n, up, z, p, j, p, c)
    BY <1>1, <1>2, <1>5, <2>1, <2>2 DEF Keeps
  <2>4. ~ (j < h)
    BY <1>8
  <2> QED
    BY <1>3, <2>1, <2>3, <2>4
<1> QED
  BY <1>3, <1>7, <1>8

LEMMA KeepsHalves ==
  ASSUME NEW s, NEW n, NEW p, NEW i, NEW o, NEW out, NEW b, Divides(s, n, p, i, o, out, b),
         NEW z, RaisedAs(s, n, p, i, o, out, b, z), NEW j \in Nat, s.rank[n] # 1
  PROVE  /\ Slot(z, {}, o, j) => Keeps(s, n, s.entries[n][b].key, z, o, j, n, j) /\ j < b
         /\ Slot(z, {}, n, j) => Keeps(s, n, s.entries[n][b].key, z, n, j, n, j + b)
<1>1. /\ Shape(s) /\ n \in s.nodes /\ s.entries[n] \in Seq(Entry) /\ Len(s.entries[n]) \in Nat /\ Ascending(s.entries[n])
      /\ out \in Nat /\ b \in Nat /\ out > 0 /\ out < Len(s.entries[n]) /\ b \in 1 .. Len(s.entries[n])
      /\ b = out + 1
  BY DividesIs
<1>l. PICK l \in Nat : l = Len(s.entries[n])
  BY <1>1
<1>2. PICK all, up, first, second : /\ l \in Nat /\ l = Len(s.entries[n]) /\ all = s.entries[n]
                                    /\ up = all[b].key /\ first = z.entries[o] /\ second = z.entries[n]
  BY <1>l
<1>3. /\ z.rank[o] = s.rank[n] /\ z.rank[n] = s.rank[n]
      /\ z.span[o] = {k \in s.span[n] : k <= up} /\ z.span[n] = {k \in s.span[n] : k > up}
      /\ Len(first) = out /\ Len(second) = l - b
      /\ \A a \in 1 .. out : first[a] = all[a]
      /\ \A a \in 1 .. l - b : second[a] = all[b + a]
  BY <1>1, <1>2 DEF RaisedAs
<1>4. \A a \in 1 .. l : all[a].key \in Int
  BY <1>1, <1>2, EntryIs
<1>5. \A k \in s.span[n] : k \in Int
  BY <1>1, ShapeIs, KeysAreNumbers
<1>6. \A a, c \in 1 .. l : a < c => all[a].key < all[c].key
  BY <1>1, <1>2 DEF Ascending
<1>7. ASSUME Slot(z, {}, o, j)
      PROVE  Keeps(s, n, up, z, o, j, n, j) /\ j < b
  <2>1. j <= out /\ Below(z, o, j) = Below(s, n, j) /\ Slot(s, {}, n, j)
    BY <1>7, HalvesWays
  <2>2. j < b /\ j < l /\ j + 1 \in 1 .. l
    BY <1>1, <1>2, <2>1
  <2>3. ASSUME NEW k \in s.span[n], Between(all, j, k)
        PROVE  k \in z.span[o] /\ Between(first, j, k)
    <3>1. k <= all[j + 1].key /\ (j > 0 => all[j].key < k)
      BY <1>2, <2>2, <2>3 DEF Between
    <3>2. j + 1 = b \/ all[j + 1].key < up
      <4>1. j + 1 = b \/ j + 1 < b
        BY <1>1, <2>2
      <4> QED
        BY <1>1, <1>2, <1>6, <2>2, <4>1
    <3>3. k <= up
      <4>1. k \in Int /\ all[j + 1].key \in Int /\ up \in Int
        BY <1>1, <1>2, <1>4, <1>5, <2>2
      <4>2. all[j + 1].key <= up
        BY <1>2, <3>2, <4>1
      <4> QED
        BY ONLY <3>1, <4>1, <4>2
    <3>4. Between(first, j, k)
      <4>1. j > 0 => j \in 1 .. out
        BY <2>1
      <4>2. j < out => j + 1 \in 1 .. out
        BY <1>1
      <4> QED
        BY <1>3, <3>1, <4>1, <4>2 DEF Between
    <3> QED
      BY <1>3, <3>3, <3>4
  <2> QED
    BY <1>1, <1>2, <1>3, <2>1, <2>2, <2>3 DEF Keeps
<1>8. ASSUME Slot(z, {}, n, j)
      PROVE  Keeps(s, n, up, z, n, j, n, j + b)
  <2>1. PICK c \in Nat : c = j + b /\ j <= l - b /\ Below(z, n, j) = Below(s, n, c) /\ Slot(s, {}, n, c)
    BY <1>2, <1>8, HalvesWays
  <2>2. c > 0 /\ c \in 1 .. l /\ (c = b \/ b < c)
    BY <1>1, <1>2, <2>1
  <2>3. ASSUME NEW k \in s.span[n], Between(all, c, k)
        PROVE  k \in z.span[n] /\ Between(second, j, k)
    <3>1. all[c].key < k /\ (c < l => k <= all[c + 1].key)
      BY <1>2, <2>2, <2>3 DEF Between
    <3>2. k > up
      <4>1. k \in Int /\ all[c].key \in Int /\ up \in Int
        BY <1>1, <1>2, <1>4, <1>5, <2>2
      <4>2. up <= all[c].key
        BY <1>1, <1>2, <1>6, <2>2, <4>1, SMTT(30)
      <4> QED
        BY ONLY <3>1, <4>1, <4>2
    <3>3. Between(second, j, k)
      <4>1. j > 0 => j \in 1 .. l - b /\ b + j = c
        BY <1>1, <2>1
      <4>2. j < l - b => j + 1 \in 1 .. l - b /\ b + (j + 1) = c + 1 /\ c < l
        BY <1>1, <2>1
      <4>3. j > 0 => second[j] = all[c]
        BY <1>3, <4>1
      <4>4. j < l - b => second[j + 1] = all[c + 1]
        BY <1>3, <4>2
      <4> QED
        BY <1>3, <3>1, <4>2, <4>3, <4>4 DEF Between
    <3> QED
      BY <1>3, <3>2, <3>3
  <2>4. Keeps(s, n, up, z, n, j, n, c)
    BY <1>1, <1>2, <1>3, <2>1, <2>3 DEF Keeps
  <2> QED
    BY <2>1, <2>4
<1> QED
  BY <1>2, <1>7, <1>8

LEMMA KeepsOthers ==
  ASSUME NEW s, NEW n, NEW p, NEW i, NEW o, NEW out, NEW b, Divides(s, n, p, i, o, out, b),
         NEW z, RaisedAs(s, n, p, i, o, out, b, z), NEW q \in s.nodes \ {n, p}, NEW j \in Nat
  PROVE  /\ Slot(z, {}, q, j) <=> Slot(s, {}, q, j)
         /\ Slot(s, {}, q, j) => Keeps(s, n, s.entries[n][b].key, z, q, j, q, j)
<1>1. /\ q \in z.nodes /\ z.rank[q] = s.rank[q] /\ z.over[q] = s.over[q]
      /\ z.entries[q] = s.entries[q] /\ z.span[q] = s.span[q]
  BY DEF RaisedAs
<1>2. Below(z, q, j) = Below(s, q, j) /\ (Slot(z, {}, q, j) <=> Slot(s, {}, q, j))
  BY <1>1 DEF Below, Slot
<1> QED
  BY <1>1, <1>2 DEF Keeps

\* Every way of the split tree but the one to the new node was there before,
\* and no two of them were the same.
LEMMA WayKept ==
  ASSUME NEW s, NEW n, NEW p, NEW i, NEW o, NEW out, NEW b, Divides(s, n, p, i, o, out, b),
         NEW z, RaisedAs(s, n, p, i, o, out, b, z), NEW q \in z.nodes, NEW j \in Nat, Slot(z, {}, q, j),
         ~ (q = p /\ j = i), NEW up, up = s.entries[n][b].key
  PROVE  \E a, c : /\ Keeps(s, n, up, z, q, j, a, c)
                   /\ \/ q = p /\ a = p /\ c = IF j < i THEN j ELSE j - 1
                      \/ q = o /\ a = n /\ c = j /\ j < b
                      \/ q = n /\ a = n /\ c = j + b
                      \/ q \notin {n, o, p} /\ a = q /\ c = j
<1>1. z.nodes = s.nodes \cup {o} /\ z.rank[o] = s.rank[n] /\ z.rank[n] = s.rank[n] /\ n # p /\ o # n /\ o # p
  BY DividesIs DEF RaisedAs
<1>2. CASE q = p
  <2>1. Slot(z, {}, p, j) /\ j # i
    BY <1>2
  <2>2. Keeps(s, n, up, z, p, j, p, IF j < i THEN j ELSE j - 1)
    BY <2>1, KeepsParent
  <2> QED
    BY <1>2, <2>2
<1>3. CASE q = o \/ q = n
  <2>1. s.rank[n] # 1
    <3>1. z.rank[q] = s.rank[n] /\ z.rank[q] > 1
      BY <1>1, <1>3 DEF Slot
    <3> QED
      BY <3>1
  <2>2. CASE q = o
    <3>1. Keeps(s, n, up, z, o, j, n, j) /\ j < b
      BY <2>1, <2>2, KeepsHalves
    <3> QED
      BY <2>2, <3>1
  <2>3. CASE q = n
    <3>1. Keeps(s, n, up, z, n, j, n, j + b)
      BY <2>1, <2>3, KeepsHalves
    <3> QED
      BY <2>3, <3>1
  <2> QED
    BY <1>3, <2>2, <2>3
<1>4. CASE q \notin {n, o, p}
  <2>1. q \in s.nodes \ {n, p}
    BY <1>1, <1>4
  <2>2. Keeps(s, n, up, z, q, j, q, j)
    BY <2>1, KeepsOthers
  <2> QED
    BY <1>4, <2>2
<1> QED
  BY <1>2, <1>3, <1>4

\* And none is lost.
LEMMA WaysRemain ==
  ASSUME NEW s, NEW n, NEW p, NEW i, NEW o, NEW out, NEW b, Divides(s, n, p, i, o, out, b),
         NEW z, RaisedAs(s, n, p, i, o, out, b, z), NEW a \in s.nodes, NEW c \in Nat, Slot(s, {}, a, c)
  PROVE  \E q \in z.nodes, j \in Nat : Slot(z, {}, q, j) /\ Below(z, q, j) = Below(s, a, c)
<1>1. /\ n # p /\ n \in s.nodes /\ p \in s.nodes /\ Len(s.entries[p]) \in Nat /\ i \in 0 .. Len(s.entries[p])
      /\ Len(s.entries[n]) \in Nat /\ out \in Nat /\ b \in Nat /\ (s.rank[n] # 1 => b = out + 1)
      /\ z.nodes = s.nodes \cup {o}
  BY DividesIs DEF RaisedAs
<1>2. CASE a = p
  <2>1. PICK l \in Nat, h \in Nat : l = Len(s.entries[p]) /\ h = i /\ c <= l
    <3>1. c \in 0 .. Len(s.entries[p])
      BY <1>2 DEF Slot
    <3> QED
      BY <1>1, <3>1
  <2>2. CASE c < h
    <3>1. c <= l + 1
      BY <2>1
    <3>2. Slot(z, {}, p, c) /\ Below(z, p, c) = Below(s, p, c)
      BY <2>1, <2>2, <3>1, ParentWays
    <3> QED
      BY <1>1, <1>2, <3>2
  <2>3. CASE c >= h
    <3>1. PICK j \in Nat : j = c + 1
      OBVIOUS
    <3>2. j > h /\ j <= l + 1 /\ j - 1 = c
      BY <2>1, <2>3, <3>1
    <3>3. Slot(z, {}, p, j) /\ Below(z, p, j) = Below(s, p, c)
      BY <2>1, <3>2, ParentWays
    <3> QED
      BY <1>1, <1>2, <3>3
  <2> QED
    BY <2>1, <2>2, <2>3
<1>3. CASE a = n
  <2>1. s.rank[n] # 1 /\ c \in 0 .. Len(s.entries[n])
    BY <1>3 DEF Slot
  <2>2. CASE c <= out
    <3>1. Slot(z, {}, o, c) /\ Below(z, o, c) = Below(s, n, c)
      BY <2>1, <2>2, HalvesWays
    <3> QED
      BY <1>1, <1>3, <3>1
  <2>3. CASE c > out
    <3>1. PICK j \in Nat : j = c - b
      <4>1. c - b \in Nat
        BY <1>1, <2>1, <2>3
      <4> QED
        BY <4>1
    <3>2. j <= Len(s.entries[n]) - b /\ j + b = c
      BY <1>1, <2>1, <3>1
    <3>3. Slot(z, {}, n, j) /\ Below(z, n, j) = Below(s, n, c)
      BY <2>1, <3>2, HalvesWays
    <3> QED
      BY <1>1, <1>3, <3>3
  <2> QED
    BY <1>1, <2>2, <2>3
<1>4. CASE a \notin {n, p}
  <2>1. a \in s.nodes \ {n, p}
    BY <1>4
  <2>2. Slot(z, {}, a, c) /\ Keeps(s, n, s.entries[n][b].key, z, a, c, a, c)
    BY <2>1, KeepsOthers
  <2>3. Slot(z, {}, a, c) /\ Below(z, a, c) = Below(s, a, c)
    BY <2>2 DEF Keeps
  <2> QED
    BY <1>1, <2>3
<1> QED
  BY <1>2, <1>3, <1>4

\* The new node and the old one are below the parent.
LEMMA NewWays ==
  ASSUME NEW s, NEW n, NEW p, NEW i, NEW o, NEW out, NEW b, Divides(s, n, p, i, o, out, b),
         NEW z, RaisedAs(s, n, p, i, o, out, b, z)
  PROVE  p \in z.nodes /\ Slot(z, {}, p, i) /\ Below(z, p, i) = o /\ Below(s, p, i) = n
<1>1. p \in s.nodes /\ i \in Nat /\ Len(s.entries[p]) \in Nat /\ i \in 0 .. Len(s.entries[p])
  BY DividesIs
<1>2. i <= Len(s.entries[p]) + 1
  BY <1>1
<1>3. p \in z.nodes
  BY <1>1 DEF RaisedAs
<1>4. Slot(z, {}, p, i) /\ Below(z, p, i) = o
  BY <1>1, <1>2, ParentWays
<1>5. Below(s, p, i) = n
  BY DEF Divides
<1> QED
  BY <1>3, <1>4, <1>5

LEMMA SplitApart ==
  ASSUME NEW s, NEW n, NEW p, NEW i, NEW o, NEW out, NEW b, Divides(s, n, p, i, o, out, b),
         NEW z, RaisedAs(s, n, p, i, o, out, b, z)
  PROVE  Apart(z, {})
<1>1. /\ n # p /\ o # n /\ o # p /\ o \notin s.nodes /\ b \in Nat /\ i \in Nat
      /\ \A a \in s.nodes : \A c \in Nat : Slot(s, {}, a, c) => Below(s, a, c) \in s.nodes
      /\ Slot(z, {}, p, i) /\ Below(z, p, i) = o
  <2>1. /\ n # p /\ o # n /\ o # p /\ b \in Nat /\ i \in Nat
        /\ Slot(z, {}, p, i) /\ Below(z, p, i) = o
    BY DividesIs, NewWays
  <2>2. o \notin s.nodes /\ \A a \in s.nodes : \A c \in Nat : Slot(s, {}, a, c) => Below(s, a, c) \in s.nodes
    BY DEF Divides, SearchTree, Leads
  <2> QED
    BY <2>1, <2>2
<1>a. b \in Nat /\ i \in Nat
  BY <1>1
<1>2. PICK up : up = s.entries[n][b].key
  OBVIOUS
<1>3. ASSUME NEW q \in z.nodes, NEW j \in Nat, Slot(z, {}, q, j), ~ (q = p /\ j = i)
      PROVE  Below(z, q, j) # o
  <2>1. PICK a, c : Keeps(s, n, up, z, q, j, a, c)
    BY <1>2, <1>3, WayKept
  <2> QED
    BY <1>1, <2>1 DEF Keeps
<1>4. ASSUME NEW q \in z.nodes, NEW j \in Nat, Slot(z, {}, q, j), ~ (q = p /\ j = i),
             NEW r \in z.nodes, NEW h \in Nat, Slot(z, {}, r, h), ~ (r = p /\ h = i), Below(z, q, j) = Below(z, r, h)
      PROVE  q = r /\ j = h
  <2>1. PICK a, c : /\ Keeps(s, n, up, z, q, j, a, c)
                    /\ \/ q = p /\ a = p /\ c = IF j < i THEN j ELSE j - 1
                       \/ q = o /\ a = n /\ c = j /\ j < b
                       \/ q = n /\ a = n /\ c = j + b
                       \/ q \notin {n, o, p} /\ a = q /\ c = j
    BY <1>2, <1>4, WayKept
  <2>2. PICK e, d : /\ Keeps(s, n, up, z, r, h, e, d)
                    /\ \/ r = p /\ e = p /\ d = IF h < i THEN h ELSE h - 1
                       \/ r = o /\ e = n /\ d = h /\ h < b
                       \/ r = n /\ e = n /\ d = h + b
                       \/ r \notin {n, o, p} /\ e = r /\ d = h
    BY <1>2, <1>4, WayKept
  <2>3. a = e /\ c = d
    <3>1. /\ a \in s.nodes /\ c \in Nat /\ Slot(s, {}, a, c) /\ Below(z, q, j) = Below(s, a, c)
          /\ e \in s.nodes /\ d \in Nat /\ Slot(s, {}, e, d) /\ Below(z, r, h) = Below(s, e, d)
      BY <2>1, <2>2 DEF Keeps
    <3>2. Apart(s, {})
      BY DEF Divides, SearchTree
    <3> QED
      BY <1>4, <3>1, <3>2 DEF Apart
  <2>4. CASE q = p
    <3>1. r = p
      BY <1>1, <2>1, <2>2, <2>3, <2>4
    <3>2. (c = IF j < i THEN j ELSE j - 1) /\ (d = IF h < i THEN h ELSE h - 1) /\ j # i /\ h # i
      BY <1>1, <1>4, <2>1, <2>2, <2>4, <3>1
    <3>3. j = h
      <4>1. \/ j < i /\ c = j
            \/ ~ (j < i) /\ c = j - 1
        BY <3>2
      <4>2. \/ h < i /\ d = h
            \/ ~ (h < i) /\ d = h - 1
        BY <3>2
      <4> QED
        BY ONLY <2>3, <3>2, <4>1, <4>2, j \in Nat, h \in Nat, <1>a
    <3> QED
      BY <2>4, <3>1, <3>3
  <2>5. CASE q = o
    <3>1. a = n /\ c = j /\ j < b
      BY <1>1, <2>1, <2>5
    <3>2. r # n
      <4>1. ASSUME r = n PROVE FALSE
        <5>1. d = h + b
          BY <1>1, <2>2, <4>1
        <5> QED
          <6>1. j = h + b /\ j < b
            BY <2>3, <3>1, <5>1
          <6> QED
            BY ONLY <1>a, <6>1, h \in Nat, j \in Nat
      <4> QED
        BY <4>1
    <3> QED
      BY <1>1, <2>2, <2>3, <2>5, <3>1, <3>2
  <2>6. CASE q = n
    <3>1. a = n /\ c = j + b
      BY <1>1, <2>1, <2>6
    <3>2. r # o
      <4>1. ASSUME r = o PROVE FALSE
        <5>1. d = h /\ h < b
          BY <1>1, <2>2, <4>1
        <5> QED
          <6>1. h = j + b /\ h < b
            BY <2>3, <3>1, <5>1
          <6> QED
            BY ONLY <1>a, <6>1, h \in Nat, j \in Nat
      <4> QED
        BY <4>1
    <3>3. r = n /\ d = h + b
      BY <1>1, <2>2, <2>3, <3>1, <3>2
    <3>4. j = h
      <4>1. PICK m \in Nat : m = j + b
        BY ONLY <1>a, j \in Nat
      <4>2. m = h + b
        BY <2>3, <3>1, <3>3, <4>1
      <4>3. j = m - b /\ h = m - b
        BY ONLY <1>a, <4>1, <4>2, j \in Nat, h \in Nat
      <4> QED
        BY <4>3
    <3> QED
      BY <2>6, <3>3, <3>4
  <2>7. CASE q \notin {n, o, p}
    BY <1>1, <2>1, <2>2, <2>3, <2>7
  <2> QED
    BY <2>4, <2>5, <2>6, <2>7
<1>5. ASSUME NEW q \in z.nodes, NEW r \in z.nodes, NEW j \in Nat, NEW h \in Nat,
             Slot(z, {}, q, j), Slot(z, {}, r, h), Below(z, q, j) = Below(z, r, h)
      PROVE  q = r /\ j = h
  <2>1. CASE q = p /\ j = i
    BY <1>1, <1>3, <1>5, <2>1
  <2>2. CASE r = p /\ h = i
    BY <1>1, <1>3, <1>5, <2>2
  <2>3. CASE ~ (q = p /\ j = i) /\ ~ (r = p /\ h = i)
    BY <1>4, <1>5, <2>3
  <2> QED
    BY <2>1, <2>2, <2>3
<1> QED
  BY <1>5 DEF Apart

LEMMA SplitLeads ==
  ASSUME NEW s, NEW n, NEW p, NEW i, NEW o, NEW out, NEW b, Divides(s, n, p, i, o, out, b),
         NEW z, RaisedAs(s, n, p, i, o, out, b, z), NEW q \in z.nodes, NEW j \in Nat, Slot(z, {}, q, j)
  PROVE  Leads(z, q, j)
<1>1. PICK up : up = s.entries[n][b].key
  OBVIOUS
<1>2. /\ n \in s.nodes /\ p \in s.nodes /\ n # p /\ o # n /\ o # p /\ o \notin s.nodes
      /\ z.nodes = s.nodes \cup {o}
      /\ \A m \in s.nodes : z.rank[m] = s.rank[m]
      /\ z.rank[o] = s.rank[n]
      /\ \A m \in s.nodes \ {n} : z.span[m] = s.span[m]
      /\ z.span[o] = {k \in s.span[n] : k <= up} /\ z.span[n] = {k \in s.span[n] : k > up}
  <2>1. n \in s.nodes /\ p \in s.nodes /\ n # p /\ o # n /\ o # p
    BY DividesIs
  <2>2. o \notin s.nodes
    BY DEF Divides
  <2>3. /\ z.nodes = s.nodes \cup {o}
        /\ \A m \in s.nodes : z.rank[m] = s.rank[m]
        /\ z.rank[o] = s.rank[n]
        /\ \A m \in s.nodes \ {n} : z.span[m] = s.span[m]
        /\ z.span[o] = {k \in s.span[n] : k <= up} /\ z.span[n] = {k \in s.span[n] : k > up}
    BY <1>1 DEF RaisedAs
  <2> QED
    BY <2>1, <2>2, <2>3
<1>3. CASE ~ (q = p /\ j = i)
  <2>1. PICK a, c : Keeps(s, n, up, z, q, j, a, c)
    BY <1>1, <1>3, WayKept
  <2>2. /\ a \in s.nodes /\ c \in Nat /\ Slot(s, {}, a, c) /\ Below(z, q, j) = Below(s, a, c) /\ z.rank[q] = s.rank[a]
        /\ \A k \in s.span[a] : Between(s.entries[a], c, k) /\ (Below(s, a, c) = n => k > up) =>
                                  k \in z.span[q] /\ Between(z.entries[q], j, k)
    BY <2>1 DEF Keeps
  <2>3. PICK m \in s.nodes : /\ m = Below(s, a, c) /\ s.rank[m] = s.rank[a] - 1
                             /\ \A k \in s.span[m] : k \in s.span[a] /\ Between(s.entries[a], c, k)
    BY <2>2 DEF Divides, SearchTree, Leads
  <2>4. \A k \in z.span[m] : k \in s.span[m] /\ (m = n => k > up)
    BY <1>2, <2>3
  <2>5. \A k \in z.span[m] : k \in z.span[q] /\ Between(z.entries[q], j, k)
    BY <2>2, <2>3, <2>4
  <2> QED
    BY <1>2, <2>2, <2>3, <2>5 DEF Leads
<1>4. CASE q = p /\ j = i
  <2>1. Below(z, q, j) = o /\ s.rank[n] = s.rank[p] - 1
    BY <1>4, NewWays, DividesIs
  <2>2. PICK l \in Nat, h \in Nat : l = Len(s.entries[p]) /\ h = i /\ h <= l
    <3>1. Len(s.entries[p]) \in Nat /\ i \in 0 .. Len(s.entries[p])
      BY DividesIs
    <3> QED
      BY <3>1
  <2>3. /\ s.span[n] \subseteq s.span[p] /\ \A k \in s.span[n] : Between(s.entries[p], i, k) /\ k \in Int
    BY KeyGoesUp
  <2>a. PICK x : x = [key |-> up, value |-> o]
    OBVIOUS
  <2>4. x = [key |-> up, value |-> o] /\ x.key = up
    BY <2>a
  <2>5. /\ Len(z.entries[p]) = l + 1
        /\ \A a \in 1 .. l + 1 : z.entries[p][a] = IF a < h + 1 THEN s.entries[p][a] ELSE IF a = h + 1 THEN x
                                                   ELSE s.entries[p][a - 1]
    BY <1>1, <2>2, <2>4 DEF RaisedAs, Inserted
  <2>6. ASSUME NEW k \in s.span[n], k <= up
        PROVE  Between(z.entries[p], h, k)
    <3>1. h > 0 => h \in 1 .. l + 1 /\ h < h + 1
      BY <2>2
    <3>2. h + 1 \in 1 .. l + 1 /\ ~ (h + 1 < h + 1)
      BY <2>2
    <3>3. (h > 0 => z.entries[p][h] = s.entries[p][h]) /\ z.entries[p][h + 1] = x
      BY <2>5, <3>1, <3>2
    <3>4. h > 0 => s.entries[p][h].key < k
      BY <2>2, <2>3 DEF Between
    <3> QED
      BY <2>4, <2>6, <3>3, <3>4 DEF Between
  <2> QED
    BY <1>2, <1>4, <2>1, <2>2, <2>3, <2>6 DEF Leads
<1> QED
  BY <1>3, <1>4

LEMMA SplitOrdered ==
  ASSUME NEW s, NEW n, NEW p, NEW i, NEW o, NEW out, NEW b, Divides(s, n, p, i, o, out, b),
         NEW z, RaisedAs(s, n, p, i, o, out, b, z), NEW m \in z.nodes
  PROVE  Ordered(z, m)
<1>1. /\ Shape(s) /\ n \in s.nodes /\ p \in s.nodes /\ n # p /\ o # n /\ o # p
      /\ s.rank[p] > 1
      /\ s.entries[n] \in Seq(Entry) /\ Len(s.entries[n]) \in Nat /\ Ascending(s.entries[n])
      /\ \A j \in 1 .. Len(s.entries[n]) : s.entries[n][j].key \in s.span[n]
      /\ out \in Nat /\ b \in Nat /\ out > 0 /\ out < Len(s.entries[n]) /\ b \in 1 .. Len(s.entries[n]) /\ out <= b
      /\ s.rank[n] = 1 => b = out
      /\ s.rank[n] # 1 => b = out + 1
  BY DividesIs
<1>2. PICK l \in Nat : l = Len(s.entries[n])
  BY <1>1
<1>3. PICK all, up : all = s.entries[n] /\ up = all[b].key
  OBVIOUS
<1>4. /\ z.nodes = s.nodes \cup {o}
      /\ z.rank[o] = s.rank[n] /\ (\A a \in s.nodes : z.rank[a] = s.rank[a] /\ z.over[a] = s.over[a])
      /\ (s.rank[n] = 1 => z.over[o] = Null)
      /\ (s.rank[n] # 1 => z.over[o] = all[b].value)
      /\ z.span[p] = s.span[p]
      /\ z.span[o] = {k \in s.span[n] : k <= up} /\ z.span[n] = {k \in s.span[n] : k > up}
  BY <1>1, <1>3 DEF RaisedAs
<1>5. /\ Len(z.entries[o]) = out /\ (\A j \in 1 .. out : z.entries[o][j] = all[j])
      /\ Len(z.entries[n]) = l - b
      /\ \A j \in 1 .. l - b : z.entries[n][j] = all[b + j]
  BY <1>2, <1>3 DEF RaisedAs
<1>6. \A a \in s.nodes : Ordered(s, a)
  BY DEF Divides, SearchTree
<1>7. \A a, c \in 1 .. l : a < c => all[a].key < all[c].key
  BY <1>1, <1>2, <1>3 DEF Ascending
<1>8. \A a \in 1 .. l : all[a].key \in Int /\ all[a].key \in s.span[n] /\ all[a].value \in Nat
                        /\ (s.rank[n] = 1 => all[a].value # NoValue)
  BY <1>1, <1>2, <1>3, <1>6, EntryIs DEF Ordered
<1>9. CASE m = o
  <2>1. \A j \in 1 .. out : j \in 1 .. l /\ (j = b \/ j < b)
    BY <1>1, <1>2
  <2>2. \A a, c \in 1 .. out : a < c => z.entries[o][a].key < z.entries[o][c].key
    BY <1>5, <1>7, <2>1
  <2>3. b \in 1 .. l
    BY <1>1, <1>2
  <2>4. ASSUME NEW j \in 1 .. out
        PROVE  all[j].key <= up
    <3>1. all[j].key = up \/ all[j].key < up
      BY <1>3, <1>7, <2>1, <2>3
    <3>2. all[j].key \in Int /\ up \in Int
      BY <1>3, <1>8, <2>1, <2>3
    <3> QED
      BY ONLY <3>1, <3>2
  <2>5. \A j \in 1 .. out : z.entries[o][j].key \in z.span[o] /\ (s.rank[n] = 1 => z.entries[o][j].value # NoValue)
    BY <1>4, <1>5, <1>8, <2>1, <2>4
  <2>6. z.over[o] # FreeMark /\ (z.rank[o] = 1 <=> z.over[o] = Null)
    <3>1. all[b].value \in Nat
      BY <1>8, <2>3
    <3> QED
      BY <1>4, <3>1 DEF FreeMark, Null
  <2>7. Ascending(z.entries[o])
    BY <1>5, <2>2 DEF Ascending
  <2> QED
    BY <1>4, <1>5, <1>9, <2>5, <2>6, <2>7 DEF Ordered
<1>10. CASE m = n
  <2>1. \A j \in 1 .. l - b : b + j \in 1 .. l /\ b < b + j
    BY <1>1, <1>2
  <2>2. \A a, c \in 1 .. l - b : a < c => z.entries[n][a].key < z.entries[n][c].key
    <3> SUFFICES ASSUME NEW a \in 1 .. l - b, NEW c \in 1 .. l - b, a < c
                 PROVE  z.entries[n][a].key < z.entries[n][c].key
      OBVIOUS
    <3>1. b + a \in 1 .. l /\ b + c \in 1 .. l /\ b + a < b + c
      BY <1>1, <2>1
    <3>2. all[b + a].key < all[b + c].key
      BY <1>7, <3>1
    <3> QED
      BY <1>5, <3>2
  <2>3. b \in 1 .. l
    BY <1>1, <1>2
  <2>4. \A j \in 1 .. l - b : z.entries[n][j].key \in z.span[n] /\ (s.rank[n] = 1 => z.entries[n][j].value # NoValue)
    <3> SUFFICES ASSUME NEW j \in 1 .. l - b
                 PROVE  z.entries[n][j].key \in z.span[n] /\ (s.rank[n] = 1 => z.entries[n][j].value # NoValue)
      OBVIOUS
    <3>1. PICK a \in 1 .. l : a = b + j /\ b < a
      BY <2>1
    <3>2. z.entries[n][j] = all[a]
      BY <1>5, <3>1
    <3>3. up < all[a].key
      BY <1>3, <1>7, <2>3, <3>1
    <3>4. all[a].key > up
      BY <1>3, <1>8, <2>3, <3>3
    <3> QED
      BY <1>4, <1>8, <3>2, <3>4
  <2>5. Ordered(s, n) /\ z.over[n] = s.over[n] /\ z.rank[n] = s.rank[n]
    BY <1>1, <1>4, <1>6
  <2>6. Ascending(z.entries[n])
    BY <1>5, <2>2 DEF Ascending
  <2> QED
    BY <1>5, <1>10, <2>4, <2>5, <2>6 DEF Ordered
<1>11. CASE m = p
  <2>1. PICK x, d : x = [key |-> up, value |-> o] /\ d = z.entries[p]
    OBVIOUS
  <2>2. Inserted(s.entries[p], i, x, d)
    BY <1>3, <2>1 DEF RaisedAs
  <2>3. Ascending(d) /\ \A k, v : EntryIn(d, k, v) <=> EntryIn(s.entries[p], k, v) \/ (k = x.key /\ v = x.value)
    BY ONLY <2>2 DEF Inserted
  <2>4. up \in s.span[p]
    <3>1. s.span[n] \subseteq s.span[p] /\ up \in s.span[n]
      BY <1>3, KeyGoesUp
    <3> QED
      BY <3>1
  <2>5. \A j \in 1 .. Len(d) : d[j].key \in z.span[p]
    <3> SUFFICES ASSUME NEW j \in 1 .. Len(d)
                 PROVE  d[j].key \in s.span[p]
      BY <1>4
    <3>1. EntryIn(d, d[j].key, d[j].value)
      BY DEF EntryIn
    <3>2. EntryIn(s.entries[p], d[j].key, d[j].value) \/ d[j].key = up
      BY <2>1, <2>3, <3>1
    <3>3. EntryIn(s.entries[p], d[j].key, d[j].value) => d[j].key \in s.span[p]
      BY <1>1, <1>6 DEF Ordered, EntryIn
    <3> QED
      BY <2>4, <3>2, <3>3
  <2>6. Ordered(s, p) /\ z.over[p] = s.over[p] /\ z.rank[p] = s.rank[p] /\ s.rank[p] # 1
    BY <1>1, <1>4, <1>6
  <2> QED
    BY <1>11, <2>1, <2>3, <2>5, <2>6 DEF Ordered
<1>12. CASE m \notin {n, o, p}
  <2>1. m \in s.nodes /\ m \in s.nodes \ {n}
    BY <1>4, <1>12
  <2>2. z.entries[m] = s.entries[m] /\ z.span[m] = s.span[m] /\ z.over[m] = s.over[m] /\ z.rank[m] = s.rank[m]
    BY <1>12, <2>1 DEF RaisedAs
  <2> QED
    BY <1>6, <2>1, <2>2 DEF Ordered
<1> QED
  BY <1>9, <1>10, <1>11, <1>12

LEMMA SplitInner ==
  ASSUME NEW s, NEW n, NEW p, NEW i, NEW o, NEW out, NEW b, Divides(s, n, p, i, o, out, b),
         NEW z, RaisedAs(s, n, p, i, o, out, b, z), NEW m \in z.nodes \ {z.root}
  PROVE  Inner(z, {}, m)
<1>1. n \in s.nodes /\ n # s.root /\ p \in s.nodes /\ i \in Nat
  BY DividesIs
<1>2. PICK up : up = s.entries[n][b].key
  OBVIOUS
<1>3. up \in s.span[n] /\ up \in Int /\ \E k \in s.span[n] : k > up
  BY <1>2, KeyGoesUp
<1>4. /\ z.root = s.root /\ z.nodes = s.nodes \cup {o} /\ s.root \in s.nodes
      /\ z.rank[o] = s.rank[n] /\ (\A a \in s.nodes : z.rank[a] = s.rank[a])
      /\ (\A a \in s.nodes \ {n} : z.span[a] = s.span[a])
      /\ z.span[o] = {k \in s.span[n] : k <= up} /\ z.span[n] = {k \in s.span[n] : k > up}
  BY <1>1, <1>2 DEF RaisedAs, Divides, SearchTree, Shape
<1>5. \A a \in s.nodes \ {s.root} : Inner(s, {}, a)
  BY DEF Divides, SearchTree
<1>6. CASE m = o
  <2>1. z.rank[o] < z.rank[z.root]
    BY <1>1, <1>4, <1>5 DEF Inner
  <2>2. up \in z.span[o]
    BY <1>3, <1>4
  <2>3. p \in z.nodes /\ Slot(z, {}, p, i) /\ Below(z, p, i) = o
    BY NewWays
  <2> QED
    BY <1>1, <1>6, <2>1, <2>2, <2>3 DEF Inner
<1>7. CASE m # o
  <2>1. m \in s.nodes \ {s.root} /\ Inner(s, {}, m)
    BY <1>4, <1>5, <1>7
  <2>2. z.rank[m] < z.rank[z.root]
    BY <1>4, <2>1 DEF Inner
  <2>3. z.span[m] # {}
    BY <1>3, <1>4, <2>1 DEF Inner
  <2>4. PICK a \in s.nodes, c \in Nat : Slot(s, {}, a, c) /\ Below(s, a, c) = m
    BY <2>1 DEF Inner
  <2>5. \E q \in z.nodes, j \in Nat : Slot(z, {}, q, j) /\ Below(z, q, j) = Below(s, a, c)
    BY <2>4, WaysRemain
  <2> QED
    BY <2>2, <2>3, <2>4, <2>5 DEF Inner
<1> QED
  BY <1>6, <1>7

\* The leaves have what they had.
LEMMA SplitShows ==
  ASSUME NEW s, NEW n, NEW p, NEW i, NEW o, NEW out, NEW b, Divides(s, n, p, i, o, out, b),
         NEW z, RaisedAs(s, n, p, i, o, out, b, z)
  PROVE  \A k, v : Has(z, k, v) <=> Has(s, k, v)
<1>1. /\ n \in s.nodes /\ p \in s.nodes /\ n # p /\ o # n /\ o # p /\ s.rank[p] > 1
      /\ Len(s.entries[n]) \in Nat
      /\ out \in Nat /\ out > 0 /\ out < Len(s.entries[n])
      /\ s.rank[n] = 1 => b = out
  BY DividesIs
<1>2. PICK l \in Nat : l = Len(s.entries[n])
  BY <1>1
<1>3. PICK all : all = s.entries[n]
  OBVIOUS
<1>4. /\ z.nodes = s.nodes \cup {o}
      /\ z.rank[o] = s.rank[n] /\ (\A a \in s.nodes : z.rank[a] = s.rank[a])
      /\ \A a \in s.nodes \ {n} : a # p => z.entries[a] = s.entries[a]
  BY DEF RaisedAs
<1>5. /\ Len(z.entries[o]) = out /\ (\A j \in 1 .. out : z.entries[o][j] = all[j])
      /\ Len(z.entries[n]) = l - b
      /\ \A j \in 1 .. l - b : z.entries[n][j] = all[b + j]
  BY <1>2, <1>3 DEF RaisedAs
<1>6. ASSUME s.rank[n] = 1, NEW k, NEW v
      PROVE  EntryIn(all, k, v) <=> EntryIn(z.entries[o], k, v) \/ EntryIn(z.entries[n], k, v)
  <2>0. b = out /\ Len(all) = l /\ out < l
    BY <1>1, <1>2, <1>3, <1>6
  <2>1. ASSUME EntryIn(all, k, v)
        PROVE  EntryIn(z.entries[o], k, v) \/ EntryIn(z.entries[n], k, v)
    <3>1. PICK j \in 1 .. l : all[j].key = k /\ all[j].value = v
      BY <2>0, <2>1 DEF EntryIn
    <3>2. CASE j <= out
      <4>1. j \in 1 .. out
        BY <1>1, <3>2
      <4> QED
        BY <1>5, <3>1, <4>1 DEF EntryIn
    <3>3. CASE j > out
      <4>1. PICK c \in Nat : c = j - out
        BY <1>1, <3>3
      <4>2. c \in 1 .. l - b /\ b + c = j
        BY <1>1, <2>0, <3>3, <4>1
      <4> QED
        BY <1>5, <3>1, <4>2 DEF EntryIn
    <3> QED
      BY <1>1, <3>2, <3>3
  <2>2. ASSUME EntryIn(z.entries[o], k, v)
        PROVE  EntryIn(all, k, v)
    <3>1. PICK j \in 1 .. out : all[j].key = k /\ all[j].value = v
      BY <1>5, <2>2 DEF EntryIn
    <3>2. j \in 1 .. Len(all)
      BY <1>1, <2>0
    <3> QED
      BY <3>1, <3>2 DEF EntryIn
  <2>3. ASSUME EntryIn(z.entries[n], k, v)
        PROVE  EntryIn(all, k, v)
    <3>1. PICK j \in 1 .. l - b : all[b + j].key = k /\ all[b + j].value = v
      BY <1>5, <2>3 DEF EntryIn
    <3>2. b + j \in 1 .. Len(all)
      BY <1>1, <2>0
    <3> QED
      BY <3>1, <3>2 DEF EntryIn
  <2> QED
    BY <2>1, <2>2, <2>3
<1>7. ASSUME NEW k, NEW v
      PROVE  Has(z, k, v) <=> Has(s, k, v)
  <2>1. ASSUME NEW m \in s.nodes, s.rank[m] = 1, m # n
        PROVE  z.rank[m] = 1 /\ z.entries[m] = s.entries[m]
    <3>1. m # p
      BY <1>1, <2>1
    <3> QED
      BY <1>4, <2>1, <3>1
  <2>2. ASSUME Has(z, k, v)
        PROVE  Has(s, k, v)
    <3>1. PICK m \in z.nodes : z.rank[m] = 1 /\ EntryIn(z.entries[m], k, v)
      BY <2>2 DEF Has
    <3>2. CASE m \in {o, n}
      <4>1. s.rank[n] = 1 /\ EntryIn(all, k, v)
        BY <1>1, <1>4, <1>6, <3>1, <3>2
      <4> QED
        BY <1>1, <1>3, <4>1 DEF Has
    <3>3. CASE m \notin {o, n}
      <4>1. m \in s.nodes /\ s.rank[m] = 1
        BY <1>4, <3>1, <3>3
      <4>2. z.entries[m] = s.entries[m]
        BY <2>1, <3>3, <4>1
      <4> QED
        BY <3>1, <4>1, <4>2 DEF Has
    <3> QED
      BY <3>2, <3>3
  <2>3. ASSUME Has(s, k, v)
        PROVE  Has(z, k, v)
    <3>1. PICK m \in s.nodes : s.rank[m] = 1 /\ EntryIn(s.entries[m], k, v)
      BY <2>3 DEF Has
    <3>2. CASE m = n
      <4>1. z.rank[o] = 1 /\ z.rank[n] = 1 /\ (EntryIn(z.entries[o], k, v) \/ EntryIn(z.entries[n], k, v))
        BY <1>1, <1>3, <1>4, <1>6, <3>1, <3>2
      <4> QED
        BY <1>1, <1>4, <4>1 DEF Has
    <3>3. CASE m # n
      BY <1>4, <2>1, <3>1, <3>3 DEF Has
    <3> QED
      BY <3>2, <3>3
  <2> QED
    BY <2>2, <2>3
<1> QED
  BY <1>7

\* A node can be split.
LEMMA NodeSplit ==
  ASSUME NEW s, NEW n, NEW p, NEW i, NEW o, NEW out, NEW b, Divides(s, n, p, i, o, out, b)
  PROVE  \E z : RaisedAs(s, n, p, i, o, out, b, z) /\ SearchTree(z, {}) /\ \A k, v : Has(z, k, v) <=> Has(s, k, v)
<1>1. PICK z : z = Raised(s, n, p, i, o, out, b)
  OBVIOUS
<1>2. RaisedAs(s, n, p, i, o, out, b, z)
  BY <1>1, RaisedIs
<1>3. Shape(z)
  BY <1>2 DEF RaisedAs
<1>4. \A m \in z.nodes : Ordered(z, m)
  BY <1>2, SplitOrdered
<1>5. \A m \in z.nodes \ {z.root} : Inner(z, {}, m)
  BY <1>2, SplitInner
<1>6. \A q \in z.nodes : \A j \in Nat : Slot(z, {}, q, j) => Leads(z, q, j)
  BY <1>2, SplitLeads
<1>7. Apart(z, {})
  BY <1>2, SplitApart
<1>8. \A k, v : Has(z, k, v) <=> Has(s, k, v)
  BY <1>2, SplitShows
<1>9. SearchTree(z, {})
  BY <1>3, <1>4, <1>5, <1>6, <1>7 DEF SearchTree
<1> QED
  BY <1>2, <1>8, <1>9

\* The way to the parent stays.
LEMMA WayToParent ==
  ASSUME NEW s, NEW n, NEW p, NEW i, NEW o, NEW out, NEW b, Divides(s, n, p, i, o, out, b),
         NEW z, RaisedAs(s, n, p, i, o, out, b, z), NEW st, Way(s, {}, st),
         NEW l \in Nat, l = Len(st), l > 1, st[l - 1].node = p
  PROVE  /\ Way(z, {}, Front(st)) /\ Len(Front(st)) = l - 1 /\ Last(Front(st)) = st[l - 1]
<1>1. /\ p \in s.nodes /\ n \in s.nodes /\ n # p /\ s.rank[p] \in Nat /\ s.rank[n] = s.rank[p] - 1
  BY DividesIs, ShapeIs
<1>2. /\ z.root = s.root /\ z.nodes = s.nodes \cup {o} /\ \A m \in s.nodes : z.rank[m] = s.rank[m]
  BY DEF RaisedAs
<1>3. /\ st \in Seq([node : Nat, index : Nat]) /\ st # <<>> /\ st[1].node = s.root
      /\ \A j \in 1 .. l : st[j].node \in s.nodes /\ s.rank[st[j].node] = s.rank[s.root] + 1 - j
      /\ \A j \in 1 .. l - 1 : Slot(s, {}, st[j].node, st[j].index) /\ Below(s, st[j].node, st[j].index) = st[j + 1].node
  BY DEF Way
<1>4. PICK w : w = Front(st)
  OBVIOUS
<1>5. w \in Seq([node : Nat, index : Nat]) /\ Len(w) = l - 1 /\ \A j \in 1 .. l - 1 : w[j] = st[j]
  <2>1. /\ Front(st) \in Seq([node : Nat, index : Nat]) /\ Len(Front(st)) = Len(st) - 1
        /\ \A j \in 1 .. Len(st) - 1 : Front(st)[j] = st[j]
    BY ONLY <1>3, FrontIs
  <2> QED
    BY <1>4, <2>1
<1>6. w # <<>> /\ Last(w) = st[l - 1]
  <2>1. Last(w) = w[l - 1] /\ l - 1 \in 1 .. l - 1
    BY <1>5 DEF Last
  <2>2. w # <<>>
    BY <1>5
  <2> QED
    BY <1>5, <2>1, <2>2
<1>7. w[1].node = z.root
  <2>1. 1 \in 1 .. l - 1
    OBVIOUS
  <2> QED
    BY <1>2, <1>3, <1>5, <2>1
<1>8. ASSUME NEW j \in 1 .. l - 1
      PROVE  w[j].node \in z.nodes /\ z.rank[w[j].node] = z.rank[z.root] + 1 - j
  <2>1. j \in 1 .. l /\ s.root \in s.nodes
    BY DEF Divides, SearchTree, Shape
  <2>2. st[j].node \in s.nodes /\ s.rank[st[j].node] = s.rank[s.root] + 1 - j /\ w[j] = st[j]
    BY <1>3, <1>5, <2>1
  <2> QED
    BY <1>2, <2>1, <2>2
<1>9. ASSUME NEW j \in 1 .. (l - 1) - 1
      PROVE  Slot(z, {}, w[j].node, w[j].index) /\ Below(z, w[j].node, w[j].index) = w[j + 1].node
  <2>1. j \in 1 .. l - 1 /\ j + 1 \in 1 .. l - 1 /\ l - 1 \in 1 .. l /\ j \in 1 .. l
    OBVIOUS
  <2>2. PICK q, h : q = st[j].node /\ h = st[j].index
    OBVIOUS
  <2>3. /\ q \in s.nodes /\ Slot(s, {}, q, h) /\ Below(s, q, h) = st[j + 1].node
        /\ w[j] = st[j] /\ w[j + 1] = st[j + 1]
    BY <1>3, <1>5, <2>1, <2>2
  <2>4. s.rank[q] = s.rank[s.root] + 1 - j /\ s.rank[p] = s.rank[s.root] + 1 - (l - 1) /\ s.rank[s.root] \in Nat
    <3>1. s.rank[s.root] \in Nat
      BY <1>1, RankIs DEF Divides
    <3> QED
      BY <1>3, <2>1, <2>2, <3>1
  <2>5. q # p /\ q # n
    <3>1. PICK r \in Nat : r = s.rank[s.root]
      BY <2>4
    <3>2. r + 1 - j # r + 1 - (l - 1) /\ r + 1 - j # (r + 1 - (l - 1)) - 1
      BY ONLY r \in Nat, l \in Nat, j \in 1 .. (l - 1) - 1
    <3> QED
      BY <1>1, <2>4, <3>1, <3>2
  <2>6. h \in Nat
    <3>1. Len(s.entries[q]) \in Nat
      BY <2>3, ShapeIs DEF Divides, SearchTree
    <3> QED
      BY <2>3, <3>1 DEF Slot
  <2>7. Slot(z, {}, q, h) /\ Below(z, q, h) = Below(s, q, h)
    <3>1. q \in s.nodes \ {n, p}
      BY <2>3, <2>5
    <3>2. Slot(z, {}, q, h) /\ Keeps(s, n, s.entries[n][b].key, z, q, h, q, h)
      BY <2>3, <2>6, <3>1, KeepsOthers
    <3> QED
      BY <3>2 DEF Keeps
  <2> QED
    BY <2>2, <2>3, <2>7
<1>10. Way(z, {}, w)
  BY <1>5, <1>6, <1>7, <1>8, <1>9 DEF Way
<1> QED
  BY <1>4, <1>5, <1>6, <1>10

-----------------------------------------------------------------------------
(* A new root.                                                             *)

RootAbove(s, r) ==
  LET nodes == s.nodes \cup {r}
  IN  [root    |-> r,
       nodes   |-> nodes,
       entries |-> [m \in nodes |-> IF m = r THEN <<>> ELSE s.entries[m]],
       over    |-> [m \in nodes |-> IF m = r THEN s.root ELSE s.over[m]],
       rank    |-> [m \in nodes |-> IF m = r THEN s.rank[s.root] + 1 ELSE s.rank[m]],
       span    |-> [m \in nodes |-> IF m = r THEN s.span[s.root] ELSE s.span[m]]]

\* Above the old root there is a new one that leads to it only.
RootedAs(s, r, z) ==
  /\ Shape(z)
  /\ z.root = r /\ z.nodes = s.nodes \cup {r}
  /\ z.entries[r] = <<>> /\ z.over[r] = s.root /\ z.rank[r] = s.rank[s.root] + 1 /\ z.span[r] = s.span[s.root]
  /\ \A m \in s.nodes : /\ z.entries[m] = s.entries[m] /\ z.over[m] = s.over[m]
                        /\ z.rank[m] = s.rank[m] /\ z.span[m] = s.span[m]

LEMMA RootedIs ==
  ASSUME NEW s, Shape(s), NEW r \in Nat, r \notin s.nodes
  PROVE  RootedAs(s, r, RootAbove(s, r))
<1>1. PICK z : z = RootAbove(s, r)
  OBVIOUS
<1>2. /\ z.root = r /\ z.nodes = s.nodes \cup {r}
      /\ z.entries = [m \in s.nodes \cup {r} |-> IF m = r THEN <<>> ELSE s.entries[m]]
      /\ z.over = [m \in s.nodes \cup {r} |-> IF m = r THEN s.root ELSE s.over[m]]
      /\ z.rank = [m \in s.nodes \cup {r} |-> IF m = r THEN s.rank[s.root] + 1 ELSE s.rank[m]]
      /\ z.span = [m \in s.nodes \cup {r} |-> IF m = r THEN s.span[s.root] ELSE s.span[m]]
  BY <1>1 DEF RootAbove
<1>3. /\ s.nodes \subseteq Nat /\ s.root \in s.nodes
      /\ \A m \in s.nodes : /\ s.rank[m] \in Nat \ {0} /\ s.over[m] \in Int /\ s.span[m] \subseteq Key
                            /\ s.entries[m] \in Seq(Entry)
  BY ShapeIs DEF Shape
<1>4. /\ \A m \in s.nodes : /\ z.entries[m] = s.entries[m] /\ z.over[m] = s.over[m]
                            /\ z.rank[m] = s.rank[m] /\ z.span[m] = s.span[m]
      /\ z.entries[r] = <<>> /\ z.over[r] = s.root /\ z.rank[r] = s.rank[s.root] + 1 /\ z.span[r] = s.span[s.root]
  BY <1>2
<1>5. Shape(z)
  <2>1. z.entries \in [z.nodes -> Seq(Entry)]
    <3>1. <<>> \in Seq(Entry)
      OBVIOUS
    <3> QED
      BY <1>2, <1>3, <3>1
  <2>2. z.over \in [z.nodes -> Int]
    BY <1>2, <1>3
  <2>3. z.rank \in [z.nodes -> Nat \ {0}]
    BY <1>2, <1>3
  <2>4. z.span \in [z.nodes -> SUBSET Key]
    BY <1>2, <1>3
  <2>5. z.nodes \subseteq Nat /\ z.root \in z.nodes
    BY <1>2, <1>3
  <2> QED
    BY <2>1, <2>2, <2>3, <2>4, <2>5 DEF Shape
<1>6. RootedAs(s, r, z)
  BY <1>2, <1>4, <1>5 DEF RootedAs
<1> QED
  BY <1>1, <1>6

LEMMA RootAdded ==
  ASSUME NEW s, SearchTree(s, {}), NEW r \in Nat, r \notin s.nodes, s.entries[s.root] # <<>>
  PROVE  \E z : /\ RootedAs(s, r, z) /\ SearchTree(z, {})
                /\ Slot(z, {}, r, 0) /\ Below(z, r, 0) = s.root
                /\ \A k, v : Has(z, k, v) <=> Has(s, k, v)
<1>1. Shape(s) /\ s.root \in s.nodes
  BY DEF SearchTree, Shape
<1>2. PICK z : RootedAs(s, r, z)
  BY <1>1, RootedIs
<1>3. /\ Shape(z)
      /\ z.root = r /\ z.nodes = s.nodes \cup {r}
      /\ z.entries[r] = <<>> /\ z.over[r] = s.root /\ z.rank[r] = s.rank[s.root] + 1 /\ z.span[r] = s.span[s.root]
      /\ \A m \in s.nodes : /\ z.entries[m] = s.entries[m] /\ z.over[m] = s.over[m]
                            /\ z.rank[m] = s.rank[m] /\ z.span[m] = s.span[m]
  BY <1>2 DEF RootedAs
<1>4. PICK h \in Nat : h = s.rank[s.root] /\ h > 0
  BY <1>1, ShapeIs
<1>5. /\ \A m \in s.nodes : \A j : /\ Slot(z, {}, m, j) <=> Slot(s, {}, m, j)
                                   /\ Below(z, m, j) = Below(s, m, j)
      /\ \A j : Slot(z, {}, r, j) <=> j = 0
      /\ Below(z, r, 0) = s.root
  <2>1. \A m \in s.nodes : \A j : /\ Slot(z, {}, m, j) <=> Slot(s, {}, m, j)
                                  /\ Below(z, m, j) = Below(s, m, j)
    BY <1>3 DEF Slot, Below
  <2>2. Len(z.entries[r]) = 0 /\ z.rank[r] > 1
    BY <1>3, <1>4
  <2>3. Below(z, r, 0) = s.root
    BY <1>3, <2>2 DEF Below
  <2>4. \A j : Slot(z, {}, r, j) <=> j = 0
    <3>1. \A j : j \in 0 .. 0 <=> j = 0
      OBVIOUS
    <3> QED
      BY <1>3, <2>2, <3>1 DEF Slot
  <2> QED
    BY <2>1, <2>3, <2>4
<1>6. \A m \in z.nodes : Ordered(z, m)
  <2>1. ASSUME NEW m \in s.nodes PROVE Ordered(z, m)
    <3>1. Ordered(s, m)
      BY DEF SearchTree
    <3> QED
      BY <1>3, <3>1 DEF Ordered
  <2>2. Ordered(z, r)
    <3>1. z.over[r] \in Nat /\ Len(z.entries[r]) = 0 /\ z.rank[r] # 1
      BY <1>1, <1>3, <1>4, ShapeIs
    <3>2. z.over[r] # FreeMark /\ z.over[r] # Null
      BY <3>1 DEF FreeMark, Null
    <3>3. \A i \in 1 .. Len(z.entries[r]) : FALSE
      BY <3>1
    <3> QED
      BY <3>1, <3>2, <3>3 DEF Ordered, Ascending
  <2> QED
    BY <1>3, <2>1, <2>2
<1>7. \A m \in z.nodes \ {z.root} : Inner(z, {}, m)
  <2> SUFFICES ASSUME NEW m \in s.nodes
               PROVE  Inner(z, {}, m)
    BY <1>3
  <2>1. z.rank[m] < z.rank[z.root]
    <3>1. s.rank[m] <= s.rank[s.root] /\ s.rank[m] \in Nat
      BY RankIs
    <3>2. s.rank[m] < h + 1
      BY <1>4, <3>1
    <3> QED
      BY <1>3, <1>4, <3>2
  <2>2. CASE m = s.root
    <3>1. z.span[m] # {}
      <4>1. s.entries[m] \in Seq(Entry) /\ Len(s.entries[m]) \in Nat
        BY <1>1, ShapeIs
      <4>2. 1 \in 1 .. Len(s.entries[m])
        BY <2>2, <4>1
      <4>3. Ordered(s, m)
        BY DEF SearchTree
      <4>4. s.entries[m][1].key \in s.span[m]
        BY ONLY <4>2, <4>3 DEF Ordered
      <4> QED
        BY <1>3, <4>4
    <3>2. r \in z.nodes /\ 0 \in Nat /\ Slot(z, {}, r, 0) /\ Below(z, r, 0) = m
      BY <1>3, <1>5, <2>2
    <3> QED
      BY <2>1, <3>1, <3>2 DEF Inner
  <2>3. CASE m # s.root
    <3>1. Inner(s, {}, m)
      BY <2>3 DEF SearchTree
    <3>2. PICK p \in s.nodes, i \in Nat : Slot(s, {}, p, i) /\ Below(s, p, i) = m
      BY <3>1 DEF Inner
    <3>3. p \in z.nodes /\ Slot(z, {}, p, i) /\ Below(z, p, i) = m /\ z.span[m] # {}
      BY <1>3, <1>5, <3>1, <3>2 DEF Inner
    <3> QED
      BY <2>1, <3>3 DEF Inner
  <2> QED
    BY <2>2, <2>3
<1>8. \A q \in z.nodes : \A j \in Nat : Slot(z, {}, q, j) => Leads(z, q, j)
  <2>1. ASSUME NEW q \in s.nodes, NEW j \in Nat, Slot(z, {}, q, j) PROVE Leads(z, q, j)
    <3>1. Slot(s, {}, q, j)
      BY <1>5, <2>1
    <3>2. Leads(s, q, j)
      BY <3>1 DEF SearchTree
    <3> QED
      BY <1>3, <1>5, <3>2 DEF Leads
  <2>2. Leads(z, r, 0)
    <3>1. Len(z.entries[r]) = 0
      BY <1>3
    <3>2. \A k : Between(z.entries[r], 0, k)
      BY <3>1 DEF Between
    <3>3. z.rank[s.root] = z.rank[r] - 1
      BY <1>1, <1>3, <1>4
    <3> QED
      BY <1>1, <1>3, <1>5, <3>2, <3>3 DEF Leads
  <2> QED
    BY <1>3, <1>5, <2>1, <2>2
<1>9. Apart(z, {})
  <2>1. ASSUME NEW q \in s.nodes, NEW j \in Nat, Slot(s, {}, q, j)
        PROVE  Below(s, q, j) # s.root
    <3>1. Below(s, q, j) \in s.nodes /\ s.rank[Below(s, q, j)] = s.rank[q] - 1
      BY <2>1 DEF SearchTree, Leads
    <3>2. s.rank[q] <= s.rank[s.root] /\ s.rank[q] \in Nat
      BY RankIs
    <3>3. s.rank[q] - 1 # s.rank[s.root]
      BY <1>4, <3>2
    <3> QED
      BY <3>1, <3>3
  <2>2. Apart(s, {})
    BY DEF SearchTree
  <2>3. ASSUME NEW q \in z.nodes, NEW m \in z.nodes, NEW j \in Nat, NEW i \in Nat,
               Slot(z, {}, q, j), Slot(z, {}, m, i), Below(z, q, j) = Below(z, m, i)
        PROVE  q = m /\ j = i
    <3>1. CASE q = r /\ m = r
      BY <1>5, <2>3, <3>1
    <3>2. CASE q = r /\ m # r
      <4>1. m \in s.nodes /\ Slot(s, {}, m, i) /\ Below(s, m, i) = s.root
        BY <1>3, <1>5, <2>3, <3>2
      <4> QED
        BY <2>1, <4>1
    <3>3. CASE q # r /\ m = r
      <4>1. q \in s.nodes /\ Slot(s, {}, q, j) /\ Below(s, q, j) = s.root
        BY <1>3, <1>5, <2>3, <3>3
      <4> QED
        BY <2>1, <4>1
    <3>4. CASE q # r /\ m # r
      BY <1>3, <1>5, <2>2, <2>3, <3>4 DEF Apart
    <3> QED
      BY <3>1, <3>2, <3>3, <3>4
  <2> QED
    BY <2>3 DEF Apart
<1>10. SearchTree(z, {})
  BY <1>3, <1>6, <1>7, <1>8, <1>9 DEF SearchTree
<1>11. \A k, v : Has(z, k, v) <=> Has(s, k, v)
  <2>1. z.rank[r] # 1
    BY <1>3, <1>4
  <2> QED
    BY <1>3, <2>1 DEF Has
<1> QED
  BY <1>2, <1>5, <1>10, <1>11

-----------------------------------------------------------------------------
(* Nodes that are taken out.                                               *)

Less(s, n) ==
  LET nodes == s.nodes \ {n}
  IN  [root    |-> s.root,
       nodes   |-> nodes,
       entries |-> [m \in nodes |-> s.entries[m]],
       over    |-> [m \in nodes |-> s.over[m]],
       rank    |-> [m \in nodes |-> s.rank[m]],
       span    |-> [m \in nodes |-> s.span[m]]]

LEMMA LessIs ==
  ASSUME NEW s, Shape(s), NEW n, n # s.root, NEW z, z = Less(s, n)
  PROVE  /\ Shape(z) /\ z.root = s.root /\ z.nodes = s.nodes \ {n}
         /\ \A m \in z.nodes : /\ z.entries[m] = s.entries[m] /\ z.over[m] = s.over[m]
                               /\ z.rank[m] = s.rank[m] /\ z.span[m] = s.span[m]
<1>1. /\ z.root = s.root /\ z.nodes = s.nodes \ {n}
      /\ z.entries = [m \in s.nodes \ {n} |-> s.entries[m]]
      /\ z.over = [m \in s.nodes \ {n} |-> s.over[m]]
      /\ z.rank = [m \in s.nodes \ {n} |-> s.rank[m]]
      /\ z.span = [m \in s.nodes \ {n} |-> s.span[m]]
  BY DEF Less
<1>2. /\ s.nodes \subseteq Nat /\ s.root \in s.nodes
      /\ \A m \in s.nodes : /\ s.rank[m] \in Nat \ {0} /\ s.over[m] \in Int /\ s.span[m] \subseteq Key
                            /\ s.entries[m] \in Seq(Entry)
  BY ShapeIs DEF Shape
<1>3. z.entries \in [z.nodes -> Seq(Entry)] /\ z.over \in [z.nodes -> Int]
  BY <1>1, <1>2
<1>4. z.rank \in [z.nodes -> Nat \ {0}] /\ z.span \in [z.nodes -> SUBSET Key]
  BY <1>1, <1>2
<1>5. Shape(z)
  BY <1>1, <1>2, <1>3, <1>4 DEF Shape
<1> QED
  BY <1>1, <1>5

\* A node below the root without ways out and without entries leaves a missing
\* way in its parent.
LEMMA NodeDropped ==
  ASSUME NEW s, NEW missing, SearchTree(s, missing), NEW n \in s.nodes, n # s.root,
         \A x \in missing : x[1] = n, \A j : ~ Slot(s, missing, n, j),
         s.rank[n] = 1 => s.entries[n] = <<>>,
         NEW p \in s.nodes, NEW i \in Nat, Slot(s, missing, p, i), Below(s, p, i) = n, NEW z, z = Less(s, n)
  PROVE  SearchTree(z, {<<p, i>>}) /\ \A k, v : Has(z, k, v) <=> Has(s, k, v)
<1>1. Shape(s) /\ Apart(s, missing)
  BY DEF SearchTree
<1>2. /\ Shape(z) /\ z.root = s.root /\ z.nodes = s.nodes \ {n}
      /\ \A m \in z.nodes : /\ z.entries[m] = s.entries[m] /\ z.over[m] = s.over[m]
                            /\ z.rank[m] = s.rank[m] /\ z.span[m] = s.span[m]
  BY <1>1, LessIs
<1> DEFINE left == {<<p, i>>}
<1>3. ASSUME NEW q \in z.nodes, NEW j
      PROVE  /\ Slot(z, left, q, j) <=> Slot(s, missing, q, j) /\ ~ (q = p /\ j = i)
             /\ Below(z, q, j) = Below(s, q, j)
  <2>1. q \in s.nodes /\ q # n /\ <<q, j>> \notin missing
    BY <1>2
  <2>2. <<q, j>> \in left <=> q = p /\ j = i
    OBVIOUS
  <2> QED
    BY <1>2, <2>1, <2>2 DEF Slot, Below
<1> HIDE DEF left
<1>4. \A m \in z.nodes : Ordered(z, m)
  BY <1>2 DEF SearchTree, Ordered
<1>5. ASSUME NEW m \in z.nodes \ {z.root}
      PROVE  Inner(z, left, m)
  <2>1. Inner(s, missing, m) /\ m # n
    BY <1>2 DEF SearchTree
  <2>2. PICK q \in s.nodes, j \in Nat : Slot(s, missing, q, j) /\ Below(s, q, j) = m
    BY <2>1 DEF Inner
  <2>3. q # n /\ ~ (q = p /\ j = i)
    BY <2>1, <2>2
  <2>4. q \in z.nodes /\ Slot(z, left, q, j) /\ Below(z, q, j) = m
    BY <1>2, <1>3, <2>2, <2>3
  <2>5. z.rank[m] < z.rank[z.root] /\ z.span[m] # {}
    BY <1>2, <2>1 DEF Inner, Shape
  <2> QED
    BY <2>4, <2>5 DEF Inner
<1>6. ASSUME NEW q \in z.nodes, NEW j \in Nat, Slot(z, left, q, j)
      PROVE  Leads(z, q, j)
  <2>1. q \in s.nodes /\ Slot(s, missing, q, j) /\ ~ (q = p /\ j = i) /\ Below(z, q, j) = Below(s, q, j)
    BY <1>2, <1>3, <1>6
  <2>2. Leads(s, q, j)
    BY <2>1 DEF SearchTree
  <2>3. Below(s, q, j) # n
    BY <1>1, <2>1 DEF Apart
  <2> QED
    BY <1>2, <2>1, <2>2, <2>3 DEF Leads
<1>7. Apart(z, left)
  BY <1>1, <1>2, <1>3 DEF Apart
<1>8. SearchTree(z, left)
  BY <1>2, <1>4, <1>5, <1>6, <1>7 DEF SearchTree
<1>9. \A k, v : Has(z, k, v) <=> Has(s, k, v)
  <2>1. s.rank[n] = 1 => \A k, v : ~ EntryIn(s.entries[n], k, v)
    <3>1. s.rank[n] = 1 => Len(s.entries[n]) = 0
      OBVIOUS
    <3> QED
      BY <3>1 DEF EntryIn
  <2> QED
    BY <1>2, <2>1 DEF Has
<1> QED
  BY <1>8, <1>9 DEF left

\* What is left when the only way out of the root is missing.
LEMMA OnlyRoot ==
  ASSUME NEW s, SearchTree(s, {<<s.root, 0>>}), s.entries[s.root] = <<>>
  PROVE  s.nodes = {s.root}
<1> SUFFICES ASSUME s.nodes # {s.root} PROVE FALSE
  OBVIOUS
<1> DEFINE S == {s.rank[n] : n \in s.nodes \ {s.root}}
<1>1. s.root \in s.nodes
  BY DEF SearchTree, Shape
<1>2. PICK h \in Nat : h = s.rank[s.root]
  BY <1>1, RankIs
<1>3. S \subseteq Nat /\ S # {} /\ \A y \in S : y <= h
  BY <1>1, <1>2, RankIs
<1>4. PICK x \in S : \A y \in S : y <= x
  BY <1>2, <1>3, MaxIsGreatest
<1>5. PICK n \in s.nodes \ {s.root} : x = s.rank[n]
  BY <1>4
<1>6. PICK p \in s.nodes, i \in Nat : Slot(s, {<<s.root, 0>>}, p, i) /\ Below(s, p, i) = n
  BY <1>5 DEF SearchTree, Inner
<1>7. p # s.root
  <2>1. ASSUME p = s.root PROVE FALSE
    <3>1. i \in 0 .. 0 /\ <<p, i>> # <<s.root, 0>>
      <4>1. Len(s.entries[s.root]) = 0
        OBVIOUS
      <4> QED
        BY <1>6, <2>1, <4>1 DEF Slot
    <3> QED
      BY <2>1, <3>1
  <2> QED
    BY <2>1
<1>8. s.rank[n] = s.rank[p] - 1 /\ s.rank[p] \in Nat
  BY <1>6, RankIs DEF SearchTree, Leads
<1>9. s.rank[p] \in S
  BY <1>7
<1>10. s.rank[p] <= x
  BY <1>4, <1>9
<1> QED
  BY <1>5, <1>8, <1>10

\* A leaf alone is a tree.
Alone(r) ==
  [root |-> r, nodes |-> {r}, entries |-> [m \in {r} |-> <<>>], over |-> [m \in {r} |-> Null],
   rank |-> [m \in {r} |-> 1], span |-> [m \in {r} |-> {}]]

LEMMA AloneIs ==
  ASSUME NEW r \in Nat, NEW z, z = Alone(r)
  PROVE  /\ SearchTree(z, {}) /\ z.root = r /\ z.nodes = {r} /\ z.entries[r] = <<>> /\ z.over[r] = Null
         /\ \A k, v : ~ Has(z, k, v)
<1>1. /\ z.root = r /\ z.nodes = {r} /\ z.entries = [m \in {r} |-> <<>>] /\ z.over = [m \in {r} |-> Null]
      /\ z.rank = [m \in {r} |-> 1] /\ z.span = [m \in {r} |-> {}]
  BY DEF Alone
<1>2. z.entries[r] = <<>> /\ z.over[r] = Null /\ z.rank[r] = 1 /\ z.span[r] = {} /\ Len(z.entries[r]) = 0
  BY <1>1
<1>3. Shape(z)
  <2>1. <<>> \in Seq(Entry) /\ Null \in Int /\ 1 \in Nat \ {0} /\ {} \in SUBSET Key
    BY DEF Null
  <2> QED
    BY <1>1, <2>1 DEF Shape
<1>4. \A i \in 1 .. Len(z.entries[r]) : FALSE
  BY <1>2
<1>5. Ordered(z, r)
  BY <1>2, <1>4 DEF Ordered, Ascending, Null, FreeMark
<1>6. \A p, i : ~ Slot(z, {}, p, i)
  BY <1>1, <1>2 DEF Slot
<1>7. SearchTree(z, {})
  BY <1>1, <1>3, <1>5, <1>6 DEF SearchTree, Apart
<1>8. \A k, v : ~ Has(z, k, v)
  BY <1>1, <1>4 DEF Has, EntryIn
<1> QED
  BY <1>1, <1>2, <1>7, <1>8

-----------------------------------------------------------------------------
(* A missing way is taken out of its node.                                 *)

\* Of entries e one is left out, the one behind the first i or the last.
Thinned(e, i, d) ==
  /\ d \in Seq(Entry) /\ Len(d) = Len(e) - 1 /\ Ascending(d)
  /\ \A j \in 1 .. Len(e) - 1 : d[j] = IF j < i + 1 THEN e[j] ELSE e[j + 1]

LEMMA EntriesThinned ==
  ASSUME NEW e \in Seq(Entry), e # <<>>, Ascending(e), NEW i \in 0 .. Len(e)
  PROVE  /\ Len(e) \in Nat \ {0}
         /\ i = Len(e) => Thinned(e, i, Front(e)) /\ Last(e) = e[Len(e)]
         /\ i # Len(e) => Thinned(e, i, RemoveAt(e, i + 1))
<1>1. PICK l \in Nat : l = Len(e) /\ l # 0
  OBVIOUS
<1>2. ASSUME NEW d, d \in Seq(Entry), Len(d) = l - 1,
             \A j \in 1 .. l - 1 : d[j] = IF j < i + 1 THEN e[j] ELSE e[j + 1]
      PROVE  Thinned(e, i, d)
  <2>1. ASSUME NEW a \in 1 .. l - 1, NEW b \in 1 .. l - 1, a < b
        PROVE  d[a].key < d[b].key
    <3>1. PICK x \in 1 .. l, y \in 1 .. l : d[a] = e[x] /\ d[b] = e[y] /\ x < y
      <4>0. i \in Nat
        BY <1>1
      <4>1. CASE b < i + 1
        <5>1. a < i + 1 /\ a \in 1 .. l /\ b \in 1 .. l
          BY <1>1, <2>1, <4>0, <4>1
        <5> QED
          BY <1>2, <2>1, <4>1, <5>1
      <4>2. CASE ~ (b < i + 1) /\ a < i + 1
        <5>1. a \in 1 .. l /\ b + 1 \in 1 .. l /\ a < b + 1
          BY <1>1, <2>1
        <5> QED
          BY <1>2, <4>2, <5>1
      <4>3. CASE ~ (b < i + 1) /\ ~ (a < i + 1)
        <5>1. a + 1 \in 1 .. l /\ b + 1 \in 1 .. l /\ a + 1 < b + 1
          BY <1>1, <2>1
        <5> QED
          BY <1>2, <4>3, <5>1
      <4> QED
        BY <4>1, <4>2, <4>3
    <3> QED
      BY <1>1, <3>1 DEF Ascending
  <2>2. Ascending(d)
    BY <1>2, <2>1 DEF Ascending
  <2> QED
    BY <1>1, <1>2, <2>2 DEF Thinned
<1>3. CASE i = Len(e)
  <2>1. /\ Front(e) \in Seq(Entry) /\ Len(Front(e)) = Len(e) - 1
        /\ \A j \in 1 .. Len(e) - 1 : Front(e)[j] = e[j]
        /\ Last(e) = e[Len(e)]
    BY ONLY e \in Seq(Entry), e # <<>>, FrontIs
  <2>2. \A j \in 1 .. l - 1 : j < i + 1
    BY <1>1, <1>3
  <2>3. Thinned(e, i, Front(e))
    BY <1>1, <1>2, <2>1, <2>2
  <2> QED
    BY <1>1, <1>3, <2>1, <2>3
<1>4. CASE i # Len(e)
  <2>1. PICK m : m = i + 1
    OBVIOUS
  <2>2. m \in 1 .. Len(e)
    BY <1>1, <1>4, <2>1
  <2>3. /\ RemoveAt(e, m) \in Seq(Entry) /\ Len(RemoveAt(e, m)) = Len(e) - 1
        /\ \A j \in 1 .. Len(e) - 1 : RemoveAt(e, m)[j] = IF j < m THEN e[j] ELSE e[j + 1]
    BY ONLY e \in Seq(Entry), <2>2, RemoveAtIs
  <2>4. Thinned(e, i, RemoveAt(e, m))
    BY <1>1, <1>2, <2>1, <2>3
  <2> QED
    BY <1>1, <1>4, <2>1, <2>4
<1> QED
  BY <1>3, <1>4

\* The shape with other entries and another overflow link in a node.
With(s, n, e, o) ==
  [root |-> s.root, nodes |-> s.nodes, entries |-> [s.entries EXCEPT ![n] = e],
   over |-> [s.over EXCEPT ![n] = o], rank |-> s.rank, span |-> s.span]

LEMMA WithIs ==
  ASSUME NEW s, Shape(s), NEW n \in s.nodes, NEW e \in Seq(Entry), NEW o \in Int, NEW z, z = With(s, n, e, o)
  PROVE  /\ Shape(z)
         /\ z.root = s.root /\ z.nodes = s.nodes /\ z.rank = s.rank /\ z.span = s.span
         /\ z.entries[n] = e /\ z.over[n] = o
         /\ \A m \in s.nodes : m # n => z.entries[m] = s.entries[m] /\ z.over[m] = s.over[m]
<1>1. /\ z.root = s.root /\ z.nodes = s.nodes /\ z.rank = s.rank /\ z.span = s.span
      /\ z.entries = [s.entries EXCEPT ![n] = e] /\ z.over = [s.over EXCEPT ![n] = o]
  BY DEF With
<1>2. s.entries \in [s.nodes -> Seq(Entry)] /\ s.over \in [s.nodes -> Int]
  BY DEF Shape
<1>3. /\ z.entries \in [s.nodes -> Seq(Entry)] /\ z.over \in [s.nodes -> Int]
      /\ z.entries[n] = e /\ z.over[n] = o
      /\ \A m \in s.nodes : m # n => z.entries[m] = s.entries[m] /\ z.over[m] = s.over[m]
  BY <1>1, <1>2
<1> QED
  BY <1>1, <1>3 DEF Shape

\* Node n can do without way i.
Spares(s, n, i) ==
  /\ SearchTree(s, {<<n, i>>})
  /\ n \in s.nodes /\ s.rank[n] > 1 /\ s.entries[n] # <<>> /\ i \in 0 .. Len(s.entries[n])

\* The shape without it.
SparedAs(s, n, i, z) ==
  /\ Shape(z)
  /\ z.root = s.root /\ z.nodes = s.nodes /\ z.rank = s.rank /\ z.span = s.span
  /\ Thinned(s.entries[n], i, z.entries[n])
  /\ z.over[n] = IF i = Len(s.entries[n]) THEN s.entries[n][i].value ELSE s.over[n]
  /\ \A m \in s.nodes : m # n => z.entries[m] = s.entries[m] /\ z.over[m] = s.over[m]

\* Its ways, and those they were.
Behind(i, j) == IF j < i THEN j ELSE j + 1

LEMMA SparedWays ==
  ASSUME NEW s, NEW n, NEW i, Spares(s, n, i), NEW z, SparedAs(s, n, i, z), NEW j \in Nat, NEW c, c = Behind(i, j)
  PROVE  /\ c \in Nat /\ (Slot(z, {}, n, j) <=> Slot(s, {<<n, i>>}, n, c))
         /\ Slot(z, {}, n, j) => /\ Below(z, n, j) = Below(s, n, c)
                                 /\ \A k \in Int : Between(s.entries[n], c, k) => Between(z.entries[n], j, k)
<1>1. /\ Shape(s) /\ n \in s.nodes /\ s.rank[n] > 1 /\ s.entries[n] \in Seq(Entry) /\ Ascending(s.entries[n])
      /\ s.entries[n] # <<>> /\ i \in 0 .. Len(s.entries[n])
  BY ShapeIs DEF Spares, SearchTree, Ordered
<1>2. PICK l \in Nat : l = Len(s.entries[n]) /\ l # 0
  BY <1>1
<1>3. PICK e, d : e = s.entries[n] /\ d = z.entries[n]
  OBVIOUS
<1>4. PICK h \in Nat : h = i /\ h <= l
  BY <1>1, <1>2
<1>5. /\ Len(d) = l - 1
      /\ \A a \in 1 .. l - 1 : d[a] = IF a < h + 1 THEN e[a] ELSE e[a + 1]
  BY <1>2, <1>3, <1>4 DEF SparedAs, Thinned
<1>6. /\ z.nodes = s.nodes /\ z.rank = s.rank
      /\ h = l => z.over[n] = e[l].value
      /\ h # l => z.over[n] = s.over[n]
  BY <1>2, <1>3, <1>4 DEF SparedAs
<1>7. Slot(z, {}, n, j) <=> j <= l - 1
  <2>1. j \in 0 .. l - 1 <=> j <= l - 1
    OBVIOUS
  <2> QED
    BY <1>1, <1>3, <1>5, <1>6, <2>1 DEF Slot
<1>8. \A a \in Nat : Slot(s, {<<n, i>>}, n, a) <=> a <= l /\ a # h
  <2>1. ASSUME NEW a \in Nat
        PROVE  <<n, a>> \notin {<<n, i>>} <=> a # i
    OBVIOUS
  <2>2. ASSUME NEW a \in Nat
        PROVE  a \in 0 .. l <=> a <= l
    OBVIOUS
  <2> QED
    BY <1>1, <1>2, <1>4, <2>1, <2>2 DEF Slot
<1>9. \A a \in 1 .. l : e[a].key \in Int
  BY <1>1, <1>2, <1>3, EntryIs
<1>10. CASE j < h
  <2>1. c = j /\ c \in Nat /\ j <= l - 1 /\ j <= l /\ j # h
    BY <1>4, <1>10 DEF Behind
  <2>2. Below(z, n, j) = Below(s, n, j)
    <3>1. CASE j < l - 1
      <4>1. j + 1 \in 1 .. l - 1 /\ j + 1 < h + 1 /\ j < l
        BY <1>10, <3>1
      <4>2. d[j + 1] = e[j + 1]
        BY <1>5, <4>1
      <4> QED
        BY <1>2, <1>3, <1>5, <3>1, <4>1, <4>2 DEF Below
    <3>2. CASE j = l - 1
      <4>1. h = l /\ j + 1 = l /\ j < l /\ ~ (j < l - 1)
        BY <1>4, <1>10, <3>2
      <4>2. z.over[n] = e[j + 1].value
        BY <1>6, <4>1
      <4> QED
        BY <1>2, <1>3, <1>5, <4>1, <4>2 DEF Below
    <3> QED
      BY <2>1, <3>1, <3>2
  <2>3. ASSUME NEW k \in Int, Between(e, j, k)
        PROVE  Between(d, j, k)
    <3>1. j > 0 => j \in 1 .. l - 1 /\ j < h + 1
      BY <1>10, <2>1
    <3>2. j < l - 1 => j + 1 \in 1 .. l - 1 /\ j + 1 < h + 1 /\ j < l
      BY <1>10
    <3>3. (j > 0 => d[j] = e[j]) /\ (j < l - 1 => d[j + 1] = e[j + 1])
      BY <1>5, <3>1, <3>2
    <3> QED
      BY <1>2, <1>3, <1>5, <2>3, <3>2, <3>3 DEF Between
  <2> QED
    BY <1>3, <1>7, <1>8, <2>1, <2>2, <2>3
<1>11. CASE ~ (j < h)
  <2>1. c = j + 1 /\ c \in Nat /\ c # h /\ (j <= l - 1 <=> c <= l)
    BY <1>4, <1>11 DEF Behind
  <2>2. ASSUME j <= l - 1
        PROVE  Below(z, n, j) = Below(s, n, c)
    <3>1. CASE j < l - 1
      <4>1. j + 1 \in 1 .. l - 1 /\ ~ (j + 1 < h + 1) /\ c < l
        BY <1>11, <2>1, <3>1
      <4>2. d[j + 1] = e[c + 1]
        BY <1>5, <2>1, <4>1
      <4> QED
        BY <1>2, <1>3, <1>5, <3>1, <4>1, <4>2 DEF Below
    <3>2. CASE j = l - 1
      <4>1. h # l /\ ~ (c < l) /\ ~ (j < l - 1)
        BY <1>4, <1>11, <2>1, <3>2
      <4> QED
        BY <1>2, <1>3, <1>5, <1>6, <4>1 DEF Below
    <3> QED
      BY <2>2, <3>1, <3>2
  <2>3. ASSUME j <= l - 1, NEW k \in Int, Between(e, c, k)
        PROVE  Between(d, j, k)
    <3>1. e[c].key < k /\ (c < l => k <= e[c + 1].key) /\ c \in 1 .. l
      BY <1>2, <1>3, <2>1, <2>3 DEF Between
    <3>2. ASSUME j > 0
          PROVE  d[j].key < k
      <4>1. j \in 1 .. l - 1
        BY <2>3, <3>2
      <4>2. CASE j < h + 1
        <5>1. d[j] = e[j] /\ j \in 1 .. l /\ j < c
          BY <1>5, <2>1, <4>1, <4>2
        <5>2. e[j].key < e[c].key
          BY <1>1, <1>2, <1>3, <3>1, <5>1 DEF Ascending
        <5>3. e[j].key \in Int /\ e[c].key \in Int
          BY <1>9, <3>1, <5>1
        <5> QED
          BY <3>1, <5>1, <5>2, <5>3
      <4>3. CASE ~ (j < h + 1)
        BY <1>5, <2>1, <3>1, <4>1, <4>3
      <4> QED
        BY <4>2, <4>3
    <3>3. ASSUME j < l - 1
          PROVE  k <= d[j + 1].key
      <4>1. j + 1 \in 1 .. l - 1 /\ ~ (j + 1 < h + 1) /\ c < l
        BY <1>11, <2>1, <3>3
      <4>2. d[j + 1] = e[c + 1]
        BY <1>5, <2>1, <4>1
      <4> QED
        BY <3>1, <4>1, <4>2
    <3> QED
      BY <1>5, <3>2, <3>3 DEF Between
  <2> QED
    BY <1>3, <1>7, <1>8, <2>1, <2>2, <2>3
<1> QED
  BY <1>10, <1>11

\* Every way of z was a way of s.
WasWay(s, n, i, z, q, j, c) ==
  /\ c \in Nat
  /\ q = n => c = Behind(i, j)
  /\ q # n => c = j
  /\ Slot(s, {<<n, i>>}, q, c) /\ Below(z, q, j) = Below(s, q, c)
  /\ \A k \in Int : Between(s.entries[q], c, k) => Between(z.entries[q], j, k)

LEMMA SparedWayIs ==
  ASSUME NEW s, NEW n, NEW i, Spares(s, n, i), NEW z, SparedAs(s, n, i, z),
         NEW q \in z.nodes, NEW j \in Nat, Slot(z, {}, q, j)
  PROVE  \E c : WasWay(s, n, i, z, q, j, c)
<1>1. CASE q = n
  <2>1. PICK c : c = Behind(i, j)
    OBVIOUS
  <2>2. /\ c \in Nat /\ (Slot(z, {}, n, j) <=> Slot(s, {<<n, i>>}, n, c))
        /\ Slot(z, {}, n, j) => /\ Below(z, n, j) = Below(s, n, c)
                                /\ \A k \in Int : Between(s.entries[n], c, k) => Between(z.entries[n], j, k)
    BY <2>1, SparedWays
  <2>3. WasWay(s, n, i, z, q, j, c)
    BY <1>1, <2>1, <2>2 DEF WasWay
  <2> QED
    BY <2>3
<1>2. CASE q # n
  <2>1. /\ q \in s.nodes /\ z.rank = s.rank /\ z.nodes = s.nodes
        /\ z.entries[q] = s.entries[q] /\ z.over[q] = s.over[q]
    BY <1>2 DEF SparedAs
  <2>2. <<q, j>> \notin {<<n, i>>}
    BY <1>2
  <2>3. Slot(s, {<<n, i>>}, q, j) /\ Below(z, q, j) = Below(s, q, j)
    BY <2>1, <2>2 DEF Slot, Below
  <2>4. WasWay(s, n, i, z, q, j, j)
    BY <1>2, <2>1, <2>3 DEF WasWay
  <2> QED
    BY <2>4
<1> QED
  BY <1>1, <1>2

LEMMA SparedWayRemains ==
  ASSUME NEW s, NEW n, NEW i, Spares(s, n, i), NEW z, SparedAs(s, n, i, z),
         NEW q \in s.nodes, NEW c \in Nat, Slot(s, {<<n, i>>}, q, c)
  PROVE  \E j \in Nat : Slot(z, {}, q, j) /\ Below(z, q, j) = Below(s, q, c)
<1>1. CASE q = n
  <2>1. PICK h \in Nat : h = i
    <3>1. s.entries[n] \in Seq(Entry) /\ Len(s.entries[n]) \in Nat /\ i \in 0 .. Len(s.entries[n])
      BY ShapeIs DEF Spares, SearchTree
    <3> QED
      BY <3>1
  <2>2. c # h
    BY <1>1, <2>1 DEF Slot
  <2>3. PICK j \in Nat : c = IF j < h THEN j ELSE j + 1
    <3>1. CASE c < h
      BY <3>1
    <3>2. CASE c > h
      <4>1. c - 1 \in Nat /\ ~ (c - 1 < h) /\ (c - 1) + 1 = c
        BY <3>2
      <4> QED
        BY <4>1
    <3> QED
      BY <2>2, <3>1, <3>2
  <2>4. Slot(z, {}, n, j) /\ Below(z, n, j) = Below(s, n, c)
    <3>1. c = Behind(i, j)
      BY <2>1, <2>3 DEF Behind
    <3> QED
      BY <1>1, <3>1, SparedWays
  <2> QED
    BY <1>1, <2>4
<1>2. CASE q # n
  <2>1. /\ z.rank = s.rank /\ z.nodes = s.nodes /\ z.entries[q] = s.entries[q] /\ z.over[q] = s.over[q]
    BY <1>2 DEF SparedAs
  <2>2. <<q, c>> \notin {}
    OBVIOUS
  <2>3. Slot(z, {}, q, c) /\ Below(z, q, c) = Below(s, q, c)
    BY <2>1, <2>2 DEF Slot, Below
  <2> QED
    BY <2>3
<1> QED
  BY <1>1, <1>2

LEMMA WaySpared ==
  ASSUME NEW s, NEW n, NEW i, Spares(s, n, i), NEW z, SparedAs(s, n, i, z)
  PROVE  SearchTree(z, {}) /\ \A k, v : Has(z, k, v) <=> Has(s, k, v)
<1>1. /\ SearchTree(s, {<<n, i>>}) /\ Shape(s)
      /\ n \in s.nodes /\ s.rank[n] > 1 /\ s.entries[n] # <<>> /\ i \in 0 .. Len(s.entries[n])
      /\ Ordered(s, n) /\ s.entries[n] \in Seq(Entry)
  BY ShapeIs DEF Spares, SearchTree
<1>2. /\ Shape(z) /\ z.root = s.root /\ z.nodes = s.nodes /\ z.rank = s.rank /\ z.span = s.span
      /\ Thinned(s.entries[n], i, z.entries[n])
      /\ z.over[n] = IF i = Len(s.entries[n]) THEN s.entries[n][i].value ELSE s.over[n]
      /\ \A m \in s.nodes : m # n => z.entries[m] = s.entries[m] /\ z.over[m] = s.over[m]
  BY DEF SparedAs
<1>3. PICK l \in Nat : l = Len(s.entries[n]) /\ l > 0 /\ i \in Nat /\ i <= l
  BY <1>1
<1>4. Ordered(z, n)
  <2>1. PICK e, d : e = s.entries[n] /\ d = z.entries[n]
    OBVIOUS
  <2>2. Len(d) = l - 1 /\ Ascending(d) /\ \A j \in 1 .. l - 1 : d[j] = IF j < i + 1 THEN e[j] ELSE e[j + 1]
    BY <1>2, <1>3, <2>1 DEF Thinned
  <2>3. ASSUME NEW j \in 1 .. l - 1
        PROVE  d[j].key \in z.span[n]
    <3>1. PICK a \in 1 .. l : d[j] = e[a]
      <4>1. j \in 1 .. l /\ j + 1 \in 1 .. l
        OBVIOUS
      <4> QED
        BY <2>2, <4>1
    <3>2. e[a].key \in s.span[n]
      BY <1>1, <1>3, <2>1 DEF Ordered
    <3> QED
      BY <1>2, <3>1, <3>2
  <2>4. z.over[n] # FreeMark /\ z.over[n] # Null /\ z.rank[n] # 1
    <3>1. CASE i = l
      <4>1. s.entries[n][l].value \in Nat
        BY <1>1, <1>3, EntryIs
      <4>2. z.over[n] = s.entries[n][l].value
        BY <1>2, <1>3, <3>1
      <4>3. z.rank[n] > 1 /\ z.rank[n] \in Nat
        BY <1>1, <1>2, ShapeIs
      <4> QED
        BY <4>1, <4>2, <4>3 DEF Null, FreeMark
    <3>2. CASE i # l
      <4>1. z.over[n] = s.over[n] /\ s.rank[n] # 1
        BY <1>1, <1>2, <1>3, <3>2
      <4> QED
        BY <1>1, <1>2, <4>1 DEF Ordered
    <3> QED
      BY <3>1, <3>2
  <2> QED
    BY <2>1, <2>2, <2>3, <2>4 DEF Ordered
<1>5. \A m \in z.nodes : Ordered(z, m)
  <2>1. ASSUME NEW m \in s.nodes, m # n
        PROVE  Ordered(z, m)
    <3>1. Ordered(s, m)
      BY <1>1 DEF SearchTree
    <3> QED
      BY <1>2, <2>1, <3>1 DEF Ordered
  <2> QED
    BY <1>2, <1>4, <2>1
<1>6. ASSUME NEW m \in z.nodes \ {z.root}
      PROVE  Inner(z, {}, m)
  <2>1. Inner(s, {<<n, i>>}, m)
    BY <1>1, <1>2 DEF SearchTree
  <2>2. PICK q \in s.nodes, c \in Nat : Slot(s, {<<n, i>>}, q, c) /\ Below(s, q, c) = m
    BY <2>1 DEF Inner
  <2>3. PICK j \in Nat : Slot(z, {}, q, j) /\ Below(z, q, j) = m
    BY <2>2, SparedWayRemains
  <2> QED
    BY <1>2, <2>1, <2>2, <2>3 DEF Inner
<1>7. ASSUME NEW q \in z.nodes, NEW j \in Nat, Slot(z, {}, q, j)
      PROVE  Leads(z, q, j)
  <2>a. PICK c : WasWay(s, n, i, z, q, j, c)
    BY <1>7, SparedWayIs
  <2>1. /\ c \in Nat /\ Slot(s, {<<n, i>>}, q, c) /\ Below(z, q, j) = Below(s, q, c)
        /\ \A k \in Int : Between(s.entries[q], c, k) => Between(z.entries[q], j, k)
    BY <2>a DEF WasWay
  <2>2. Leads(s, q, c) /\ q \in s.nodes
    BY <1>1, <1>2, <2>1 DEF SearchTree
  <2>3. \A k \in s.span[Below(s, q, c)] : k \in Int
    BY <1>1, <2>2, ShapeIs, KeysAreNumbers DEF Leads
  <2> QED
    BY <1>2, <2>1, <2>2, <2>3 DEF Leads
<1>8. Apart(z, {})
  <2>1. Apart(s, {<<n, i>>})
    BY <1>1 DEF SearchTree
  <2>2. ASSUME NEW q \in z.nodes, NEW r \in z.nodes, NEW j \in Nat, NEW h \in Nat,
               Slot(z, {}, q, j), Slot(z, {}, r, h), Below(z, q, j) = Below(z, r, h)
        PROVE  q = r /\ j = h
    <3>a. PICK c : WasWay(s, n, i, z, q, j, c)
      BY <2>2, SparedWayIs
    <3>b. PICK d : WasWay(s, n, i, z, r, h, d)
      BY <2>2, SparedWayIs
    <3>1. /\ c \in Nat /\ (q = n => c = Behind(i, j)) /\ (q # n => c = j)
          /\ Slot(s, {<<n, i>>}, q, c) /\ Below(z, q, j) = Below(s, q, c)
      BY <3>a DEF WasWay
    <3>2. /\ d \in Nat /\ (r = n => d = Behind(i, h)) /\ (r # n => d = h)
          /\ Slot(s, {<<n, i>>}, r, d) /\ Below(z, r, h) = Below(s, r, d)
      BY <3>b DEF WasWay
    <3>3. q = r /\ c = d
      BY <1>2, <2>1, <2>2, <3>1, <3>2 DEF Apart
    <3>4. j = h
      <4>1. CASE q = n
        <5>1. Behind(i, j) = Behind(i, h)
          BY <3>1, <3>2, <3>3, <4>1
        <5>2. i \in Nat
          BY <1>3
        <5> QED
          BY ONLY <5>1, <5>2, j \in Nat, h \in Nat DEF Behind
      <4>2. CASE q # n
        BY <3>1, <3>2, <3>3, <4>2
      <4> QED
        BY <4>1, <4>2
    <3> QED
      BY <3>3, <3>4
  <2> QED
    BY <2>2 DEF Apart
<1>9. SearchTree(z, {})
  BY <1>2, <1>5, <1>6, <1>7, <1>8 DEF SearchTree
<1>10. \A k, v : Has(z, k, v) <=> Has(s, k, v)
  <2>1. \A m \in s.nodes : s.rank[m] = 1 => m # n
    BY <1>1
  <2> QED
    BY <1>2, <2>1 DEF Has
<1> QED
  BY <1>9, <1>10

-----------------------------------------------------------------------------
(* The space that entries take.                                            *)

SumsOf(e, f) == f \in [0 .. Len(e) -> Nat] /\ f[0] = 0 /\ \A n \in 1 .. Len(e) : f[n] = f[n - 1] + KeyLength[e[n].key]

LEMMA LengthIs ==
  ASSUME NEW e \in Seq(Entry)
  PROVE  Len(e) \in Nat /\ \A i \in 1 .. Len(e) : KeyLength[e[i].key] \in Nat /\ KeyLength[e[i].key] > 0
<1>1. Len(e) \in Nat /\ \A i \in 1 .. Len(e) : e[i].key \in Key
  BY EntryIs
<1>2. KeyLength \in [Key -> Nat \ {0}]
  BY NodesAssumption
<1> QED
  BY <1>1, <1>2

LEMMA BytesExist ==
  ASSUME NEW e \in Seq(Entry)
  PROVE  \E f : SumsOf(e, f) /\ Bytes(e) = f[Len(e)]
<1> DEFINE L == Len(e)
           G(f) == [n \in 0 .. L |-> IF n = 0 THEN 0 ELSE f[n - 1] + KeyLength[e[n].key]]
           H == [n \in 1 .. L |-> [v \in Nat |-> v + KeyLength[e[n].key]]]
           sum == CHOOSE f : f = G(f)
<1>1. L \in Nat /\ \A i \in 1 .. L : KeyLength[e[i].key] \in Nat
  BY LengthIs
<1>2. Stays(L, Nat, H)
  BY <1>1 DEF Stays
<1>3. PICK f : Stepwise(L, Nat, 0, H, f)
  <2>1. 0 \in Nat
    OBVIOUS
  <2> HIDE DEF H, L
  <2> QED
    BY <1>1, <1>2, <2>1, StepwiseExists
<1>4. f \in [0 .. L -> Nat] /\ f[0] = 0 /\ \A n \in 1 .. L : f[n] = H[n][f[n - 1]]
  BY <1>3 DEF Stepwise
<1>5. ASSUME NEW n \in 0 .. L
      PROVE  f[n] = IF n = 0 THEN 0 ELSE f[n - 1] + KeyLength[e[n].key]
  <2>1. CASE n # 0
    <3>1. n \in 1 .. L /\ f[n - 1] \in Nat
      BY <1>1, <1>4, <2>1
    <3> QED
      BY <1>4, <2>1, <3>1
  <2> QED
    BY <1>4, <2>1
<1>6. f = G(f)
  BY <1>4, <1>5
<1>7. sum = G(sum)
  BY <1>6
<1>8. Bytes(e) = sum[L]
  BY DEF Bytes
<1> HIDE DEF sum
<1>9. \A n \in 0 .. L : sum[n] = IF n = 0 THEN 0 ELSE sum[n - 1] + KeyLength[e[n].key]
  <2> DEFINE F(n) == IF n = 0 THEN 0 ELSE sum[n - 1] + KeyLength[e[n].key]
  <2>1. sum = [n \in 0 .. L |-> F(n)]
    BY <1>7
  <2> HIDE DEF F
  <2>2. \A n \in 0 .. L : sum[n] = F(n)
    BY <2>1
  <2> QED
    BY <2>2 DEF F
<1>10. \A n \in Nat : n <= L => sum[n] = f[n]
  <2> DEFINE P == {n \in Nat : n <= L => sum[n] = f[n]}
  <2>1. 0 \in P
    BY <1>1, <1>4, <1>9
  <2>2. ASSUME NEW n \in Nat, n \in P
        PROVE  n + 1 \in P
    BY <1>1, <1>5, <1>9, <2>2
  <2>3. Nat \subseteq P
    <3> HIDE DEF P
    <3> QED
      BY <2>1, <2>2, NumberInduction
  <2> QED
    BY <2>3
<1>11. SumsOf(e, f)
  BY <1>1, <1>4, <1>5 DEF SumsOf
<1> QED
  BY <1>1, <1>8, <1>10, <1>11

\* Behind the first a entries of e and the first b of d there are m times the same keys.
Parallel(e, a, d, b, m) ==
  /\ e \in Seq(Entry) /\ d \in Seq(Entry)
  /\ a \in Nat /\ b \in Nat /\ m \in Nat /\ a + m <= Len(e) /\ b + m <= Len(d)
  /\ \A j \in 1 .. m : e[a + j].key = d[b + j].key

\* Over them two sums grow alike.
LEMMA SumsParallel ==
  ASSUME NEW e, NEW d, NEW f, SumsOf(e, f), NEW g, SumsOf(d, g),
         NEW a, NEW b, NEW m, Parallel(e, a, d, b, m), NEW c \in Nat, g[b] = f[a] + c
  PROVE  g[b + m] = f[a + m] + c
<1> DEFINE P == {n \in Nat : n <= m => g[b + n] = f[a + n] + c}
<1> USE DEF Parallel
<1>1. Len(e) \in Nat /\ Len(d) \in Nat
  BY LengthIs
<1>2. 0 \in P
  OBVIOUS
<1>3. ASSUME NEW n \in Nat, n \in P
      PROVE  n + 1 \in P
  <2> SUFFICES ASSUME n + 1 <= m PROVE g[b + (n + 1)] = f[a + (n + 1)] + c
    OBVIOUS
  <2>0. n <= m /\ n + 1 \in 1 .. m
    OBVIOUS
  <2>1. g[b + n] = f[a + n] + c /\ e[a + (n + 1)].key = d[b + (n + 1)].key
    <3>1. g[b + n] = f[a + n] + c
      BY <1>3, <2>0
    <3>2. e[a + (n + 1)].key = d[b + (n + 1)].key
      BY <2>0
    <3> QED
      BY <3>1, <3>2
  <2>2. PICK y : y = b + (n + 1)
    OBVIOUS
  <2>3. PICK x : x = a + (n + 1)
    OBVIOUS
  <2>4. y \in 1 .. Len(d) /\ x \in 1 .. Len(e) /\ y - 1 = b + n /\ x - 1 = a + n
    BY <1>1, <2>2, <2>3
  <2>5. g[y] = g[b + n] + KeyLength[d[y].key] /\ f[x] = f[a + n] + KeyLength[e[x].key]
    BY <2>4 DEF SumsOf
  <2>6. f[a + n] \in Nat
    <3>1. x - 1 \in 0 .. Len(e)
      BY <1>1, <2>4
    <3>2. f[x - 1] \in Nat
      BY <3>1 DEF SumsOf
    <3> QED
      BY <2>4, <3>2
  <2>7. KeyLength[d[y].key] \in Nat /\ KeyLength[e[x].key] = KeyLength[d[y].key]
    BY <2>1, <2>2, <2>3, <2>4, LengthIs
  <2>8. g[y] = f[x] + c
    BY <2>1, <2>5, <2>6, <2>7
  <2> QED
    BY <2>2, <2>3, <2>8
<1>4. Nat \subseteq P
  <2> HIDE DEF P
  <2> QED
    BY <1>2, <1>3, NumberInduction
<1> QED
  BY <1>4

\* An entry that is put in takes its key's length more.
LEMMA BytesInserted ==
  ASSUME NEW e \in Seq(Entry), NEW i \in 1 .. Len(e) + 1, NEW x \in Entry, NEW d, d = InsertAt(e, i, x)
  PROVE  Bytes(d) = Bytes(e) + KeyLength[x.key]
<1>1. d \in Seq(Entry) /\ Len(d) = Len(e) + 1 /\ Len(e) \in Nat
      /\ \A j \in 1 .. Len(e) + 1 : d[j] = IF j < i THEN e[j] ELSE IF j = i THEN x ELSE e[j - 1]
  <2>1. /\ InsertAt(e, i, x) \in Seq(Entry)
        /\ Len(InsertAt(e, i, x)) = Len(e) + 1
        /\ \A j \in 1 .. Len(e) + 1 :
             InsertAt(e, i, x)[j] = IF j < i THEN e[j] ELSE IF j = i THEN x ELSE e[j - 1]
    BY ONLY e \in Seq(Entry), i \in 1 .. Len(e) + 1, x \in Entry, InsertAtIs
  <2> QED
    BY <2>1, LengthIs
<1>2. PICK f : SumsOf(e, f) /\ Bytes(e) = f[Len(e)]
  BY BytesExist
<1>3. PICK g : SumsOf(d, g) /\ Bytes(d) = g[Len(d)]
  BY <1>1, BytesExist
<1>4. PICK h : h = i - 1
  OBVIOUS
<1>5. h \in Nat /\ h <= Len(e) /\ i = h + 1 /\ i \in Nat /\ i \in 1 .. Len(d)
  BY <1>1, <1>4
<1>6. PICK o : o = 0
  OBVIOUS
<1>7. o \in Nat /\ g[o] = f[o] + o
  BY <1>2, <1>3, <1>6 DEF SumsOf
<1>8. Parallel(e, o, d, o, h)
  <2>1. o + h = h /\ \A j \in 1 .. h : o + j = j /\ d[j] = e[j]
    BY <1>1, <1>4, <1>5, <1>6
  <2>2. \A j \in 1 .. h : e[o + j].key = d[o + j].key
    BY <2>1
  <2> QED
    BY <1>1, <1>5, <1>7, <2>1, <2>2 DEF Parallel
<1>80. g[o + h] = f[o + h] + o
  BY ONLY <1>2, <1>3, <1>7, <1>8, SumsParallel
<1>81. f[h] \in Nat
  BY <1>2, <1>5 DEF SumsOf
<1>9. g[h] = f[h]
  BY <1>5, <1>6, <1>80, <1>81
<1>10. f[h] \in Nat /\ KeyLength[x.key] \in Nat /\ g[i] = g[h] + KeyLength[x.key]
  <2>1. f[h] \in Nat
    BY <1>81
  <2>2. d[i] = x
    BY <1>1, <1>5
  <2>3. KeyLength[d[i].key] \in Nat
    BY <1>1, <1>5, LengthIs
  <2>4. g[i] = g[i - 1] + KeyLength[d[i].key]
    BY <1>3, <1>5 DEF SumsOf
  <2> QED
    BY <1>4, <2>1, <2>2, <2>3, <2>4
<1>11. PICK c : c = KeyLength[x.key]
  OBVIOUS
<1>12. c \in Nat /\ g[i] = f[h] + c
  BY <1>5, <1>9, <1>10, <1>11
<1>13. PICK m : m = Len(e) - h
  OBVIOUS
<1>14. m \in Nat /\ h + m = Len(e) /\ i + m = Len(d)
  BY <1>1, <1>5, <1>13
<1>15. \A j \in 1 .. m : e[h + j].key = d[i + j].key
  <2> TAKE j \in 1 .. m
  <2>1. i + j \in 1 .. Len(e) + 1 /\ i + j > i /\ (i + j) - 1 = h + j
    BY <1>1, <1>5, <1>14
  <2>2. d[i + j] = e[(i + j) - 1]
    BY <1>1, <1>5, <2>1
  <2> QED
    BY <2>1, <2>2
<1>16. h + m <= Len(e) /\ i + m <= Len(d)
  BY <1>1, <1>14
<1>18. Parallel(e, h, d, i, m)
  BY <1>1, <1>5, <1>14, <1>15, <1>16 DEF Parallel
<1>17. g[i + m] = f[h + m] + c
  BY ONLY <1>2, <1>3, <1>12, <1>18, SumsParallel
<1> QED
  BY <1>2, <1>3, <1>11, <1>14, <1>17

\* The first entries take less.
LEMMA BytesOfPart ==
  ASSUME NEW e \in Seq(Entry), NEW n \in 1 .. Len(e), NEW a, a = Bytes(SubSeq(e, 1, n)),
         NEW b, b = Bytes(SubSeq(e, 1, n - 1))
  PROVE  a = b + KeyLength[e[n].key] /\ a \in Nat /\ b \in Nat /\ b >= n - 1 /\ (n = 1 => b = 0)
<1>0. Len(e) \in Nat /\ n \in Nat
  BY LengthIs
<1>1. PICK x : x = SubSeq(e, 1, n)
  OBVIOUS
<1>2. PICK y : y = SubSeq(e, 1, n - 1)
  OBVIOUS
<1>3. x \in Seq(Entry) /\ Len(x) = n /\ \A j \in 1 .. n : x[j] = e[j]
  <2>1. 1 \in 1 .. Len(e) + 1 /\ n \in 0 .. Len(e) /\ 1 <= n + 1
    BY <1>0
  <2>2. /\ SubSeq(e, 1, n) \in Seq(Entry) /\ Len(SubSeq(e, 1, n)) = n - 1 + 1
        /\ \A j \in 1 .. n - 1 + 1 : SubSeq(e, 1, n)[j] = e[1 + j - 1]
    BY <2>1, PartIs
  <2> QED
    BY <1>0, <1>1, <2>2
<1>4. y \in Seq(Entry) /\ Len(y) = n - 1 /\ \A j \in 1 .. n - 1 : y[j] = e[j]
  <2>1. 1 \in 1 .. Len(e) + 1 /\ n - 1 \in 0 .. Len(e) /\ 1 <= (n - 1) + 1
    BY <1>0
  <2>2. /\ SubSeq(e, 1, n - 1) \in Seq(Entry) /\ Len(SubSeq(e, 1, n - 1)) = n - 1 - 1 + 1
        /\ \A j \in 1 .. n - 1 - 1 + 1 : SubSeq(e, 1, n - 1)[j] = e[1 + j - 1]
    BY <2>1, PartIs
  <2> QED
    BY <1>0, <1>2, <2>2
<1>5. PICK f : SumsOf(y, f) /\ Bytes(y) = f[Len(y)]
  BY <1>4, BytesExist
<1>6. PICK g : SumsOf(x, g) /\ Bytes(x) = g[Len(x)]
  BY <1>3, BytesExist
<1>7. PICK m : m = n - 1
  OBVIOUS
<1>8. m \in Nat /\ m < n /\ n = m + 1 /\ m \in 0 .. Len(y) /\ n \in 1 .. Len(x)
  BY <1>0, <1>3, <1>4, <1>7
<1>90. PICK o : o = 0
  OBVIOUS
<1>9. \A j \in 1 .. m : y[o + j].key = x[o + j].key
  BY <1>0, <1>3, <1>4, <1>7, <1>90
<1>10. o \in Nat /\ g[o] = f[o] + o /\ o + m <= Len(y) /\ o + m <= Len(x)
  BY <1>3, <1>4, <1>5, <1>6, <1>7, <1>8, <1>90 DEF SumsOf
<1>111. Parallel(y, o, x, o, m)
  BY <1>3, <1>4, <1>8, <1>9, <1>10 DEF Parallel
<1>110. g[o + m] = f[o + m] + o
  BY ONLY <1>5, <1>6, <1>10, <1>111, SumsParallel
<1>12. f[m] \in Nat /\ b = f[m]
  BY <1>2, <1>4, <1>5, <1>7, <1>8 DEF SumsOf
<1>11. g[m] = f[m]
  BY <1>8, <1>90, <1>110, <1>12
<1>13. KeyLength[e[n].key] \in Nat /\ g[n] = g[n - 1] + KeyLength[e[n].key]
  <2>1. x[n] = e[n] /\ n \in 1 .. Len(x)
    BY <1>3, <1>8
  <2>2. g[n] = g[n - 1] + KeyLength[x[n].key]
    BY <1>6, <2>1 DEF SumsOf
  <2> QED
    BY <2>1, <2>2, LengthIs
<1>14. a = g[n]
  BY <1>1, <1>3, <1>6
<1>15. a = b + KeyLength[e[n].key]
  BY <1>7, <1>8, <1>11, <1>12, <1>13, <1>14
<1>16. \A j \in Nat : j <= m => f[j] >= j
  <2> DEFINE P == {j \in Nat : j <= m => f[j] >= j}
  <2>1. 0 \in P
    BY <1>5 DEF SumsOf
  <2>2. ASSUME NEW j \in Nat, j \in P
        PROVE  j + 1 \in P
    <3> SUFFICES ASSUME j + 1 <= m PROVE f[j + 1] >= j + 1
      OBVIOUS
    <3>1. PICK r : r = j + 1
      OBVIOUS
    <3>2. r \in 1 .. Len(y) /\ r - 1 = j /\ j \in 0 .. Len(y)
      BY <1>4, <1>7, <1>8, <3>1
    <3>3. f[r] = f[j] + KeyLength[y[r].key] /\ f[j] \in Nat
      <4>1. f[r] = f[r - 1] + KeyLength[y[r].key]
        BY <1>5, <3>2 DEF SumsOf
      <4>2. f[j] \in Nat
        BY <1>5, <3>2 DEF SumsOf
      <4> QED
        BY <3>2, <4>1, <4>2
    <3>5. j <= m
      BY <1>8
    <3>6. f[j] >= j
      BY <2>2, <3>5
    <3>4. KeyLength[y[r].key] \in Nat /\ KeyLength[y[r].key] > 0
      BY <1>4, <3>2, LengthIs
    <3> QED
      BY <3>1, <3>3, <3>4, <3>6
  <2>3. Nat \subseteq P
    <3> HIDE DEF P
    <3> QED
      BY <2>1, <2>2, NumberInduction
  <2> QED
    BY <2>3
<1>17. b >= m
  BY <1>8, <1>12, <1>16
<1>18. n = 1 => b = 0
  BY <1>5, <1>7, <1>12 DEF SumsOf
<1> QED
  BY <1>7, <1>12, <1>13, <1>15, <1>17, <1>18

LEMMA Quotient ==
  ASSUME NEW a \in Nat, NEW m \in Nat \ {0}
  PROVE  a \div m \in Nat /\ m * (a \div m) <= a /\ a < m * (a \div m) + m
  BY SMT

\* The space of keys contains them, and that of more bytes is not less.
LEMMA SpaceIs ==
  ASSUME NEW a \in Nat, NEW b \in Nat, a <= b, NEW n \in Nat
  PROVE  /\ Space(a, n) \in Int /\ Space(b, n) \in Int
         /\ a <= Space(a, n) /\ Space(a, n) <= Space(b, n)
<1>1. HeaderSize \in Nat /\ Alignment \in Nat \ {0} /\ SlotSize \in Nat \ {0}
  BY NodesAssumption
<1>2. PICK x : x = HeaderSize + a + Alignment - 1
  OBVIOUS
<1>3. PICK y : y = HeaderSize + b + Alignment - 1
  OBVIOUS
<1>4. x \in Nat /\ x >= a + Alignment - 1 /\ y \in Nat /\ x <= y
  BY <1>1, <1>2, <1>3
<1>5. PICK q : q = x \div Alignment
  OBVIOUS
<1>6. PICK r : r = y \div Alignment
  OBVIOUS
<1>7. q \in Nat /\ Alignment * q <= x /\ x < Alignment * q + Alignment
  BY <1>1, <1>4, <1>5, Quotient
<1>8. r \in Nat /\ Alignment * r <= y /\ y < Alignment * r + Alignment
  BY <1>1, <1>4, <1>6, Quotient
<1>9. q <= r
  <2>1. CASE q >= r + 1
    <3>1. PICK c : c = q - (r + 1)
      OBVIOUS
    <3>2. c \in Nat /\ q = r + 1 + c
      BY ONLY <1>7, <1>8, <2>1, <3>1
    <3>3. Alignment * q = Alignment * r + Alignment + Alignment * c
      BY <1>1, <1>8, <3>2
    <3>4. PICK u : u = Alignment * r
      OBVIOUS
    <3>5. PICK w : w = Alignment * c
      OBVIOUS
    <3>6. u \in Nat /\ w \in Nat
      BY <1>1, <1>8, <3>2, <3>4, <3>5
    <3>7. u + Alignment + w <= x /\ y < u + Alignment
      BY <1>7, <1>8, <3>3, <3>4, <3>5
    <3> QED
      BY ONLY <1>1, <1>4, <3>6, <3>7
  <2> QED
    BY ONLY <1>7, <1>8, <2>1
<1>10. Alignment * q <= Alignment * r
  <2>1. PICK c : c = r - q
    OBVIOUS
  <2>2. c \in Nat /\ r = q + c
    BY ONLY <1>7, <1>8, <1>9, <2>1
  <2>3. Alignment * r = Alignment * q + Alignment * c
    BY <1>1, <1>7, <2>2
  <2>4. PICK w : w = Alignment * c
    OBVIOUS
  <2>5. PICK u : u = Alignment * q
    OBVIOUS
  <2>6. w \in Nat /\ u \in Nat
    BY <1>1, <1>7, <2>2, <2>4, <2>5
  <2> QED
    BY <2>3, <2>4, <2>5, <2>6
<1>11. PICK u : u = Alignment * q
  OBVIOUS
<1>12. PICK w : w = Alignment * r
  OBVIOUS
<1>13. PICK z : z = n * SlotSize
  OBVIOUS
<1>14. u \in Int /\ w \in Int /\ z \in Int /\ z >= 0
  BY <1>1, <1>7, <1>8, <1>11, <1>12, <1>13
<1>15. Space(a, n) = u + z /\ Space(b, n) = w + z
  BY <1>2, <1>3, <1>5, <1>6, <1>11, <1>12, <1>13 DEF Space
<1>16. u <= w /\ x < u + Alignment
  BY <1>7, <1>10, <1>11, <1>12
<1> QED
  BY ONLY <1>1, <1>4, <1>14, <1>15, <1>16, a \in Nat, b \in Nat

\* All of a sequence.
LEMMA WholeIs ==
  ASSUME NEW e \in Seq(Entry)
  PROVE  SubSeq(e, 1, Len(e)) = e
  OBVIOUS

\* Two keys with which n others are too big leave half a node to them.
LEMMA HalfFilled ==
  ASSUME KeysAreShort, NEW k \in Key, NEW k2 \in Key, NEW n \in Nat, NEW bytes \in Nat, n <= bytes, n = 0 => bytes = 0,
         Space(bytes + KeyLength[k] + KeyLength[k2], n + 2) >= NodeSize
  PROVE  Space(bytes, n + 1) >= NodeSize \div 2
<1>1. NodeSize \in Nat /\ NodeSize > 0 /\ NodeSize \div 2 \in Int /\ NodeSize \div 2 <= NodeSize
  BY NodesAssumption
<1>2. CASE bytes <= NodeSize
  <2>1. n \in 0 .. NodeSize /\ bytes \in n .. NodeSize
    BY <1>1, <1>2
  <2> QED
    BY <2>1 DEF KeysAreShort
<1>3. CASE bytes > NodeSize
  <2>1. n + 1 \in Nat /\ bytes <= bytes
    OBVIOUS
  <2>2. Space(bytes, n + 1) \in Int /\ bytes <= Space(bytes, n + 1)
    BY <2>1, SpaceIs
  <2> QED
    BY <1>1, <1>3, <2>2
<1> QED
  BY <1>1, <1>2, <1>3

\* The first n keys, as SplitAt counts them, fill half of a node.
FillsHalf(e, index, n) ==
  Space(Bytes(SubSeq(e, 1, IF n <= index THEN n - 1 ELSE n)), n) >= NodeSize \div 2

\* A sequence that is too big for a node is split where half a node is filled
\* first, in front of its last entry at the latest.
LEMMA SplitAtLeast ==
  ASSUME KeysAreShort, NEW e \in Seq(Entry), e # <<>>, NEW index \in Nat, Used(e) >= NodeSize
  PROVE  /\ SplitAt(e, index) \in 1 .. Len(e) - 1
         /\ FillsHalf(e, index, SplitAt(e, index))
         /\ \A n \in 1 .. Len(e) : FillsHalf(e, index, n) => SplitAt(e, index) <= n
<1>1. PICK L : L = Len(e)
  OBVIOUS
<1>2. L \in Nat /\ L > 0 /\ \A i \in 1 .. L : e[i].key \in Key /\ KeyLength[e[i].key] \in Nat
  BY <1>1, LengthIs, EntryIs
<1>3. PICK c0 : c0 = Bytes(e)
  OBVIOUS
<1>4. PICK c1 : c1 = Bytes(SubSeq(e, 1, L - 1))
  OBVIOUS
<1>5. c0 = c1 + KeyLength[e[L].key] /\ c0 \in Nat /\ c1 \in Nat /\ (L = 1 => c1 = 0)
  <2>0. SubSeq(e, 1, L) = e
    BY <1>1, WholeIs
  <2>2. L \in 1 .. Len(e)
    BY <1>1, <1>2
  <2>1. L \in 1 .. Len(e) /\ c0 = Bytes(SubSeq(e, 1, L))
    BY <1>3, <2>0, <2>2
  <2> QED
    BY <1>4, <2>1, BytesOfPart
<1>6. Space(c0, L) >= NodeSize
  BY <1>1, <1>3 DEF Used
<1>7. L # 1
  <2> SUFFICES ASSUME L = 1 PROVE FALSE
    OBVIOUS
  <2>1. c0 = KeyLength[e[1].key] /\ e[1].key \in Key
    BY <1>2, <1>5
  <2>2. Space(KeyLength[e[1].key], 1) < NodeSize
    BY <2>1 DEF KeysAreShort
  <2>3. NodeSize \in Int /\ Space(c0, 1) \in Int
    <3>1. c0 <= c0 /\ 1 \in Nat /\ c0 \in Nat
      BY <1>5
    <3>2. Space(c0, 1) \in Int
      BY ONLY <3>1, SpaceIs
    <3> QED
      BY <3>2, NodesAssumption
  <2> QED
    BY <1>6, <2>1, <2>2, <2>3
<1>8. PICK m : m = L - 1
  OBVIOUS
<1>9. m \in Nat /\ m \in 1 .. Len(e) /\ m - 1 \in Nat /\ m > 0 /\ L = m + 1
  BY <1>1, <1>2, <1>7, <1>8
<1>10. PICK c2 : c2 = Bytes(SubSeq(e, 1, m - 1))
  OBVIOUS
<1>11. c1 = c2 + KeyLength[e[m].key] /\ c2 \in Nat /\ c2 >= m - 1 /\ (m = 1 => c2 = 0)
  BY <1>4, <1>8, <1>9, <1>10, BytesOfPart
<1>12. PICK n : n = m - 1
  OBVIOUS
<1>13. Space(c2, m) >= NodeSize \div 2
  <2>1. n \in Nat /\ n <= c2 /\ (n = 0 => c2 = 0) /\ n + 1 = m /\ n + 2 = L
    BY <1>9, <1>11, <1>12
  <2>2. e[m].key \in Key /\ e[L].key \in Key
    BY <1>1, <1>2, <1>9
  <2>3. KeyLength[e[m].key] \in Nat /\ KeyLength[e[L].key] \in Nat
    BY <1>1, <1>2, <1>9
  <2>4. c0 = c2 + KeyLength[e[m].key] + KeyLength[e[L].key]
    BY <1>5, <1>11, <2>3
  <2>5. Space(c2 + KeyLength[e[m].key] + KeyLength[e[L].key], n + 2) >= NodeSize
    BY <1>6, <2>1, <2>4
  <2>6. Space(c2, n + 1) >= NodeSize \div 2
    BY <1>11, <2>1, <2>2, <2>5, HalfFilled
  <2> QED
    BY <2>1, <2>6
<1>14. Space(c1, m) >= NodeSize \div 2
  <2>1. c2 <= c1 /\ KeyLength[e[m].key] \in Nat
    BY <1>1, <1>2, <1>9, <1>11
  <2>2. Space(c2, m) \in Int /\ Space(c1, m) \in Int /\ Space(c2, m) <= Space(c1, m)
    BY <1>5, <1>9, <1>11, <2>1, SpaceIs
  <2>3. NodeSize \div 2 \in Int
    BY NodesAssumption
  <2> QED
    BY <1>13, <2>2, <2>3
<1> DEFINE counted(i) == IF i <= index THEN i - 1 ELSE i
           half == {i \in 1 .. Len(e) : Space(Bytes(SubSeq(e, 1, counted(i))), i) >= NodeSize \div 2}
<1>15. m \in half
  <2>1. counted(m) = m - 1 \/ counted(m) = m
    OBVIOUS
  <2>2. Space(Bytes(SubSeq(e, 1, counted(m))), m) >= NodeSize \div 2
    BY <1>4, <1>8, <1>10, <1>13, <1>14, <2>1
  <2> QED
    BY <1>9, <2>2
<1>16. SplitAt(e, index) = CHOOSE i \in half : \A j \in half : i <= j
  BY DEF SplitAt
<1>17. half \subseteq Nat /\ half \subseteq 1 .. Len(e)
  BY <1>1, <1>2
<1>170. \A i \in 1 .. Len(e) : i \in half <=> FillsHalf(e, index, i)
  BY DEF FillsHalf
<1> HIDE DEF half
<1>18. \E i \in half : \A j \in half : i <= j
  BY <1>15, <1>17, LeastNumber
<1>19. SplitAt(e, index) \in half /\ \A j \in half : SplitAt(e, index) <= j
  BY <1>16, <1>18
<1>20. PICK out : out = SplitAt(e, index)
  OBVIOUS
<1>21. out \in 1 .. L /\ out <= m
  BY <1>1, <1>15, <1>17, <1>19, <1>20
<1>22. out \in 1 .. L - 1
  BY ONLY <1>2, <1>8, <1>21
<1>23. FillsHalf(e, index, out) /\ \A h \in 1 .. Len(e) : FillsHalf(e, index, h) => out <= h
  BY <1>17, <1>170, <1>19, <1>20
<1> QED
  BY <1>1, <1>20, <1>22, <1>23

LEMMA SplitAtIs ==
  ASSUME KeysAreShort, NEW e \in Seq(Entry), e # <<>>, NEW index \in Nat, Used(e) >= NodeSize
  PROVE  SplitAt(e, index) \in 1 .. Len(e) - 1
  BY SplitAtLeast

-----------------------------------------------------------------------------
(* Changes of stored nodes, and the list of free nodes.                    *)

Marked(t, n) == n \in DOMAIN t.nodes /\ t.nodes[n].overflow = FreeMark

\* The list of free nodes consists of nodes that are marked as free, and no
\* node of it comes twice.
FreeSound(t) ==
  /\ t.free # Null => Marked(t, t.free)
  /\ \A n : Marked(t, n) /\ t.nodes[n].left # Null => Marked(t, t.nodes[n].left) /\ t.nodes[n].left # t.free
  /\ \A m, n : Marked(t, m) /\ Marked(t, n) /\ t.nodes[m].left = t.nodes[n].left /\ t.nodes[n].left # Null => m = n

\* u is t with other entries or overflow links in the nodes of X.
Edited(t, u, X) ==
  /\ Stored(u) /\ u.free = t.free /\ DOMAIN u.nodes = DOMAIN t.nodes
  /\ \A n \in DOMAIN t.nodes :
       /\ Marked(t, n) => n \notin X /\ u.nodes[n].left = t.nodes[n].left
       /\ n \notin X => u.nodes[n].entries = t.nodes[n].entries /\ u.nodes[n].overflow = t.nodes[n].overflow
       /\ n \in X => u.nodes[n].overflow # FreeMark

LEMMA StoredIs ==
  ASSUME NEW t, Stored(t)
  PROVE  /\ t \in TreeType /\ t.nodes \in Seq(NodeType) /\ Len(t.nodes) \in Nat /\ Len(t.nodes) <= MaxNodes
         /\ DOMAIN t.nodes = 1 .. Len(t.nodes) /\ t.root \in Nat /\ t.levels \in Int /\ t.free \in Int
         /\ \A n \in DOMAIN t.nodes : t.nodes[n] \in NodeType
         /\ MaxNodes \in Nat
<1>1. t \in TreeType /\ Len(t.nodes) <= MaxNodes /\ MaxNodes \in Nat
  BY NodesAssumption DEF Stored
<1>2. t.nodes \in Seq(NodeType) /\ t.root \in Nat /\ t.levels \in Int /\ t.free \in Int
  BY <1>1 DEF TreeType
<1>3. DOMAIN t.nodes = 1 .. Len(t.nodes) /\ Len(t.nodes) \in Nat /\ \A n \in 1 .. Len(t.nodes) : t.nodes[n] \in NodeType
  BY ONLY <1>2
<1> QED
  BY <1>1, <1>2, <1>3

LEMMA LoadsIs ==
  ASSUME NEW t, NEW n
  PROVE  /\ Loads(t, n) <=> n \in DOMAIN t.nodes /\ ~ Marked(t, n)
         /\ Loads(t, n) => Node(t, n) = t.nodes[n]
  BY DEF Loads, Marked, Node

LEMMA EditedIs ==
  ASSUME NEW t, NEW u, NEW X, Edited(t, u, X)
  PROVE  /\ \A n : Marked(u, n) <=> Marked(t, n)
         /\ \A n : Loads(u, n) <=> Loads(t, n)
         /\ FreeSound(t) => FreeSound(u)
<1>1. ASSUME NEW n
      PROVE  Marked(u, n) <=> Marked(t, n)
  <2>1. n \in DOMAIN t.nodes /\ n \notin X => u.nodes[n].overflow = t.nodes[n].overflow
    BY DEF Edited
  <2>2. n \in DOMAIN t.nodes /\ n \in X => u.nodes[n].overflow # FreeMark /\ ~ Marked(t, n)
    BY DEF Edited
  <2>3. DOMAIN u.nodes = DOMAIN t.nodes
    BY DEF Edited
  <2> QED
    BY <2>1, <2>2, <2>3 DEF Marked
<1>2. \A n : Loads(u, n) <=> Loads(t, n)
  <2>1. DOMAIN u.nodes = DOMAIN t.nodes
    BY DEF Edited
  <2> QED
    BY <1>1, <2>1, LoadsIs
<1>3. ASSUME FreeSound(t)
      PROVE  FreeSound(u)
  <2>1. u.free = t.free
    BY DEF Edited
  <2>2. \A n : Marked(t, n) => u.nodes[n].left = t.nodes[n].left
    BY DEF Edited, Marked
  <2> QED
    BY <1>1, <1>3, <2>1, <2>2 DEF FreeSound
<1> QED
  BY <1>1, <1>2, <1>3

LEMMA EditedTwice ==
  ASSUME NEW t, NEW u, NEW X, Edited(t, u, X), NEW w, NEW Y, Edited(u, w, Y)
  PROVE  Edited(t, w, X \cup Y)
<1>1. \A n : Marked(u, n) <=> Marked(t, n)
  BY EditedIs
<1>2. Stored(w) /\ w.free = t.free /\ DOMAIN w.nodes = DOMAIN t.nodes /\ DOMAIN u.nodes = DOMAIN t.nodes
  BY DEF Edited
<1>3. ASSUME NEW n \in DOMAIN t.nodes
      PROVE  /\ Marked(t, n) => n \notin X \cup Y /\ w.nodes[n].left = t.nodes[n].left
             /\ n \notin X \cup Y => w.nodes[n].entries = t.nodes[n].entries /\ w.nodes[n].overflow = t.nodes[n].overflow
             /\ n \in X \cup Y => w.nodes[n].overflow # FreeMark
  <2>1. /\ Marked(t, n) => n \notin X /\ u.nodes[n].left = t.nodes[n].left
        /\ n \notin X => u.nodes[n].entries = t.nodes[n].entries /\ u.nodes[n].overflow = t.nodes[n].overflow
        /\ n \in X => u.nodes[n].overflow # FreeMark
    BY DEF Edited
  <2>2. /\ Marked(u, n) => n \notin Y /\ w.nodes[n].left = u.nodes[n].left
        /\ n \notin Y => w.nodes[n].entries = u.nodes[n].entries /\ w.nodes[n].overflow = u.nodes[n].overflow
        /\ n \in Y => w.nodes[n].overflow # FreeMark
    BY <1>2 DEF Edited
  <2> QED
    BY <1>1, <2>1, <2>2
<1> QED
  BY <1>2, <1>3 DEF Edited

\* One node is changed.
LEMMA NodeChanged ==
  ASSUME NEW t, Stored(t), NEW n \in DOMAIN t.nodes, NEW d \in NodeType, NEW u, u = [t EXCEPT !.nodes[n] = d]
  PROVE  /\ Stored(u) /\ u.root = t.root /\ u.free = t.free /\ u.levels = t.levels
         /\ DOMAIN u.nodes = DOMAIN t.nodes /\ Len(u.nodes) = Len(t.nodes)
         /\ u.nodes[n] = d /\ \A m : m # n => u.nodes[m] = t.nodes[m]
<1>1. t \in TreeType /\ t.nodes \in Seq(NodeType) /\ Len(t.nodes) \in Nat /\ Len(t.nodes) <= MaxNodes
      /\ DOMAIN t.nodes = 1 .. Len(t.nodes)
  BY StoredIs
<1>2. PICK ns : ns = [t.nodes EXCEPT ![n] = d]
  OBVIOUS
<1>3. ns \in Seq(NodeType) /\ Len(ns) = Len(t.nodes)
  BY <1>1, <1>2
<1>4. DOMAIN ns = DOMAIN t.nodes /\ ns[n] = d /\ \A m : m # n => ns[m] = t.nodes[m]
  <2>1. DOMAIN ns = DOMAIN t.nodes
    BY <1>1, <1>2
  <2>2. ns[n] = d
    BY <1>1, <1>2
  <2>3. ASSUME NEW m, m # n
        PROVE  ns[m] = t.nodes[m]
    BY <1>2, <2>3
  <2> QED
    BY <2>1, <2>2, <2>3
<1>5. u = [t EXCEPT !.nodes = ns]
  BY <1>1, <1>2 DEF TreeType
<1>6. u.nodes = ns /\ u.root = t.root /\ u.free = t.free /\ u.levels = t.levels /\ u \in TreeType
  BY <1>1, <1>3, <1>5 DEF TreeType
<1> QED
  BY <1>1, <1>3, <1>4, <1>6 DEF Stored

\* u is t with d in place of a node that is in use.
Given(t, n, d, u) ==
  /\ Stored(t) /\ Loads(t, n)
  /\ d \in NodeType /\ d.overflow # FreeMark
  /\ u = [t EXCEPT !.nodes[n] = d]

LEMMA NodeEdited ==
  ASSUME NEW t, NEW n, NEW d, NEW u, Given(t, n, d, u)
  PROVE  Edited(t, u, {n}) /\ u.root = t.root /\ u.levels = t.levels /\ u.nodes[n] = d
<1> USE DEF Given
<1>1. n \in DOMAIN t.nodes /\ ~ Marked(t, n)
  BY LoadsIs
<1>2. /\ Stored(u) /\ u.root = t.root /\ u.free = t.free /\ u.levels = t.levels
      /\ DOMAIN u.nodes = DOMAIN t.nodes
      /\ u.nodes[n] = d /\ \A m : m # n => u.nodes[m] = t.nodes[m]
  BY <1>1, NodeChanged
<1> QED
  BY <1>1, <1>2 DEF Edited

\* What stays as it is has been edited nowhere.
LEMMA EditedNowhere ==
  ASSUME NEW t, Stored(t)
  PROVE  Edited(t, t, {})
  BY DEF Edited

LEMMA Relinked ==
  ASSUME NEW t, Stored(t), NEW n, NEW to \in Int, NEW told
  PROVE  /\ Edited(t, SetLeft(t, n, to, told), {}) /\ SetLeft(t, n, to, told).root = t.root
         /\ Edited(t, SetRight(t, n, to, told), {}) /\ SetRight(t, n, to, told).root = t.root
<1>1. CASE told /\ Loads(t, n)
  <2>1. t.nodes[n] \in NodeType /\ n \in DOMAIN t.nodes /\ ~ Marked(t, n) /\ t \in TreeType
    BY <1>1, LoadsIs, StoredIs
  <2>2. PICK d : d = [t.nodes[n] EXCEPT !.left = to]
    OBVIOUS
  <2>3. PICK e : e = [t.nodes[n] EXCEPT !.right = to]
    OBVIOUS
  <2>4. d \in NodeType /\ d.entries = t.nodes[n].entries /\ d.overflow = t.nodes[n].overflow
    BY <2>1, <2>2 DEF NodeType
  <2>5. e \in NodeType /\ e.entries = t.nodes[n].entries /\ e.overflow = t.nodes[n].overflow
    BY <2>1, <2>3 DEF NodeType
  <2>6. SetLeft(t, n, to, told) = [t EXCEPT !.nodes[n] = d]
    BY <1>1, <2>2 DEF SetLeft
  <2>7. SetRight(t, n, to, told) = [t EXCEPT !.nodes[n] = e]
    BY <1>1, <2>3 DEF SetRight
  <2>8. PICK l : l = SetLeft(t, n, to, told)
    OBVIOUS
  <2>9. PICK r : r = SetRight(t, n, to, told)
    OBVIOUS
  <2>10. /\ Stored(l) /\ l.root = t.root /\ l.free = t.free /\ DOMAIN l.nodes = DOMAIN t.nodes
         /\ l.nodes[n] = d /\ \A m : m # n => l.nodes[m] = t.nodes[m]
    <3>1. l = [t EXCEPT !.nodes[n] = d]
      BY <2>6, <2>8
    <3> QED
      BY ONLY <2>1, <2>4, <3>1, NodeChanged, Stored(t)
  <2>11. /\ Stored(r) /\ r.root = t.root /\ r.free = t.free /\ DOMAIN r.nodes = DOMAIN t.nodes
         /\ r.nodes[n] = e /\ \A m : m # n => r.nodes[m] = t.nodes[m]
    <3>1. r = [t EXCEPT !.nodes[n] = e]
      BY <2>7, <2>9
    <3> QED
      BY ONLY <2>1, <2>5, <3>1, NodeChanged, Stored(t)
  <2>12. Edited(t, l, {})
    BY <2>1, <2>4, <2>10 DEF Edited
  <2>13. Edited(t, r, {})
    BY <2>1, <2>5, <2>11 DEF Edited
  <2> QED
    BY <2>8, <2>9, <2>10, <2>11, <2>12, <2>13
<1>2. CASE ~ (told /\ Loads(t, n))
  BY <1>2, EditedNowhere DEF SetLeft, SetRight
<1> QED
  BY <1>1, <1>2

\* u is t with one more loaded node o, as it was initialized.
Allocated(t, o, u) ==
  /\ Stored(u) /\ FreeSound(u) /\ u.root = t.root /\ u.levels = t.levels
  /\ o \in Nat /\ ~ Loads(t, o) /\ Loads(u, o) /\ u.nodes[o] = NewNode
  /\ \A m : Loads(t, m) => Loads(u, m) /\ u.nodes[m] = t.nodes[m]

\* Node n is no longer in u.
Freed(t, n, u) ==
  /\ Stored(u) /\ FreeSound(u) /\ u.root = t.root
  /\ \A m : m # n /\ Loads(t, m) => Loads(u, m) /\ u.nodes[m] = t.nodes[m]

LEMMA NewNodeIs == NewNode \in NodeType /\ NewNode.overflow = Null /\ NewNode.left = Null /\ NewNode.entries = <<>>
  BY DEF NewNode, NodeType, Null

LEMMA AllocatedFree ==
  ASSUME NEW t, Stored(t), FreeSound(t), t.free # Null,
         NEW u, u = [t EXCEPT !.nodes[t.free] = NewNode, !.free = t.nodes[t.free].left]
  PROVE  Allocated(t, t.free, u)
<1>1. PICK o : o = t.free
  OBVIOUS
<1>2. Marked(t, o) /\ o \in DOMAIN t.nodes /\ t \in TreeType /\ t.nodes[o] \in NodeType
  BY <1>1, StoredIs DEF FreeSound, Marked
<1>3. PICK x : x = [t EXCEPT !.nodes[o] = NewNode]
  OBVIOUS
<1>4. /\ Stored(x) /\ x.root = t.root /\ x.free = t.free /\ x.levels = t.levels
      /\ DOMAIN x.nodes = DOMAIN t.nodes /\ Len(x.nodes) = Len(t.nodes)
      /\ x.nodes[o] = NewNode /\ \A m : m # o => x.nodes[m] = t.nodes[m]
  BY <1>2, <1>3, NewNodeIs, NodeChanged
<1>5. PICK l : l = t.nodes[o].left
  OBVIOUS
<1>6. u = [x EXCEPT !.free = l]
  BY <1>1, <1>2, <1>3, <1>5 DEF TreeType
<1>7. x \in TreeType /\ l \in Int /\ Len(x.nodes) <= MaxNodes
  BY <1>2, <1>4, <1>5 DEF Stored, NodeType
<1>8. u.nodes = x.nodes /\ u.free = l /\ u.root = x.root /\ u.levels = x.levels /\ u \in TreeType
  BY <1>6, <1>7 DEF TreeType
<1>9. Stored(u)
  BY <1>7, <1>8 DEF Stored
<1>10. NewNode.overflow # FreeMark
  BY NewNodeIs DEF FreeMark, Null
<1>11. \A m : Marked(u, m) <=> Marked(t, m) /\ m # o
  BY <1>4, <1>8, <1>10 DEF Marked
<1>12. \A m : m # o => u.nodes[m] = t.nodes[m]
  BY <1>4, <1>8
<1>13. FreeSound(u)
  <2>1. l # Null => Marked(t, l) /\ l # o
    BY <1>1, <1>2, <1>5 DEF FreeSound
  <2>2. ASSUME NEW n, Marked(u, n), u.nodes[n].left # Null
        PROVE  Marked(u, u.nodes[n].left) /\ u.nodes[n].left # u.free
    <3>1. Marked(t, n) /\ n # o /\ u.nodes[n].left = t.nodes[n].left
      BY <1>11, <1>12, <2>2
    <3>2. Marked(t, t.nodes[n].left) /\ t.nodes[n].left # o
      BY <1>1, <2>2, <3>1 DEF FreeSound
    <3>3. t.nodes[n].left # l
      BY <1>2, <1>5, <2>2, <3>1 DEF FreeSound
    <3> QED
      BY <1>8, <1>11, <3>1, <3>2, <3>3
  <2>3. ASSUME NEW m, NEW n, Marked(u, m), Marked(u, n), u.nodes[m].left = u.nodes[n].left, u.nodes[n].left # Null
        PROVE  m = n
    BY <1>11, <1>12, <2>3 DEF FreeSound
  <2> QED
    BY <1>8, <1>11, <2>1, <2>2, <2>3 DEF FreeSound
<1>14. o \in Nat /\ ~ Loads(t, o) /\ Loads(u, o) /\ u.nodes[o] = NewNode
  <2>1. o \in Nat
    BY <1>2, StoredIs
  <2> QED
    BY <1>2, <1>4, <1>8, <1>11, <2>1, LoadsIs
<1>15. \A m : Loads(t, m) => Loads(u, m) /\ u.nodes[m] = t.nodes[m]
  BY <1>2, <1>4, <1>8, <1>11, <1>12, LoadsIs
<1> QED
  BY <1>1, <1>4, <1>8, <1>9, <1>13, <1>14, <1>15 DEF Allocated

LEMMA AllocatedBehind ==
  ASSUME NEW t, Stored(t), FreeSound(t), NEW o, o = Len(t.nodes) + 1, o \in 1 .. MaxNodes,
         NEW u, u = [t EXCEPT !.nodes = Append(@, NewNode)]
  PROVE  Allocated(t, o, u)
<1>1. /\ t \in TreeType /\ t.nodes \in Seq(NodeType) /\ Len(t.nodes) \in Nat /\ DOMAIN t.nodes = 1 .. Len(t.nodes)
      /\ MaxNodes \in Nat
  BY StoredIs
<1>2. PICK ns : ns = Append(t.nodes, NewNode)
  OBVIOUS
<1>3. ns \in Seq(NodeType) /\ Len(ns) = o /\ ns[o] = NewNode /\ \A m \in 1 .. Len(t.nodes) : ns[m] = t.nodes[m]
  BY <1>1, <1>2, NewNodeIs
<1>4. DOMAIN ns = 1 .. o
  BY <1>3
<1>5. u.nodes = ns /\ u.free = t.free /\ u.root = t.root /\ u.levels = t.levels /\ u \in TreeType
  BY <1>1, <1>2, <1>3 DEF TreeType
<1>6. Stored(u)
  BY <1>1, <1>3, <1>5 DEF Stored
<1>7. NewNode.overflow # FreeMark
  BY NewNodeIs DEF FreeMark, Null
<1>8. \A m \in DOMAIN t.nodes : m \in DOMAIN u.nodes /\ u.nodes[m] = t.nodes[m] /\ m # o
  BY <1>1, <1>3, <1>4, <1>5
<1>9. \A m : Marked(u, m) <=> Marked(t, m)
  <2>1. \A m \in DOMAIN u.nodes : m \in DOMAIN t.nodes \/ m = o
    BY <1>1, <1>3, <1>4, <1>5
  <2> QED
    BY <1>3, <1>5, <1>7, <1>8, <2>1 DEF Marked
<1>10. FreeSound(u)
  <2>1. \A m : Marked(t, m) => u.nodes[m] = t.nodes[m]
    BY <1>8 DEF Marked
  <2> QED
    BY <1>5, <1>9, <2>1 DEF FreeSound
<1>11. o \in Nat /\ o \notin DOMAIN t.nodes /\ o \in DOMAIN u.nodes
  BY <1>1, <1>4, <1>5
<1>12. ~ Loads(t, o) /\ Loads(u, o) /\ u.nodes[o] = NewNode
  <2>1. ~ Marked(u, o)
    BY <1>9, <1>11 DEF Marked
  <2> QED
    BY <1>3, <1>5, <1>11, <2>1, LoadsIs
<1>13. \A m : Loads(t, m) => Loads(u, m) /\ u.nodes[m] = t.nodes[m]
  BY <1>8, <1>9, LoadsIs
<1> QED
  BY <1>5, <1>6, <1>10, <1>11, <1>12, <1>13 DEF Allocated

LEMMA AllocateIs ==
  ASSUME NEW t, Stored(t), FreeSound(t), NEW x \in Allocate(t)
  PROVE  Allocated(t, x.node, x.tree)
<1>1. CASE t.free # Null /\ x = [node |-> t.free,
                                tree |-> [t EXCEPT !.nodes[t.free] = NewNode, !.free = t.nodes[t.free].left]]
  <2>1. PICK u : u = [t EXCEPT !.nodes[t.free] = NewNode, !.free = t.nodes[t.free].left]
    OBVIOUS
  <2>2. x = [node |-> t.free, tree |-> u]
    BY <1>1, <2>1
  <2>3. Allocated(t, t.free, u)
    BY <1>1, <2>1, AllocatedFree
  <2> QED
    BY <2>2, <2>3
<1>2. CASE /\ Len(t.nodes) + 1 \in 1 .. MaxNodes
           /\ x = [node |-> Len(t.nodes) + 1, tree |-> [t EXCEPT !.nodes = Append(@, NewNode)]]
  <2>1. PICK u : u = [t EXCEPT !.nodes = Append(@, NewNode)]
    OBVIOUS
  <2>2. PICK o : o = Len(t.nodes) + 1
    OBVIOUS
  <2>3. x = [node |-> o, tree |-> u] /\ o \in 1 .. MaxNodes
    BY <1>2, <2>1, <2>2
  <2>4. Allocated(t, o, u)
    BY <2>1, <2>2, <2>3, AllocatedBehind
  <2> QED
    BY <2>3, <2>4
<1> QED
  BY <1>1, <1>2 DEF Allocate

LEMMA FreedBehind ==
  ASSUME NEW t, Stored(t), FreeSound(t), NEW n, Loads(t, n), n = Len(t.nodes),
         NEW u, u = [t EXCEPT !.nodes = Front(@)]
  PROVE  Freed(t, n, u)
<1>1. /\ t \in TreeType /\ t.nodes \in Seq(NodeType) /\ Len(t.nodes) \in Nat /\ DOMAIN t.nodes = 1 .. Len(t.nodes)
      /\ MaxNodes \in Nat /\ Len(t.nodes) <= MaxNodes
  BY StoredIs
<1>2. n \in DOMAIN t.nodes /\ ~ Marked(t, n)
  BY LoadsIs
<1>3. PICK ns : ns = Front(t.nodes)
  OBVIOUS
<1>4. ns \in Seq(NodeType) /\ Len(ns) = Len(t.nodes) - 1 /\ \A m \in 1 .. Len(t.nodes) - 1 : ns[m] = t.nodes[m]
  <2>1. t.nodes # <<>>
    BY <1>1, <1>2
  <2> QED
    BY <1>1, <1>3, <2>1, FrontIs
<1>5. DOMAIN ns = 1 .. Len(t.nodes) - 1
  BY <1>4
<1>6. u.nodes = ns /\ u.free = t.free /\ u.root = t.root /\ u \in TreeType
  BY <1>1, <1>3, <1>4 DEF TreeType
<1>7. Stored(u)
  BY <1>1, <1>4, <1>6 DEF Stored
<1>8. \A m : m \in DOMAIN u.nodes <=> m \in DOMAIN t.nodes /\ m # n
  BY <1>1, <1>5, <1>6
<1>9. \A m \in DOMAIN u.nodes : u.nodes[m] = t.nodes[m]
  BY <1>4, <1>5, <1>6
<1>10. \A m : Marked(u, m) <=> Marked(t, m)
  BY <1>2, <1>8, <1>9 DEF Marked
<1>11. FreeSound(u)
  <2>1. \A m : Marked(u, m) => u.nodes[m] = t.nodes[m]
    BY <1>9 DEF Marked
  <2> QED
    BY <1>6, <1>10, <2>1 DEF FreeSound
<1>12. \A m : m # n /\ Loads(t, m) => Loads(u, m) /\ u.nodes[m] = t.nodes[m]
  BY <1>8, <1>9, <1>10, LoadsIs
<1> QED
  BY <1>6, <1>7, <1>11, <1>12 DEF Freed

LEMMA FreedListed ==
  ASSUME NEW t, Stored(t), FreeSound(t), NEW n, Loads(t, n),
         NEW u, u = [t EXCEPT !.nodes[n] = [NewNode EXCEPT !.left = t.free, !.overflow = FreeMark], !.free = n]
  PROVE  Freed(t, n, u)
<1>1. n \in DOMAIN t.nodes /\ ~ Marked(t, n) /\ t \in TreeType /\ t.free \in Int /\ n \in Int
  BY LoadsIs, StoredIs
<1>2. PICK d : d = [NewNode EXCEPT !.left = t.free, !.overflow = FreeMark]
  OBVIOUS
<1>3. d \in NodeType /\ d.left = t.free /\ d.overflow = FreeMark
  <2>1. d = [entries |-> <<>>, overflow |-> FreeMark, left |-> t.free, right |-> Null]
    BY <1>2 DEF NewNode
  <2>2. <<>> \in Seq(Entry) /\ FreeMark \in Int /\ Null \in Int
    BY DEF FreeMark, Null
  <2> QED
    BY ONLY <1>1, <2>1, <2>2 DEF NodeType
<1>4. PICK x : x = [t EXCEPT !.nodes[n] = d]
  OBVIOUS
<1>5. /\ Stored(x) /\ x.root = t.root /\ x.free = t.free
      /\ DOMAIN x.nodes = DOMAIN t.nodes /\ Len(x.nodes) = Len(t.nodes)
      /\ x.nodes[n] = d /\ \A m : m # n => x.nodes[m] = t.nodes[m]
  BY <1>1, <1>3, <1>4, NodeChanged
<1>6. u = [x EXCEPT !.free = n]
  BY <1>1, <1>2, <1>4 DEF TreeType
<1>7. x \in TreeType /\ Len(x.nodes) <= MaxNodes
  BY <1>5 DEF Stored
<1>8. u.nodes = x.nodes /\ u.free = n /\ u.root = x.root /\ u \in TreeType
  BY <1>1, <1>6, <1>7 DEF TreeType
<1>9. Stored(u)
  BY <1>7, <1>8 DEF Stored
<1>10. \A m : Marked(u, m) <=> Marked(t, m) \/ m = n
  BY <1>1, <1>3, <1>5, <1>8 DEF Marked
<1>11. \A m : m # n => u.nodes[m] = t.nodes[m]
  BY <1>5, <1>8
<1>12. u.nodes[n].left = t.free
  BY <1>3, <1>5, <1>8
<1>13. FreeSound(u)
  <2>1. ASSUME NEW m, Marked(u, m), u.nodes[m].left # Null
        PROVE  Marked(u, u.nodes[m].left) /\ u.nodes[m].left # u.free
    <3>1. CASE m = n
      BY <1>1, <1>8, <1>10, <1>12, <2>1, <3>1 DEF FreeSound
    <3>2. CASE m # n
      <4>1. Marked(t, m) /\ u.nodes[m].left = t.nodes[m].left
        BY <1>10, <1>11, <2>1, <3>2
      <4>2. Marked(t, t.nodes[m].left)
        BY <2>1, <4>1 DEF FreeSound
      <4> QED
        BY <1>1, <1>8, <1>10, <4>1, <4>2
    <3> QED
      BY <3>1, <3>2
  <2>2. ASSUME NEW m, NEW k, Marked(u, m), Marked(u, k), u.nodes[m].left = u.nodes[k].left, u.nodes[k].left # Null
        PROVE  m = k
    <3>1. \A j : Marked(u, j) /\ j # n => Marked(t, j) /\ u.nodes[j].left = t.nodes[j].left
      BY <1>10, <1>11
    <3>2. \A j : Marked(t, j) /\ t.nodes[j].left # Null => t.nodes[j].left # t.free
      BY DEF FreeSound
    <3>3. CASE m # n /\ k # n
      BY <2>2, <3>1, <3>3 DEF FreeSound
    <3> QED
      BY <1>12, <2>2, <3>1, <3>2, <3>3
  <2> QED
    BY <1>8, <1>10, <2>1, <2>2 DEF FreeSound
<1>14. \A m : m # n /\ Loads(t, m) => Loads(u, m) /\ u.nodes[m] = t.nodes[m]
  BY <1>5, <1>8, <1>10, <1>11, LoadsIs
<1> QED
  BY <1>5, <1>8, <1>9, <1>13, <1>14 DEF Freed

LEMMA FreeIs ==
  ASSUME NEW t, Stored(t), FreeSound(t), NEW n, Loads(t, n)
  PROVE  Freed(t, n, Free(t, n))
<1>1. CASE n = Len(t.nodes)
  BY <1>1, FreedBehind DEF Free
<1>2. CASE n # Len(t.nodes)
  BY <1>2, FreedListed DEF Free
<1> QED
  BY <1>1, <1>2

-----------------------------------------------------------------------------
(* A tree that a key is inserted into.                                     *)

Holds(t, s, m) == Loads(t, m) /\ t.nodes[m].entries = s.entries[m] /\ t.nodes[m].overflow = s.over[m]

\* The stored tree is s but for entry x, which node a does not have yet.
Lacks(t, s, a, i, x) ==
  /\ t.root = s.root /\ a \in s.nodes /\ i \in 0 .. Len(t.nodes[a].entries) /\ x \in Entry
  /\ Loads(t, a) /\ t.nodes[a].overflow = s.over[a]
  /\ s.entries[a] = InsertAt(t.nodes[a].entries, i + 1, x)
  /\ \A m \in s.nodes \ {a} : Holds(t, s, m)

GrowsTo(t, f, st, x, s) ==
  /\ SearchTree(s, {}) /\ Shows(s, f)
  /\ Way(s, {}, st)
  /\ Lacks(t, s, Last(st).node, Last(st).index, x)

Growing(t, f, st, x) == Stored(t) /\ FreeSound(t) /\ \E s : GrowsTo(t, f, st, x, s)

\* A tree that no call changes.
Done(t, f) == Sound(t, f) /\ FreeSound(t)

LEMMA HoldsAll ==
  ASSUME NEW t, NEW s
  PROVE  Represents(t, s) <=> t.root = s.root /\ \A m \in s.nodes : Holds(t, s, m)
  BY DEF Represents, Holds

LEMMA DoneIs ==
  ASSUME NEW t, Stored(t), FreeSound(t), NEW s, SearchTree(s, {}), NEW f, Shows(s, f), t.root = s.root,
         \A m \in s.nodes : Holds(t, s, m)
  PROVE  Done(t, f)
<1>1. Represents(t, s)
  BY HoldsAll
<1> QED
  BY <1>1 DEF Done, Sound

\* What has not been edited is still held.
LEMMA StillHolds ==
  ASSUME NEW t, NEW u, NEW X, Edited(t, u, X), NEW s, NEW m, m \notin X, Holds(t, s, m)
  PROVE  Holds(u, s, m)
<1>1. Loads(t, m) /\ Loads(u, m) /\ m \in DOMAIN t.nodes
  BY EditedIs, LoadsIs DEF Holds
<1>2. u.nodes[m].entries = t.nodes[m].entries /\ u.nodes[m].overflow = t.nodes[m].overflow
  BY <1>1 DEF Edited
<1> QED
  BY <1>1, <1>2 DEF Holds

LEMMA SameSequence ==
  ASSUME NEW S, NEW a \in Seq(S), NEW b \in Seq(S), Len(a) = Len(b), \A j \in 1 .. Len(a) : a[j] = b[j]
  PROVE  a = b
  OBVIOUS

LEMMA GrowthStarts ==
  ASSUME NEW t, NEW f \in Pairs, Done(t, f), NEW k \in Key, f[k] = NoValue, NEW v \in Nat, v # NoValue
  PROVE  Growing(t, [f EXCEPT ![k] = v], Descent(t, k), [key |-> k, value |-> v])
<1>1. Stored(t) /\ FreeSound(t) /\ k \in Int
  BY KeysAreNumbers DEF Done, Sound
<1>2. PICK s : SearchTree(s, {}) /\ Represents(t, s) /\ Shows(s, f)
  BY DEF Done, Sound
<1>3. PICK w : w = Descent(t, k)
  OBVIOUS
<1>4. WayFrom(s, s.root, k, w)
  BY <1>1, <1>2, <1>3, ShownIsFound
<1>5. PICK n : n = Last(w).node
  OBVIOUS
<1>6. PICK i : i = Last(w).index
  OBVIOUS
<1>7. PICK x : x = [key |-> k, value |-> v]
  OBVIOUS
<1>8. PICK e : e = InsertAt(s.entries[n], i + 1, x)
  OBVIOUS
<1>9. PICK z : /\ SearchTree(z, {}) /\ Shows(z, [f EXCEPT ![k] = v]) /\ Way(z, {}, w)
               /\ z.root = s.root /\ z.nodes = s.nodes /\ z.over = s.over /\ z.rank = s.rank
               /\ z.entries[n] = e /\ \A m \in s.nodes : m # n => z.entries[m] = s.entries[m]
  <2>1. e = InsertAt(s.entries[n], i + 1, [key |-> k, value |-> v])
    BY <1>7, <1>8
  <2> QED
    BY ONLY <1>2, <1>4, <1>5, <1>6, <2>1, LeafInserted, f \in Pairs, k \in Key, f[k] = NoValue, v \in Nat, v # NoValue
<1>10. n \in s.nodes /\ i \in 0 .. Len(s.entries[n])
  BY <1>2, <1>4, <1>5, <1>6, AtLeaf
<1>11. t.root = s.root /\ \A m \in s.nodes : Holds(t, s, m)
  BY <1>2, HoldsAll
<1>12. Lacks(t, z, n, i, x)
  <2>1. x \in Entry
    BY <1>7 DEF Entry
  <2>2. Holds(t, s, n)
    BY <1>10, <1>11
  <2>3. \A m \in z.nodes \ {n} : Holds(t, z, m)
    BY <1>9, <1>11 DEF Holds
  <2> QED
    BY <1>8, <1>9, <1>10, <1>11, <2>1, <2>2, <2>3 DEF Lacks, Holds
<1>13. GrowsTo(t, [f EXCEPT ![k] = v], w, x, z)
  BY <1>5, <1>6, <1>9, <1>12 DEF GrowsTo
<1> QED
  BY <1>1, <1>3, <1>7, <1>13 DEF Growing

\* The entry that is missing is put in.
LEMMA KeyAdded ==
  ASSUME NEW t, NEW f, NEW st, NEW x, Growing(t, f, st, x), NEW a, a = Last(st).node, NEW i, i = Last(st).index,
         NEW u, u = [t EXCEPT !.nodes[a].entries = InsertAt(@, i + 1, x)]
  PROVE  Done(u, f)
<1>1. Stored(t) /\ FreeSound(t)
  BY DEF Growing
<1>2. PICK s : GrowsTo(t, f, st, x, s)
  BY DEF Growing
<1>3. SearchTree(s, {}) /\ Shows(s, f) /\ Lacks(t, s, a, i, x)
  BY <1>2 DEF GrowsTo
<1>4. t.root = s.root /\ a \in s.nodes /\ Loads(t, a) /\ t.nodes[a].overflow = s.over[a]
      /\ s.entries[a] = InsertAt(t.nodes[a].entries, i + 1, x)
      /\ \A m \in s.nodes \ {a} : Holds(t, s, m)
  BY <1>3 DEF Lacks
<1>5. a \in DOMAIN t.nodes /\ t.nodes[a] \in NodeType /\ t \in TreeType /\ t.nodes[a].overflow # FreeMark
  BY <1>1, <1>4, LoadsIs, StoredIs DEF Marked
<1>6. PICK d : d = [t.nodes[a] EXCEPT !.entries = s.entries[a]]
  OBVIOUS
<1>7. s.entries[a] \in Seq(Entry)
  BY <1>3, <1>4, ShapeIs DEF SearchTree
<1>8. d \in NodeType /\ d.entries = s.entries[a] /\ d.overflow = t.nodes[a].overflow
  BY <1>5, <1>6, <1>7 DEF NodeType
<1>9. u = [t EXCEPT !.nodes[a] = d]
  BY <1>4, <1>6
<1>10. Edited(t, u, {a}) /\ u.root = t.root /\ u.nodes[a] = d
  <2>1. Given(t, a, d, u)
    BY <1>1, <1>4, <1>5, <1>8, <1>9 DEF Given
  <2> QED
    BY ONLY <2>1, NodeEdited
<1>11. Stored(u) /\ FreeSound(u) /\ Loads(u, a)
  <2>1. Edited(t, u, {a})
    BY <1>10
  <2>2. (Loads(u, a) <=> Loads(t, a)) /\ FreeSound(u)
    BY ONLY <1>1, <2>1, EditedIs
  <2>3. Stored(u)
    BY <2>1 DEF Edited
  <2> QED
    BY <1>4, <2>2, <2>3
<1>12. \A m \in s.nodes : Holds(u, s, m)
  <2>1. Holds(u, s, a)
    BY <1>4, <1>8, <1>10, <1>11 DEF Holds
  <2>2. \A m \in s.nodes \ {a} : Holds(u, s, m)
    BY <1>4, <1>10, StillHolds
  <2> QED
    BY <2>1, <2>2
<1> QED
  BY <1>3, <1>4, <1>10, <1>11, <1>12, DoneIs

\* The first entries of node n go to another node, and the key at b up.
SplitAs(split, s, n, out, b) ==
  /\ split.other.entries = SubSeq(s.entries[n], 1, out)
  /\ split.other.overflow = IF s.rank[n] = 1 THEN Null ELSE s.entries[n][b].value
  /\ split.entries = SubSeq(s.entries[n], b + 1, Len(s.entries[n]))
  /\ split.up = s.entries[n][b].key

\* This is what a split does, when the node with its new entry is node n of the shape.
SplitFrom(s, n, node, i, x, out, b) ==
  /\ s.entries[n] = InsertAt(node.entries, i + 1, x)
  /\ IsLeaf(node) <=> s.rank[n] = 1
  /\ out \in Nat /\ out = SplitAt(s.entries[n], i)
  /\ b = IF s.rank[n] = 1 THEN out ELSE out + 1

LEMMA SplitIs ==
  ASSUME NEW s, NEW n, NEW node, NEW i, NEW x, NEW out, NEW b, SplitFrom(s, n, node, i, x, out, b)
  PROVE  SplitAs(Split(node, i, x), s, n, out, b)
<1> USE DEF SplitFrom, SplitAs
<1>1. CASE s.rank[n] = 1
  BY <1>1 DEF Split
<1>2. CASE s.rank[n] # 1
  <2>1. b = out + 1 /\ b + 1 = out + 2
    BY <1>2
  <2> QED
    BY <1>2, <2>1 DEF Split
<1> QED
  BY <1>1, <1>2

\* The stored halves of node n.
HalvesOf(t, s, n, o, out, b) ==
  /\ Loads(t, o) /\ Loads(t, n)
  /\ t.nodes[o].entries = SubSeq(s.entries[n], 1, out)
  /\ t.nodes[o].overflow = IF s.rank[n] = 1 THEN Null ELSE s.entries[n][b].value
  /\ t.nodes[n].entries = SubSeq(s.entries[n], b + 1, Len(s.entries[n]))
  /\ t.nodes[n].overflow = s.over[n]

\* They are the nodes of the split tree; the parent lacks the key that goes up.
LEMMA SplitHolds ==
  ASSUME NEW s, NEW n, NEW p, NEW i, NEW o, NEW out, NEW b, Divides(s, n, p, i, o, out, b),
         NEW z, RaisedAs(s, n, p, i, o, out, b, z), NEW t, HalvesOf(t, s, n, o, out, b)
  PROVE  /\ Holds(t, z, o) /\ Holds(t, z, n)
         /\ z.entries[p] = InsertAt(s.entries[p], i + 1, [key |-> s.entries[n][b].key, value |-> o])
         /\ z.over[p] = s.over[p] /\ p \in z.nodes
         /\ \A m \in s.nodes \ {n, p} : Holds(t, s, m) => Holds(t, z, m)
<1>1. /\ n \in s.nodes /\ p \in s.nodes /\ n # p /\ o # n /\ o # p /\ o \in Nat
      /\ s.entries[n] \in Seq(Entry) /\ Len(s.entries[n]) \in Nat
      /\ s.entries[p] \in Seq(Entry) /\ Len(s.entries[p]) \in Nat /\ i \in 0 .. Len(s.entries[p])
      /\ out \in Nat /\ b \in Nat /\ out > 0 /\ out < Len(s.entries[n]) /\ b \in 1 .. Len(s.entries[n])
  BY DividesIs
<1>2. /\ z.nodes = s.nodes \cup {o} /\ Shape(z)
      /\ s.rank[n] = 1 => z.over[o] = Null
      /\ s.rank[n] # 1 => z.over[o] = s.entries[n][b].value
      /\ Len(z.entries[o]) = out /\ \A j \in 1 .. out : z.entries[o][j] = s.entries[n][j]
      /\ Len(z.entries[n]) = Len(s.entries[n]) - b
      /\ \A j \in 1 .. Len(s.entries[n]) - b : z.entries[n][j] = s.entries[n][b + j]
      /\ Inserted(s.entries[p], i, [key |-> s.entries[n][b].key, value |-> o], z.entries[p])
  BY DEF RaisedAs
<1>3. \A m \in s.nodes : z.over[m] = s.over[m] /\ (m \notin {n, p} => z.entries[m] = s.entries[m])
  BY DEF RaisedAs
<1>4. z.entries[o] \in Seq(Entry) /\ z.entries[n] \in Seq(Entry) /\ z.entries[p] \in Seq(Entry)
  BY <1>1, <1>2, ShapeIs
<1>5. PICK e : e = s.entries[n]
  OBVIOUS
<1>6. PICK first : first = SubSeq(e, 1, out)
  OBVIOUS
<1>7. PICK rest : rest = SubSeq(e, b + 1, Len(e))
  OBVIOUS
<1>8. first = z.entries[o]
  <2>1. /\ SubSeq(e, 1, out) \in Seq(Entry) /\ Len(SubSeq(e, 1, out)) = out - 1 + 1
        /\ \A j \in 1 .. out - 1 + 1 : SubSeq(e, 1, out)[j] = e[1 + j - 1]
    <3>1. e \in Seq(Entry) /\ 1 \in 1 .. Len(e) + 1 /\ out \in 0 .. Len(e) /\ 1 <= out + 1
      BY <1>1, <1>5
    <3> QED
      BY ONLY <3>1, PartIs
  <2>2. first \in Seq(Entry) /\ Len(first) = out /\ \A j \in 1 .. out : first[j] = e[j]
    BY <1>1, <1>6, <2>1
  <2>3. Len(first) = Len(z.entries[o]) /\ \A j \in 1 .. Len(first) : first[j] = z.entries[o][j]
    BY <1>2, <1>5, <2>2
  <2> QED
    BY <1>4, <2>2, <2>3, SameSequence
<1>9. rest = z.entries[n]
  <2>1. PICK c : c = b + 1
    OBVIOUS
  <2>2. PICK l : l = Len(e)
    OBVIOUS
  <2>3. /\ SubSeq(e, c, l) \in Seq(Entry) /\ Len(SubSeq(e, c, l)) = l - c + 1
        /\ \A j \in 1 .. l - c + 1 : SubSeq(e, c, l)[j] = e[c + j - 1]
    <3>1. e \in Seq(Entry) /\ c \in 1 .. Len(e) + 1 /\ l \in 0 .. Len(e) /\ c <= l + 1
      BY <1>1, <1>5, <2>1, <2>2
    <3> QED
      BY ONLY <3>1, PartIs
  <2>4. l - c + 1 = Len(e) - b /\ l \in Nat /\ \A j \in 1 .. Len(e) - b : c + j - 1 = b + j
    BY <1>1, <1>5, <2>1, <2>2
  <2>5. rest = SubSeq(e, c, l)
    BY <1>7, <2>1, <2>2
  <2>6. rest \in Seq(Entry) /\ Len(rest) = Len(e) - b /\ \A j \in 1 .. Len(e) - b : rest[j] = e[b + j]
    BY <2>3, <2>4, <2>5
  <2>7. Len(rest) = Len(z.entries[n]) /\ \A j \in 1 .. Len(rest) : rest[j] = z.entries[n][j]
    BY <1>2, <1>5, <2>6
  <2> QED
    BY <1>4, <2>6, <2>7, SameSequence
<1>10. Holds(t, z, o)
  BY <1>2, <1>5, <1>6, <1>8 DEF HalvesOf, Holds
<1>11. Holds(t, z, n)
  BY <1>1, <1>3, <1>5, <1>7, <1>9 DEF HalvesOf, Holds
<1>12. z.entries[p] = InsertAt(s.entries[p], i + 1, [key |-> s.entries[n][b].key, value |-> o])
  <2>1. PICK x : x = [key |-> s.entries[n][b].key, value |-> o]
    OBVIOUS
  <2>2. PICK g : g = s.entries[p]
    OBVIOUS
  <2>3. PICK d : d = InsertAt(g, i + 1, x)
    OBVIOUS
  <2>4. x \in Entry
    <3>1. s.entries[n][b].key \in Key
      BY <1>1, EntryIs
    <3> QED
      BY <1>1, <2>1, <3>1 DEF Entry
  <2>5. /\ InsertAt(g, i + 1, x) \in Seq(Entry) /\ Len(InsertAt(g, i + 1, x)) = Len(g) + 1
        /\ \A j \in 1 .. Len(g) + 1 :
             InsertAt(g, i + 1, x)[j] = IF j < i + 1 THEN g[j] ELSE IF j = i + 1 THEN x ELSE g[j - 1]
    <3>1. PICK c : c = i + 1
      OBVIOUS
    <3>2. g \in Seq(Entry) /\ c \in 1 .. Len(g) + 1
      BY <1>1, <2>2, <3>1
    <3>3. /\ InsertAt(g, c, x) \in Seq(Entry) /\ Len(InsertAt(g, c, x)) = Len(g) + 1
          /\ \A j \in 1 .. Len(g) + 1 : InsertAt(g, c, x)[j] = IF j < c THEN g[j] ELSE IF j = c THEN x ELSE g[j - 1]
      BY ONLY <2>4, <3>2, InsertAtIs
    <3> QED
      BY <3>1, <3>3
  <2>6. /\ Len(z.entries[p]) = Len(g) + 1
        /\ \A j \in 1 .. Len(g) + 1 :
             z.entries[p][j] = IF j < i + 1 THEN g[j] ELSE IF j = i + 1 THEN x ELSE g[j - 1]
    BY <1>2, <2>1, <2>2 DEF Inserted
  <2>7. d \in Seq(Entry) /\ Len(z.entries[p]) = Len(d) /\ \A j \in 1 .. Len(z.entries[p]) : z.entries[p][j] = d[j]
    BY <2>3, <2>5, <2>6
  <2> QED
    BY <1>4, <2>1, <2>2, <2>3, <2>7, SameSequence
<1>13. \A m \in s.nodes \ {n, p} : Holds(t, s, m) => Holds(t, z, m)
  BY <1>3 DEF Holds
<1> QED
  BY <1>1, <1>2, <1>3, <1>10, <1>11, <1>12, <1>13

\* Node n can be replaced by halves.
Halves(t, n, o, split) ==
  /\ Stored(t) /\ Loads(t, n) /\ o \in Nat /\ Loads(t, o) /\ o # n
  /\ split.other.entries \in Seq(Entry) /\ split.entries \in Seq(Entry)
  /\ split.other.overflow \in Int /\ split.other.overflow # FreeMark

\* They are stored.
LEMMA SplitStored ==
  ASSUME NEW t, NEW n, NEW o, NEW split, Halves(t, n, o, split), NEW told, NEW u, u = SplitNodes(t, n, o, split, told)
  PROVE  /\ Edited(t, u, {n, o}) /\ u.root = t.root
         /\ u.nodes[o].entries = split.other.entries /\ u.nodes[o].overflow = split.other.overflow
         /\ u.nodes[n].entries = split.entries /\ u.nodes[n].overflow = t.nodes[n].overflow
<1>0. /\ Stored(t) /\ Loads(t, n) /\ o \in Nat /\ Loads(t, o) /\ o # n
      /\ split.other.entries \in Seq(Entry) /\ split.entries \in Seq(Entry)
      /\ split.other.overflow \in Int /\ split.other.overflow # FreeMark
  BY DEF Halves
<1>1. /\ n \in DOMAIN t.nodes /\ o \in DOMAIN t.nodes /\ t.nodes[n] \in NodeType /\ t \in TreeType
      /\ t.nodes[n].overflow # FreeMark /\ n \in Int
  BY <1>0, LoadsIs, StoredIs DEF Marked
<1>2. PICK c : c = [entries |-> split.other.entries, overflow |-> split.other.overflow,
                    left |-> t.nodes[n].left, right |-> n]
  OBVIOUS
<1>3. c \in NodeType /\ c.overflow # FreeMark
      /\ c.entries = split.other.entries /\ c.overflow = split.other.overflow
  BY <1>0, <1>1, <1>2 DEF NodeType
<1>4. PICK v : v = [t EXCEPT !.nodes[o] = c]
  OBVIOUS
<1>5. Given(t, o, c, v)
  BY <1>0, <1>3, <1>4 DEF Given
<1>6. Edited(t, v, {o}) /\ v.root = t.root /\ v.nodes[o] = c
  BY ONLY <1>5, NodeEdited
<1>7. Stored(v) /\ v \in TreeType /\ DOMAIN v.nodes = DOMAIN t.nodes /\ Loads(v, n) /\ v.nodes[n] = t.nodes[n]
  <2>1. Stored(v)
    BY <1>6 DEF Edited
  <2>2. Loads(v, n)
    BY ONLY <1>0, <1>6, EditedIs
  <2>3. v.nodes[n] = t.nodes[n] /\ DOMAIN v.nodes = DOMAIN t.nodes
    BY ONLY <1>1, <1>3, <1>4, <1>0, NodeChanged
  <2> QED
    BY <2>1, <2>2, <2>3, StoredIs
<1>8. PICK d : d = [t.nodes[n] EXCEPT !.entries = split.entries, !.left = o]
  OBVIOUS
<1>9. d \in NodeType /\ d.overflow = t.nodes[n].overflow /\ d.entries = split.entries
  <2>1. o \in Int
    BY <1>0
  <2> QED
    BY <1>0, <1>1, <1>8, <2>1 DEF NodeType
<1>10. PICK w : w = [v EXCEPT !.nodes[n] = d]
  OBVIOUS
<1>11. Given(v, n, d, w)
  BY <1>1, <1>7, <1>9, <1>10 DEF Given
<1>12. Edited(v, w, {n}) /\ w.root = v.root /\ w.nodes[n] = d
  BY ONLY <1>11, NodeEdited
<1>13. w.nodes[o] = c
  <2>1. n \in DOMAIN v.nodes /\ d \in NodeType
    BY <1>1, <1>7, <1>9
  <2>2. w.nodes[o] = v.nodes[o]
    BY ONLY <1>7, <1>10, <2>1, <1>0, NodeChanged
  <2> QED
    BY <1>6, <2>2
<1>14. w = [t EXCEPT !.nodes[o] = c, !.nodes[n].entries = split.entries, !.nodes[n].left = o]
  <2>1. PICK ns : ns = t.nodes
    OBVIOUS
  <2>2. [ns EXCEPT ![o] = c, ![n] = d] = [ns EXCEPT ![o] = c, ![n].entries = split.entries, ![n].left = o]
    BY <1>0, <1>1, <1>8, <2>1
  <2> QED
    BY <1>0, <1>1, <1>4, <1>8, <1>10, <2>1, <2>2 DEF TreeType
<1>15. t.nodes[n].left \in Int
  BY <1>1 DEF NodeType
<1>16. u = SetRight(w, t.nodes[n].left, o, told)
  BY <1>2, <1>14 DEF SplitNodes
<1>17. Stored(w)
  BY <1>12 DEF Edited
<1>18. o \in Int
  BY <1>0
<1>19. Edited(w, u, {}) /\ u.root = w.root
  BY <1>15, <1>16, <1>17, <1>18, Relinked
<1>20. Edited(t, u, {n, o})
  <2>1. Edited(t, w, {o} \cup {n})
    BY <1>6, <1>12, EditedTwice
  <2>2. Edited(t, u, ({o} \cup {n}) \cup {})
    BY <1>19, <2>1, EditedTwice
  <2>3. ({o} \cup {n}) \cup {} = {n, o}
    OBVIOUS
  <2> QED
    BY <2>2, <2>3
<1>21. u.nodes[o].entries = c.entries /\ u.nodes[o].overflow = c.overflow
       /\ u.nodes[n].entries = d.entries /\ u.nodes[n].overflow = d.overflow
  <2>1. n \in DOMAIN w.nodes /\ o \in DOMAIN w.nodes
    BY <1>1, <1>7, <1>12 DEF Edited
  <2>2. \A m \in DOMAIN w.nodes : u.nodes[m].entries = w.nodes[m].entries /\ u.nodes[m].overflow = w.nodes[m].overflow
    BY <1>19 DEF Edited
  <2> QED
    BY <1>12, <1>13, <2>1, <2>2
<1> QED
  BY <1>3, <1>6, <1>9, <1>12, <1>19, <1>20, <1>21

\* The node has no room for the entry.
Full(t, a, x) == Space(Bytes(t.nodes[a].entries) + KeyLength[x.key], Len(t.nodes[a].entries) + 1) >= NodeSize

\* What there is to split.
LEMMA GrowthIs ==
  ASSUME NEW t, Stored(t), NEW f, NEW st, NEW x, NEW s, GrowsTo(t, f, st, x, s),
         NEW a, a = Last(st).node, NEW i, i = Last(st).index
  PROVE  /\ SearchTree(s, {}) /\ Shape(s) /\ Shows(s, f) /\ Way(s, {}, st) /\ t.root = s.root
         /\ a \in s.nodes /\ i \in Nat /\ Loads(t, a) /\ Node(t, a) = t.nodes[a] /\ t.nodes[a].overflow = s.over[a]
         /\ t.nodes[a].entries \in Seq(Entry) /\ i \in 0 .. Len(t.nodes[a].entries) /\ x \in Entry
         /\ s.entries[a] = InsertAt(t.nodes[a].entries, i + 1, x) /\ s.entries[a] # <<>>
         /\ s.entries[a] \in Seq(Entry) /\ Len(s.entries[a]) = Len(t.nodes[a].entries) + 1
         /\ \A m \in s.nodes \ {a} : Holds(t, s, m)
         /\ IsLeaf(Node(t, a)) <=> s.rank[a] = 1
<1>1. SearchTree(s, {}) /\ Shape(s) /\ Shows(s, f) /\ Way(s, {}, st) /\ Lacks(t, s, a, i, x)
  BY DEF GrowsTo, SearchTree
<1>2. /\ t.root = s.root /\ a \in s.nodes /\ i \in 0 .. Len(t.nodes[a].entries) /\ x \in Entry
      /\ Loads(t, a) /\ t.nodes[a].overflow = s.over[a]
      /\ s.entries[a] = InsertAt(t.nodes[a].entries, i + 1, x)
      /\ \A m \in s.nodes \ {a} : Holds(t, s, m)
  BY <1>1 DEF Lacks
<1>3. Node(t, a) = t.nodes[a] /\ t.nodes[a].entries \in Seq(Entry)
  <2>1. Node(t, a) = t.nodes[a] /\ a \in DOMAIN t.nodes
    BY <1>2, LoadsIs
  <2>2. t.nodes[a] \in NodeType
    BY <2>1, StoredIs
  <2> QED
    BY <2>1, <2>2 DEF NodeType
<1>4. PICK c : c = i + 1
  OBVIOUS
<1>5. PICK e : e = t.nodes[a].entries
  OBVIOUS
<1>6. e \in Seq(Entry) /\ Len(e) \in Nat /\ c \in 1 .. Len(e) + 1 /\ i \in Nat
  <2>1. e \in Seq(Entry) /\ Len(e) \in Nat
    BY <1>3, <1>5, LengthIs
  <2> QED
    BY <1>2, <1>4, <1>5, <2>1
<1>7. InsertAt(e, c, x) \in Seq(Entry) /\ Len(InsertAt(e, c, x)) = Len(e) + 1
  BY ONLY <1>2, <1>6, InsertAtIs
<1>8. s.entries[a] \in Seq(Entry) /\ Len(s.entries[a]) = Len(e) + 1
  BY <1>2, <1>4, <1>5, <1>7
<1>9. s.entries[a] # <<>>
  BY <1>6, <1>8
<1>10. IsLeaf(Node(t, a)) <=> s.rank[a] = 1
  <2>1. Ordered(s, a)
    BY <1>1, <1>2 DEF SearchTree
  <2> QED
    BY <1>2, <1>3, <2>1 DEF Ordered, IsLeaf
<1> QED
  BY <1>1, <1>2, <1>3, <1>5, <1>6, <1>8, <1>9, <1>10

\* Where it is split.
LEMMA OutIs ==
  ASSUME KeysAreShort, NEW t, Stored(t), NEW f, NEW st, NEW x, NEW s, GrowsTo(t, f, st, x, s),
         NEW a, a = Last(st).node, NEW i, i = Last(st).index, Full(t, a, x)
  PROVE  SplitAt(s.entries[a], i) \in 1 .. Len(s.entries[a]) - 1 /\ SplitAt(s.entries[a], i) \in Nat
<1>1. /\ i \in Nat /\ t.nodes[a].entries \in Seq(Entry) /\ i \in 0 .. Len(t.nodes[a].entries) /\ x \in Entry
      /\ s.entries[a] = InsertAt(t.nodes[a].entries, i + 1, x) /\ s.entries[a] # <<>>
      /\ s.entries[a] \in Seq(Entry) /\ Len(s.entries[a]) = Len(t.nodes[a].entries) + 1
  BY GrowthIs
<1>2. PICK c : c = i + 1
  OBVIOUS
<1>3. PICK e : e = t.nodes[a].entries
  OBVIOUS
<1>4. PICK d : d = s.entries[a]
  OBVIOUS
<1>5. e \in Seq(Entry) /\ c \in 1 .. Len(e) + 1 /\ d = InsertAt(e, c, x)
  <2>1. Len(e) \in Nat
    BY <1>1, <1>3, LengthIs
  <2> QED
    BY <1>1, <1>2, <1>3, <1>4, <2>1
<1>6. Bytes(d) = Bytes(e) + KeyLength[x.key]
  BY ONLY <1>1, <1>5, BytesInserted
<1>7. Used(d) >= NodeSize
  BY <1>1, <1>3, <1>4, <1>6 DEF Full, Used
<1>8. d \in Seq(Entry) /\ d # <<>>
  BY <1>1, <1>4
<1>9. SplitAt(d, i) \in 1 .. Len(d) - 1
  BY ONLY <1>1, <1>7, <1>8, SplitAtIs, KeysAreShort
<1>10. Len(d) \in Nat
  BY <1>8, LengthIs
<1>11. SplitAt(d, i) \in Nat
  BY <1>9, <1>10
<1> QED
  BY <1>4, <1>9, <1>11

Ready(t, s, n, o) == Stored(t) /\ Loads(t, n) /\ Loads(t, o) /\ t.nodes[n].overflow = s.over[n]

\* The split node in the store.
LEMMA HalvesStored ==
  ASSUME NEW s, NEW n, NEW p, NEW j, NEW o, NEW out, NEW b, Divides(s, n, p, j, o, out, b),
         NEW t, Ready(t, s, n, o), NEW split, SplitAs(split, s, n, out, b),
         NEW told, NEW u, u = SplitNodes(t, n, o, split, told)
  PROVE  HalvesOf(u, s, n, o, out, b) /\ Edited(t, u, {n, o}) /\ u.root = t.root
<1> USE DEF SplitAs, Ready
<1>1. /\ n # o /\ o \in Nat /\ s.entries[n] \in Seq(Entry) /\ Len(s.entries[n]) \in Nat
      /\ out \in Nat /\ b \in Nat /\ out > 0 /\ out < Len(s.entries[n]) /\ b \in 1 .. Len(s.entries[n])
  BY DividesIs
<1>2. split.other.entries \in Seq(Entry)
  <2>1. 1 \in 1 .. Len(s.entries[n]) + 1 /\ out \in 0 .. Len(s.entries[n]) /\ 1 <= out + 1
    BY <1>1
  <2>2. SubSeq(s.entries[n], 1, out) \in Seq(Entry)
    BY <1>1, <2>1, PartIs
  <2> QED
    BY <2>2
<1>3. split.entries \in Seq(Entry)
  <2>1. PICK c : c = b + 1
    OBVIOUS
  <2>2. PICK l : l = Len(s.entries[n])
    OBVIOUS
  <2>3. c \in 1 .. Len(s.entries[n]) + 1 /\ l \in 0 .. Len(s.entries[n]) /\ c <= l + 1
    BY <1>1, <2>1, <2>2
  <2>4. SubSeq(s.entries[n], c, l) \in Seq(Entry)
    BY <1>1, <2>3, PartIs
  <2> QED
    BY <2>1, <2>2, <2>4
<1>4. split.other.overflow \in Int /\ split.other.overflow # FreeMark
  <2>1. s.entries[n][b].value \in Nat
    BY <1>1, EntryIs
  <2> QED
    BY <2>1 DEF Null, FreeMark
<1>5. /\ Edited(t, u, {n, o}) /\ u.root = t.root
      /\ u.nodes[o].entries = split.other.entries /\ u.nodes[o].overflow = split.other.overflow
      /\ u.nodes[n].entries = split.entries /\ u.nodes[n].overflow = t.nodes[n].overflow
  <2>1. Halves(t, n, o, split)
    BY <1>1, <1>2, <1>3, <1>4 DEF Halves
  <2> QED
    BY ONLY <2>1, SplitStored, u = SplitNodes(t, n, o, split, told)
<1>6. Loads(u, o) /\ Loads(u, n)
  BY <1>5, EditedIs
<1> QED
  BY <1>5, <1>6 DEF HalvesOf

\* The nodes in front of the last one of a way.
LEMMA WayAbove ==
  ASSUME NEW s, NEW missing, SearchTree(s, missing), NEW st, Way(s, missing, st), Last(st).node # s.root
  PROVE  \E l \in Nat : /\ l = Len(st) /\ l > 1 /\ st[l] = Last(st) /\ st # <<>>
                        /\ st[l - 1].node \in s.nodes /\ st[l - 1].index \in Nat
                        /\ s.rank[st[l - 1].node] > 1 /\ s.rank[st[l].node] = s.rank[st[l - 1].node] - 1
                        /\ Slot(s, missing, st[l - 1].node, st[l - 1].index)
                        /\ Below(s, st[l - 1].node, st[l - 1].index) = st[l].node
<1>1. st \in Seq([node : Nat, index : Nat]) /\ st # <<>> /\ st[1].node = s.root
  BY DEF Way
<1>2. PICK l : l = Len(st)
  OBVIOUS
<1>3. l \in Nat /\ l > 0 /\ Last(st) = st[l]
  <2>1. PICK S : S = [node : Nat, index : Nat]
    OBVIOUS
  <2>2. st \in Seq(S) /\ st # <<>>
    BY <1>1, <2>1
  <2>3. Len(st) \in Nat \ {0} /\ Last(st) = st[Len(st)]
    BY ONLY <2>2, FrontIs
  <2> QED
    BY <1>2, <2>3
<1>4. l # 1
  BY <1>1, <1>3
<1>5. PICK j : j = l - 1
  OBVIOUS
<1>6. j \in 1 .. Len(st) - 1 /\ j \in 1 .. Len(st) /\ j + 1 = l
  BY <1>2, <1>3, <1>4, <1>5
<1>7. Slot(s, missing, st[j].node, st[j].index) /\ Below(s, st[j].node, st[j].index) = st[l].node
  BY <1>6 DEF Way
<1>8. st[j] \in [node : Nat, index : Nat]
  BY <1>1, <1>6, ElementIs
<1>9. st[j].node \in s.nodes /\ st[j].index \in Nat /\ s.rank[st[j].node] > 1
  BY <1>7, <1>8 DEF Slot
<1>10. s.rank[st[l].node] = s.rank[st[j].node] - 1
  <2>1. Leads(s, st[j].node, st[j].index)
    BY <1>7, <1>9 DEF SearchTree
  <2> QED
    BY <1>7, <2>1 DEF Leads
<1>11. /\ l = Len(st) /\ l > 1 /\ st[l] = Last(st) /\ st # <<>>
       /\ st[l - 1].node \in s.nodes /\ st[l - 1].index \in Nat
       /\ s.rank[st[l - 1].node] > 1 /\ s.rank[st[l].node] = s.rank[st[l - 1].node] - 1
       /\ Slot(s, missing, st[l - 1].node, st[l - 1].index)
       /\ Below(s, st[l - 1].node, st[l - 1].index) = st[l].node
  BY <1>1, <1>2, <1>3, <1>4, <1>5, <1>7, <1>9, <1>10
<1> QED
  BY <1>3, <1>11

\* A node other than the root is split.
LEMMA GoesUp ==
  ASSUME KeysAreShort, NEW t, NEW f, NEW st, NEW x, Growing(t, f, st, x), NEW a, a = Last(st).node,
         NEW i, i = Last(st).index, Full(t, a, x), a # t.root, NEW y \in Allocate(t),
         NEW split, split = Split(Node(t, a), i, x), NEW told,
         NEW u, u = SplitNodes(y.tree, a, y.node, split, told)
  PROVE  /\ Growing(u, f, Front(st), [key |-> split.up, value |-> y.node])
         /\ st # <<>> /\ Front(st) # <<>> /\ ~ IsLeaf(Node(u, Last(Front(st)).node))
         /\ split.up \in Key /\ y.node \in Nat
<1>1. Stored(t) /\ FreeSound(t)
  BY DEF Growing
<1>2. PICK s : GrowsTo(t, f, st, x, s)
  BY DEF Growing
<1>3. /\ SearchTree(s, {}) /\ Shape(s) /\ Shows(s, f) /\ Way(s, {}, st) /\ t.root = s.root
      /\ a \in s.nodes /\ i \in Nat /\ Loads(t, a) /\ Node(t, a) = t.nodes[a] /\ t.nodes[a].overflow = s.over[a]
      /\ s.entries[a] = InsertAt(t.nodes[a].entries, i + 1, x)
      /\ \A m \in s.nodes \ {a} : Holds(t, s, m)
      /\ IsLeaf(Node(t, a)) <=> s.rank[a] = 1
  BY <1>1, <1>2, GrowthIs
<1>4. PICK out : out = SplitAt(s.entries[a], i)
  OBVIOUS
<1>5. out \in 1 .. Len(s.entries[a]) - 1 /\ out \in Nat
  BY <1>1, <1>2, <1>4, OutIs
<1>6. PICK b : b = IF s.rank[a] = 1 THEN out ELSE out + 1
  OBVIOUS
<1>7. SplitAs(split, s, a, out, b)
  <2>1. PICK node : node = Node(t, a)
    OBVIOUS
  <2>2. SplitFrom(s, a, node, i, x, out, b)
    BY <1>3, <1>4, <1>5, <1>6, <2>1 DEF SplitFrom
  <2>3. SplitAs(Split(node, i, x), s, a, out, b)
    BY ONLY <2>2, SplitIs
  <2> QED
    BY <2>1, <2>3
<1>8. PICK v : v = y.tree
  OBVIOUS
<1>9. PICK o : o = y.node
  OBVIOUS
<1>10. Allocated(t, o, v)
  BY <1>1, <1>8, <1>9, AllocateIs
<1>11. /\ Stored(v) /\ FreeSound(v) /\ v.root = t.root /\ o \in Nat /\ ~ Loads(t, o) /\ Loads(v, o)
       /\ \A m : Loads(t, m) => Loads(v, m) /\ v.nodes[m] = t.nodes[m]
  BY <1>10 DEF Allocated
<1>12. PICK l \in Nat : /\ l = Len(st) /\ l > 1 /\ st[l] = Last(st) /\ st # <<>>
                        /\ st[l - 1].node \in s.nodes /\ st[l - 1].index \in Nat
                        /\ s.rank[st[l - 1].node] > 1 /\ s.rank[st[l].node] = s.rank[st[l - 1].node] - 1
                        /\ Slot(s, {}, st[l - 1].node, st[l - 1].index)
                        /\ Below(s, st[l - 1].node, st[l - 1].index) = st[l].node
  <2>1. Last(st).node # s.root
    BY <1>3
  <2> QED
    BY ONLY <1>3, <2>1, WayAbove
<1>13. PICK p : p = st[l - 1].node
  OBVIOUS
<1>14. PICK j : j = st[l - 1].index
  OBVIOUS
<1>15. o \notin s.nodes
  <2>1. \A m \in s.nodes : Loads(t, m)
    BY <1>3 DEF Holds
  <2> QED
    BY <1>11, <2>1
<1>16. Divides(s, a, p, j, o, out, b)
  BY <1>3, <1>5, <1>6, <1>11, <1>12, <1>13, <1>14, <1>15 DEF Divides
<1>17. PICK z : RaisedAs(s, a, p, j, o, out, b, z) /\ SearchTree(z, {}) /\ \A k, w : Has(z, k, w) <=> Has(s, k, w)
  BY ONLY <1>16, NodeSplit
<1>18. Way(z, {}, Front(st)) /\ Len(Front(st)) = l - 1 /\ Last(Front(st)) = st[l - 1]
  BY ONLY <1>3, <1>12, <1>13, <1>16, <1>17, WayToParent
<1>19. HalvesOf(u, s, a, o, out, b) /\ Edited(v, u, {a, o}) /\ u.root = v.root
  <2>1. Ready(v, s, a, o)
    BY <1>3, <1>11 DEF Ready
  <2>2. u = SplitNodes(v, a, o, split, told)
    BY <1>8, <1>9
  <2> QED
    BY ONLY <1>7, <1>16, <2>1, <2>2, HalvesStored
<1>20. /\ Holds(u, z, o) /\ Holds(u, z, a)
       /\ z.entries[p] = InsertAt(s.entries[p], j + 1, [key |-> s.entries[a][b].key, value |-> o])
       /\ z.over[p] = s.over[p] /\ p \in z.nodes
       /\ \A m \in s.nodes \ {a, p} : Holds(u, s, m) => Holds(u, z, m)
  BY ONLY <1>16, <1>17, <1>19, SplitHolds
<1>21. a # p /\ o # p /\ z.nodes = s.nodes \cup {o} /\ z.root = s.root
       /\ s.entries[p] \in Seq(Entry) /\ Len(s.entries[p]) \in Nat /\ j \in 0 .. Len(s.entries[p])
       /\ s.entries[a] \in Seq(Entry) /\ b \in 1 .. Len(s.entries[a]) /\ p \in s.nodes /\ s.rank[p] > 1
  BY <1>16, <1>17, DividesIs DEF RaisedAs
<1>22. ASSUME NEW m \in s.nodes \ {a}
       PROVE  Holds(u, s, m)
  <2>1. Holds(t, s, m)
    BY <1>3
  <2>2. Holds(v, s, m)
    BY <1>11, <2>1 DEF Holds
  <2>3. m \notin {a, o}
    BY <1>15
  <2> QED
    BY <1>19, <2>2, <2>3, StillHolds
<1>23. PICK x2 : x2 = [key |-> split.up, value |-> o]
  OBVIOUS
<1>24. split.up \in Key /\ x2 \in Entry
  <2>1. split.up \in Key
    BY <1>7, <1>21, EntryIs DEF SplitAs
  <2> QED
    BY <1>11, <1>23, <2>1 DEF Entry
<1>25. Lacks(u, z, p, j, x2)
  <2>1. Holds(u, s, p)
    BY <1>21, <1>22
  <2>2. u.root = z.root
    BY <1>3, <1>11, <1>19, <1>21
  <2>3. \A m \in z.nodes \ {p} : Holds(u, z, m)
    BY <1>20, <1>21, <1>22
  <2>4. Loads(u, p) /\ u.nodes[p].entries = s.entries[p] /\ u.nodes[p].overflow = z.over[p]
    BY <1>20, <2>1 DEF Holds
  <2>5. z.entries[p] = InsertAt(u.nodes[p].entries, j + 1, x2)
    BY <1>7, <1>20, <1>23, <2>4 DEF SplitAs
  <2> QED
    BY <1>20, <1>21, <1>24, <2>2, <2>3, <2>4, <2>5 DEF Lacks
<1>26. Shows(z, f)
  BY <1>3, <1>17 DEF Shows
<1>27. GrowsTo(u, f, Front(st), x2, z)
  <2>1. Last(Front(st)).node = p /\ Last(Front(st)).index = j
    BY <1>13, <1>14, <1>18
  <2> QED
    BY <1>17, <1>18, <1>25, <1>26, <2>1 DEF GrowsTo
<1>28. Stored(u) /\ FreeSound(u)
  <2>1. FreeSound(u)
    BY ONLY <1>11, <1>19, EditedIs
  <2> QED
    BY <1>19, <2>1 DEF Edited
<1>29. Growing(u, f, Front(st), [key |-> split.up, value |-> y.node])
  BY <1>9, <1>23, <1>27, <1>28 DEF Growing
<1>30. Front(st) # <<>>
  BY <1>18 DEF Way
<1>31. ~ IsLeaf(Node(u, Last(Front(st)).node))
  <2>1. z.rank[p] = s.rank[p]
    BY <1>17, <1>21 DEF RaisedAs
  <2>2. IsLeaf(Node(u, Last(Front(st)).node)) <=> z.rank[Last(Front(st)).node] = 1
    BY <1>27, <1>28, GrowthIs
  <2> QED
    BY <1>13, <1>18, <1>21, <2>1, <2>2
<1> QED
  BY <1>9, <1>11, <1>12, <1>24, <1>29, <1>30, <1>31

LEMMA OnlyEntry ==
  ASSUME NEW x \in Entry, NEW c, c = 1
  PROVE  InsertAt(<<>>, c, x) = <<x>> /\ <<x>> \in Seq(Entry)
<1>0. x \in Entry
  OBVIOUS
<1>1. PICK e : e = <<>>
  OBVIOUS
<1>2. e \in Seq(Entry) /\ Len(e) = 0 /\ c \in 1 .. Len(e) + 1
  BY <1>1
<1>3. /\ InsertAt(e, c, x) \in Seq(Entry) /\ Len(InsertAt(e, c, x)) = Len(e) + 1
      /\ \A j \in 1 .. Len(e) + 1 : InsertAt(e, c, x)[j] = IF j < c THEN e[j] ELSE IF j = c THEN x ELSE e[j - 1]
  <2>1. e \in Seq(Entry) /\ c \in 1 .. Len(e) + 1
    BY <1>2
  <2> QED
    BY ONLY <1>0, <2>1, InsertAtIs
<1>4. PICK d : d = InsertAt(e, c, x)
  OBVIOUS
<1>5. PICK g : g = <<x>>
  OBVIOUS
<1>6. g \in Seq(Entry) /\ Len(g) = 1 /\ g[1] = x
  BY <1>5
<1>7. d \in Seq(Entry) /\ Len(d) = 1 /\ d[1] = x
  BY <1>2, <1>3, <1>4
<1>8. Len(d) = Len(g) /\ \A j \in 1 .. Len(d) : d[j] = g[j]
  BY <1>6, <1>7
<1>9. d = g
  BY ONLY <1>6, <1>7, <1>8, SameSequence
<1> QED
  BY <1>1, <1>4, <1>5, <1>6, <1>9

\* The new root is stored.
RootReady(t, r, n, o, k) == Stored(t) /\ Loads(t, r) /\ r \in Nat /\ n \in Nat /\ o \in Nat /\ k \in Key

LEMMA RootStored ==
  ASSUME NEW t, NEW r, NEW n, NEW o, NEW k, RootReady(t, r, n, o, k), NEW u, u = Rooted(t, r, n, o, k)
  PROVE  /\ Stored(u) /\ u.root = r /\ (FreeSound(t) => FreeSound(u))
         /\ Loads(u, r) /\ u.nodes[r].entries = <<[key |-> k, value |-> o]>> /\ u.nodes[r].overflow = n
         /\ \A s, m : m # r /\ Holds(t, s, m) => Holds(u, s, m)
<1> USE DEF RootReady
<1>1. PICK x : x = [key |-> k, value |-> o]
  OBVIOUS
<1>2. x \in Entry
  BY <1>1 DEF Entry
<1>3. <<x>> \in Seq(Entry)
  BY <1>2
<1>4. PICK c : c = [NewNode EXCEPT !.entries = <<x>>, !.overflow = n]
  OBVIOUS
<1>5. c \in NodeType /\ c.entries = <<x>> /\ c.overflow = n /\ c.overflow # FreeMark
  <2>1. c = [entries |-> <<x>>, overflow |-> n, left |-> Null, right |-> Null]
    BY <1>4 DEF NewNode
  <2>2. Null \in Int /\ n \in Int /\ n # FreeMark
    BY DEF Null, FreeMark
  <2> QED
    BY ONLY <1>3, <2>1, <2>2 DEF NodeType
<1>6. PICK w : w = [t EXCEPT !.nodes[r] = c]
  OBVIOUS
<1>7. Given(t, r, c, w)
  BY <1>5, <1>6 DEF Given
<1>8. Edited(t, w, {r}) /\ w.levels = t.levels /\ w.nodes[r] = c
  BY ONLY <1>7, NodeEdited
<1>9. Stored(w) /\ w \in TreeType /\ w.levels \in Int /\ t \in TreeType /\ Len(w.nodes) <= MaxNodes
  <2>1. Stored(w)
    BY <1>8 DEF Edited
  <2> QED
    BY <2>1, StoredIs
<1>10. u = [w EXCEPT !.root = r, !.levels = @ + 1]
  BY <1>1, <1>4, <1>6, <1>9 DEF Rooted, TreeType
<1>100. PICK l : l = w.levels + 1
  OBVIOUS
<1>101. u = [w EXCEPT !.root = r, !.levels = l] /\ l \in Int
  BY <1>9, <1>10, <1>100
<1>11. u \in TreeType /\ u.nodes = w.nodes /\ u.free = w.free /\ u.root = r
  BY <1>9, <1>101 DEF TreeType
<1>12. Stored(u)
  BY <1>9, <1>11 DEF Stored
<1>13. (\A m : Marked(u, m) <=> Marked(w, m)) /\ (\A m : Loads(u, m) <=> Loads(w, m))
  BY <1>11 DEF Marked, Loads
<1>14. FreeSound(t) => FreeSound(u)
  <2>1. FreeSound(t) => FreeSound(w)
    BY ONLY <1>8, EditedIs
  <2>2. FreeSound(w) => FreeSound(u)
    BY <1>11, <1>13 DEF FreeSound
  <2> QED
    BY <2>1, <2>2
<1>15. Loads(u, r)
  <2>1. Loads(w, r) <=> Loads(t, r)
    BY ONLY <1>8, EditedIs
  <2> QED
    BY <1>13, <2>1
<1>16. ASSUME NEW s, NEW m, m # r, Holds(t, s, m)
       PROVE  Holds(u, s, m)
  <2>1. m \notin {r}
    BY <1>16
  <2>2. Holds(w, s, m)
    BY ONLY <1>8, <1>16, <2>1, StillHolds
  <2> QED
    BY <1>11, <1>13, <2>2 DEF Holds
<1> QED
  BY <1>1, <1>5, <1>8, <1>11, <1>12, <1>14, <1>15, <1>16

\* The root is split, and there is a new one.
LEMMA RootSplit ==
  ASSUME KeysAreShort, NEW t, NEW f, NEW st, NEW x, Growing(t, f, st, x), NEW a, a = Last(st).node,
         NEW i, i = Last(st).index, Full(t, a, x), a = t.root, NEW rn \in Allocate(t), NEW y \in Allocate(rn.tree),
         NEW split, split = Split(Node(t, a), i, x),
         NEW told, NEW u, u = Rooted(SplitNodes(y.tree, a, y.node, split, told), rn.node, a, y.node, split.up)
  PROVE  Done(u, f)
<1>1. Stored(t) /\ FreeSound(t)
  BY DEF Growing
<1>2. PICK s : GrowsTo(t, f, st, x, s)
  BY DEF Growing
<1>3. /\ SearchTree(s, {}) /\ Shape(s) /\ Shows(s, f) /\ t.root = s.root
      /\ a \in s.nodes /\ i \in Nat /\ Loads(t, a) /\ Node(t, a) = t.nodes[a] /\ t.nodes[a].overflow = s.over[a]
      /\ s.entries[a] = InsertAt(t.nodes[a].entries, i + 1, x) /\ s.entries[a] # <<>>
      /\ \A m \in s.nodes \ {a} : Holds(t, s, m)
      /\ IsLeaf(Node(t, a)) <=> s.rank[a] = 1
  <2>1. a = Last(st).node /\ i = Last(st).index
    OBVIOUS
  <2> QED
    BY ONLY <1>1, <1>2, <2>1, GrowthIs
<1>4. PICK out : out = SplitAt(s.entries[a], i)
  OBVIOUS
<1>5. out \in 1 .. Len(s.entries[a]) - 1 /\ out \in Nat
  BY <1>1, <1>2, <1>4, OutIs
<1>6. PICK b : b = IF s.rank[a] = 1 THEN out ELSE out + 1
  OBVIOUS
<1>7. SplitAs(split, s, a, out, b)
  <2>1. PICK node : node = Node(t, a)
    OBVIOUS
  <2>2. SplitFrom(s, a, node, i, x, out, b)
    BY <1>3, <1>4, <1>5, <1>6, <2>1 DEF SplitFrom
  <2>3. SplitAs(Split(node, i, x), s, a, out, b)
    BY ONLY <2>2, SplitIs
  <2> QED
    BY <2>1, <2>3
<1>8. PICK v : v = rn.tree
  OBVIOUS
<1>9. PICK r : r = rn.node
  OBVIOUS
<1>10. PICK w : w = y.tree
  OBVIOUS
<1>11. PICK o : o = y.node
  OBVIOUS
<1>12. Allocated(t, r, v)
  BY <1>1, <1>8, <1>9, AllocateIs
<1>13. /\ Stored(v) /\ FreeSound(v) /\ v.root = t.root /\ r \in Nat /\ ~ Loads(t, r) /\ Loads(v, r)
       /\ \A m : Loads(t, m) => Loads(v, m) /\ v.nodes[m] = t.nodes[m]
  BY <1>12 DEF Allocated
<1>14. Allocated(v, o, w)
  BY <1>8, <1>10, <1>11, <1>13, AllocateIs
<1>15. /\ Stored(w) /\ FreeSound(w) /\ w.root = v.root /\ o \in Nat /\ ~ Loads(v, o) /\ Loads(w, o)
       /\ \A m : Loads(v, m) => Loads(w, m) /\ w.nodes[m] = v.nodes[m]
  BY <1>14 DEF Allocated
<1>16. \A m \in s.nodes : Loads(t, m)
  BY <1>3 DEF Holds
<1>17. r \notin s.nodes /\ o \notin s.nodes \cup {r}
  BY <1>13, <1>15, <1>16
<1>18. PICK q : /\ RootedAs(s, r, q) /\ SearchTree(q, {}) /\ Slot(q, {}, r, 0) /\ Below(q, r, 0) = s.root
                /\ \A k, c : Has(q, k, c) <=> Has(s, k, c)
  BY <1>3, <1>13, <1>17, RootAdded
<1>19. /\ q.root = r /\ q.nodes = s.nodes \cup {r} /\ q.entries[r] = <<>> /\ q.over[r] = s.root
       /\ \A m \in s.nodes : q.entries[m] = s.entries[m] /\ q.over[m] = s.over[m] /\ q.rank[m] = s.rank[m]
  BY <1>18 DEF RootedAs
<1>20. Divides(q, a, r, 0, o, out, b)
  BY <1>3, <1>5, <1>6, <1>15, <1>17, <1>18, <1>19 DEF Divides
<1>21. PICK j : j = 0
  OBVIOUS
<1>22. Divides(q, a, r, j, o, out, b)
  BY <1>20, <1>21
<1>23. PICK z : RaisedAs(q, a, r, j, o, out, b, z) /\ SearchTree(z, {}) /\ \A k, c : Has(z, k, c) <=> Has(q, k, c)
  BY ONLY <1>22, NodeSplit
<1>24. PICK d : d = SplitNodes(w, a, o, split, told)
  OBVIOUS
<1>25. HalvesOf(d, q, a, o, out, b) /\ Edited(w, d, {a, o}) /\ d.root = w.root
  <2>1. Ready(w, q, a, o)
    BY <1>3, <1>13, <1>15, <1>19 DEF Ready
  <2>2. SplitAs(split, q, a, out, b)
    BY <1>3, <1>7, <1>19 DEF SplitAs
  <2> QED
    BY ONLY <1>22, <1>24, <2>1, <2>2, HalvesStored, SMTT(60)
<1>26. /\ Holds(d, z, o) /\ Holds(d, z, a)
       /\ z.entries[r] = InsertAt(q.entries[r], j + 1, [key |-> q.entries[a][b].key, value |-> o])
       /\ z.over[r] = q.over[r] /\ r \in z.nodes
       /\ \A m \in q.nodes \ {a, r} : Holds(d, q, m) => Holds(d, z, m)
  BY ONLY <1>22, <1>23, <1>25, SplitHolds
<1>27. a # r /\ o # r /\ z.nodes = q.nodes \cup {o} /\ z.root = q.root
       /\ q.entries[a] \in Seq(Entry) /\ b \in 1 .. Len(q.entries[a])
  BY <1>22, <1>23, DividesIs DEF RaisedAs
<1>28. ASSUME NEW m \in s.nodes \ {a}
       PROVE  Holds(d, q, m)
  <2>1. Holds(t, s, m)
    BY <1>3
  <2>2. Holds(w, q, m)
    BY <1>13, <1>15, <1>19, <2>1 DEF Holds
  <2>3. m \notin {a, o}
    BY <1>17
  <2> QED
    BY ONLY <1>25, <2>2, <2>3, StillHolds
<1>29. \A m \in z.nodes \ {r} : Holds(d, z, m)
  BY <1>17, <1>19, <1>26, <1>27, <1>28
<1>30. PICK k : k = split.up
  OBVIOUS
<1>31. k \in Key /\ k = q.entries[a][b].key
  <2>1. k = q.entries[a][b].key
    BY <1>3, <1>7, <1>19, <1>30 DEF SplitAs
  <2> QED
    BY <1>27, <2>1, EntryIs
<1>32. u = Rooted(d, r, a, o, k)
  BY <1>9, <1>10, <1>11, <1>24, <1>30
<1>33. Stored(d) /\ FreeSound(d) /\ Loads(d, r)
  <2>1. Stored(d)
    BY <1>25 DEF Edited
  <2>2. FreeSound(d) /\ (Loads(d, r) <=> Loads(w, r))
    BY ONLY <1>15, <1>25, EditedIs
  <2> QED
    BY <1>13, <1>15, <2>1, <2>2
<1>34. a \in Nat
  BY <1>3, ShapeIs
<1>35. /\ Stored(u) /\ u.root = r /\ FreeSound(u)
       /\ Loads(u, r) /\ u.nodes[r].entries = <<[key |-> k, value |-> o]>> /\ u.nodes[r].overflow = a
       /\ \A s2, m : m # r /\ Holds(d, s2, m) => Holds(u, s2, m)
  <2>1. RootReady(d, r, a, o, k)
    BY <1>13, <1>15, <1>31, <1>33, <1>34 DEF RootReady
  <2> QED
    BY ONLY <1>32, <1>33, <2>1, RootStored
<1>36. Holds(u, z, r)
  <2>1. PICK x2 : x2 = [key |-> k, value |-> o]
    OBVIOUS
  <2>2. x2 \in Entry
    BY <1>15, <1>31, <2>1 DEF Entry
  <2>3. PICK c : c = j + 1
    OBVIOUS
  <2>4. c = 1
    BY <1>21, <2>3
  <2>5. InsertAt(<<>>, c, x2) = <<x2>>
    BY ONLY <2>2, <2>4, OnlyEntry
  <2>6. z.entries[r] = <<x2>>
    BY <1>19, <1>26, <1>31, <2>1, <2>3, <2>5
  <2> QED
    BY <1>3, <1>19, <1>26, <1>35, <2>1, <2>6 DEF Holds
<1>37. \A m \in z.nodes : Holds(u, z, m)
  BY <1>29, <1>35, <1>36
<1>38. Shows(z, f)
  BY <1>3, <1>18, <1>23 DEF Shows
<1>39. u.root = z.root
  BY <1>19, <1>27, <1>35
<1> QED
  BY ONLY <1>23, <1>35, <1>37, <1>38, <1>39, DoneIs

-----------------------------------------------------------------------------
(* A tree that a key is removed from.                                      *)

\* A way that leads nowhere.
Gap(a, i) == {<<a, i>>}

\* It is the one at the end of st.
ShrinksTo(t, f, st, s) ==
  /\ SearchTree(s, {<<Last(st).node, Last(st).index>>}) /\ Shows(s, f)
  /\ Way(s, {<<Last(st).node, Last(st).index>>}, st)
  /\ s.rank[Last(st).node] > 1 /\ Last(st).index \in 0 .. Len(s.entries[Last(st).node])
  /\ Represents(t, s)

Shrinking(t, f, st) == Stored(t) /\ FreeSound(t) /\ \E s : ShrinksTo(t, f, st, s)

LEMMA ShrinkageIs ==
  ASSUME NEW t, Stored(t), NEW f, NEW st, NEW s, ShrinksTo(t, f, st, s),
         NEW a, a = Last(st).node, NEW i, i = Last(st).index
  PROVE  /\ SearchTree(s, Gap(a, i)) /\ Shape(s) /\ Shows(s, f) /\ Way(s, Gap(a, i), st) /\ Represents(t, s)
         /\ t.root = s.root /\ \A m \in s.nodes : Holds(t, s, m)
         /\ a \in s.nodes /\ s.rank[a] > 1 /\ i \in 0 .. Len(s.entries[a]) /\ i \in Nat
         /\ s.entries[a] \in Seq(Entry) /\ Len(s.entries[a]) \in Nat /\ Ascending(s.entries[a])
         /\ Loads(t, a) /\ Node(t, a) = t.nodes[a]
         /\ t.nodes[a].entries = s.entries[a] /\ t.nodes[a].overflow = s.over[a]
         /\ ~ IsLeaf(Node(t, a))
<1>1. /\ SearchTree(s, Gap(a, i)) /\ Shows(s, f) /\ Way(s, Gap(a, i), st)
      /\ s.rank[a] > 1 /\ i \in 0 .. Len(s.entries[a]) /\ Represents(t, s)
  BY DEF ShrinksTo, Gap
<1>2. Shape(s)
  BY <1>1 DEF SearchTree
<1>3. a \in s.nodes
  <2>1. st \in Seq([node : Nat, index : Nat]) /\ st # <<>>
    BY <1>1 DEF Way
  <2>2. PICK S : S = [node : Nat, index : Nat]
    OBVIOUS
  <2>3. st \in Seq(S) /\ st # <<>>
    BY <2>1, <2>2
  <2>4. Len(st) \in Nat \ {0} /\ Last(st) = st[Len(st)]
    BY ONLY <2>3, FrontIs
  <2>5. Len(st) \in 1 .. Len(st)
    BY <2>4
  <2>6. st[Len(st)].node \in s.nodes
    BY <1>1, <2>5 DEF Way
  <2> QED
    BY <2>4, <2>6
<1>4. s.entries[a] \in Seq(Entry) /\ Len(s.entries[a]) \in Nat /\ i \in Nat
  <2>1. s.entries[a] \in Seq(Entry) /\ Len(s.entries[a]) \in Nat
    BY <1>2, <1>3, ShapeIs
  <2> QED
    BY <1>1, <2>1
<1>5. Ascending(s.entries[a])
  BY <1>1, <1>3 DEF SearchTree, Ordered
<1>6. t.root = s.root /\ \A m \in s.nodes : Holds(t, s, m)
  BY <1>1, HoldsAll
<1>7. Loads(t, a) /\ Node(t, a) = t.nodes[a] /\ t.nodes[a].entries = s.entries[a] /\ t.nodes[a].overflow = s.over[a]
  BY <1>3, <1>6, LoadsIs DEF Holds
<1>8. ~ IsLeaf(Node(t, a))
  <2>1. IsLeaf(Node(t, a)) <=> s.rank[a] = 1
    BY ONLY <1>1, <1>3, LeafIs
  <2> QED
    BY <1>1, <2>1
<1> QED
  BY <1>1, <1>2, <1>3, <1>4, <1>5, <1>6, <1>7, <1>8

\* The leaf that a key is removed from.
Leaves(t, f, k, st, s) ==
  /\ Stored(t) /\ FreeSound(t) /\ SearchTree(s, {}) /\ Shape(s) /\ Represents(t, s)
  /\ t.root = s.root /\ \A m \in s.nodes : Holds(t, s, m)
  /\ Way(s, {}, st)
  /\ Last(st).node \in s.nodes /\ s.rank[Last(st).node] = 1
  /\ Last(st).index + 1 \in 1 .. Len(s.entries[Last(st).node]) /\ Last(st).index \in Nat
  /\ \E e, z : /\ e = RemoveAt(s.entries[Last(st).node], Last(st).index + 1)
               /\ e \in Seq(Entry) /\ Len(e) = Len(s.entries[Last(st).node]) - 1
               /\ z = WithEntries(s, Last(st).node, e)
               /\ SearchTree(z, {}) /\ Shows(z, [f EXCEPT ![k] = NoValue])

LEMMA RemovalStarts ==
  ASSUME NEW t, NEW f \in Pairs, Done(t, f), NEW k \in Key, f[k] # NoValue
  PROVE  \E s : Leaves(t, f, k, Descent(t, k), s)
<1>1. Stored(t) /\ FreeSound(t) /\ k \in Int
  BY KeysAreNumbers DEF Done, Sound
<1>2. PICK s : SearchTree(s, {}) /\ Represents(t, s) /\ Shows(s, f)
  BY DEF Done, Sound
<1>3. PICK w : w = Descent(t, k)
  OBVIOUS
<1>4. WayFrom(s, s.root, k, w)
  BY <1>1, <1>2, <1>3, ShownIsFound
<1>5. PICK n : n = Last(w).node
  OBVIOUS
<1>6. PICK i : i = Last(w).index
  OBVIOUS
<1>7. PICK e : e = RemoveAt(s.entries[n], i + 1)
  OBVIOUS
<1>8. /\ Shape(s) /\ n \in s.nodes /\ s.rank[n] = 1
      /\ s.entries[n] \in Seq(Entry) /\ Len(s.entries[n]) \in Nat
      /\ i \in 0 .. Len(s.entries[n]) /\ i + 1 \in 1 .. Len(s.entries[n])
  BY <1>2, <1>4, <1>5, <1>6, AtLeaf
<1>9. PICK z : z = WithEntries(s, n, e)
  OBVIOUS
<1>10. SearchTree(z, {}) /\ Shows(z, [f EXCEPT ![k] = NoValue])
  <2>1. SearchTree(WithEntries(s, n, e), {}) /\ Shows(WithEntries(s, n, e), [f EXCEPT ![k] = NoValue])
    BY <1>2, <1>4, <1>5, <1>6, <1>7, LeafRemoved
  <2> QED
    BY <1>9, <2>1
<1>11. e \in Seq(Entry) /\ Len(e) = Len(s.entries[n]) - 1
  <2>1. PICK c : c = i + 1
    OBVIOUS
  <2>2. c \in 1 .. Len(s.entries[n])
    BY <1>8, <2>1
  <2>3. RemoveAt(s.entries[n], c) \in Seq(Entry) /\ Len(RemoveAt(s.entries[n], c)) = Len(s.entries[n]) - 1
    BY ONLY <1>8, <2>2, RemoveAtIs
  <2> QED
    BY <1>7, <2>1, <2>3
<1>12. Way(s, {}, w)
  BY <1>2, <1>4, WaySlots
<1>13. t.root = s.root /\ \A m \in s.nodes : Holds(t, s, m)
  BY <1>2, HoldsAll
<1>14. i \in Nat
  BY <1>8
<1>15. Leaves(t, f, k, w, s)
  BY <1>1, <1>2, <1>5, <1>6, <1>7, <1>8, <1>9, <1>10, <1>11, <1>12, <1>13, <1>14 DEF Leaves
<1> QED
  BY <1>3, <1>15

\* A leaf's key is removed.
LEMMA LeafKeyRemoved ==
  ASSUME NEW t, NEW f, NEW k, NEW st, NEW s, Leaves(t, f, k, st, s), NEW a, a = Last(st).node,
         NEW i, i = Last(st).index, IsLeaf(Node(t, a)), NEW u, u = [t EXCEPT !.nodes[a] = WithoutKey(@, i)]
  PROVE  Done(u, [f EXCEPT ![k] = NoValue])
<1>1. /\ Stored(t) /\ FreeSound(t) /\ Shape(s) /\ t.root = s.root /\ \A m \in s.nodes : Holds(t, s, m)
      /\ a \in s.nodes
  BY DEF Leaves
<1>2. PICK e : \E z : /\ e = RemoveAt(s.entries[a], i + 1)
                      /\ e \in Seq(Entry)
                      /\ z = WithEntries(s, a, e)
                      /\ SearchTree(z, {}) /\ Shows(z, [f EXCEPT ![k] = NoValue])
  BY DEF Leaves
<1>3. PICK z : /\ e = RemoveAt(s.entries[a], i + 1)
               /\ e \in Seq(Entry)
               /\ z = WithEntries(s, a, e)
               /\ SearchTree(z, {}) /\ Shows(z, [f EXCEPT ![k] = NoValue])
  BY <1>2
<1>4. /\ z.root = s.root /\ z.nodes = s.nodes /\ z.over = s.over /\ z.entries[a] = e
      /\ \A m \in s.nodes : m # a => z.entries[m] = s.entries[m]
  BY <1>1, <1>3, WithEntriesIs
<1>5. /\ Loads(t, a) /\ Node(t, a) = t.nodes[a] /\ t.nodes[a].entries = s.entries[a] /\ t.nodes[a].overflow = s.over[a]
      /\ a \in DOMAIN t.nodes /\ t.nodes[a] \in NodeType /\ t.nodes[a].overflow # FreeMark /\ t \in TreeType
  BY <1>1, LoadsIs, StoredIs DEF Holds, Marked
<1>6. PICK d : d = [t.nodes[a] EXCEPT !.entries = e]
  OBVIOUS
<1>7. d \in NodeType /\ d.entries = e /\ d.overflow = s.over[a] /\ d.overflow # FreeMark
  BY <1>3, <1>5, <1>6 DEF NodeType
<1>8. u = [t EXCEPT !.nodes[a] = d]
  <2>1. IsLeaf(t.nodes[a])
    BY <1>5
  <2>2. WithoutKey(t.nodes[a], i) = d
    BY <1>3, <1>5, <1>6, <2>1 DEF WithoutKey
  <2> QED
    BY <2>2
<1>9. Given(t, a, d, u)
  BY <1>1, <1>5, <1>7, <1>8 DEF Given
<1>10. Edited(t, u, {a}) /\ u.root = t.root /\ u.nodes[a] = d
  BY ONLY <1>9, NodeEdited
<1>11. Stored(u) /\ FreeSound(u) /\ Loads(u, a)
  <2>1. (Loads(u, a) <=> Loads(t, a)) /\ FreeSound(u)
    BY ONLY <1>1, <1>10, EditedIs
  <2>2. Stored(u)
    BY <1>10 DEF Edited
  <2> QED
    BY <1>5, <2>1, <2>2
<1>12. Holds(u, z, a)
  BY <1>4, <1>7, <1>10, <1>11 DEF Holds
<1>13. ASSUME NEW m \in s.nodes, m # a
       PROVE  Holds(u, z, m)
  <2>1. Holds(t, z, m)
    BY <1>1, <1>4, <1>13 DEF Holds
  <2>2. m \notin {a}
    BY <1>13
  <2> QED
    BY ONLY <1>10, <2>1, <2>2, StillHolds
<1>14. u.root = z.root /\ \A m \in z.nodes : Holds(u, z, m)
  BY <1>1, <1>4, <1>10, <1>12, <1>13
<1> QED
  BY ONLY <1>3, <1>11, <1>14, DoneIs

\* Of an index node, the way that leads nowhere is taken out.
LEMMA IndexKeyRemoved ==
  ASSUME NEW t, NEW f, NEW st, Shrinking(t, f, st), NEW a, a = Last(st).node, NEW i, i = Last(st).index,
         t.nodes[a].entries # <<>>, NEW u, u = [t EXCEPT !.nodes[a] = WithoutKey(@, i)]
  PROVE  Done(u, f)
<1>1. Stored(t) /\ FreeSound(t)
  BY DEF Shrinking
<1>2. PICK s : ShrinksTo(t, f, st, s)
  BY DEF Shrinking
<1>3. /\ SearchTree(s, Gap(a, i)) /\ Shape(s) /\ Shows(s, f)
      /\ t.root = s.root /\ \A m \in s.nodes : Holds(t, s, m)
      /\ a \in s.nodes /\ s.rank[a] > 1 /\ i \in 0 .. Len(s.entries[a]) /\ i \in Nat
      /\ s.entries[a] \in Seq(Entry) /\ Len(s.entries[a]) \in Nat /\ Ascending(s.entries[a])
      /\ Loads(t, a) /\ Node(t, a) = t.nodes[a]
      /\ t.nodes[a].entries = s.entries[a] /\ t.nodes[a].overflow = s.over[a]
      /\ ~ IsLeaf(Node(t, a))
  <2>1. a = Last(st).node /\ i = Last(st).index
    OBVIOUS
  <2> QED
    BY ONLY <1>1, <1>2, <2>1, ShrinkageIs
<1>4. a \in DOMAIN t.nodes /\ t.nodes[a] \in NodeType /\ t.nodes[a].overflow # FreeMark /\ t \in TreeType
  BY <1>1, <1>3, LoadsIs, StoredIs DEF Marked
<1>5. PICK e : e = s.entries[a]
  OBVIOUS
<1>6. PICK l : l = Len(e)
  OBVIOUS
<1>7. e \in Seq(Entry) /\ e # <<>> /\ Ascending(e) /\ i \in 0 .. Len(e) /\ l \in Nat
  BY <1>3, <1>5, <1>6
<1>8. /\ Len(e) \in Nat \ {0}
      /\ i = Len(e) => Thinned(e, i, Front(e)) /\ Last(e) = e[Len(e)]
      /\ i # Len(e) => Thinned(e, i, RemoveAt(e, i + 1))
  BY ONLY <1>7, EntriesThinned
<1>9. PICK d : d = WithoutKey(t.nodes[a], i)
  OBVIOUS
<1>10. /\ d \in NodeType /\ d.overflow # FreeMark /\ Thinned(e, i, d.entries)
       /\ d.overflow = IF i = Len(e) THEN e[i].value ELSE s.over[a]
  <2>0. ~ IsLeaf(t.nodes[a]) /\ NumKeys(t.nodes[a]) = Len(e)
    BY <1>3, <1>5 DEF NumKeys
  <2>1. CASE i = Len(e)
    <3>1. d = [t.nodes[a] EXCEPT !.entries = Front(e), !.overflow = Last(e).value]
      BY <1>3, <1>5, <1>9, <2>0, <2>1 DEF WithoutKey
    <3>2. Front(e) \in Seq(Entry)
      BY <1>7, FrontIs
    <3>3. Last(e).value \in Nat /\ Last(e).value = e[i].value
      <4>1. Len(e) \in 1 .. Len(e)
        BY <1>8
      <4> QED
        BY <1>7, <1>8, <2>1, <4>1, EntryIs
    <3>4. Last(e).value \in Int /\ Last(e).value # FreeMark
      BY <3>3 DEF FreeMark
    <3>5. d \in NodeType /\ d.entries = Front(e) /\ d.overflow = Last(e).value
      BY <1>4, <3>1, <3>2, <3>4 DEF NodeType
    <3> QED
      BY <1>8, <2>1, <3>3, <3>4, <3>5
  <2>2. CASE i # Len(e)
    <3>1. d = [t.nodes[a] EXCEPT !.entries = RemoveAt(e, i + 1)]
      BY <1>3, <1>5, <1>9, <2>0, <2>2 DEF WithoutKey
    <3>2. Thinned(e, i, RemoveAt(e, i + 1)) /\ RemoveAt(e, i + 1) \in Seq(Entry)
      BY <1>8, <2>2 DEF Thinned
    <3>3. d \in NodeType /\ d.entries = RemoveAt(e, i + 1) /\ d.overflow = t.nodes[a].overflow
      BY <1>4, <3>1, <3>2 DEF NodeType
    <3> QED
      BY <1>3, <1>4, <2>2, <3>2, <3>3
  <2> QED
    BY <2>1, <2>2
<1>11. PICK g : g = d.entries
  OBVIOUS
<1>12. PICK o : o = d.overflow
  OBVIOUS
<1>13. PICK z : z = With(s, a, g, o)
  OBVIOUS
<1>14. g \in Seq(Entry) /\ o \in Int /\ Thinned(e, i, g)
  BY <1>10, <1>11, <1>12 DEF NodeType
<1>15. /\ Shape(z)
       /\ z.root = s.root /\ z.nodes = s.nodes /\ z.rank = s.rank /\ z.span = s.span
       /\ z.entries[a] = g /\ z.over[a] = o
       /\ \A m \in s.nodes : m # a => z.entries[m] = s.entries[m] /\ z.over[m] = s.over[m]
  BY ONLY <1>3, <1>13, <1>14, WithIs
<1>16. SparedAs(s, a, i, z)
  BY <1>5, <1>10, <1>12, <1>14, <1>15 DEF SparedAs
<1>17. Spares(s, a, i)
  BY <1>3, <1>5, <1>7 DEF Spares, Gap
<1>18. SearchTree(z, {}) /\ \A k, v : Has(z, k, v) <=> Has(s, k, v)
  BY ONLY <1>16, <1>17, WaySpared
<1>19. Shows(z, f)
  BY <1>3, <1>18 DEF Shows
<1>20. Given(t, a, d, u)
  BY <1>1, <1>3, <1>9, <1>10 DEF Given
<1>21. Edited(t, u, {a}) /\ u.root = t.root /\ u.nodes[a] = d
  BY ONLY <1>20, NodeEdited
<1>22. Stored(u) /\ FreeSound(u) /\ Loads(u, a)
  <2>1. (Loads(u, a) <=> Loads(t, a)) /\ FreeSound(u)
    BY ONLY <1>1, <1>21, EditedIs
  <2>2. Stored(u)
    BY <1>21 DEF Edited
  <2> QED
    BY <1>3, <2>1, <2>2
<1>23. Holds(u, z, a)
  BY <1>11, <1>12, <1>15, <1>21, <1>22 DEF Holds
<1>24. ASSUME NEW m \in s.nodes, m # a
       PROVE  Holds(u, z, m)
  <2>1. Holds(t, z, m)
    BY <1>3, <1>15, <1>24 DEF Holds
  <2>2. m \notin {a}
    BY <1>24
  <2> QED
    BY ONLY <1>21, <2>1, <2>2, StillHolds
<1>25. u.root = z.root /\ \A m \in z.nodes : Holds(u, z, m)
  BY <1>3, <1>15, <1>21, <1>23, <1>24
<1> QED
  BY ONLY <1>18, <1>19, <1>22, <1>25, DoneIs

-----------------------------------------------------------------------------

\* A tree that shows nothing is emptied.
LEMMA EmptiedIs ==
  ASSUME NEW t, Stored(t), FreeSound(t), Loads(t, t.root), NEW s, NEW f, Shows(s, f), \A k, v : ~ Has(s, k, v),
         NEW u, u = Emptied(t)
  PROVE  Done(u, f)
<1>1. PICK r : r = t.root
  OBVIOUS
<1>2. r \in DOMAIN t.nodes /\ t.nodes[r] \in NodeType /\ t \in TreeType /\ r \in Nat /\ Loads(t, r)
  BY <1>1, LoadsIs, StoredIs
<1>3. PICK d : d = [t.nodes[r] EXCEPT !.entries = <<>>, !.overflow = Null]
  OBVIOUS
<1>4. d \in NodeType /\ d.entries = <<>> /\ d.overflow = Null /\ d.overflow # FreeMark
  <2>1. <<>> \in Seq(Entry) /\ Null \in Int /\ Null # FreeMark
    BY DEF Null, FreeMark
  <2> QED
    BY <1>2, <1>3, <2>1 DEF NodeType
<1>5. PICK w : w = [t EXCEPT !.nodes[r] = d]
  OBVIOUS
<1>6. Given(t, r, d, w)
  BY <1>2, <1>4, <1>5 DEF Given
<1>7. Edited(t, w, {r}) /\ w.root = t.root /\ w.levels = t.levels /\ w.nodes[r] = d
  BY ONLY <1>6, NodeEdited
<1>8. Stored(w) /\ FreeSound(w) /\ Loads(w, r)
  <2>1. (Loads(w, r) <=> Loads(t, r)) /\ (FreeSound(t) => FreeSound(w))
    BY ONLY <1>7, EditedIs
  <2>2. Stored(w)
    BY <1>7 DEF Edited
  <2> QED
    BY <1>2, <2>1, <2>2
<1>9. w \in TreeType /\ Len(w.nodes) <= MaxNodes
  BY <1>8 DEF Stored
<1>10. u = [w EXCEPT !.levels = 1]
  BY <1>1, <1>2, <1>3, <1>5 DEF Emptied, TreeType
<1>11. u \in TreeType /\ u.nodes = w.nodes /\ u.free = w.free /\ u.root = w.root
  BY <1>9, <1>10 DEF TreeType
<1>12. Stored(u)
  BY <1>9, <1>11 DEF Stored
<1>13. (\A m : Marked(u, m) <=> Marked(w, m)) /\ (\A m : Loads(u, m) <=> Loads(w, m))
  BY <1>11 DEF Marked, Loads
<1>14. FreeSound(u)
  BY <1>8, <1>11, <1>13 DEF FreeSound
<1>15. PICK z : z = Alone(r)
  OBVIOUS
<1>16. /\ SearchTree(z, {}) /\ z.root = r /\ z.nodes = {r} /\ z.entries[r] = <<>> /\ z.over[r] = Null
       /\ \A k, v : ~ Has(z, k, v)
  BY ONLY <1>2, <1>15, AloneIs
<1>17. Shows(z, f)
  BY <1>16 DEF Shows
<1>18. u.root = z.root /\ \A m \in z.nodes : Holds(u, z, m)
  BY <1>1, <1>4, <1>7, <1>8, <1>11, <1>13, <1>16 DEF Holds
<1> QED
  BY ONLY <1>12, <1>14, <1>16, <1>17, <1>18, DoneIs

\* The last key is removed, from a leaf that is the root.
LEMMA LeafEmptied ==
  ASSUME NEW t, NEW f, NEW k, NEW st, NEW s, Leaves(t, f, k, st, s), NEW a, a = Last(st).node, a = t.root,
         Len(t.nodes[a].entries) = 1, NEW u, u = Emptied(t)
  PROVE  Done(u, [f EXCEPT ![k] = NoValue])
<1>1. /\ Stored(t) /\ FreeSound(t) /\ SearchTree(s, {}) /\ Shape(s) /\ t.root = s.root
      /\ \A m \in s.nodes : Holds(t, s, m)
      /\ a \in s.nodes /\ s.rank[a] = 1
  BY DEF Leaves
<1>2. PICK e : \E z : /\ e \in Seq(Entry) /\ Len(e) = Len(s.entries[a]) - 1
                      /\ z = WithEntries(s, a, e)
                      /\ SearchTree(z, {}) /\ Shows(z, [f EXCEPT ![k] = NoValue])
  BY DEF Leaves
<1>3. PICK z : /\ e \in Seq(Entry) /\ Len(e) = Len(s.entries[a]) - 1
               /\ z = WithEntries(s, a, e)
               /\ SearchTree(z, {}) /\ Shows(z, [f EXCEPT ![k] = NoValue])
  BY <1>2
<1>4. z.nodes = s.nodes /\ z.entries[a] = e /\ z.rank = s.rank
  BY <1>1, <1>3, WithEntriesIs
<1>5. t.nodes[a].entries = s.entries[a] /\ Loads(t, a)
  BY <1>1 DEF Holds
<1>6. Len(e) = 0
  BY <1>3, <1>5
<1>7. \A m \in s.nodes : m = a
  <2> TAKE m \in s.nodes
  <2>1. s.rank[m] \in Nat /\ s.rank[m] > 0 /\ (m # s.root => s.rank[m] < s.rank[s.root])
    BY <1>1, RankIs
  <2> QED
    BY <1>1, <2>1
<1>8. \A k2, v : ~ Has(z, k2, v)
  BY <1>4, <1>6, <1>7 DEF Has, EntryIn
<1>9. Loads(t, t.root)
  BY <1>5
<1> QED
  BY ONLY <1>1, <1>3, <1>8, <1>9, EmptiedIs, u = Emptied(t)

\* Nothing was left below the root.
LEMMA IndexEmptied ==
  ASSUME NEW t, NEW f, NEW st, Shrinking(t, f, st), NEW a, a = Last(st).node, a = t.root,
         t.nodes[a].entries = <<>>, NEW u, u = Emptied(t)
  PROVE  Done(u, f)
<1>1. Stored(t) /\ FreeSound(t)
  BY DEF Shrinking
<1>2. PICK s : ShrinksTo(t, f, st, s)
  BY DEF Shrinking
<1>3. PICK i : i = Last(st).index
  OBVIOUS
<1>4. /\ SearchTree(s, Gap(a, i)) /\ Shows(s, f) /\ t.root = s.root
      /\ a \in s.nodes /\ s.rank[a] > 1 /\ i \in 0 .. Len(s.entries[a])
      /\ Loads(t, a) /\ t.nodes[a].entries = s.entries[a]
  <2>1. a = Last(st).node
    OBVIOUS
  <2> QED
    BY ONLY <1>1, <1>2, <1>3, <2>1, ShrinkageIs
<1>5. s.entries[s.root] = <<>> /\ SearchTree(s, {<<s.root, 0>>})
  <2>1. i = 0
    BY <1>4
  <2> QED
    BY <1>4, <2>1 DEF Gap
<1>6. s.nodes = {s.root}
  BY ONLY <1>5, OnlyRoot
<1>7. \A k, v : ~ Has(s, k, v)
  BY <1>4, <1>6 DEF Has
<1>8. Loads(t, t.root)
  BY <1>4
<1> QED
  BY ONLY <1>1, <1>4, <1>7, <1>8, EmptiedIs, u = Emptied(t)

\* What a node that is taken out has become, whether its neighbours were told and
\* it was freed or not.
TakenOut(t, n, u) == \E left, right, free \in BOOLEAN : u = Unlinked(t, n, left, right, free)

LEMMA UnlinkedIs ==
  ASSUME NEW t, Stored(t), FreeSound(t), NEW n, Loads(t, n), NEW u, TakenOut(t, n, u)
  PROVE  /\ Stored(u) /\ FreeSound(u) /\ u.root = t.root
         /\ \A s, m : m # n /\ Holds(t, s, m) => Holds(u, s, m)
<1>1. n \in DOMAIN t.nodes /\ t.nodes[n] \in NodeType
  BY LoadsIs, StoredIs
<1>0. PICK left, right, free \in BOOLEAN : u = Unlinked(t, n, left, right, free)
  BY DEF TakenOut
<1>2. PICK l : l = t.nodes[n].left
  OBVIOUS
<1>3. PICK r : r = t.nodes[n].right
  OBVIOUS
<1>4. l \in Int /\ r \in Int
  BY <1>1, <1>2, <1>3 DEF NodeType
<1>5. PICK v : v = SetRight(t, l, r, left)
  OBVIOUS
<1>6. Edited(t, v, {}) /\ v.root = t.root
  BY <1>4, <1>5, Relinked
<1>7. Stored(v) /\ FreeSound(v) /\ Loads(v, n)
  <2>1. (Loads(v, n) <=> Loads(t, n)) /\ (FreeSound(t) => FreeSound(v))
    BY ONLY <1>6, EditedIs
  <2>2. Stored(v)
    BY <1>6 DEF Edited
  <2> QED
    BY <2>1, <2>2
<1>8. PICK w : w = SetLeft(v, r, l, right)
  OBVIOUS
<1>9. Edited(v, w, {}) /\ w.root = v.root
  BY <1>4, <1>7, <1>8, Relinked
<1>10. Stored(w) /\ FreeSound(w) /\ Loads(w, n)
  <2>1. (Loads(w, n) <=> Loads(v, n)) /\ (FreeSound(v) => FreeSound(w))
    BY ONLY <1>9, EditedIs
  <2>2. Stored(w)
    BY <1>9 DEF Edited
  <2> QED
    BY <1>7, <2>1, <2>2
<1>11. u = IF free THEN Free(w, n) ELSE w
  BY <1>0, <1>2, <1>3, <1>5, <1>8 DEF Unlinked
<1>12. u = w \/ Freed(w, n, u)
  BY ONLY <1>10, <1>11, FreeIs
<1>13. /\ Stored(u) /\ FreeSound(u) /\ u.root = w.root
       /\ \A m : m # n /\ Loads(w, m) => Loads(u, m) /\ u.nodes[m] = w.nodes[m]
  BY <1>10, <1>12 DEF Freed
<1>14. ASSUME NEW s, NEW m, m # n, Holds(t, s, m)
       PROVE  Holds(u, s, m)
  <2>1. m \notin {}
    OBVIOUS
  <2>2. Holds(v, s, m)
    BY ONLY <1>6, <1>14, <2>1, StillHolds
  <2>3. Holds(w, s, m)
    BY ONLY <1>9, <2>1, <2>2, StillHolds
  <2> QED
    BY <1>13, <1>14, <2>3 DEF Holds
<1> QED
  BY <1>6, <1>9, <1>13, <1>14

\* The way to the parent of a node that is dropped.
LEMMA WayLess ==
  ASSUME NEW s, NEW missing, SearchTree(s, missing), NEW st, Way(s, missing, st), NEW n, n = Last(st).node, n # s.root,
         NEW l \in Nat, l = Len(st), l > 1, st[l] = Last(st), NEW p, p = st[l - 1].node, NEW j, j = st[l - 1].index,
         NEW z, z = Less(s, n)
  PROVE  Way(z, Gap(p, j), Front(st)) /\ Last(Front(st)) = st[l - 1] /\ Front(st) # <<>>
<1>1. /\ Shape(z) /\ z.root = s.root /\ z.nodes = s.nodes \ {n}
      /\ \A m \in z.nodes : /\ z.entries[m] = s.entries[m] /\ z.over[m] = s.over[m]
                            /\ z.rank[m] = s.rank[m] /\ z.span[m] = s.span[m]
  <2>1. Shape(s)
    BY DEF SearchTree
  <2> QED
    BY <2>1, LessIs
<1>2. PICK S : S = [node : Nat, index : Nat]
  OBVIOUS
<1>3. st \in Seq(S) /\ st # <<>> /\ st[1].node = s.root
  BY <1>2 DEF Way
<1>4. PICK g : g = Front(st)
  OBVIOUS
<1>5. g \in Seq(S) /\ Len(g) = l - 1 /\ \A c \in 1 .. l - 1 : g[c] = st[c]
  BY <1>3, <1>4, FrontIs
<1>6. g # <<>> /\ l - 1 \in 1 .. l - 1
  BY <1>5
<1>7. Last(g) = g[l - 1] /\ g[l - 1] = st[l - 1]
  <2>1. Last(g) = g[Len(g)]
    BY ONLY <1>5, <1>6, FrontIs
  <2> QED
    BY <1>5, <1>6, <2>1
<1>8. PICK h : h = s.rank[s.root]
  OBVIOUS
<1>9. h \in Nat /\ s.root \in s.nodes
  <2>1. s.root \in s.nodes
    BY DEF SearchTree, Shape
  <2> QED
    BY <1>8, <2>1, RankIs
<1>10. \A c \in 1 .. l : st[c].node \in s.nodes /\ s.rank[st[c].node] = h + 1 - c
  BY <1>8 DEF Way
<1>11. \A c \in 1 .. l - 1 : st[c].node # n
  <2> TAKE c \in 1 .. l - 1
  <2>1. c \in 1 .. l /\ l \in 1 .. l /\ c # l /\ c \in Nat
    OBVIOUS
  <2>2. s.rank[st[c].node] = h + 1 - c /\ s.rank[n] = h + 1 - l
    BY <1>10, <2>1
  <2>3. h + 1 - c # h + 1 - l
    BY ONLY <1>9, <2>1, l \in Nat
  <2> QED
    BY <2>2, <2>3
<1>12. \A c \in 1 .. l - 2 : st[c].node # p
  <2> TAKE c \in 1 .. l - 2
  <2>1. PICK d : d = l - 1
    OBVIOUS
  <2>2. c \in 1 .. l /\ d \in 1 .. l /\ c # d /\ c \in Nat /\ d \in Nat
    BY <2>1
  <2>3. s.rank[st[c].node] = h + 1 - c /\ s.rank[p] = h + 1 - d
    BY <1>10, <2>1, <2>2
  <2>4. h + 1 - c # h + 1 - d
    BY ONLY <1>9, <2>2
  <2> QED
    BY <2>3, <2>4
<1>13. \A c \in 1 .. Len(g) : /\ g[c].node \in z.nodes /\ z.rank[g[c].node] = z.rank[z.root] + 1 - c
  <2> TAKE c \in 1 .. Len(g)
  <2>1. c \in 1 .. l - 1 /\ c \in 1 .. l
    BY <1>5
  <2>2. g[c].node = st[c].node /\ st[c].node \in z.nodes /\ s.rank[st[c].node] = h + 1 - c
    BY <1>1, <1>5, <1>10, <1>11, <2>1
  <2>3. z.rank[z.root] = h
    BY <1>1, <1>8, <1>9
  <2> QED
    BY <1>1, <2>2, <2>3
<1>14. ASSUME NEW c \in 1 .. Len(g) - 1
       PROVE  Slot(z, Gap(p, j), g[c].node, g[c].index) /\ Below(z, g[c].node, g[c].index) = g[c + 1].node
  <2>1. c \in 1 .. l - 2 /\ c \in 1 .. l - 1 /\ c + 1 \in 1 .. l - 1 /\ c \in 1 .. Len(st) - 1
    BY <1>5
  <2>2. g[c] = st[c] /\ g[c + 1] = st[c + 1]
    BY <1>5, <2>1
  <2>3. Slot(s, missing, st[c].node, st[c].index) /\ Below(s, st[c].node, st[c].index) = st[c + 1].node
    BY <2>1 DEF Way
  <2>4. PICK m : m = st[c].node
    OBVIOUS
  <2>5. m \in z.nodes /\ m # p
    BY <1>1, <1>10, <1>11, <1>12, <2>1, <2>4
  <2>6. z.entries[m] = s.entries[m] /\ z.over[m] = s.over[m] /\ z.rank[m] = s.rank[m]
    BY <1>1, <2>5
  <2>7. Below(z, m, st[c].index) = Below(s, m, st[c].index)
    BY <2>6 DEF Below
  <2>8. Slot(z, Gap(p, j), m, st[c].index)
    BY <2>3, <2>4, <2>5, <2>6 DEF Slot, Gap
  <2> QED
    BY <2>2, <2>3, <2>4, <2>7, <2>8
<1>15. g[1].node = z.root
  <2>1. 1 \in 1 .. l - 1
    OBVIOUS
  <2> QED
    BY <1>1, <1>3, <1>5, <2>1
<1>16. Way(z, Gap(p, j), g)
  BY <1>2, <1>5, <1>6, <1>13, <1>14, <1>15 DEF Way
<1> QED
  BY <1>4, <1>6, <1>7, <1>16

\* A node without keys and without ways out is taken out of the stored tree,
\* when all the others hold what the shape has.
Empty(t, f, st, missing, s, n) ==
  /\ Stored(t) /\ FreeSound(t) /\ SearchTree(s, missing) /\ Shows(s, f) /\ Way(s, missing, st)
  /\ t.root = s.root /\ \A m \in s.nodes \ {n} : Holds(t, s, m)
  /\ n \in s.nodes /\ n = Last(st).node /\ n # s.root /\ Loads(t, n)
  /\ \A x \in missing : x[1] = n
  /\ \A j : ~ Slot(s, missing, n, j)
  /\ s.rank[n] = 1 => s.entries[n] = <<>>

LEMMA NodeRemoved ==
  ASSUME NEW t, NEW f, NEW st, NEW missing, NEW s, NEW n, Empty(t, f, st, missing, s, n), NEW u, TakenOut(t, n, u)
  PROVE  Shrinking(u, f, Front(st)) /\ st # <<>> /\ Front(st) # <<>>
<1>1. /\ Stored(t) /\ FreeSound(t) /\ SearchTree(s, missing) /\ Shows(s, f) /\ Way(s, missing, st)
      /\ t.root = s.root /\ \A m \in s.nodes \ {n} : Holds(t, s, m)
      /\ n \in s.nodes /\ n = Last(st).node /\ n # s.root /\ Loads(t, n)
  BY DEF Empty
<1>2. /\ \A x \in missing : x[1] = n
      /\ \A j : ~ Slot(s, missing, n, j)
      /\ s.rank[n] = 1 => s.entries[n] = <<>>
  BY DEF Empty
<1>3. PICK l \in Nat : /\ l = Len(st) /\ l > 1 /\ st[l] = Last(st) /\ st # <<>>
                       /\ st[l - 1].node \in s.nodes /\ st[l - 1].index \in Nat
                       /\ s.rank[st[l - 1].node] > 1 /\ s.rank[st[l].node] = s.rank[st[l - 1].node] - 1
                       /\ Slot(s, missing, st[l - 1].node, st[l - 1].index)
                       /\ Below(s, st[l - 1].node, st[l - 1].index) = st[l].node
  <2>1. Last(st).node # s.root
    BY <1>1
  <2> QED
    BY ONLY <1>1, <2>1, WayAbove
<1>4. PICK p : p = st[l - 1].node
  OBVIOUS
<1>5. PICK j : j = st[l - 1].index
  OBVIOUS
<1>6. p \in s.nodes /\ j \in Nat /\ Slot(s, missing, p, j) /\ Below(s, p, j) = n /\ s.rank[p] > 1
      /\ s.rank[n] = s.rank[p] - 1
  BY <1>1, <1>3, <1>4, <1>5
<1>7. PICK z : z = Less(s, n)
  OBVIOUS
<1>8. SearchTree(z, Gap(p, j)) /\ \A k, v : Has(z, k, v) <=> Has(s, k, v)
  BY <1>1, <1>2, <1>6, <1>7, NodeDropped DEF Gap
<1>9. Way(z, Gap(p, j), Front(st)) /\ Last(Front(st)) = st[l - 1] /\ Front(st) # <<>>
  BY ONLY <1>1, <1>3, <1>4, <1>5, <1>7, WayLess
<1>10. /\ z.root = s.root /\ z.nodes = s.nodes \ {n}
       /\ \A m \in z.nodes : z.entries[m] = s.entries[m] /\ z.over[m] = s.over[m] /\ z.rank[m] = s.rank[m]
  <2>1. Shape(s)
    BY <1>1 DEF SearchTree
  <2> QED
    BY <1>1, <1>7, <2>1, LessIs
<1>11. /\ Stored(u) /\ FreeSound(u) /\ u.root = t.root
       /\ \A q, m : m # n /\ Holds(t, q, m) => Holds(u, q, m)
  BY <1>1, UnlinkedIs
<1>12. \A m \in z.nodes : Holds(u, z, m)
  <2>1. \A m \in z.nodes : Holds(t, z, m) /\ m # n
    BY <1>1, <1>10 DEF Holds
  <2> QED
    BY <1>11, <2>1
<1>13. Represents(u, z)
  <2>1. u.root = z.root
    BY <1>1, <1>10, <1>11
  <2> QED
    BY ONLY <1>12, <2>1, HoldsAll
<1>14. Shows(z, f)
  BY <1>1, <1>8 DEF Shows
<1>15. p # n
  <2>1. s.rank[p] \in Nat
    BY <1>1, <1>6, RankIs
  <2> QED
    BY <1>6, <2>1
<1>16. p \in z.nodes /\ z.rank[p] > 1 /\ j \in 0 .. Len(z.entries[p])
  <2>1. p \in z.nodes
    BY <1>6, <1>10, <1>15
  <2> QED
    BY <1>6, <1>10, <2>1 DEF Slot
<1>17. ShrinksTo(u, f, Front(st), z)
  <2>1. Last(Front(st)).node = p /\ Last(Front(st)).index = j
    BY <1>4, <1>5, <1>9
  <2> QED
    BY <1>8, <1>9, <1>13, <1>14, <1>16, <2>1 DEF ShrinksTo, Gap
<1>18. Shrinking(u, f, Front(st))
  BY <1>11, <1>17 DEF Shrinking
<1> QED
  BY <1>3, <1>9, <1>18

\* A way does not care for what is in a leaf.
LEMMA WayWithEntries ==
  ASSUME NEW s, Shape(s), NEW st, Way(s, {}, st), NEW a \in s.nodes, s.rank[a] = 1, NEW e \in Seq(Entry),
         NEW z, z = WithEntries(s, a, e)
  PROVE  Way(z, {}, st)
<1>1. /\ z.root = s.root /\ z.nodes = s.nodes /\ z.rank = s.rank
      /\ \A m \in s.nodes : m # a => z.entries[m] = s.entries[m] /\ \A i : Below(z, m, i) = Below(s, m, i)
  BY WithEntriesIs
<1>2. ASSUME NEW i \in 1 .. Len(st) - 1
      PROVE  Slot(z, {}, st[i].node, st[i].index) /\ Below(z, st[i].node, st[i].index) = st[i + 1].node
  <2>1. Slot(s, {}, st[i].node, st[i].index) /\ Below(s, st[i].node, st[i].index) = st[i + 1].node
    BY DEF Way
  <2>2. PICK m : m = st[i].node
    OBVIOUS
  <2>3. m \in s.nodes /\ s.rank[m] > 1
    BY <2>1, <2>2 DEF Slot
  <2>4. m # a
    BY <2>3
  <2> QED
    BY <1>1, <2>1, <2>2, <2>3, <2>4 DEF Slot
<1> QED
  BY <1>1, <1>2 DEF Way

\* A leaf's only key is removed, and the leaf with it.
LEMMA LeafDropped ==
  ASSUME NEW t, NEW f, NEW k, NEW st, NEW s, Leaves(t, f, k, st, s), NEW a, a = Last(st).node, a # t.root,
         Len(t.nodes[a].entries) = 1, NEW u, TakenOut(t, a, u)
  PROVE  Shrinking(u, [f EXCEPT ![k] = NoValue], Front(st)) /\ st # <<>> /\ Front(st) # <<>>
<1>1. /\ Stored(t) /\ FreeSound(t) /\ Shape(s) /\ t.root = s.root /\ \A m \in s.nodes : Holds(t, s, m)
      /\ a \in s.nodes /\ s.rank[a] = 1 /\ Way(s, {}, st)
  BY DEF Leaves
<1>2. PICK e : \E z : /\ e \in Seq(Entry) /\ Len(e) = Len(s.entries[a]) - 1
                      /\ z = WithEntries(s, a, e)
                      /\ SearchTree(z, {}) /\ Shows(z, [f EXCEPT ![k] = NoValue])
  BY DEF Leaves
<1>3. PICK z : /\ e \in Seq(Entry) /\ Len(e) = Len(s.entries[a]) - 1
               /\ z = WithEntries(s, a, e)
               /\ SearchTree(z, {}) /\ Shows(z, [f EXCEPT ![k] = NoValue])
  BY <1>2
<1>4. /\ z.root = s.root /\ z.nodes = s.nodes /\ z.over = s.over /\ z.entries[a] = e /\ z.rank = s.rank
      /\ \A m \in s.nodes : m # a => z.entries[m] = s.entries[m]
  BY <1>1, <1>3, WithEntriesIs
<1>5. Loads(t, a) /\ t.nodes[a].entries = s.entries[a]
  BY <1>1 DEF Holds
<1>6. e = <<>>
  <2>1. Len(e) = 0
    BY <1>3, <1>5
  <2> QED
    BY <1>3, <2>1
<1>7. Way(z, {}, st)
  BY ONLY <1>1, <1>3, WayWithEntries
<1>8. \A m \in z.nodes \ {a} : Holds(t, z, m)
  BY <1>1, <1>4 DEF Holds
<1>9. \A j : ~ Slot(z, {}, a, j)
  BY <1>1, <1>4 DEF Slot
<1>10. PICK g : g = [f EXCEPT ![k] = NoValue]
  OBVIOUS
<1>11. Empty(t, g, st, {}, z, a)
  BY <1>1, <1>3, <1>4, <1>5, <1>6, <1>7, <1>8, <1>9, <1>10 DEF Empty
<1>12. Shrinking(u, g, Front(st)) /\ st # <<>> /\ Front(st) # <<>>
  BY <1>11, NodeRemoved
<1> QED
  BY <1>10, <1>12

\* An index node without keys, whose only way leads nowhere, is removed.
LEMMA IndexDropped ==
  ASSUME NEW t, NEW f, NEW st, Shrinking(t, f, st), NEW a, a = Last(st).node, a # t.root,
         t.nodes[a].entries = <<>>, NEW u, TakenOut(t, a, u)
  PROVE  Shrinking(u, f, Front(st)) /\ st # <<>> /\ Front(st) # <<>>
<1>1. Stored(t) /\ FreeSound(t)
  BY DEF Shrinking
<1>2. PICK s : ShrinksTo(t, f, st, s)
  BY DEF Shrinking
<1>3. PICK i : i = Last(st).index
  OBVIOUS
<1>4. /\ SearchTree(s, Gap(a, i)) /\ Shows(s, f) /\ Way(s, Gap(a, i), st)
      /\ t.root = s.root /\ \A m \in s.nodes : Holds(t, s, m)
      /\ a \in s.nodes /\ s.rank[a] > 1 /\ i \in 0 .. Len(s.entries[a]) /\ i \in Nat
      /\ Loads(t, a) /\ t.nodes[a].entries = s.entries[a]
  <2>1. a = Last(st).node
    OBVIOUS
  <2> QED
    BY ONLY <1>1, <1>2, <1>3, <2>1, ShrinkageIs
<1>5. i = 0 /\ Len(s.entries[a]) = 0
  BY <1>4
<1>6. \A j : ~ Slot(s, Gap(a, i), a, j)
  BY <1>4, <1>5 DEF Slot, Gap
<1>7. \A x \in Gap(a, i) : x[1] = a
  BY DEF Gap
<1>8. Empty(t, f, st, Gap(a, i), s, a)
  BY <1>1, <1>4, <1>6, <1>7 DEF Empty
<1> QED
  BY <1>8, NodeRemoved

\* Another value for a key that is there.
LEMMA ValueGiven ==
  ASSUME NEW t, NEW f \in Pairs, Done(t, f), NEW k \in Key, f[k] # NoValue, NEW v \in Nat, v # NoValue,
         NEW a, a = LeafFor(t, k), NEW u,
         u = [t EXCEPT !.nodes[a].entries[KeyIndex(Node(t, a), k) + 1].value = v]
  PROVE  Done(u, [f EXCEPT ![k] = v])
<1>1. Stored(t) /\ FreeSound(t)
  BY DEF Done, Sound
<1>2. PICK s : SearchTree(s, {}) /\ Represents(t, s) /\ Shows(s, f)
  BY DEF Done, Sound
<1>3. PICK w : w = Descent(t, k)
  OBVIOUS
<1>4. PICK i : i = Last(w).index
  OBVIOUS
<1>5. WayFrom(s, s.root, k, w) /\ a \in s.nodes /\ a = Last(w).node /\ i = KeyIndex(Node(t, a), k)
  <2>1. /\ WayFrom(s, s.root, k, Descent(t, k))
        /\ LeafFor(t, k) \in s.nodes
        /\ Last(Descent(t, k)).index = KeyIndex(Node(t, LeafFor(t, k)), k)
    BY <1>1, <1>2, ShownIsFound
  <2> QED
    BY <1>3, <1>4, <2>1 DEF LeafFor
<1>6. PICK e : e = [s.entries[a] EXCEPT ![i + 1].value = v]
  OBVIOUS
<1>7. PICK z : z = WithEntries(s, a, e)
  OBVIOUS
<1>8. SearchTree(z, {}) /\ Shows(z, [f EXCEPT ![k] = v])
  <2>1. SearchTree(WithEntries(s, a, e), {}) /\ Shows(WithEntries(s, a, e), [f EXCEPT ![k] = v])
    BY <1>2, <1>4, <1>5, <1>6, LeafReplaced
  <2> QED
    BY <1>7, <2>1
<1>9. Shape(s) /\ s.entries[a] \in Seq(Entry) /\ Ascending(s.entries[a]) /\ i + 1 \in 1 .. Len(s.entries[a])
  <2>1. a = Last(w).node /\ WayFrom(s, s.root, k, w)
    BY <1>5
  <2>2. /\ Shape(s) /\ s.entries[a] \in Seq(Entry) /\ Ascending(s.entries[a])
        /\ f[k] # NoValue => i + 1 \in 1 .. Len(s.entries[a])
    BY ONLY <1>2, <1>4, <2>1, k \in Key, AtLeaf
  <2> QED
    BY <2>2
<1>10. e \in Seq(Entry)
  <2>1. PICK c : c = i + 1
    OBVIOUS
  <2>2. c \in 1 .. Len(s.entries[a])
    BY <1>9, <2>1
  <2>3. Replaced(s.entries[a], c, v, [s.entries[a] EXCEPT ![c].value = v])
    BY <1>9, <2>2, ValueReplaced
  <2> QED
    BY <1>6, <2>1, <2>3 DEF Replaced
<1>11. /\ z.root = s.root /\ z.nodes = s.nodes /\ z.over = s.over /\ z.entries[a] = e
       /\ \A m \in s.nodes : m # a => z.entries[m] = s.entries[m]
  BY <1>5, <1>7, <1>9, <1>10, WithEntriesIs
<1>12. t.root = s.root /\ \A m \in s.nodes : Holds(t, s, m)
  BY <1>2, HoldsAll
<1>13. /\ Loads(t, a) /\ Node(t, a) = t.nodes[a] /\ t.nodes[a].entries = s.entries[a] /\ t.nodes[a].overflow = s.over[a]
       /\ a \in DOMAIN t.nodes /\ t.nodes[a] \in NodeType /\ t.nodes[a].overflow # FreeMark /\ t \in TreeType
  BY <1>1, <1>5, <1>12, LoadsIs, StoredIs DEF Holds, Marked
<1>14. PICK d : d = [t.nodes[a] EXCEPT !.entries = e]
  OBVIOUS
<1>15. d \in NodeType /\ d.entries = e /\ d.overflow = s.over[a] /\ d.overflow # FreeMark
  BY <1>10, <1>13, <1>14 DEF NodeType
<1>16. u = [t EXCEPT !.nodes[a] = d]
  <2>1. e = [t.nodes[a].entries EXCEPT ![KeyIndex(Node(t, a), k) + 1].value = v]
    BY <1>5, <1>6, <1>13
  <2> QED
    BY <1>14, <2>1
<1>17. Given(t, a, d, u)
  BY <1>1, <1>13, <1>15, <1>16 DEF Given
<1>18. Edited(t, u, {a}) /\ u.root = t.root /\ u.nodes[a] = d
  BY ONLY <1>17, NodeEdited
<1>19. Stored(u) /\ FreeSound(u) /\ Loads(u, a)
  <2>1. (Loads(u, a) <=> Loads(t, a)) /\ FreeSound(u)
    BY ONLY <1>1, <1>18, EditedIs
  <2>2. Stored(u)
    BY <1>18 DEF Edited
  <2> QED
    BY <1>13, <2>1, <2>2
<1>20. Holds(u, z, a)
  BY <1>11, <1>15, <1>18, <1>19 DEF Holds
<1>21. ASSUME NEW m \in s.nodes, m # a
       PROVE  Holds(u, z, m)
  <2>1. Holds(t, z, m)
    BY <1>11, <1>12, <1>21 DEF Holds
  <2>2. m \notin {a}
    BY <1>21
  <2> QED
    BY ONLY <1>18, <2>1, <2>2, StillHolds
<1>22. u.root = z.root /\ \A m \in z.nodes : Holds(u, z, m)
  BY <1>11, <1>12, <1>18, <1>20, <1>21
<1> QED
  BY ONLY <1>8, <1>19, <1>22, DoneIs

-----------------------------------------------------------------------------
(* The turns of a call.                                                    *)

Stacks == Seq([node : Nat, index : Nat])

OpType == [call : Promise!Calls, key : Key, value : Nat \cup {NoValue}, stack : Stacks, saved : TreeType]

\* The first turn of a call: nothing has happened.
FirstTurn(t, o) == t = o.saved /\ o.stack = Descent(t, o.call.key) /\ o.key = o.call.key /\ o.value = o.call.value

\* A later one of Insert: the tree has the new key, but the upper half of a
\* split node is not yet known to its parent.
UpTurn(t, o, f) ==
  /\ o.call.kind = "insert" /\ f[o.call.key] = NoValue
  /\ Growing(t, [f EXCEPT ![o.call.key] = o.call.value], o.stack, [key |-> o.key, value |-> o.value])
  /\ o.stack # <<>> /\ ~ IsLeaf(Node(t, Last(o.stack).node))

\* A later one of Remove: the key is gone, and with it a node that its parent
\* still leads to.
BackTurn(t, o, f) ==
  /\ o.call.kind = "remove" /\ f[o.call.key] # NoValue
  /\ Shrinking(t, [f EXCEPT ![o.call.key] = NoValue], o.stack)
  /\ o.stack # <<>>

\* The tree shows f, or did when the running call began.
Stands(t, o, f) ==
  /\ f \in Pairs
  /\ \/ o \in {NoOp, Failed} /\ Done(t, f)
     \/ /\ o \in OpType /\ Done(o.saved, f)
        /\ FirstTurn(t, o) \/ UpTurn(t, o, f) \/ BackTurn(t, o, f)

LEMMA CallsAre ==
  ASSUME NEW c \in Promise!Calls
  PROVE  /\ c.kind \in {"insert", "remove"} /\ c.key \in Key
         /\ c.kind = "insert" => c.value \in Nat /\ c.value # NoValue
         /\ c # Promise!Ended /\ c # Promise!Failed
<1>1. \A k \in Key : \A v \in Values[k] : v \in Nat /\ v # NoValue
  BY NodesAssumption
<1> QED
  BY <1>1 DEF Promise!Calls, Promise!Ended, Promise!Failed

\* Between two calls.
LEMMA RestIs ==
  ASSUME NEW o, o \in {NoOp, Failed}
  PROVE  o.call.kind \in {"none", "failed"} /\ o.call \in {Promise!Ended, Promise!Failed}
  BY DEF NoOp, Failed, Promise!Ended, Promise!Failed

Resting(o) == o.call.kind \in {"none", "failed"}

LEMMA StandsIs ==
  ASSUME NEW t, NEW o, NEW f, Stands(t, o, f)
  PROVE  /\ f \in Pairs
         /\ Resting(o) => Done(t, f) /\ o \in {NoOp, Failed}
         /\ ~ Resting(o) => /\ o \in OpType /\ Done(o.saved, f)
                            /\ FirstTurn(t, o) \/ UpTurn(t, o, f) \/ BackTurn(t, o, f)
                            /\ o.call \in Promise!Calls /\ o.call.key \in Key
                            /\ o.call \notin {Promise!Ended, Promise!Failed}
<1>1. o \in OpType => ~ Resting(o) /\ o.call \in Promise!Calls
  BY CallsAre DEF OpType, Resting
<1>2. o \in {NoOp, Failed} => Resting(o)
  BY RestIs DEF Resting
<1> QED
  BY <1>1, <1>2, CallsAre DEF Stands

LEMMA StandsIdle ==
  ASSUME NEW f, Stands(tree, op, f), Idle
  PROVE  f \in Pairs /\ Done(tree, f) /\ op \in {NoOp, Failed}
<1>1. Resting(op)
  BY DEF Resting, Idle
<1> QED
  BY <1>1, StandsIs

LEMMA StandsRunning ==
  ASSUME NEW f, Stands(tree, op, f), ~ Idle
  PROVE  /\ f \in Pairs /\ op \in OpType /\ Done(op.saved, f)
         /\ FirstTurn(tree, op) \/ UpTurn(tree, op, f) \/ BackTurn(tree, op, f)
         /\ op.call \in Promise!Calls /\ op.call.key \in Key /\ op.call \notin {Promise!Ended, Promise!Failed}
<1>1. ~ Resting(op)
  BY DEF Resting, Idle
<1> QED
  BY <1>1, StandsIs

\* What Find returns, while a call is running from the nodes as they were.
Found(t, o) == [k \in Key |-> LookUp(IF Resting(o) THEN t ELSE o.saved, k)]

LEMMA DoneIsFound ==
  ASSUME NEW t, NEW f \in Pairs, Done(t, f)
  PROVE  [k \in Key |-> LookUp(t, k)] = f
<1>1. Sound(t, f)
  BY DEF Done
<1>2. \A k \in Key : LookUp(t, k) = f[k]
  BY <1>1, SoundIsFound
<1> QED
  BY <1>2 DEF Pairs

LEMMA StandsIsFound ==
  ASSUME NEW t, NEW o, NEW f, Stands(t, o, f)
  PROVE  Found(t, o) = f
<1>1. CASE Resting(o)
  <2>1. f \in Pairs /\ Done(t, f)
    BY <1>1, StandsIs
  <2> QED
    BY <1>1, <2>1, DoneIsFound DEF Found
<1>2. CASE ~ Resting(o)
  <2>1. f \in Pairs /\ Done(o.saved, f)
    BY <1>2, StandsIs
  <2> QED
    BY <1>2, <2>1, DoneIsFound DEF Found
<1> QED
  BY <1>1, <1>2

LEMMA PairChanged ==
  ASSUME NEW f \in Pairs, NEW k \in Key, NEW v \in Nat \cup {NoValue}
  PROVE  [f EXCEPT ![k] = v] \in Pairs /\ [f EXCEPT ![k] = v][k] = v
  BY DEF Pairs

\* The leaf for a key.
LEMMA LeafForIs ==
  ASSUME NEW t, NEW f, Done(t, f), NEW k \in Key
  PROVE  /\ IsLeaf(Node(t, LeafFor(t, k)))
         /\ HasKey(Node(t, LeafFor(t, k)), k) <=> f[k] # NoValue
<1>1. Stored(t)
  BY DEF Done, Sound
<1>2. PICK s : SearchTree(s, {}) /\ Represents(t, s) /\ Shows(s, f)
  BY DEF Done, Sound
<1>3. /\ HasKey(Node(t, LeafFor(t, k)), k) <=> f[k] # NoValue
      /\ LeafFor(t, k) \in s.nodes /\ s.rank[LeafFor(t, k)] = 1
  BY <1>1, <1>2, ShownIsFound
<1>4. IsLeaf(Node(t, LeafFor(t, k)))
  BY <1>2, <1>3, LeafIs
<1> QED
  BY <1>3, <1>4

\* In the first turn the node on top of the stack is the leaf for the key.
LEMMA FirstIs ==
  ASSUME NEW f, Stands(tree, op, f), ~ Idle, FirstTurn(tree, op), NEW k, k = op.call.key
  PROVE  /\ Done(tree, f) /\ op.key = k /\ op.stack = Descent(tree, k)
         /\ IsLeaf(This) /\ (HasKey(This, k) <=> f[k] # NoValue)
<1>1. Done(tree, f) /\ op.key = k /\ op.stack = Descent(tree, k) /\ k \in Key
  BY StandsRunning DEF FirstTurn
<1>2. This = Node(tree, LeafFor(tree, k))
  BY <1>1 DEF This, At, LeafFor
<1> QED
  BY <1>1, <1>2, LeafForIs

\* Insert finds its key only in its first turn.
LEMMA InsertFinds ==
  ASSUME NEW f, Stands(tree, op, f), Inserting, Exists
  PROVE  f[op.call.key] # NoValue /\ ~ Idle /\ Done(tree, f)
<1>1. ~ Idle
  BY DEF Inserting, Idle
<1>2. FirstTurn(tree, op)
  <2>1. FirstTurn(tree, op) \/ UpTurn(tree, op, f) \/ BackTurn(tree, op, f)
    BY <1>1, StandsRunning
  <2>2. ~ UpTurn(tree, op, f)
    BY DEF UpTurn, Exists, This, At
  <2>3. ~ BackTurn(tree, op, f)
    BY DEF BackTurn, Inserting
  <2> QED
    BY <2>1, <2>2, <2>3
<1> QED
  BY <1>1, <1>2, FirstIs DEF Exists

\* Otherwise the tree is growing.
LEMMA InsertGrows ==
  ASSUME NEW f, Stands(tree, op, f), Inserting, ~ Exists
  PROVE  /\ ~ Idle /\ f[op.call.key] = NoValue
         /\ Growing(tree, [f EXCEPT ![op.call.key] = op.call.value], op.stack, [key |-> op.key, value |-> op.value])
         /\ [f EXCEPT ![op.call.key] = op.call.value] \in Pairs
<1>1. ~ Idle
  BY DEF Inserting, Idle
<1>2. /\ f \in Pairs /\ op \in OpType /\ op.call \in Promise!Calls /\ op.call.key \in Key
      /\ FirstTurn(tree, op) \/ UpTurn(tree, op, f) \/ BackTurn(tree, op, f)
  BY <1>1, StandsRunning
<1>3. PICK k : k = op.call.key
  OBVIOUS
<1>4. PICK v : v = op.call.value
  OBVIOUS
<1>5. k \in Key /\ v \in Nat /\ v # NoValue
  BY <1>2, <1>3, <1>4, CallsAre DEF Inserting
<1>6. [f EXCEPT ![k] = v] \in Pairs
  BY <1>2, <1>5, PairChanged
<1>7. CASE FirstTurn(tree, op)
  <2>1. Done(tree, f) /\ op.stack = Descent(tree, k) /\ f[k] = NoValue /\ op.key = k
    BY <1>1, <1>3, <1>7, FirstIs DEF Exists
  <2>2. Growing(tree, [f EXCEPT ![k] = v], Descent(tree, k), [key |-> k, value |-> v])
    BY <1>2, <1>5, <2>1, GrowthStarts
  <2>3. op.value = v
    BY <1>4, <1>7 DEF FirstTurn
  <2> QED
    BY <1>1, <1>3, <1>4, <1>6, <2>1, <2>2, <2>3
<1>8. CASE UpTurn(tree, op, f)
  BY <1>1, <1>3, <1>4, <1>6, <1>8 DEF UpTurn
<1>9. CASE BackTurn(tree, op, f)
  BY <1>9 DEF BackTurn, Inserting
<1> QED
  BY <1>2, <1>7, <1>8, <1>9

\* Remove misses its key only in its first turn.
LEMMA RemoveMisses ==
  ASSUME NEW f, Stands(tree, op, f), Removing, ~ Present
  PROVE  f[op.call.key] = NoValue /\ ~ Idle /\ Done(tree, f)
<1>1. ~ Idle
  BY DEF Removing, Idle
<1>2. FirstTurn(tree, op)
  <2>1. FirstTurn(tree, op) \/ UpTurn(tree, op, f) \/ BackTurn(tree, op, f)
    BY <1>1, StandsRunning
  <2>2. ~ UpTurn(tree, op, f)
    BY DEF UpTurn, Removing
  <2>3. ASSUME BackTurn(tree, op, f)
        PROVE  FALSE
    <3>1. PICK g : g = [f EXCEPT ![op.call.key] = NoValue]
      OBVIOUS
    <3>2. Stored(tree)
      BY <2>3 DEF BackTurn, Shrinking
    <3>3. PICK s : ShrinksTo(tree, g, op.stack, s)
      BY <2>3, <3>1 DEF BackTurn, Shrinking
    <3>4. ~ IsLeaf(Node(tree, Last(op.stack).node))
      BY <3>2, <3>3, ShrinkageIs
    <3> QED
      BY <3>4 DEF Present, This, At
  <2> QED
    BY <2>1, <2>2, <2>3
<1>3. Done(tree, f) /\ op.key = op.call.key /\ (HasKey(This, op.call.key) <=> f[op.call.key] # NoValue)
  BY <1>1, <1>2, FirstIs
<1> QED
  BY <1>1, <1>3 DEF Present

\* Otherwise the key is in the leaf, or the tree is shrinking.
LEMMA RemoveShrinks ==
  ASSUME NEW f, Stands(tree, op, f), Removing, Present
  PROVE  /\ ~ Idle /\ f[op.call.key] # NoValue /\ [f EXCEPT ![op.call.key] = NoValue] \in Pairs
         /\ \/ IsLeaf(This) /\ \E s : Leaves(tree, f, op.call.key, op.stack, s)
            \/ Shrinking(tree, [f EXCEPT ![op.call.key] = NoValue], op.stack)
<1>1. ~ Idle
  BY DEF Removing, Idle
<1>2. /\ f \in Pairs /\ op.call.key \in Key
      /\ FirstTurn(tree, op) \/ UpTurn(tree, op, f) \/ BackTurn(tree, op, f)
  BY <1>1, StandsRunning
<1>3. PICK k : k = op.call.key
  OBVIOUS
<1>4. [f EXCEPT ![k] = NoValue] \in Pairs
  BY <1>2, <1>3, PairChanged
<1>5. CASE FirstTurn(tree, op)
  <2>1. Done(tree, f) /\ op.stack = Descent(tree, k) /\ IsLeaf(This) /\ f[k] # NoValue
    <3>1. /\ Done(tree, f) /\ op.key = k /\ op.stack = Descent(tree, k)
          /\ IsLeaf(This) /\ (HasKey(This, k) <=> f[k] # NoValue)
      BY <1>1, <1>3, <1>5, FirstIs
    <3> QED
      BY <3>1 DEF Present
  <2>2. \E s : Leaves(tree, f, k, Descent(tree, k), s)
    BY <1>2, <1>3, <2>1, RemovalStarts
  <2> QED
    BY <1>1, <1>3, <1>4, <2>1, <2>2
<1>6. CASE UpTurn(tree, op, f)
  BY <1>6 DEF UpTurn, Removing
<1>7. CASE BackTurn(tree, op, f)
  BY <1>1, <1>3, <1>4, <1>7 DEF BackTurn
<1> QED
  BY <1>2, <1>5, <1>6, <1>7

\* What a call does to its key when it ends.
Ends(f, c) == IF (c.kind = "insert") = (f[c.key] = NoValue) THEN [f EXCEPT ![c.key] = c.value] ELSE f

LEMMA EndsIs ==
  ASSUME NEW f \in Pairs, NEW c \in Promise!Calls
  PROVE  /\ c.kind = "insert" /\ f[c.key] = NoValue => Ends(f, c) = [f EXCEPT ![c.key] = c.value]
         /\ c.kind = "insert" /\ f[c.key] # NoValue => Ends(f, c) = f
         /\ c.kind = "remove" /\ f[c.key] = NoValue => Ends(f, c) = f
         /\ c.kind = "remove" /\ f[c.key] # NoValue => Ends(f, c) = [f EXCEPT ![c.key] = NoValue]
         /\ Ends(f, c) \in Pairs
<1>1. c.kind \in {"insert", "remove"} /\ c.key \in Key /\ c.value \in Nat \cup {NoValue}
  BY NodesAssumption DEF Promise!Calls
<1>2. c.kind = "remove" => c.value = NoValue
  BY DEF Promise!Calls
<1>3. ASSUME c.kind = "insert", f[c.key] = NoValue
      PROVE  Ends(f, c) = [f EXCEPT ![c.key] = c.value]
  <2>1. (c.kind = "insert") = (f[c.key] = NoValue)
    BY <1>3
  <2> QED
    BY <2>1 DEF Ends
<1>4. ASSUME c.kind = "insert", f[c.key] # NoValue
      PROVE  Ends(f, c) = f
  <2>1. (c.kind = "insert") # (f[c.key] = NoValue)
    BY <1>4
  <2> QED
    BY <2>1 DEF Ends
<1>5. ASSUME c.kind = "remove", f[c.key] = NoValue
      PROVE  Ends(f, c) = f
  <2>1. (c.kind = "insert") # (f[c.key] = NoValue)
    BY <1>5
  <2> QED
    BY <2>1 DEF Ends
<1>6. ASSUME c.kind = "remove", f[c.key] # NoValue
      PROVE  Ends(f, c) = [f EXCEPT ![c.key] = NoValue]
  <2>1. (c.kind = "insert") = (f[c.key] = NoValue)
    BY <1>6
  <2> QED
    BY <1>2, <1>6, <2>1 DEF Ends
<1>7. Ends(f, c) \in Pairs
  BY <1>1, PairChanged DEF Ends
<1> QED
  BY ONLY <1>1, <1>3, <1>4, <1>5, <1>6, <1>7

\* A call ends.
Finishes(f) == ~ Idle /\ op' = NoOp /\ Done(tree', Ends(f, op.call))

\* A turn that is not the last.
GoesOn(f) == ~ Idle /\ op' \in OpType /\ op'.call = op.call /\ op'.saved = op.saved
             /\ (UpTurn(tree', op', f) \/ BackTurn(tree', op', f))

LEMMA InsertExistsStep ==
  ASSUME NEW f, Stands(tree, op, f), InsertExists
  PROVE  Finishes(f)
<1>1. f[op.call.key] # NoValue /\ ~ Idle /\ Done(tree, f)
  BY InsertFinds DEF InsertExists
<1>2. Ends(f, op.call) = f
  BY <1>1, StandsRunning, EndsIs DEF InsertExists, Inserting
<1> QED
  BY <1>1, <1>2 DEF InsertExists, Finishes

LEMMA RemoveMissingStep ==
  ASSUME NEW f, Stands(tree, op, f), RemoveMissing
  PROVE  Finishes(f)
<1>1. f[op.call.key] = NoValue /\ ~ Idle /\ Done(tree, f)
  BY RemoveMisses DEF RemoveMissing
<1>2. Ends(f, op.call) = f
  BY <1>1, StandsRunning, EndsIs DEF RemoveMissing, Removing
<1> QED
  BY <1>1, <1>2 DEF RemoveMissing, Finishes

LEMMA InsertKeyStep ==
  ASSUME NEW f, Stands(tree, op, f), InsertKey
  PROVE  Finishes(f)
<1>1. PICK g : g = [f EXCEPT ![op.call.key] = op.call.value]
  OBVIOUS
<1>2. PICK x : x = [key |-> op.key, value |-> op.value]
  OBVIOUS
<1>3. ~ Idle /\ f[op.call.key] = NoValue /\ Growing(tree, g, op.stack, x)
  BY <1>1, <1>2, InsertGrows DEF InsertKey
<1>4. Ends(f, op.call) = g
  BY <1>1, <1>3, StandsRunning, EndsIs DEF InsertKey, Inserting
<1>5. PICK a : a = Last(op.stack).node
  OBVIOUS
<1>6. PICK i : i = Last(op.stack).index
  OBVIOUS
<1>7. PICK u : u = tree'
  OBVIOUS
<1>8. u = [tree EXCEPT !.nodes[a].entries = InsertAt(@, i + 1, x)]
  BY <1>2, <1>5, <1>6, <1>7 DEF InsertKey, At
<1>9. Done(u, g)
  BY ONLY <1>3, <1>5, <1>6, <1>8, KeyAdded
<1> QED
  BY <1>3, <1>4, <1>7, <1>9 DEF InsertKey, Finishes

\* The node that has no room is split.
LEMMA NodeIsFull ==
  ASSUME NEW f, NEW x, Growing(tree, f, op.stack, x), x.key = op.key, ~ Fits
  PROVE  Full(tree, At.node, x)
<1>1. Stored(tree)
  BY DEF Growing
<1>2. PICK s : GrowsTo(tree, f, op.stack, x, s)
  BY DEF Growing
<1>3. PICK a : a = Last(op.stack).node
  OBVIOUS
<1>4. PICK i : i = Last(op.stack).index
  OBVIOUS
<1>5. Node(tree, a) = tree.nodes[a] /\ tree.nodes[a].entries \in Seq(Entry) /\ x \in Entry
  BY <1>1, <1>2, <1>3, <1>4, GrowthIs
<1>6. PICK e : e = tree.nodes[a].entries
  OBVIOUS
<1>7. PICK n \in Nat : n = Bytes(e) + KeyLength[x.key]
  <2>1. Bytes(e) \in Nat
    <3>1. e \in Seq(Entry)
      BY <1>5, <1>6
    <3>2. PICK h : SumsOf(e, h) /\ Bytes(e) = h[Len(e)]
      BY ONLY <3>1, BytesExist
    <3>3. Len(e) \in 0 .. Len(e)
      BY <3>1
    <3> QED
      BY ONLY <3>2, <3>3 DEF SumsOf
  <2>2. KeyLength[x.key] \in Nat
    BY <1>5, NodesAssumption DEF Entry
  <2> QED
    BY <2>1, <2>2
<1>8. PICK c \in Nat : c = Len(e) + 1
  BY <1>5, <1>6
<1>9. Space(n, c) \in Int
  <2>1. n <= n
    OBVIOUS
  <2> QED
    BY ONLY <2>1, n \in Nat, c \in Nat, SpaceIs
<1>10. ~ (Space(n, c) < NodeSize)
  BY <1>3, <1>5, <1>6, <1>7, <1>8 DEF Fits, This, At, NumKeys
<1>11. NodeSize \in Nat
  BY NodesAssumption
<1>12. Space(n, c) >= NodeSize
  BY ONLY <1>9, <1>10, <1>11
<1> QED
  BY <1>3, <1>6, <1>7, <1>8, <1>12 DEF Full, At

LEMMA InsertSplitStep ==
  ASSUME KeysAreShort, NEW f, Stands(tree, op, f), InsertSplit
  PROVE  Finishes(f) \/ GoesOn(f)
<1>1. PICK g : g = [f EXCEPT ![op.call.key] = op.call.value]
  OBVIOUS
<1>2. PICK x : x = [key |-> op.key, value |-> op.value]
  OBVIOUS
<1>3. ~ Idle /\ f[op.call.key] = NoValue /\ Growing(tree, g, op.stack, x)
  BY <1>1, <1>2, InsertGrows DEF InsertSplit
<1>4. Ends(f, op.call) = g
  BY <1>1, <1>3, StandsRunning, EndsIs DEF InsertSplit, Inserting
<1>5. PICK a : a = Last(op.stack).node
  OBVIOUS
<1>6. PICK i : i = Last(op.stack).index
  OBVIOUS
<1>7. Full(tree, a, x)
  BY <1>2, <1>3, <1>5, NodeIsFull DEF InsertSplit, At
<1>8. PICK split : split = Split(Node(tree, a), i, x)
  OBVIOUS
<1>9. PICK st : st = op.stack
  OBVIOUS
<1>10. PICK new \in SplitAllocations, told \in BOOLEAN :
         /\ new.root # Null => tree' = Rooted(SplitNodes(new.tree, a, new.other, split, told), new.root, a, new.other, split.up)
                               /\ op' = NoOp
         /\ new.root = Null => /\ tree' = SplitNodes(new.tree, a, new.other, split, told)
                               /\ op' = [op EXCEPT !.key = split.up, !.value = new.other, !.stack = Front(@)]
  <2>1. Outcomes(This.left) \subseteq BOOLEAN
    BY DEF Outcomes
  <2> QED
    BY <1>2, <1>5, <1>6, <1>8, <2>1 DEF InsertSplit, At, This
<1>11. Stored(tree) /\ FreeSound(tree) /\ tree.root = tree.root
  BY <1>3 DEF Growing
<1>12. CASE a = tree.root
  <2>1. PICK rn \in Allocate(tree) : \E y \in Allocate(rn.tree) : new = [root |-> rn.node, other |-> y.node, tree |-> y.tree]
    BY <1>5, <1>10, <1>12 DEF SplitAllocations, At
  <2>2. PICK y \in Allocate(rn.tree) : new = [root |-> rn.node, other |-> y.node, tree |-> y.tree]
    BY <2>1
  <2>3. new.root = rn.node /\ new.other = y.node /\ new.tree = y.tree
    BY <2>2
  <2>4. Allocated(tree, rn.node, rn.tree)
    BY <1>11, AllocateIs
  <2>5. new.root # Null
    BY <2>3, <2>4 DEF Allocated, Null
  <2>6. PICK u : u = tree'
    OBVIOUS
  <2>7. u = Rooted(SplitNodes(y.tree, a, y.node, split, told), rn.node, a, y.node, split.up)
    BY <1>10, <2>3, <2>5, <2>6
  <2>8. Done(u, g)
    BY ONLY KeysAreShort, <1>3, <1>5, <1>6, <1>7, <1>8, <1>12, <2>7, RootSplit, rn \in Allocate(tree), y \in Allocate(rn.tree)
  <2> QED
    BY <1>3, <1>4, <1>10, <2>5, <2>6, <2>8 DEF Finishes
<1>13. CASE a # tree.root
  <2>1. PICK y \in Allocate(tree) : new = [root |-> Null, other |-> y.node, tree |-> y.tree]
    BY <1>5, <1>10, <1>13 DEF SplitAllocations, At
  <2>2. new.root = Null /\ new.other = y.node /\ new.tree = y.tree
    BY <2>1
  <2>3. PICK u : u = tree'
    OBVIOUS
  <2>4. u = SplitNodes(y.tree, a, y.node, split, told)
    BY <1>10, <2>2, <2>3
  <2>5. Growing(tree, g, st, x) /\ a = Last(st).node /\ i = Last(st).index
    BY <1>3, <1>5, <1>6, <1>9
  <2>6. /\ Growing(u, g, Front(st), [key |-> split.up, value |-> y.node])
        /\ st # <<>> /\ Front(st) # <<>> /\ ~ IsLeaf(Node(u, Last(Front(st)).node))
        /\ split.up \in Key /\ y.node \in Nat
    BY ONLY KeysAreShort, <1>7, <1>8, <1>13, <2>4, <2>5, GoesUp, y \in Allocate(tree)
  <2>7. op' = [op EXCEPT !.key = split.up, !.value = y.node, !.stack = Front(@)]
    BY <1>10, <2>2
  <2>8. op \in OpType
    BY <1>3, StandsRunning
  <2>9. op.stack \in Stacks /\ Front(st) \in Stacks
    <3>1. st \in Stacks
      BY <1>9, <2>8 DEF OpType
    <3>2. Front(st) \in Stacks
      BY ONLY <2>6, <3>1, FrontIs DEF Stacks
    <3> QED
      BY <1>9, <3>1, <3>2
  <2>10. /\ op' \in OpType /\ op'.call = op.call /\ op'.saved = op.saved
         /\ op'.key = split.up /\ op'.value = y.node /\ op'.stack = Front(st)
    BY <1>9, <2>6, <2>7, <2>8, <2>9 DEF OpType
  <2>11. UpTurn(tree', op', f)
    <3>1. op.call.kind = "insert"
      BY DEF InsertSplit, Inserting
    <3>2. [key |-> op'.key, value |-> op'.value] = [key |-> split.up, value |-> y.node]
      BY <2>10
    <3> QED
      BY <1>1, <1>3, <2>3, <2>6, <2>10, <3>1, <3>2 DEF UpTurn
  <2> QED
    BY <1>3, <2>10, <2>11 DEF GoesOn
<1> QED
  BY <1>12, <1>13

\* What Remove has on top of its stack.
RemovesAt(f, a, i, st, k, g) ==
  /\ ~ Idle /\ a = Last(st).node /\ i = Last(st).index /\ st = op.stack /\ k = op.call.key
  /\ g = [f EXCEPT ![k] = NoValue] /\ Ends(f, op.call) = g
  /\ Loads(tree, a) /\ This = tree.nodes[a] /\ a = At.node /\ i = At.index
  /\ NumKeys(This) = Len(tree.nodes[a].entries) /\ NumKeys(This) \in Nat
  /\ \/ IsLeaf(This) /\ NumKeys(This) > 0 /\ \E s : Leaves(tree, f, k, st, s)
     \/ ~ IsLeaf(This) /\ Shrinking(tree, g, st)

LEMMA RemovesWhere ==
  ASSUME NEW f, Stands(tree, op, f), Removing, Present
  PROVE  \E a, i, st, k, g : RemovesAt(f, a, i, st, k, g)
<1>1. PICK st : st = op.stack
  OBVIOUS
<1>2. PICK a : a = Last(st).node
  OBVIOUS
<1>3. PICK i : i = Last(st).index
  OBVIOUS
<1>4. PICK k : k = op.call.key
  OBVIOUS
<1>5. PICK g : g = [f EXCEPT ![k] = NoValue]
  OBVIOUS
<1>6. /\ ~ Idle /\ f[k] # NoValue /\ g \in Pairs
      /\ \/ IsLeaf(This) /\ \E s : Leaves(tree, f, k, st, s)
         \/ Shrinking(tree, g, st)
  BY <1>1, <1>4, <1>5, RemoveShrinks
<1>7. Ends(f, op.call) = g
  BY <1>4, <1>5, <1>6, StandsRunning, EndsIs DEF Removing
<1>8. This = Node(tree, a) /\ a = At.node /\ i = At.index
  BY <1>1, <1>2, <1>3 DEF This, At
<1>9. CASE IsLeaf(This) /\ \E s : Leaves(tree, f, k, st, s)
  <2>1. PICK s : Leaves(tree, f, k, st, s)
    BY <1>9
  <2>2. /\ Shape(s) /\ a \in s.nodes /\ \A m \in s.nodes : Holds(tree, s, m)
        /\ i + 1 \in 1 .. Len(s.entries[a])
    BY <1>2, <1>3, <2>1 DEF Leaves
  <2>3. Loads(tree, a) /\ tree.nodes[a].entries = s.entries[a] /\ Node(tree, a) = tree.nodes[a]
    BY <2>2, LoadsIs DEF Holds
  <2>4. Len(s.entries[a]) \in Nat /\ Len(s.entries[a]) > 0
    <3>1. s.entries[a] \in Seq(Entry)
      BY <2>2, ShapeIs
    <3> QED
      BY <2>2, <3>1
  <2>5. NumKeys(This) = Len(tree.nodes[a].entries) /\ NumKeys(This) = Len(s.entries[a])
    BY <1>8, <2>3 DEF NumKeys
  <2>6. RemovesAt(f, a, i, st, k, g)
    BY <1>1, <1>2, <1>3, <1>4, <1>5, <1>6, <1>7, <1>8, <1>9, <2>3, <2>4, <2>5 DEF RemovesAt
  <2> QED
    BY <2>6
<1>10. CASE Shrinking(tree, g, st)
  <2>1. Stored(tree)
    BY <1>10 DEF Shrinking
  <2>2. PICK s : ShrinksTo(tree, g, st, s)
    BY <1>10 DEF Shrinking
  <2>3. /\ s.entries[a] \in Seq(Entry) /\ Len(s.entries[a]) \in Nat
        /\ Loads(tree, a) /\ Node(tree, a) = tree.nodes[a] /\ tree.nodes[a].entries = s.entries[a]
        /\ ~ IsLeaf(Node(tree, a))
    BY ONLY <1>2, <1>3, <2>1, <2>2, ShrinkageIs
  <2>4. NumKeys(This) = Len(tree.nodes[a].entries) /\ NumKeys(This) = Len(s.entries[a])
    BY <1>8, <2>3 DEF NumKeys
  <2>5. RemovesAt(f, a, i, st, k, g)
    BY <1>1, <1>2, <1>3, <1>4, <1>5, <1>6, <1>7, <1>8, <1>10, <2>3, <2>4 DEF RemovesAt
  <2> QED
    BY <2>5
<1> QED
  BY <1>6, <1>9, <1>10

\* A node without keys.
LEMMA NoEntries ==
  ASSUME NEW t, Stored(t), NEW a, Loads(t, a), Len(t.nodes[a].entries) = 0
  PROVE  t.nodes[a].entries = <<>>
<1>1. t.nodes[a] \in NodeType
  BY LoadsIs, StoredIs
<1> QED
  BY <1>1 DEF NodeType

LEMMA StoredNow ==
  ASSUME NEW f, NEW a, NEW i, NEW st, NEW k, NEW g, RemovesAt(f, a, i, st, k, g)
  PROVE  Stored(tree)
  BY DEF RemovesAt, Leaves, Shrinking

LEMMA RemoveFromRootStep ==
  ASSUME NEW f, Stands(tree, op, f), RemoveFromRoot
  PROVE  Finishes(f)
<1>1. PICK a, i, st, k, g : RemovesAt(f, a, i, st, k, g)
  BY RemovesWhere DEF RemoveFromRoot
<1>2. PICK u : u = tree'
  OBVIOUS
<1>3. u = Emptied(tree) /\ op' = NoOp
  BY <1>2 DEF RemoveFromRoot
<1>4. /\ a = Last(st).node /\ a = tree.root /\ NumKeys(This) = Len(tree.nodes[a].entries)
      /\ ~ Idle /\ Ends(f, op.call) = g /\ g = [f EXCEPT ![k] = NoValue] /\ Loads(tree, a)
  BY <1>1 DEF RemovesAt, RemoveFromRoot, EmptyRoot
<1>5. CASE IsLeaf(This) /\ NumKeys(This) > 0 /\ \E s : Leaves(tree, f, k, st, s)
  <2>1. PICK s : Leaves(tree, f, k, st, s)
    BY <1>5
  <2>2. Len(tree.nodes[a].entries) = 1
    BY <1>4, <1>5 DEF RemoveFromRoot, EmptyRoot
  <2>3. Done(u, [f EXCEPT ![k] = NoValue])
    BY ONLY <1>3, <1>4, <2>1, <2>2, LeafEmptied
  <2> QED
    BY <1>2, <1>3, <1>4, <2>3 DEF Finishes
<1>6. CASE ~ IsLeaf(This) /\ Shrinking(tree, g, st)
  <2>1. Len(tree.nodes[a].entries) = 0
    BY <1>4, <1>6 DEF RemoveFromRoot, EmptyRoot
  <2>2. tree.nodes[a].entries = <<>>
    BY <1>1, <1>4, <2>1, StoredNow, NoEntries
  <2>3. Shrinking(tree, g, st)
    BY <1>6
  <2>4. Done(u, g)
    BY ONLY <1>3, <1>4, <2>2, <2>3, IndexEmptied
  <2> QED
    BY <1>2, <1>3, <1>4, <2>4 DEF Finishes
<1> QED
  BY <1>1, <1>5, <1>6 DEF RemovesAt

LEMMA RemoveKeyStep ==
  ASSUME NEW f, Stands(tree, op, f), RemoveKey
  PROVE  Finishes(f)
<1>1. PICK a, i, st, k, g : RemovesAt(f, a, i, st, k, g)
  BY RemovesWhere DEF RemoveKey
<1>2. PICK u : u = tree'
  OBVIOUS
<1>3. /\ a = Last(st).node /\ i = Last(st).index /\ NumKeys(This) = Len(tree.nodes[a].entries)
      /\ ~ Idle /\ Ends(f, op.call) = g /\ g = [f EXCEPT ![k] = NoValue] /\ Loads(tree, a)
      /\ a = At.node /\ i = At.index /\ This = tree.nodes[a] /\ This = Node(tree, a)
  BY <1>1, LoadsIs DEF RemovesAt
<1>4. u = [tree EXCEPT !.nodes[a] = WithoutKey(@, i)] /\ op' = NoOp
  BY <1>2, <1>3 DEF RemoveKey
<1>5. CASE IsLeaf(This) /\ NumKeys(This) > 0 /\ \E s : Leaves(tree, f, k, st, s)
  <2>1. PICK s : Leaves(tree, f, k, st, s)
    BY <1>5
  <2>2. IsLeaf(Node(tree, a))
    BY <1>3, <1>5
  <2>3. Done(u, [f EXCEPT ![k] = NoValue])
    BY ONLY <1>3, <1>4, <2>1, <2>2, LeafKeyRemoved
  <2> QED
    BY <1>2, <1>3, <1>4, <2>3 DEF Finishes
<1>6. CASE ~ IsLeaf(This) /\ Shrinking(tree, g, st)
  <2>1. tree.nodes[a].entries # <<>>
    <3>1. Len(tree.nodes[a].entries) > 0
      BY <1>1, <1>3 DEF RemoveKey, KeepsNode, RemovesAt
    <3> QED
      BY <3>1
  <2>2. Shrinking(tree, g, st)
    BY <1>6
  <2>3. Done(u, g)
    BY ONLY <1>3, <1>4, <2>1, <2>2, IndexKeyRemoved
  <2> QED
    BY <1>2, <1>3, <1>4, <2>3 DEF Finishes
<1> QED
  BY <1>1, <1>5, <1>6 DEF RemovesAt

LEMMA RemoveNodeStep ==
  ASSUME NEW f, Stands(tree, op, f), RemoveNode
  PROVE  GoesOn(f)
<1>1. PICK a, i, st, k, g : RemovesAt(f, a, i, st, k, g)
  BY RemovesWhere DEF RemoveNode
<1>2. PICK u : u = tree'
  OBVIOUS
<1>3. /\ a = Last(st).node /\ i = Last(st).index /\ NumKeys(This) = Len(tree.nodes[a].entries) /\ NumKeys(This) \in Nat
      /\ ~ Idle /\ g = [f EXCEPT ![k] = NoValue] /\ Loads(tree, a) /\ k = op.call.key
      /\ a = At.node /\ i = At.index /\ This = tree.nodes[a] /\ st = op.stack
  BY <1>1 DEF RemovesAt
<1>n. PICK n \in Nat : n = NumKeys(This)
  BY <1>3
<1>4. TakenOut(tree, a, u) /\ op' = [op EXCEPT !.stack = Front(@)]
  BY <1>2, <1>3 DEF RemoveNode, TakenOut, Outcomes
<1>5. f[k] # NoValue /\ op.call.kind = "remove"
  BY <1>3, RemoveShrinks DEF RemoveNode, Removing
<1>6. Shrinking(u, g, Front(st)) /\ st # <<>> /\ Front(st) # <<>>
  <2>1. CASE IsLeaf(This) /\ NumKeys(This) > 0 /\ \E s : Leaves(tree, f, k, st, s)
    <3>1. PICK s : Leaves(tree, f, k, st, s)
      BY <2>1
    <3>2. NumKeys(This) = 1
      <4>1. n > 0 /\ ~ (n > 1)
        BY <1>n, <2>1 DEF RemoveNode, KeepsNode
      <4>2. n = 1
        BY ONLY <4>1, n \in Nat
      <4> QED
        BY <1>n, <4>2
    <3>3. Len(tree.nodes[a].entries) = 1 /\ a # tree.root
      BY <1>3, <2>1, <3>2 DEF RemoveNode, EmptyRoot
    <3>4. TakenOut(tree, a, u) /\ a = Last(st).node
      BY <1>3, <1>4
    <3>5. Shrinking(u, [f EXCEPT ![k] = NoValue], Front(st)) /\ st # <<>> /\ Front(st) # <<>>
      BY ONLY <3>1, <3>3, <3>4, LeafDropped
    <3> QED
      BY <1>3, <3>5
  <2>2. CASE ~ IsLeaf(This) /\ Shrinking(tree, g, st)
    <3>1. NumKeys(This) = 0
      <4>1. n # 1 /\ ~ (n > 1)
        BY <1>n, <2>2 DEF RemoveNode, KeepsNode
      <4>2. n = 0
        BY ONLY <4>1, n \in Nat
      <4> QED
        BY <1>n, <4>2
    <3>2. a # tree.root /\ tree.nodes[a].entries = <<>>
      BY <1>1, <1>3, <3>1, StoredNow, NoEntries DEF RemoveNode, EmptyRoot
    <3>3. TakenOut(tree, a, u) /\ a = Last(st).node /\ Shrinking(tree, g, st)
      BY <1>3, <1>4, <2>2
    <3> QED
      BY ONLY <3>2, <3>3, IndexDropped
  <2> QED
    BY <1>1, <2>1, <2>2 DEF RemovesAt
<1>7. op \in OpType
  BY <1>3, StandsRunning
<1>8. Front(st) \in Stacks
  <2>1. st \in Stacks
    BY <1>3, <1>7 DEF OpType
  <2> QED
    BY ONLY <1>6, <2>1, FrontIs DEF Stacks
<1>9. op' \in OpType /\ op'.call = op.call /\ op'.saved = op.saved /\ op'.stack = Front(st)
  BY <1>3, <1>4, <1>7, <1>8 DEF OpType
<1>10. BackTurn(tree', op', f)
  BY <1>2, <1>3, <1>5, <1>6, <1>9 DEF BackTurn
<1> QED
  BY <1>3, <1>9, <1>10 DEF GoesOn

-----------------------------------------------------------------------------
(* The steps of the tree are steps of the dictionary.                      *)

\* The call c on the pairs f becomes d on g.
Follows(f, c, g, d) ==
  \/ c \in {Promise!Ended, Promise!Failed} /\ d \in Promise!Calls /\ g = f
  \/ c \notin {Promise!Ended, Promise!Failed} /\ d = Promise!Ended /\ g = Ends(f, c)
  \/ c \notin {Promise!Ended, Promise!Failed} /\ d = Promise!Failed /\ g = f
  \/ /\ c \in {Promise!Ended, Promise!Failed} /\ d = c
     /\ \E k \in Key, v \in UNION {Values[j] : j \in Key} : f[k] # NoValue /\ g = [f EXCEPT ![k] = v]
  \/ d = c /\ g = f

LEMMA FinishesStep ==
  ASSUME NEW f, Stands(tree, op, f), Finishes(f)
  PROVE  \E g : Stands(tree', op', g) /\ Follows(f, op.call, g, op'.call)
<1>1. /\ f \in Pairs /\ op.call \in Promise!Calls /\ op.call \notin {Promise!Ended, Promise!Failed}
  BY StandsRunning DEF Finishes
<1>2. PICK g : g = Ends(f, op.call)
  OBVIOUS
<1>3. g \in Pairs
  BY <1>1, <1>2, EndsIs
<1>4. Stands(tree', op', g)
  BY <1>2, <1>3 DEF Finishes, Stands
<1>5. op'.call = Promise!Ended
  BY DEF Finishes, NoOp, Promise!Ended
<1>6. Follows(f, op.call, g, op'.call)
  BY <1>1, <1>2, <1>5 DEF Follows
<1> QED
  BY <1>4, <1>6

LEMMA GoesOnStep ==
  ASSUME NEW f, Stands(tree, op, f), GoesOn(f)
  PROVE  \E g : Stands(tree', op', g) /\ Follows(f, op.call, g, op'.call)
<1>1. f \in Pairs /\ Done(op.saved, f)
  BY StandsRunning DEF GoesOn
<1>2. Stands(tree', op', f)
  BY <1>1 DEF GoesOn, Stands
<1>3. Follows(f, op.call, f, op'.call)
  BY DEF GoesOn, Follows
<1> QED
  BY <1>2, <1>3

LEMMA SameStep ==
  ASSUME NEW f, Stands(tree, op, f), tree' = tree, op' = op
  PROVE  \E g : Stands(tree', op', g) /\ Follows(f, op.call, g, op'.call)
<1>1. Stands(tree', op', f) /\ Follows(f, op.call, f, op'.call)
  BY DEF Follows
<1> QED
  BY <1>1

LEMMA AbortStep ==
  ASSUME NEW f, Stands(tree, op, f), ~ Idle, Abort
  PROVE  \E g : Stands(tree', op', g) /\ Follows(f, op.call, g, op'.call)
<1>1. f \in Pairs /\ Done(op.saved, f) /\ op.call \notin {Promise!Ended, Promise!Failed}
  BY StandsRunning
<1>2. Stands(tree', op', f)
  BY <1>1 DEF Abort, Stands
<1>3. op'.call = Promise!Failed
  BY DEF Abort, Failed, Promise!Failed
<1>4. Follows(f, op.call, f, op'.call)
  BY <1>1, <1>3 DEF Follows
<1> QED
  BY <1>2, <1>4

\* The nodes on the way to a leaf.
LEMMA DescentIsStack ==
  ASSUME NEW t, NEW f, Done(t, f), NEW k \in Key
  PROVE  Descent(t, k) \in Stacks
<1>1. Stored(t)
  BY DEF Done, Sound
<1>2. PICK s : SearchTree(s, {}) /\ Represents(t, s) /\ Shows(s, f)
  BY DEF Done, Sound
<1>3. PICK w : w = Descent(t, k)
  OBVIOUS
<1>4. WayFrom(s, s.root, k, w)
  BY <1>1, <1>2, <1>3, ShownIsFound
<1>5. Way(s, {}, w)
  BY <1>2, <1>4, WaySlots
<1> QED
  BY <1>3, <1>5 DEF Way, Stacks

LEMMA StartStep ==
  ASSUME NEW f, Stands(tree, op, f), NEW c \in Promise!Calls, Start(c)
  PROVE  \E g : Stands(tree', op', g) /\ Follows(f, op.call, g, op'.call)
<1>1. f \in Pairs /\ Done(tree, f) /\ op \in {NoOp, Failed}
  BY StandsIdle DEF Start, MayStart
<1>2. op.call \in {Promise!Ended, Promise!Failed}
  BY <1>1, RestIs
<1>3. c.key \in Key /\ c.value \in Nat \cup {NoValue}
  BY NodesAssumption DEF Promise!Calls
<1>4. Descent(tree, c.key) \in Stacks
  BY <1>1, <1>3, DescentIsStack
<1>5. tree \in TreeType
  BY <1>1, StoredIs DEF Done, Sound
<1>6. PICK o : o = [call |-> c, key |-> c.key, value |-> c.value, stack |-> Descent(tree, c.key), saved |-> tree]
  OBVIOUS
<1>7. op' = o /\ tree' = tree
  BY <1>6 DEF Start
<1>8. o \in OpType
  BY <1>3, <1>4, <1>5, <1>6 DEF OpType
<1>9. o.saved = tree /\ FirstTurn(tree, o) /\ o.call = c
  BY <1>6 DEF FirstTurn
<1>10. Stands(tree', op', f)
  BY <1>1, <1>7, <1>8, <1>9 DEF Stands
<1>11. Follows(f, op.call, f, op'.call)
  BY <1>2, <1>7, <1>9 DEF Follows
<1> QED
  BY <1>10, <1>11

LEMMA ReplaceStep ==
  ASSUME NEW f, Stands(tree, op, f), NEW k \in Key, NEW v \in Values[k], Replace(k, v)
  PROVE  \E g : Stands(tree', op', g) /\ Follows(f, op.call, g, op'.call)
<1>1. f \in Pairs /\ Done(tree, f) /\ op \in {NoOp, Failed}
  BY StandsIdle DEF Replace, MayStart
<1>2. op.call \in {Promise!Ended, Promise!Failed}
  BY <1>1, RestIs
<1>3. v \in Nat /\ v # NoValue
  BY NodesAssumption
<1>4. PICK a : a = LeafFor(tree, k)
  OBVIOUS
<1>5. HasKey(Node(tree, a), k)
  BY <1>4 DEF Replace
<1>6. f[k] # NoValue
  BY <1>1, <1>4, <1>5, LeafForIs
<1>7. PICK u : u = tree'
  OBVIOUS
<1>8. u = [tree EXCEPT !.nodes[a].entries[KeyIndex(Node(tree, a), k) + 1].value = v]
  BY <1>4, <1>7 DEF Replace
<1>9. PICK g : g = [f EXCEPT ![k] = v]
  OBVIOUS
<1>10. Done(u, g) /\ g \in Pairs
  <2>1. Done(u, [f EXCEPT ![k] = v])
    BY <1>1, <1>3, <1>4, <1>6, <1>8, ValueGiven
  <2> QED
    BY <1>1, <1>3, <1>9, <2>1, PairChanged
<1>11. op' = op
  BY DEF Replace
<1>12. Stands(tree', op', g)
  BY <1>1, <1>7, <1>10, <1>11 DEF Stands
<1>13. v \in UNION {Values[j] : j \in Key}
  OBVIOUS
<1>14. Follows(f, op.call, g, op'.call)
  BY <1>2, <1>6, <1>9, <1>11, <1>13 DEF Follows
<1> QED
  BY <1>12, <1>14

LEMMA InsertIsCall ==
  ASSUME NEW k \in Key, NEW v \in Values[k]
  PROVE  [kind |-> "insert", key |-> k, value |-> v] \in Promise!Calls
<1>1. v \in UNION {Values[j] : j \in Key}
  OBVIOUS
<1> QED
  BY <1>1 DEF Promise!Calls

LEMMA RemoveIsCall ==
  ASSUME NEW k \in Key
  PROVE  [kind |-> "remove", key |-> k, value |-> NoValue] \in Promise!Calls
  BY DEF Promise!Calls

\* Every step of the tree.
LEMMA TreeSteps ==
  ASSUME KeysAreShort, NEW f, Stands(tree, op, f), [Next]_vars
  PROVE  \E g : Stands(tree', op', g) /\ Follows(f, op.call, g, op'.call)
<1>1. CASE UNCHANGED vars
  BY <1>1, SameStep DEF vars
<1>2. ASSUME NEW k \in Key, NEW v \in Values[k], StartInsert(k, v)
      PROVE  \E g : Stands(tree', op', g) /\ Follows(f, op.call, g, op'.call)
  <2>1. PICK c : c = [kind |-> "insert", key |-> k, value |-> v]
    OBVIOUS
  <2>2. c \in Promise!Calls
    BY <2>1, InsertIsCall
  <2>3. Start(c)
    BY <1>2, <2>1 DEF StartInsert
  <2> QED
    BY <2>2, <2>3, StartStep
<1>3. ASSUME NEW k \in Removed, StartRemove(k)
      PROVE  \E g : Stands(tree', op', g) /\ Follows(f, op.call, g, op'.call)
  <2>1. PICK c : c = [kind |-> "remove", key |-> k, value |-> NoValue]
    OBVIOUS
  <2>2. c \in Promise!Calls
    <3>1. k \in Key
      BY NodesAssumption
    <3> QED
      BY <2>1, <3>1, RemoveIsCall
  <2>3. Start(c)
    BY <1>3, <2>1 DEF StartRemove
  <2> QED
    BY <2>2, <2>3, StartStep
<1>4. ASSUME NEW k \in Removed, NEW v \in Values[k], Replace(k, v)
      PROVE  \E g : Stands(tree', op', g) /\ Follows(f, op.call, g, op'.call)
  <2>1. k \in Key
    BY NodesAssumption
  <2> QED
    BY <1>4, <2>1, ReplaceStep
<1>5. CASE InsertExists
  BY <1>5, InsertExistsStep, FinishesStep
<1>6. CASE InsertKey
  BY <1>6, InsertKeyStep, FinishesStep
<1>7. CASE InsertSplit
  BY <1>7, InsertSplitStep, FinishesStep, GoesOnStep
<1>8. CASE InsertNoRoom
  <2>1. ~ Idle /\ Abort
    BY <1>8 DEF InsertNoRoom, Inserting, Idle
  <2> QED
    BY <2>1, AbortStep
<1>9. CASE RemoveMissing
  BY <1>9, RemoveMissingStep, FinishesStep
<1>10. CASE RemoveFromRoot
  BY <1>10, RemoveFromRootStep, FinishesStep
<1>11. CASE RemoveKey
  BY <1>11, RemoveKeyStep, FinishesStep
<1>12. CASE RemoveNode
  BY <1>12, RemoveNodeStep, GoesOnStep
<1>13. CASE WriteFails
  BY <1>13, AbortStep DEF WriteFails
<1>14. CASE Rewind \/ GetNextEntry \/ GetNoEntry
  <2>1. tree' = tree /\ op' = op
    BY <1>14 DEF Rewind, GetNextEntry, GetNoEntry
  <2> QED
    BY <2>1, SameStep
<1> QED
  BY <1>1, <1>2, <1>3, <1>4, <1>5, <1>6, <1>7, <1>8, <1>9, <1>10, <1>11, <1>12, <1>13, <1>14 DEF Next

\* A new tree is empty.
LEMMA InitStands ==
  ASSUME Init
  PROVE  Stands(tree, op, [k \in Key |-> NoValue])
<1>1. tree = [nodes |-> <<NewNode>>, root |-> 1, levels |-> 1, free |-> Null] /\ op = NoOp
  BY DEF Init
<1>2. PICK f : f = [k \in Key |-> NoValue]
  OBVIOUS
<1>3. NewNode \in NodeType /\ NewNode.entries = <<>> /\ NewNode.overflow = Null
      /\ NewNode.overflow # FreeMark /\ Null \in Int
  BY DEF NewNode, NodeType, Null, FreeMark
<1>4. /\ tree.nodes \in Seq(NodeType) /\ Len(tree.nodes) = 1 /\ DOMAIN tree.nodes = 1 .. 1
      /\ tree.nodes[1] = NewNode /\ tree.root = 1 /\ tree.free = Null /\ tree.levels = 1
  BY <1>1, <1>3
<1>5. MaxNodes \in Nat \ {0}
  BY NodesAssumption
<1>6. tree \in TreeType
  BY <1>1, <1>3, <1>4 DEF TreeType
<1>7. Stored(tree)
  BY <1>4, <1>5, <1>6 DEF Stored
<1>8. \A m : ~ Marked(tree, m)
  BY <1>3, <1>4 DEF Marked
<1>9. FreeSound(tree)
  BY <1>4, <1>8 DEF FreeSound
<1>10. Loads(tree, 1)
  BY <1>4, <1>8, LoadsIs
<1>11. PICK r \in Nat : r = 1
  OBVIOUS
<1>12. PICK z : z = Alone(r)
  OBVIOUS
<1>13. /\ SearchTree(z, {}) /\ z.root = r /\ z.nodes = {r} /\ z.entries[r] = <<>> /\ z.over[r] = Null
       /\ \A k, v : ~ Has(z, k, v)
  BY ONLY <1>12, r \in Nat, AloneIs
<1>14. Shows(z, f)
  BY <1>2, <1>13 DEF Shows
<1>15. tree.root = z.root /\ \A m \in z.nodes : Holds(tree, z, m)
  BY <1>3, <1>4, <1>10, <1>11, <1>13 DEF Holds
<1>16. Done(tree, f)
  BY ONLY <1>7, <1>9, <1>13, <1>14, <1>15, DoneIs
<1>17. f \in Pairs
  BY <1>2 DEF Pairs
<1>18. Stands(tree, op, f)
  BY <1>1, <1>16, <1>17 DEF Stands
<1> QED
  BY <1>2, <1>18

\* What Find returns is the dictionary's.
LEMMA FoundNow ==
  ASSUME NEW f, Stands(tree, op, f)
  PROVE  [k \in Key |-> LookUp(IF Idle THEN tree ELSE op.saved, k)] = f
<1>1. Found(tree, op) = f
  BY StandsIsFound
<1> QED
  BY <1>1 DEF Found, Resting, Idle

LEMMA FoundNext ==
  ASSUME NEW f, Stands(tree', op', f)
  PROVE  [k \in Key |-> LookUp(IF Idle' THEN tree' ELSE op'.saved, k)] = f
<1>1. PICK t : t = tree'
  OBVIOUS
<1>2. PICK o : o = op'
  OBVIOUS
<1>3. Found(t, o) = f
  BY <1>1, <1>2, StandsIsFound
<1> QED
  BY <1>1, <1>2, <1>3 DEF Found, Resting, Idle

LEMMA InitIsEmpty ==
  ASSUME Init
  PROVE  Promise!Init
<1>1. PICK f : f = [k \in Key |-> NoValue]
  OBVIOUS
<1>2. [k \in Key |-> LookUp(IF Idle THEN tree ELSE op.saved, k)] = f
  <2>1. Stands(tree, op, f)
    BY <1>1, InitStands
  <2> QED
    BY <2>1, FoundNow
<1>3. op.call = Promise!Ended
  BY DEF Init, NoOp, Promise!Ended
<1> QED
  BY <1>1, <1>2, <1>3 DEF Promise!Init

LEMMA NextFollows ==
  ASSUME NEW f, NEW g, Stands(tree, op, f), Stands(tree', op', g), Follows(f, op.call, g, op'.call)
  PROVE  [Promise!Next]_(Promise!vars)
<1> DEFINE A == [k \in Key |-> LookUp(IF Idle THEN tree ELSE op.saved, k)]
           B == [k \in Key |-> LookUp(IF Idle' THEN tree' ELSE op'.saved, k)]
<1>1. A = f
  BY FoundNow
<1>2. B = g
  BY FoundNext
<1>3. CASE op.call \in {Promise!Ended, Promise!Failed} /\ op'.call \in Promise!Calls /\ g = f
  <2>1. Promise!Begin
    BY <1>1, <1>2, <1>3 DEF Promise!Begin, Promise!Idle
  <2> QED
    BY <2>1 DEF Promise!Next
<1>4. CASE /\ op.call \notin {Promise!Ended, Promise!Failed} /\ op'.call = Promise!Ended
           /\ g = Ends(f, op.call)
  <2>1. Promise!End
    BY <1>1, <1>2, <1>4 DEF Promise!End, Promise!Idle, Ends
  <2> QED
    BY <2>1 DEF Promise!Next
<1>5. CASE op.call \notin {Promise!Ended, Promise!Failed} /\ op'.call = Promise!Failed /\ g = f
  <2>1. Promise!Fail
    BY <1>1, <1>2, <1>5 DEF Promise!Fail, Promise!Idle
  <2> QED
    BY <2>1 DEF Promise!Next
<1>6. ASSUME NEW k \in Key, NEW v \in UNION {Values[j] : j \in Key}, f[k] # NoValue, g = [f EXCEPT ![k] = v],
             op.call \in {Promise!Ended, Promise!Failed}, op'.call = op.call
      PROVE  [Promise!Next]_(Promise!vars)
  <2>1. Promise!Replace(k, v)
    BY <1>1, <1>2, <1>6 DEF Promise!Replace, Promise!Idle
  <2> QED
    BY <2>1 DEF Promise!Next
<1>7. CASE op'.call = op.call /\ g = f
  <2>1. UNCHANGED Promise!vars
    BY <1>1, <1>2, <1>7 DEF Promise!vars
  <2> QED
    BY <2>1
<1> QED
  BY <1>3, <1>4, <1>5, <1>6, <1>7 DEF Follows

\* The inductive invariant.
DictionaryInv == \E f : Stands(tree, op, f)

\* A B+tree is a dictionary (Dictionary.tla): whatever splits, new roots and
\* removed nodes a call of Insert or Remove leads to, when it ends Find returns
\* for its own key what it was asked to store and for all others what it
\* returned before; when it fails, in any turn, nothing has changed.  The keys
\* must be so short that a full node has a half with keys on either side.
THEOREM TreeIsDictionary ==
  ASSUME KeysAreShort
  PROVE  Spec => IsDictionary
<1>1. Init => DictionaryInv /\ Promise!Init
  BY InitStands, InitIsEmpty DEF DictionaryInv
<1>2. DictionaryInv /\ [Next]_vars => DictionaryInv' /\ [Promise!Next]_(Promise!vars)
  <2> SUFFICES ASSUME DictionaryInv, [Next]_vars
               PROVE  DictionaryInv' /\ [Promise!Next]_(Promise!vars)
    OBVIOUS
  <2>1. PICK f : Stands(tree, op, f)
    BY DEF DictionaryInv
  <2>2. PICK g : Stands(tree', op', g) /\ Follows(f, op.call, g, op'.call)
    BY <2>1, TreeSteps
  <2>3. DictionaryInv'
    BY <2>2 DEF DictionaryInv
  <2>4. [Promise!Next]_(Promise!vars)
    BY <2>1, <2>2, NextFollows
  <2> QED
    BY <2>3, <2>4
<1> QED
  BY <1>1, <1>2, PTL DEF Spec, IsDictionary, Promise!Spec

-----------------------------------------------------------------------------
(* No node is filled beyond its end.                                       *)

LEMMA SumsGrow ==
  ASSUME NEW e \in Seq(Entry), NEW f, SumsOf(e, f), NEW a \in 0 .. Len(e), NEW b \in 0 .. Len(e), a <= b
  PROVE  f[a] \in Nat /\ f[b] \in Nat /\ f[a] <= f[b]
<1>1. Len(e) \in Nat /\ f \in [0 .. Len(e) -> Nat]
  BY LengthIs DEF SumsOf
<1> DEFINE P == {m \in Nat : a + m <= Len(e) => f[a] <= f[a + m]}
<1>2. a \in Nat /\ b \in Nat /\ f[a] \in Nat /\ f[b] \in Nat
  BY <1>1
<1>3. 0 \in P
  BY <1>2
<1>4. ASSUME NEW m \in Nat, m \in P
      PROVE  m + 1 \in P
  <2> SUFFICES ASSUME a + (m + 1) <= Len(e)
               PROVE  f[a] <= f[a + (m + 1)]
    OBVIOUS
  <2>1. PICK n : n = a + (m + 1)
    OBVIOUS
  <2>2. n \in 1 .. Len(e) /\ n - 1 = a + m /\ n - 1 \in 0 .. Len(e) /\ a + m <= Len(e)
    BY <1>1, <1>2, <2>1
  <2>3. f[n] = f[n - 1] + KeyLength[e[n].key] /\ KeyLength[e[n].key] \in Nat
    BY <2>2, LengthIs DEF SumsOf
  <2>4. f[n - 1] \in Nat /\ f[a] <= f[n - 1]
    <3>1. f[n - 1] \in Nat
      BY <1>1, <2>2
    <3>2. f[a] <= f[a + m]
      BY <1>4, <2>2
    <3> QED
      BY <2>2, <3>1, <3>2
  <2>5. f[a] <= f[n]
    BY <1>2, <2>3, <2>4
  <2> QED
    BY <2>1, <2>5
<1>5. Nat \subseteq P
  <2> HIDE DEF P
  <2> QED
    BY <1>3, <1>4, NumberInduction
<1>6. PICK m : m = b - a
  OBVIOUS
<1>7. m \in Nat /\ a + m = b /\ b <= Len(e)
  BY <1>1, <1>2, <1>6
<1>8. m \in P
  BY <1>5, <1>7
<1> QED
  BY <1>2, <1>7, <1>8

\* The bytes of a part of a sequence.
PartOf(e, f, a, b, d) ==
  /\ e \in Seq(Entry) /\ SumsOf(e, f) /\ a \in 0 .. Len(e) /\ b \in 0 .. Len(e) /\ a <= b
  /\ d = SubSeq(e, a + 1, b)

LEMMA BytesBetween ==
  ASSUME NEW e, NEW f, NEW a, NEW b, NEW d, PartOf(e, f, a, b, d)
  PROVE  d \in Seq(Entry) /\ Len(d) = b - a /\ f[b] = f[a] + Bytes(d) /\ Bytes(d) \in Nat
<1>0. /\ e \in Seq(Entry) /\ SumsOf(e, f) /\ a \in 0 .. Len(e) /\ b \in 0 .. Len(e) /\ a <= b
      /\ d = SubSeq(e, a + 1, b)
  BY DEF PartOf
<1>1. Len(e) \in Nat /\ a \in Nat /\ b \in Nat
  BY <1>0, LengthIs
<1>2. PICK c : c = a + 1
  OBVIOUS
<1>3. c \in 1 .. Len(e) + 1 /\ c <= b + 1
  BY <1>0, <1>1, <1>2
<1>4. d \in Seq(Entry) /\ Len(d) = b - c + 1 /\ \A j \in 1 .. b - c + 1 : d[j] = e[c + j - 1]
  BY <1>0, <1>2, <1>3, PartIs
<1>5. PICK m : m = b - a
  OBVIOUS
<1>6. m \in Nat /\ Len(d) = m /\ a + m = b /\ b - c + 1 = m
  BY <1>0, <1>1, <1>2, <1>4, <1>5
<1>7. \A j \in 1 .. m : d[j] = e[a + j]
  <2> TAKE j \in 1 .. m
  <2>1. d[j] = e[c + j - 1] /\ c + j - 1 = a + j
    BY <1>1, <1>2, <1>4, <1>6
  <2> QED
    BY <2>1
<1>8. PICK g : SumsOf(d, g) /\ Bytes(d) = g[Len(d)]
  BY <1>4, BytesExist
<1>9. PICK o : o = 0
  OBVIOUS
<1>10. PICK n : n = f[a]
  OBVIOUS
<1>11. n \in Nat /\ g[o] = 0 /\ o \in Nat
  BY <1>0, <1>1, <1>8, <1>9, <1>10, SumsGrow DEF SumsOf
<1>12. Parallel(d, o, e, a, m)
  <2>1. o + m <= Len(d) /\ a + m <= Len(e)
    BY <1>0, <1>1, <1>6, <1>9
  <2>2. \A j \in 1 .. m : d[o + j].key = e[a + j].key
    <3> TAKE j \in 1 .. m
    <3>1. o + j = j
      BY <1>9
    <3> QED
      BY <1>7, <3>1
  <2> QED
    BY <1>0, <1>1, <1>4, <1>6, <1>11, <2>1, <2>2 DEF Parallel
<1>13. f[a] = g[o] + n
  BY <1>10, <1>11
<1>14. f[a + m] = g[o + m] + n
  <2>1. SumsOf(e, f) /\ SumsOf(d, g) /\ n \in Nat
    BY <1>0, <1>8, <1>11
  <2> QED
    BY ONLY <1>12, <1>13, <2>1, SumsParallel
<1>15. g[m] \in Nat
  BY <1>6, <1>8 DEF SumsOf
<1>16. f[b] = g[m] + n /\ Bytes(d) = g[m]
  BY <1>6, <1>8, <1>9, <1>14
<1> QED
  BY <1>4, <1>5, <1>6, <1>10, <1>11, <1>15, <1>16

\* The bytes depend on the keys only.
LEMMA SameKeys ==
  ASSUME NEW e \in Seq(Entry), NEW d \in Seq(Entry), Len(d) = Len(e), \A j \in 1 .. Len(e) : d[j].key = e[j].key
  PROVE  Used(d) = Used(e)
<1>1. PICK f : SumsOf(e, f) /\ Bytes(e) = f[Len(e)]
  BY BytesExist
<1>2. PICK g : SumsOf(d, g) /\ Bytes(d) = g[Len(d)]
  BY BytesExist
<1>3. PICK o : o = 0
  OBVIOUS
<1>4. PICK m : m = Len(e)
  OBVIOUS
<1>5. o \in Nat /\ m \in Nat /\ o + m = m /\ g[o] = f[o] + o /\ f[m] \in Nat
  BY <1>1, <1>2, <1>3, <1>4, LengthIs DEF SumsOf
<1>6. Parallel(e, o, d, o, m)
  <2>1. \A j \in 1 .. m : e[o + j].key = d[o + j].key
    <3> TAKE j \in 1 .. m
    <3>1. o + j = j
      BY <1>3
    <3> QED
      BY <1>4, <3>1
  <2> QED
    BY <1>4, <1>5, <2>1 DEF Parallel
<1>7. g[o + m] = f[o + m] + o
  <2>1. SumsOf(e, f) /\ SumsOf(d, g) /\ o \in Nat /\ g[o] = f[o] + o
    BY <1>1, <1>2, <1>5
  <2> QED
    BY ONLY <1>6, <2>1, SumsParallel
<1>8. g[m] = f[m]
  BY <1>3, <1>5, <1>7
<1> QED
  BY <1>1, <1>2, <1>4, <1>8 DEF Used

\* What is taken out leaves more room.
LEMMA SpaceBounds ==
  ASSUME NEW b \in Nat, NEW n \in Nat
  PROVE  \E r \in Nat : /\ Space(b, n) = r + n * SlotSize
                        /\ HeaderSize + b <= r /\ r <= HeaderSize + b + Alignment - 1
<1>1. HeaderSize \in Nat /\ Alignment \in Nat \ {0} /\ SlotSize \in Nat \ {0}
  BY NodesAssumption
<1>2. PICK x : x = HeaderSize + b + Alignment - 1
  OBVIOUS
<1>3. x \in Nat
  BY <1>1, <1>2
<1>4. PICK q : q = x \div Alignment
  OBVIOUS
<1>5. q \in Nat /\ Alignment * q <= x /\ x < Alignment * q + Alignment
  BY <1>1, <1>3, <1>4, Quotient
<1>6. PICK r : r = Alignment * q
  OBVIOUS
<1>7. r \in Nat
  BY <1>1, <1>5, <1>6
<1>8. HeaderSize + b <= r /\ r <= HeaderSize + b + Alignment - 1
  BY ONLY <1>1, <1>2, <1>5, <1>6, <1>7, b \in Nat
<1>9. Space(b, n) = r + n * SlotSize
  BY <1>2, <1>4, <1>6 DEF Space
<1> QED
  BY <1>7, <1>8, <1>9

\* Fewer keys take less space.
LEMMA SpaceLess ==
  ASSUME NEW a \in Nat, NEW b \in Nat, a <= b, NEW m \in Nat, NEW n \in Nat, m <= n
  PROVE  Space(a, m) \in Int /\ Space(b, n) \in Int /\ Space(a, m) <= Space(b, n)
<1>1. Space(a, m) \in Int /\ Space(b, m) \in Int /\ Space(a, m) <= Space(b, m)
  BY SpaceIs
<1>2. PICK r \in Nat : r = Alignment * ((HeaderSize + b + Alignment - 1) \div Alignment)
  BY NodesAssumption
<1>3. PICK x : x = m * SlotSize
  OBVIOUS
<1>4. PICK y : y = n * SlotSize
  OBVIOUS
<1>5. x \in Nat /\ y \in Nat /\ x <= y
  <2>1. PICK c : c = n - m
    OBVIOUS
  <2>2. c \in Nat /\ n = m + c /\ SlotSize \in Nat
    BY <2>1, NodesAssumption
  <2>3. n * SlotSize = m * SlotSize + c * SlotSize
    BY <2>2
  <2>4. m * SlotSize \in Nat /\ c * SlotSize \in Nat
    BY <2>2
  <2> QED
    BY <1>3, <1>4, <2>3, <2>4
<1>6. Space(b, m) = r + x /\ Space(b, n) = r + y
  BY <1>2, <1>3, <1>4 DEF Space
<1> QED
  BY ONLY <1>1, <1>5, <1>6, r \in Nat

LEMMA UsedIs ==
  ASSUME NEW e \in Seq(Entry)
  PROVE  Bytes(e) \in Nat /\ Len(e) \in Nat /\ Used(e) \in Int
<1>1. PICK f : SumsOf(e, f) /\ Bytes(e) = f[Len(e)]
  BY BytesExist
<1>2. Len(e) \in Nat /\ Len(e) \in 0 .. Len(e)
  BY LengthIs
<1>3. Bytes(e) \in Nat
  BY <1>1, <1>2 DEF SumsOf
<1>4. PICK b \in Nat : b = Bytes(e)
  BY <1>3
<1>5. PICK n \in Nat : n = Len(e)
  BY <1>2
<1>6. Space(b, n) \in Int
  <2>1. b <= b
    OBVIOUS
  <2> QED
    BY <2>1, SpaceIs
<1> QED
  BY <1>2, <1>3, <1>4, <1>5, <1>6 DEF Used

LEMMA UsedLess ==
  ASSUME NEW e \in Seq(Entry), NEW d \in Seq(Entry), Bytes(d) <= Bytes(e), Len(d) <= Len(e)
  PROVE  Used(d) <= Used(e)
  BY UsedIs, SpaceLess DEF Used

\* Without one of its entries.
LEMMA UsedRemoved ==
  ASSUME NEW e \in Seq(Entry), NEW i \in 1 .. Len(e), NEW d, d = RemoveAt(e, i)
  PROVE  d \in Seq(Entry) /\ Used(d) <= Used(e)
<1>1. Len(e) \in Nat /\ i \in Nat /\ e[i] \in Entry
  BY LengthIs, EntryIs
<1>2. /\ d \in Seq(Entry) /\ Len(d) = Len(e) - 1
      /\ \A j \in 1 .. Len(e) - 1 : d[j] = IF j < i THEN e[j] ELSE e[j + 1]
  BY ONLY e \in Seq(Entry), i \in 1 .. Len(e), d = RemoveAt(e, i), RemoveAtIs
<1>3. PICK x : x = e[i]
  OBVIOUS
<1>4. PICK y : y = InsertAt(d, i, x)
  OBVIOUS
<1>5. x \in Entry /\ i \in 1 .. Len(d) + 1 /\ Len(d) \in Nat
  BY <1>1, <1>2, <1>3
<1>6. /\ y \in Seq(Entry) /\ Len(y) = Len(d) + 1
      /\ \A j \in 1 .. Len(d) + 1 : y[j] = IF j < i THEN d[j] ELSE IF j = i THEN x ELSE d[j - 1]
  <2>1. d \in Seq(Entry)
    BY <1>2
  <2>3. i \in 1 .. Len(d) + 1
    BY <1>5
  <2>4. x \in Entry
    BY <1>5
  <2>2. /\ InsertAt(d, i, x) \in Seq(Entry) /\ Len(InsertAt(d, i, x)) = Len(d) + 1
        /\ \A j \in 1 .. Len(d) + 1 : InsertAt(d, i, x)[j] = IF j < i THEN d[j] ELSE IF j = i THEN x ELSE d[j - 1]
    BY ONLY <2>1, <2>3, <2>4, InsertAtIs
  <2> QED
    BY ONLY <1>4, <2>2
<1>7. Bytes(y) = Bytes(d) + KeyLength[x.key]
  BY ONLY <1>2, <1>4, <1>5, BytesInserted
<1>8. ASSUME NEW j \in 1 .. Len(e)
      PROVE  e[j].key = y[j].key
  <2>0. j \in Int /\ j \in 1 .. Len(d) + 1
    BY <1>1, <1>2
  <2>1. CASE j < i
    <3>1. j \in 1 .. Len(e) - 1 /\ y[j] = d[j]
      BY <1>1, <1>6, <2>0, <2>1
    <3> QED
      BY <1>2, <2>1, <3>1
  <2>2. CASE j = i
    BY <1>3, <1>6, <2>0, <2>2
  <2>3. CASE j > i
    <3>1. j - 1 \in 1 .. Len(e) - 1 /\ ~ (j < i) /\ j # i /\ ~ (j - 1 < i) /\ (j - 1) + 1 = j
      BY <1>1, <2>0, <2>3
    <3>2. y[j] = d[j - 1]
      BY <1>6, <2>0, <3>1
    <3>3. d[j - 1] = e[(j - 1) + 1]
      BY <1>2, <3>1
    <3> QED
      BY <3>1, <3>2, <3>3
  <2> QED
    BY <1>1, <2>0, <2>1, <2>2, <2>3
<1>9. Len(e) = Len(y)
  BY <1>1, <1>2, <1>6
<1>10. Used(e) = Used(y)
  BY ONLY <1>6, <1>8, <1>9, e \in Seq(Entry), SameKeys
<1>11. Bytes(d) <= Bytes(y) /\ Len(d) <= Len(y)
  <2>1. Bytes(d) \in Nat /\ KeyLength[x.key] \in Nat
    BY <1>1, <1>2, <1>3, LengthIs, UsedIs
  <2> QED
    BY <1>5, <1>6, <1>7, <2>1
<1>12. Used(d) <= Used(y)
  BY <1>2, <1>6, <1>11, UsedLess
<1> QED
  BY <1>2, <1>10, <1>12

\* Without the last one.
LEMMA UsedFront ==
  ASSUME NEW e \in Seq(Entry), e # <<>>
  PROVE  Front(e) \in Seq(Entry) /\ Used(Front(e)) <= Used(e)
<1>1. PICK d : d = Front(e)
  OBVIOUS
<1>2. PICK l : l = Len(e)
  OBVIOUS
<1>3. /\ d \in Seq(Entry) /\ Len(d) = l - 1 /\ l \in Nat \ {0}
      /\ \A j \in 1 .. l - 1 : d[j] = e[j]
  BY <1>1, <1>2, FrontIs
<1>4. PICK c : c = RemoveAt(e, l)
  OBVIOUS
<1>5. /\ c \in Seq(Entry) /\ Used(c) <= Used(e) /\ Len(c) = l - 1
      /\ \A j \in 1 .. l - 1 : c[j] = IF j < l THEN e[j] ELSE e[j + 1]
  <2>1. l \in 1 .. Len(e)
    BY <1>2, <1>3
  <2>2. c \in Seq(Entry) /\ Used(c) <= Used(e)
    BY ONLY <1>4, <2>1, e \in Seq(Entry), UsedRemoved
  <2>3. Len(c) = l - 1 /\ \A j \in 1 .. l - 1 : c[j] = IF j < l THEN e[j] ELSE e[j + 1]
    BY ONLY <1>2, <1>4, <2>1, e \in Seq(Entry), RemoveAtIs
  <2> QED
    BY <2>2, <2>3
<1>6. Len(d) = Len(c) /\ \A j \in 1 .. Len(c) : d[j].key = c[j].key
  BY <1>3, <1>5
<1>7. Used(d) = Used(c)
  BY ONLY <1>3, <1>5, <1>6, SameKeys
<1> QED
  BY <1>1, <1>3, <1>5, <1>7

\* The first half of a node that is split.
LEMMA FirstHalfFits ==
  ASSUME KeysAreShort, NEW e \in Seq(Entry), e # <<>>, NEW index \in Nat, Used(e) >= NodeSize,
         NEW out, out = SplitAt(e, index), NEW d, d = SubSeq(e, 1, out)
  PROVE  /\ d \in Seq(Entry) /\ Len(d) = out /\ out \in 1 .. Len(e) - 1
         /\ Used(d) <= NodeSize /\ Used(d) >= NodeSize \div 2
<1>1. /\ out \in 1 .. Len(e) - 1 /\ FillsHalf(e, index, out)
      /\ \A n \in 1 .. Len(e) : FillsHalf(e, index, n) => out <= n
  BY SplitAtLeast
<1>2. Len(e) \in Nat /\ out \in Nat /\ out > 0 /\ out \in 1 .. Len(e) /\ NodeSize \in Nat /\ NodeSize \div 2 \in Int
  BY <1>1, LengthIs, NodesAssumption
<1>3. d \in Seq(Entry) /\ Len(d) = out
  <2>1. 1 \in 1 .. Len(e) + 1 /\ out \in 0 .. Len(e) /\ 1 <= out + 1
    BY <1>2
  <2>2. SubSeq(e, 1, out) \in Seq(Entry) /\ Len(SubSeq(e, 1, out)) = out - 1 + 1
    BY <2>1, PartIs
  <2> QED
    BY <1>2, <2>2
<1>4. PICK b : b = Bytes(d)
  OBVIOUS
<1>5. PICK b1 : b1 = Bytes(SubSeq(e, 1, out - 1))
  OBVIOUS
<1>6. b = b1 + KeyLength[e[out].key] /\ b \in Nat /\ b1 \in Nat /\ (out = 1 => b1 = 0)
  BY <1>2, <1>4, <1>5, BytesOfPart
<1>7. \A i \in 1 .. Len(e) : e[i].key \in Key /\ KeyLength[e[i].key] \in Nat
  BY LengthIs, EntryIs
<1>8. Used(d) = Space(b, out) /\ Space(b, out) \in Int /\ Space(b1, out) <= Space(b, out) /\ Space(b1, out) \in Int
  <2>1. b1 <= b
    BY <1>2, <1>6, <1>7
  <2>2. Space(b, out) \in Int /\ Space(b1, out) <= Space(b, out) /\ Space(b1, out) \in Int
    BY <1>2, <1>6, <2>1, SpaceIs
  <2> QED
    BY <1>3, <1>4, <2>2 DEF Used
<1>9. Used(d) >= NodeSize \div 2
  <2>1. Space(b, out) >= NodeSize \div 2 \/ Space(b1, out) >= NodeSize \div 2
    BY <1>1, <1>4, <1>5 DEF FillsHalf
  <2> QED
    BY <1>2, <1>8, <2>1
<1>10. CASE out = 1
  <2>1. b = KeyLength[e[1].key] /\ e[1].key \in Key
    BY <1>2, <1>6, <1>7, <1>10
  <2>2. Space(KeyLength[e[1].key], 1) < NodeSize
    BY <2>1 DEF KeysAreShort
  <2>3. Space(b, out) < NodeSize
    BY <1>10, <2>1, <2>2
  <2>4. Used(d) <= NodeSize
    BY <1>2, <1>8, <2>3
  <2> QED
    BY <1>1, <1>3, <1>9, <2>4
<1>11. CASE out # 1
  <2>1. PICK m : m = out - 1
    OBVIOUS
  <2>2. m \in Nat /\ m > 0 /\ m \in 1 .. Len(e) /\ out = m + 1 /\ ~ (out <= m)
    BY <1>2, <1>11, <2>1
  <2>3. PICK b2 : b2 = Bytes(SubSeq(e, 1, m - 1))
    OBVIOUS
  <2>4. b1 = b2 + KeyLength[e[m].key] /\ b2 \in Nat /\ b2 >= m - 1 /\ (m = 1 => b2 = 0)
    <3>1. b1 = Bytes(SubSeq(e, 1, m))
      BY <1>5, <2>1
    <3> QED
      BY ONLY <2>2, <2>3, <3>1, e \in Seq(Entry), BytesOfPart
  <2>5. ~ FillsHalf(e, index, m)
    BY <1>1, <2>2
  <2>6. ~ (Space(b2, m) >= NodeSize \div 2)
    <3>1. CASE m <= index
      BY <2>3, <2>5, <3>1 DEF FillsHalf
    <3>2. CASE ~ (m <= index)
      <4>1. ~ (Space(b1, m) >= NodeSize \div 2)
        BY <1>5, <2>1, <2>5, <3>2 DEF FillsHalf
      <4>2. b2 <= b1
        BY <1>7, <2>2, <2>4
      <4>3. Space(b2, m) \in Int /\ Space(b1, m) \in Int /\ Space(b2, m) <= Space(b1, m)
        BY <1>6, <2>2, <2>4, <4>2, SpaceIs
      <4> QED
        BY <1>2, <4>1, <4>3
    <3> QED
      BY <3>1, <3>2
  <2>7. PICK n : n = m - 1
    OBVIOUS
  <2>8. n \in Nat /\ n <= b2 /\ (n = 0 => b2 = 0) /\ n + 1 = m /\ n + 2 = out
    BY <2>2, <2>4, <2>7
  <2>9. PICK k : k = e[m].key
    OBVIOUS
  <2>10. PICK k2 : k2 = e[out].key
    OBVIOUS
  <2>11. k \in Key /\ k2 \in Key /\ b = b2 + KeyLength[k] + KeyLength[k2]
    BY <1>2, <1>6, <1>7, <2>2, <2>4, <2>9, <2>10
  <2>12. ~ (Space(b2 + KeyLength[k] + KeyLength[k2], n + 2) >= NodeSize)
    BY <2>4, <2>6, <2>8, <2>11, HalfFilled
  <2>13. ~ (Space(b, out) >= NodeSize)
    BY <2>8, <2>11, <2>12
  <2>14. Used(d) <= NodeSize
    BY <1>2, <1>8, <2>13
  <2> QED
    BY <1>1, <1>3, <1>9, <2>14
<1> QED
  BY <1>10, <1>11

\* An entry in each of two nodes, of which the second has what the first has not.
Rest(b, b1, b2, n, n1, n2, x) ==
  /\ b \in Nat /\ b1 \in Nat /\ b2 \in Nat /\ n \in Nat /\ n1 \in Nat /\ n2 \in Nat
  /\ x \in Key
  /\ b1 + b2 <= b + KeyLength[x] /\ n1 + n2 <= n + 1

\* What is left for the second half.
LEMMA RestFits ==
  ASSUME HalvesHaveRoom, NEW b, NEW b1, NEW b2, NEW n, NEW n1, NEW n2, NEW x, Rest(b, b1, b2, n, n1, n2, x),
         Space(b, n) <= NodeSize, Space(b1, n1) >= NodeSize \div 2
  PROVE  Space(b2, n2) <= NodeSize
<1>1. /\ b \in Nat /\ b1 \in Nat /\ b2 \in Nat /\ n \in Nat /\ n1 \in Nat /\ n2 \in Nat
      /\ x \in Key /\ b1 + b2 <= b + KeyLength[x] /\ n1 + n2 <= n + 1
  BY DEF Rest
<1>2. /\ HeaderSize \in Nat /\ Alignment \in Nat /\ Alignment > 0 /\ SlotSize \in Nat /\ SlotSize > 0
      /\ NodeSize \in Nat /\ KeyLength[x] \in Nat
  BY <1>1, NodesAssumption
<1>3. PICK h : h = NodeSize \div 2
  OBVIOUS
<1>4. h \in Int /\ 2 * h <= NodeSize
  BY <1>2, <1>3
<1>5. PICK l : l = KeyLength[x]
  OBVIOUS
<1>6. PICK r0 \in Nat : Space(l, 1) = r0 + 1 * SlotSize /\ HeaderSize + l <= r0
  BY <1>2, <1>5, SpaceBounds
<1>7. HeaderSize + l + SlotSize + 2 * (Alignment - 1) <= h
  <2>1. Space(l, 1) + 2 * (Alignment - 1) <= h
    BY <1>1, <1>3, <1>5 DEF HalvesHaveRoom
  <2>2. r0 + SlotSize + 2 * (Alignment - 1) <= h
    BY <1>2, <1>6, <2>1
  <2> QED
    BY <1>2, <1>4, <1>5, <1>6, <2>2
<1>8. PICK r \in Nat : Space(b, n) = r + n * SlotSize /\ HeaderSize + b <= r
  BY <1>1, SpaceBounds
<1>9. PICK r1 \in Nat : Space(b1, n1) = r1 + n1 * SlotSize /\ r1 <= HeaderSize + b1 + Alignment - 1
  BY <1>1, SpaceBounds
<1>10. PICK r2 \in Nat : Space(b2, n2) = r2 + n2 * SlotSize /\ r2 <= HeaderSize + b2 + Alignment - 1
  BY <1>1, SpaceBounds
<1>11. PICK p : p = n * SlotSize
  OBVIOUS
<1>12. PICK p1 : p1 = n1 * SlotSize
  OBVIOUS
<1>13. PICK p2 : p2 = n2 * SlotSize
  OBVIOUS
<1>14. p \in Nat /\ p1 \in Nat /\ p2 \in Nat /\ p1 + p2 <= p + SlotSize
  <2>1. PICK c : c = n + 1 - (n1 + n2)
    OBVIOUS
  <2>2. c \in Nat /\ n + 1 = n1 + n2 + c
    BY <1>1, <2>1
  <2>3. (n + 1) * SlotSize = n1 * SlotSize + n2 * SlotSize + c * SlotSize
    BY <1>1, <1>2, <2>2
  <2>4. (n + 1) * SlotSize = n * SlotSize + SlotSize
    BY <1>1, <1>2
  <2>5. c * SlotSize \in Nat /\ n * SlotSize \in Nat /\ n1 * SlotSize \in Nat /\ n2 * SlotSize \in Nat
    BY <1>1, <1>2, <2>2
  <2>6. PICK q : q = c * SlotSize
    OBVIOUS
  <2>7. p + SlotSize = p1 + p2 + q
    BY <1>11, <1>12, <1>13, <2>3, <2>4, <2>6
  <2> QED
    BY ONLY <1>2, <1>11, <1>12, <1>13, <2>5, <2>6, <2>7
<1>15. r + p <= NodeSize /\ r1 + p1 >= h
  BY <1>3, <1>8, <1>9, <1>11, <1>12
<1>16. r2 + p2 <= NodeSize
  BY ONLY <1>1, <1>2, <1>4, <1>5, <1>7, <1>8, <1>9, <1>10, <1>14, <1>15, r \in Nat, r1 \in Nat, r2 \in Nat
<1> QED
  BY <1>10, <1>13, <1>16

\* No node of t is filled beyond its end.
AllFit(t) == \A n \in DOMAIN t.nodes : Used(t.nodes[n].entries) <= NodeSize

LEMMA EmptyFits ==
  ASSUME HalvesHaveRoom
  PROVE  Used(<<>>) <= NodeSize
<1>1. <<>> \in Seq(Entry) /\ Len(<<>>) = 0
  OBVIOUS
<1>2. PICK e : e = <<>>
  OBVIOUS
<1>3. e \in Seq(Entry) /\ Len(e) = 0
  BY <1>1, <1>2
<1>4. PICK f : SumsOf(e, f) /\ Bytes(e) = f[Len(e)]
  BY <1>3, BytesExist
<1>5. Bytes(e) = 0
  BY <1>3, <1>4 DEF SumsOf
<1>6. Used(e) = Space(0, 0)
  BY <1>3, <1>5 DEF Used
<1> QED
  BY <1>2, <1>6 DEF HalvesHaveRoom

\* One node is changed.
LEMMA OneChanged ==
  ASSUME NEW t \in TreeType, AllFit(t), NEW a, NEW c, Used(c.entries) <= NodeSize,
         NEW u, u.nodes = [t.nodes EXCEPT ![a] = c]
  PROVE  AllFit(u)
<1>1. DOMAIN u.nodes = DOMAIN t.nodes
  BY DEF TreeType
<1>2. ASSUME NEW n \in DOMAIN u.nodes
      PROVE  Used(u.nodes[n].entries) <= NodeSize
  <2>1. CASE n = a
    <3>1. u.nodes[n] = c
      BY <1>1, <2>1
    <3> QED
      BY <3>1
  <2>2. CASE n # a
    <3>1. u.nodes[n] = t.nodes[n] /\ n \in DOMAIN t.nodes
      BY <1>1, <2>2
    <3> QED
      BY <3>1 DEF AllFit
  <2> QED
    BY <2>1, <2>2
<1> QED
  BY <1>2 DEF AllFit

LEMMA EditedFits ==
  ASSUME NEW t, AllFit(t), NEW u, NEW X, Edited(t, u, X), \A n \in X : Used(u.nodes[n].entries) <= NodeSize
  PROVE  AllFit(u)
<1>1. DOMAIN u.nodes = DOMAIN t.nodes
      /\ \A n \in DOMAIN t.nodes : n \notin X => u.nodes[n].entries = t.nodes[n].entries
  BY DEF Edited
<1> QED
  BY <1>1 DEF AllFit

LEMMA AllocateFits ==
  ASSUME HalvesHaveRoom, NEW t \in TreeType, AllFit(t), NEW x \in Allocate(t)
  PROVE  AllFit(x.tree)
<1>1. Used(NewNode.entries) <= NodeSize
  BY EmptyFits, NewNodeIs
<1>2. CASE x.tree = [t EXCEPT !.nodes[t.free] = NewNode, !.free = t.nodes[t.free].left]
  <2>1. PICK a : a = t.free
    OBVIOUS
  <2>2. PICK u : u = [t EXCEPT !.nodes[a] = NewNode, !.free = t.nodes[a].left]
    OBVIOUS
  <2>3. x.tree = u
    BY <1>2, <2>1, <2>2
  <2>4. u.nodes = [t.nodes EXCEPT ![a] = NewNode]
    BY <2>2 DEF TreeType
  <2>5. AllFit(u)
    BY <1>1, <2>4, OneChanged
  <2> QED
    BY <2>3, <2>5
<1>3. CASE x.tree = [t EXCEPT !.nodes = Append(@, NewNode)]
  <2>1. PICK u : u = x.tree
    OBVIOUS
  <2>2. PICK l : l = Len(t.nodes)
    OBVIOUS
  <2>3. /\ t.nodes \in Seq(NodeType) /\ l \in Nat /\ DOMAIN t.nodes = 1 .. l
        /\ u.nodes = Append(t.nodes, NewNode)
    BY <1>3, <2>1, <2>2 DEF TreeType
  <2>4. DOMAIN u.nodes = 1 .. l + 1 /\ u.nodes[l + 1] = NewNode /\ \A n \in 1 .. l : u.nodes[n] = t.nodes[n]
    BY <2>2, <2>3, NewNodeIs
  <2>5. ASSUME NEW n \in DOMAIN u.nodes
        PROVE  Used(u.nodes[n].entries) <= NodeSize
    <3>1. n \in 1 .. l \/ n = l + 1
      BY <2>3, <2>4
    <3>2. CASE n \in 1 .. l
      BY <2>3, <2>4, <3>2 DEF AllFit
    <3>3. CASE n = l + 1
      <4>1. u.nodes[n] = NewNode
        BY <2>4, <3>3
      <4> QED
        BY <1>1, <4>1
    <3> QED
      BY <3>1, <3>2, <3>3
  <2> QED
    BY <2>1, <2>5 DEF AllFit
<1>4. \/ x = [node |-> t.free, tree |-> [t EXCEPT !.nodes[t.free] = NewNode, !.free = t.nodes[t.free].left]]
      \/ x = [node |-> Len(t.nodes) + 1, tree |-> [t EXCEPT !.nodes = Append(@, NewNode)]]
  BY DEF Allocate
<1> QED
  BY <1>2, <1>3, <1>4

LEMMA FreeFits ==
  ASSUME HalvesHaveRoom, NEW t \in TreeType, AllFit(t), NEW n \in DOMAIN t.nodes, NEW u, u = Free(t, n)
  PROVE  AllFit(u)
<1>1. CASE n = Len(t.nodes)
  <2>1. PICK l : l = Len(t.nodes)
    OBVIOUS
  <2>2. /\ t.nodes \in Seq(NodeType) /\ l \in Nat /\ DOMAIN t.nodes = 1 .. l /\ t.nodes # <<>>
        /\ u.nodes = Front(t.nodes)
    BY <1>1, <2>1 DEF Free, TreeType
  <2>3. Front(t.nodes) \in Seq(NodeType) /\ Len(Front(t.nodes)) = l - 1 /\ \A j \in 1 .. l - 1 : Front(t.nodes)[j] = t.nodes[j]
    BY <2>1, <2>2, FrontIs
  <2>4. DOMAIN u.nodes = 1 .. l - 1
    BY <2>2, <2>3
  <2>5. \A m \in DOMAIN u.nodes : m \in DOMAIN t.nodes /\ u.nodes[m] = t.nodes[m]
    BY <2>2, <2>3, <2>4
  <2> QED
    BY <2>5 DEF AllFit
<1>2. CASE n # Len(t.nodes)
  <2>1. PICK c : c = [NewNode EXCEPT !.left = t.free, !.overflow = FreeMark]
    OBVIOUS
  <2>2. c.entries = <<>>
    BY <2>1 DEF NewNode
  <2>3. u.nodes = [t.nodes EXCEPT ![n] = c]
    BY <1>2, <2>1 DEF Free, TreeType
  <2>4. Used(c.entries) <= NodeSize
    BY <2>2, EmptyFits
  <2> QED
    BY <2>3, <2>4, OneChanged
<1> QED
  BY <1>1, <1>2

\* The neighbours are told of each other, and the node is freed.
LEMMA UnlinkedFits ==
  ASSUME HalvesHaveRoom, NEW t, Stored(t), FreeSound(t), AllFit(t), NEW n, Loads(t, n), NEW u, TakenOut(t, n, u)
  PROVE  AllFit(u)
<1>1. n \in DOMAIN t.nodes /\ t.nodes[n] \in NodeType
  BY LoadsIs, StoredIs
<1>0. PICK left, right, free \in BOOLEAN : u = Unlinked(t, n, left, right, free)
  BY DEF TakenOut
<1>2. PICK l : l = t.nodes[n].left
  OBVIOUS
<1>3. PICK r : r = t.nodes[n].right
  OBVIOUS
<1>4. l \in Int /\ r \in Int
  BY <1>1, <1>2, <1>3 DEF NodeType
<1>5. PICK v : v = SetRight(t, l, r, left)
  OBVIOUS
<1>6. Edited(t, v, {})
  BY <1>4, <1>5, Relinked
<1>7. Stored(v) /\ AllFit(v)
  <2>1. AllFit(v)
    BY <1>6, EditedFits
  <2> QED
    BY <1>6, <2>1 DEF Edited
<1>8. PICK w : w = SetLeft(v, r, l, right)
  OBVIOUS
<1>9. Edited(v, w, {})
  BY <1>4, <1>7, <1>8, Relinked
<1>10. Stored(w) /\ AllFit(w) /\ n \in DOMAIN w.nodes
  <2>1. AllFit(w)
    BY <1>7, <1>9, EditedFits
  <2> QED
    BY <1>1, <1>6, <1>9, <2>1 DEF Edited
<1>11. u = IF free THEN Free(w, n) ELSE w
  BY <1>0, <1>2, <1>3, <1>5, <1>8 DEF Unlinked
<1>12. w \in TreeType
  BY <1>10, StoredIs
<1> QED
  BY <1>10, <1>11, <1>12, FreeFits

\* d is e with another entry, too big for a node, and is split at out.
TooBig(e, i, x, d, out, b) ==
  /\ e \in Seq(Entry) /\ d \in Seq(Entry) /\ d # <<>> /\ x \in Entry /\ i \in Nat
  /\ Len(d) = Len(e) + 1 /\ Bytes(d) = Bytes(e) + KeyLength[x.key]
  /\ Used(d) >= NodeSize /\ Used(e) <= NodeSize
  /\ out = SplitAt(d, i) /\ b \in {out, out + 1}

\* Both halves have room in a node.
LEMMA BothHalvesFit ==
  ASSUME KeysAreShort, HalvesHaveRoom, NEW e, NEW i, NEW x, NEW d, NEW out, NEW b, TooBig(e, i, x, d, out, b),
         NEW first, first = SubSeq(d, 1, out), NEW second, second = SubSeq(d, b + 1, Len(d))
  PROVE  /\ first \in Seq(Entry) /\ second \in Seq(Entry) /\ b \in 1 .. Len(d)
         /\ Used(first) <= NodeSize /\ Used(second) <= NodeSize
<1> USE DEF TooBig
<1>1. /\ first \in Seq(Entry) /\ Len(first) = out /\ out \in 1 .. Len(d) - 1
      /\ Used(first) <= NodeSize /\ Used(first) >= NodeSize \div 2
  BY FirstHalfFits
<1>2. PICK l : l = Len(d)
  OBVIOUS
<1>3. l \in Nat /\ l = Len(e) + 1 /\ Len(e) \in Nat /\ out \in Nat /\ b \in Nat /\ out > 0 /\ out <= b /\ b <= l
  BY <1>1, <1>2, LengthIs
<1>4. PICK f : SumsOf(d, f) /\ Bytes(d) = f[l]
  BY <1>2, BytesExist
<1>5. PICK o : o = 0
  OBVIOUS
<1>6. o \in 0 .. Len(d) /\ out \in 0 .. Len(d) /\ b \in 0 .. Len(d) /\ l \in 0 .. Len(d) /\ o <= out
      /\ first = SubSeq(d, o + 1, out) /\ second = SubSeq(d, b + 1, l)
  BY <1>2, <1>3, <1>5
<1>7. f[out] = f[o] + Bytes(first) /\ Bytes(first) \in Nat
  <2>1. PartOf(d, f, o, out, first)
    BY <1>4, <1>6 DEF PartOf
  <2> QED
    BY ONLY <2>1, BytesBetween
<1>8. second \in Seq(Entry) /\ Len(second) = l - b /\ f[l] = f[b] + Bytes(second) /\ Bytes(second) \in Nat
  <2>1. PartOf(d, f, b, l, second)
    BY <1>3, <1>4, <1>6 DEF PartOf
  <2>2. second \in Seq(Entry) /\ Len(second) = l - b /\ f[l] = f[b] + Bytes(second) /\ Bytes(second) \in Nat
    BY ONLY <2>1, BytesBetween
  <2> QED
    BY <2>2
<1>9. f[out] \in Nat /\ f[b] \in Nat /\ f[out] <= f[b]
  BY <1>3, <1>4, <1>6, SumsGrow
<1>10. f[o] = 0
  BY <1>4, <1>5 DEF SumsOf
<1>11. Bytes(first) + Bytes(second) <= Bytes(e) + KeyLength[x.key]
  BY <1>4, <1>7, <1>8, <1>9, <1>10
<1>12. Len(first) + Len(second) <= Len(e) + 1
  BY <1>1, <1>3, <1>8
<1>13. x.key \in Key /\ Bytes(e) \in Nat /\ Len(second) \in Nat
  BY <1>8, UsedIs DEF Entry
<1>14. Rest(Bytes(e), Bytes(first), Bytes(second), Len(e), Len(first), Len(second), x.key)
  BY <1>1, <1>3, <1>7, <1>8, <1>11, <1>12, <1>13 DEF Rest
<1>15. Space(Bytes(e), Len(e)) <= NodeSize /\ Space(Bytes(first), Len(first)) >= NodeSize \div 2
  BY <1>1 DEF Used
<1>16. Space(Bytes(second), Len(second)) <= NodeSize
  BY <1>14, <1>15, RestFits
<1>17. b \in 1 .. Len(d)
  BY <1>2, <1>3
<1> QED
  BY <1>1, <1>8, <1>16, <1>17 DEF Used

\* What is split, and into what.
LEMMA SplitParts ==
  ASSUME KeysAreShort, HalvesHaveRoom, NEW t, NEW f, NEW st, NEW x, Growing(t, f, st, x), AllFit(t),
         NEW a, a = Last(st).node, NEW i, i = Last(st).index, Full(t, a, x),
         NEW split, split = Split(Node(t, a), i, x)
  PROVE  /\ Loads(t, a) /\ Stored(t) /\ FreeSound(t)
         /\ split.other.entries \in Seq(Entry) /\ Used(split.other.entries) <= NodeSize
         /\ split.entries \in Seq(Entry) /\ Used(split.entries) <= NodeSize
         /\ split.other.overflow \in Int /\ split.other.overflow # FreeMark /\ split.up \in Key
<1>1. Stored(t) /\ FreeSound(t)
  BY DEF Growing
<1>2. PICK s : GrowsTo(t, f, st, x, s)
  BY DEF Growing
<1>3. /\ i \in Nat /\ Loads(t, a) /\ Node(t, a) = t.nodes[a]
      /\ t.nodes[a].entries \in Seq(Entry) /\ i \in 0 .. Len(t.nodes[a].entries) /\ x \in Entry
      /\ s.entries[a] = InsertAt(t.nodes[a].entries, i + 1, x) /\ s.entries[a] # <<>>
      /\ s.entries[a] \in Seq(Entry) /\ Len(s.entries[a]) = Len(t.nodes[a].entries) + 1
      /\ IsLeaf(Node(t, a)) <=> s.rank[a] = 1
  BY <1>1, <1>2, GrowthIs
<1>4. PICK e : e = t.nodes[a].entries
  OBVIOUS
<1>5. PICK d : d = s.entries[a]
  OBVIOUS
<1>6. PICK out : out = SplitAt(d, i)
  OBVIOUS
<1>7. out \in 1 .. Len(d) - 1 /\ out \in Nat
  BY <1>1, <1>2, <1>5, <1>6, OutIs
<1>8. PICK b : b = IF s.rank[a] = 1 THEN out ELSE out + 1
  OBVIOUS
<1>9. SplitAs(split, s, a, out, b)
  <2>1. PICK node : node = Node(t, a)
    OBVIOUS
  <2>2. SplitFrom(s, a, node, i, x, out, b)
    BY <1>3, <1>5, <1>6, <1>7, <1>8, <2>1 DEF SplitFrom
  <2>3. SplitAs(Split(node, i, x), s, a, out, b)
    BY ONLY <2>2, SplitIs
  <2> QED
    BY <2>1, <2>3
<1>10. PICK c : c = i + 1
  OBVIOUS
<1>11. e \in Seq(Entry) /\ c \in 1 .. Len(e) + 1 /\ d = InsertAt(e, c, x) /\ Len(e) \in Nat
  <2>1. e \in Seq(Entry) /\ Len(e) \in Nat
    BY <1>3, <1>4, LengthIs
  <2> QED
    BY <1>3, <1>4, <1>5, <1>10, <2>1
<1>12. Bytes(d) = Bytes(e) + KeyLength[x.key]
  BY ONLY <1>3, <1>11, BytesInserted
<1>13. d \in Seq(Entry) /\ d # <<>> /\ Len(d) = Len(e) + 1
  BY <1>3, <1>4, <1>5
<1>14. Used(d) >= NodeSize
  BY <1>4, <1>12, <1>13 DEF Full, Used
<1>15. Used(e) <= NodeSize
  BY <1>3, <1>4, LoadsIs DEF AllFit
<1>16. TooBig(e, i, x, d, out, b)
  BY <1>3, <1>6, <1>8, <1>11, <1>12, <1>13, <1>14, <1>15 DEF TooBig
<1>17. PICK first : first = SubSeq(d, 1, out)
  OBVIOUS
<1>18. PICK second : second = SubSeq(d, b + 1, Len(d))
  OBVIOUS
<1>19. /\ first \in Seq(Entry) /\ second \in Seq(Entry) /\ b \in 1 .. Len(d)
       /\ Used(first) <= NodeSize /\ Used(second) <= NodeSize
  BY ONLY KeysAreShort, HalvesHaveRoom, <1>16, <1>17, <1>18, BothHalvesFit
<1>20. /\ split.other.entries = first /\ split.entries = second /\ split.up = d[b].key
       /\ split.other.overflow = IF s.rank[a] = 1 THEN Null ELSE d[b].value
  BY <1>5, <1>9, <1>17, <1>18 DEF SplitAs
<1>21. d[b].key \in Key /\ d[b].value \in Nat
  BY <1>13, <1>19, EntryIs
<1>22. split.other.overflow \in Int /\ split.other.overflow # FreeMark /\ split.up \in Key
  BY <1>20, <1>21 DEF Null, FreeMark
<1> QED
  BY <1>1, <1>3, <1>19, <1>20, <1>22

\* They are put into two nodes.
LEMMA HalvesStoredFit ==
  ASSUME NEW t, AllFit(t), NEW n, NEW o, NEW split, Halves(t, n, o, split),
         Used(split.other.entries) <= NodeSize, Used(split.entries) <= NodeSize,
         NEW told, NEW u, u = SplitNodes(t, n, o, split, told)
  PROVE  AllFit(u) /\ Stored(u) /\ DOMAIN u.nodes = DOMAIN t.nodes
<1>1. /\ Edited(t, u, {n, o}) /\ u.nodes[o].entries = split.other.entries /\ u.nodes[n].entries = split.entries
  BY SplitStored
<1>2. \A m \in {n, o} : Used(u.nodes[m].entries) <= NodeSize
  BY <1>1
<1>3. AllFit(u)
  BY <1>1, <1>2, EditedFits
<1> QED
  BY <1>1, <1>3 DEF Edited

\* A new root has one entry.
LEMMA RootFits ==
  ASSUME KeysAreShort, NEW t \in TreeType, AllFit(t), NEW r, NEW n, NEW o \in Nat, NEW k \in Key,
         NEW u, u = Rooted(t, r, n, o, k)
  PROVE  AllFit(u)
<1>1. PICK x : x = [key |-> k, value |-> o]
  OBVIOUS
<1>2. x \in Entry /\ x.key = k
  BY <1>1 DEF Entry
<1>3. PICK e : e = <<x>>
  OBVIOUS
<1>4. e \in Seq(Entry) /\ Len(e) = 1 /\ e[1] = x
  BY <1>2, <1>3
<1>5. PICK f : SumsOf(e, f) /\ Bytes(e) = f[Len(e)]
  BY <1>4, BytesExist
<1>6. Bytes(e) = KeyLength[k] /\ KeyLength[k] \in Nat
  <2>1. f[0] = 0 /\ 1 \in 1 .. Len(e)
    BY <1>4, <1>5 DEF SumsOf
  <2>2. f[1] = f[1 - 1] + KeyLength[e[1].key]
    BY <1>5, <2>1 DEF SumsOf
  <2>3. KeyLength[k] \in Nat
    BY NodesAssumption
  <2> QED
    BY <1>2, <1>4, <1>5, <2>1, <2>2, <2>3
<1>7. Used(e) = Space(KeyLength[k], 1) /\ Used(e) \in Int
  BY <1>4, <1>6, UsedIs DEF Used
<1>8. Used(e) <= NodeSize
  <2>1. Space(KeyLength[k], 1) < NodeSize
    BY DEF KeysAreShort
  <2>2. NodeSize \in Nat
    BY NodesAssumption
  <2> QED
    BY <1>7, <2>1, <2>2
<1>9. PICK c : c = [NewNode EXCEPT !.entries = e, !.overflow = n]
  OBVIOUS
<1>10. c.entries = e
  BY <1>9 DEF NewNode
<1>11. u.nodes = [t.nodes EXCEPT ![r] = c]
  BY <1>1, <1>3, <1>9 DEF Rooted, TreeType
<1>12. Used(c.entries) <= NodeSize
  BY <1>8, <1>10
<1> QED
  BY <1>11, <1>12, OneChanged

Room(t, a, x) == Space(Bytes(t.nodes[a].entries) + KeyLength[x.key], Len(t.nodes[a].entries) + 1) < NodeSize

\* A node with room gets another entry.
LEMMA KeyFits ==
  ASSUME NEW t, NEW f, NEW st, NEW x, Growing(t, f, st, x), AllFit(t),
         NEW a, a = Last(st).node, NEW i, i = Last(st).index, Room(t, a, x),
         NEW u, u = [t EXCEPT !.nodes[a].entries = InsertAt(@, i + 1, x)]
  PROVE  AllFit(u)
<1>1. Stored(t)
  BY DEF Growing
<1>2. PICK s : GrowsTo(t, f, st, x, s)
  BY DEF Growing
<1>3. /\ i \in Nat /\ Loads(t, a) /\ Node(t, a) = t.nodes[a]
      /\ t.nodes[a].entries \in Seq(Entry) /\ i \in 0 .. Len(t.nodes[a].entries) /\ x \in Entry
      /\ s.entries[a] = InsertAt(t.nodes[a].entries, i + 1, x) /\ s.entries[a] # <<>>
      /\ s.entries[a] \in Seq(Entry) /\ Len(s.entries[a]) = Len(t.nodes[a].entries) + 1
      /\ IsLeaf(Node(t, a)) <=> s.rank[a] = 1
  BY ONLY <1>1, <1>2, a = Last(st).node, i = Last(st).index, GrowthIs
<1>4. PICK e : e = t.nodes[a].entries
  OBVIOUS
<1>5. PICK d : d = s.entries[a]
  OBVIOUS
<1>6. PICK c : c = i + 1
  OBVIOUS
<1>7. e \in Seq(Entry) /\ c \in 1 .. Len(e) + 1 /\ d = InsertAt(e, c, x) /\ Len(d) = Len(e) + 1
  <2>1. e \in Seq(Entry) /\ Len(e) \in Nat
    BY <1>3, <1>4, LengthIs
  <2> QED
    BY <1>3, <1>4, <1>5, <1>6, <2>1
<1>8. Bytes(d) = Bytes(e) + KeyLength[x.key]
  BY ONLY <1>3, <1>7, BytesInserted
<1>9. d \in Seq(Entry)
  BY <1>3, <1>5
<1>10. Used(d) < NodeSize
  BY <1>4, <1>7, <1>8 DEF Room, Used
<1>11. Used(d) <= NodeSize
  <2>1. Used(d) \in Int /\ NodeSize \in Nat
    BY <1>9, UsedIs, NodesAssumption
  <2> QED
    BY <1>10, <2>1
<1>12. t \in TreeType /\ a \in DOMAIN t.nodes /\ t.nodes[a] \in NodeType
  BY <1>1, <1>3, StoredIs, LoadsIs
<1>13. PICK n : n = [t.nodes[a] EXCEPT !.entries = d]
  OBVIOUS
<1>14. n.entries = d
  BY <1>12, <1>13 DEF NodeType
<1>15. u.nodes = [t.nodes EXCEPT ![a] = n]
  BY <1>4, <1>6, <1>7, <1>12, <1>13 DEF TreeType
<1>16. Used(n.entries) <= NodeSize
  BY <1>11, <1>14
<1> QED
  BY ONLY <1>12, <1>15, <1>16, AllFit(t), OneChanged

\* A node other than the root is split.
LEMMA SplitFits ==
  ASSUME KeysAreShort, HalvesHaveRoom, NEW t, NEW f, NEW st, NEW x, Growing(t, f, st, x), AllFit(t),
         NEW a, a = Last(st).node, NEW i, i = Last(st).index, Full(t, a, x), NEW y \in Allocate(t),
         NEW split, split = Split(Node(t, a), i, x), NEW told,
         NEW u, u = SplitNodes(y.tree, a, y.node, split, told)
  PROVE  AllFit(u)
<1>1. /\ Loads(t, a) /\ Stored(t) /\ FreeSound(t)
      /\ split.other.entries \in Seq(Entry) /\ Used(split.other.entries) <= NodeSize
      /\ split.entries \in Seq(Entry) /\ Used(split.entries) <= NodeSize
      /\ split.other.overflow \in Int /\ split.other.overflow # FreeMark /\ split.up \in Key
  BY SplitParts
<1>2. Allocated(t, y.node, y.tree)
  BY <1>1, AllocateIs
<1>3. PICK v : v = y.tree
  OBVIOUS
<1>4. PICK o : o = y.node
  OBVIOUS
<1>5. Stored(v) /\ o \in Nat /\ ~ Loads(t, o) /\ Loads(v, o) /\ Loads(v, a)
  BY <1>1, <1>2, <1>3, <1>4 DEF Allocated
<1>6. AllFit(v)
  BY <1>1, <1>3, StoredIs, AllocateFits
<1>7. Halves(v, a, o, split)
  BY <1>1, <1>5 DEF Halves
<1>8. u = SplitNodes(v, a, o, split, told)
  BY <1>3, <1>4
<1> QED
  BY ONLY <1>1, <1>6, <1>7, <1>8, HalvesStoredFit

\* The root is split.
LEMMA RootSplitFits ==
  ASSUME KeysAreShort, HalvesHaveRoom, NEW t, NEW f, NEW st, NEW x, Growing(t, f, st, x), AllFit(t),
         NEW a, a = Last(st).node, NEW i, i = Last(st).index, Full(t, a, x),
         NEW rn \in Allocate(t), NEW y \in Allocate(rn.tree),
         NEW split, split = Split(Node(t, a), i, x),
         NEW told, NEW u, u = Rooted(SplitNodes(y.tree, a, y.node, split, told), rn.node, a, y.node, split.up)
  PROVE  AllFit(u)
<1>1. /\ Loads(t, a) /\ Stored(t) /\ FreeSound(t)
      /\ split.other.entries \in Seq(Entry) /\ Used(split.other.entries) <= NodeSize
      /\ split.entries \in Seq(Entry) /\ Used(split.entries) <= NodeSize
      /\ split.other.overflow \in Int /\ split.other.overflow # FreeMark /\ split.up \in Key
  BY SplitParts
<1>2. Allocated(t, rn.node, rn.tree)
  BY <1>1, AllocateIs
<1>3. PICK w : w = rn.tree
  OBVIOUS
<1>4. Stored(w) /\ FreeSound(w) /\ Loads(w, a)
  BY <1>1, <1>2, <1>3 DEF Allocated
<1>5. AllFit(w)
  BY <1>1, <1>3, StoredIs, AllocateFits
<1>6. y \in Allocate(w)
  BY <1>3
<1>7. Allocated(w, y.node, y.tree)
  BY <1>4, <1>6, AllocateIs
<1>8. PICK v : v = y.tree
  OBVIOUS
<1>9. PICK o : o = y.node
  OBVIOUS
<1>10. Stored(v) /\ o \in Nat /\ ~ Loads(w, o) /\ Loads(v, o) /\ Loads(v, a)
  BY <1>4, <1>7, <1>8, <1>9 DEF Allocated
<1>11. AllFit(v)
  <2>1. w \in TreeType
    BY <1>4, StoredIs
  <2>2. AllFit(y.tree)
    BY ONLY HalvesHaveRoom, <1>5, <1>6, <2>1, AllocateFits
  <2> QED
    BY <1>8, <2>2
<1>12. Halves(v, a, o, split)
  BY <1>1, <1>4, <1>10 DEF Halves
<1>13. PICK z : z = SplitNodes(v, a, o, split, told)
  OBVIOUS
<1>14. AllFit(z) /\ Stored(z)
  BY ONLY <1>1, <1>11, <1>12, <1>13, HalvesStoredFit
<1>15. PICK r : r = rn.node
  OBVIOUS
<1>16. PICK k : k = split.up
  OBVIOUS
<1>17. u = Rooted(z, r, a, o, k) /\ k \in Key /\ o \in Nat /\ z \in TreeType
  BY <1>1, <1>8, <1>9, <1>10, <1>13, <1>14, <1>15, <1>16, StoredIs
<1> QED
  BY ONLY KeysAreShort, <1>14, <1>17, RootFits

\* A key or a link is taken out of a node.
LEMMA WithoutKeyFits ==
  ASSUME NEW t, Stored(t), AllFit(t), NEW a, Loads(t, a), NEW i \in Nat,
         IF ~ IsLeaf(t.nodes[a]) /\ i = NumKeys(t.nodes[a])
           THEN t.nodes[a].entries # <<>> ELSE i + 1 \in 1 .. Len(t.nodes[a].entries),
         NEW u, u = [t EXCEPT !.nodes[a] = WithoutKey(@, i)]
  PROVE  AllFit(u)
<1>1. t \in TreeType /\ a \in DOMAIN t.nodes /\ t.nodes[a] \in NodeType
  BY StoredIs, LoadsIs
<1>2. PICK e : e = t.nodes[a].entries
  OBVIOUS
<1>3. e \in Seq(Entry) /\ Used(e) <= NodeSize /\ Used(e) \in Int /\ NodeSize \in Nat
  <2>1. e \in Seq(Entry) /\ Used(e) <= NodeSize
    BY <1>1, <1>2 DEF NodeType, AllFit
  <2> QED
    BY <2>1, UsedIs, NodesAssumption
<1>4. PICK n : n = WithoutKey(t.nodes[a], i)
  OBVIOUS
<1>5. u.nodes = [t.nodes EXCEPT ![a] = n]
  BY <1>1, <1>4 DEF TreeType
<1>6. CASE ~ IsLeaf(t.nodes[a]) /\ i = NumKeys(t.nodes[a])
  <2>1. e # <<>> /\ n.entries = Front(e)
    BY <1>1, <1>2, <1>4, <1>6 DEF WithoutKey, NodeType
  <2>2. Front(e) \in Seq(Entry) /\ Used(Front(e)) <= Used(e)
    BY <1>3, <2>1, UsedFront
  <2>3. Used(n.entries) <= NodeSize
    <3>1. Used(Front(e)) \in Int
      BY <2>2, UsedIs
    <3> QED
      BY <1>3, <2>1, <2>2, <3>1
  <2> QED
    BY ONLY <1>1, <1>5, <2>3, AllFit(t), OneChanged
<1>7. CASE ~ (~ IsLeaf(t.nodes[a]) /\ i = NumKeys(t.nodes[a]))
  <2>1. PICK d : d = RemoveAt(e, i + 1)
    OBVIOUS
  <2>2. i + 1 \in 1 .. Len(e) /\ n.entries = d
    BY <1>1, <1>2, <1>4, <1>7, <2>1 DEF WithoutKey, NodeType
  <2>3. d \in Seq(Entry) /\ Used(d) <= Used(e)
    <3>1. PICK j : j = i + 1
      OBVIOUS
    <3>2. j \in 1 .. Len(e) /\ d = RemoveAt(e, j) /\ e \in Seq(Entry)
      BY <1>3, <2>1, <2>2, <3>1
    <3> QED
      BY ONLY <3>2, UsedRemoved
  <2>4. Used(n.entries) <= NodeSize
    <3>1. Used(d) \in Int
      BY <2>3, UsedIs
    <3> QED
      BY <1>3, <2>2, <2>3, <3>1
  <2> QED
    BY ONLY <1>1, <1>5, <2>4, AllFit(t), OneChanged
<1> QED
  BY <1>6, <1>7

\* Neither the nodes nor what they were when the call began overflow.
Fit(t, o) == AllFit(t) /\ (~ Resting(o) => AllFit(o.saved))

LEMMA InsertKeyFits ==
  ASSUME NEW f, Stands(tree, op, f), AllFit(tree), InsertKey
  PROVE  AllFit(tree')
<1>1. PICK g : g = [f EXCEPT ![op.call.key] = op.call.value]
  OBVIOUS
<1>2. PICK x : x = [key |-> op.key, value |-> op.value]
  OBVIOUS
<1>3. PICK st : st = op.stack
  OBVIOUS
<1>4. Growing(tree, g, st, x)
  BY <1>1, <1>2, <1>3, InsertGrows DEF InsertKey
<1>5. PICK a : a = Last(st).node
  OBVIOUS
<1>6. PICK i : i = Last(st).index
  OBVIOUS
<1>7. PICK u : u = tree'
  OBVIOUS
<1>8. u = [tree EXCEPT !.nodes[a].entries = InsertAt(@, i + 1, x)]
  BY <1>2, <1>3, <1>5, <1>6, <1>7 DEF InsertKey, At
<1>9. Room(tree, a, x)
  <2>1. Stored(tree)
    BY <1>4 DEF Growing
  <2>2. PICK s : GrowsTo(tree, g, st, x, s)
    BY <1>4 DEF Growing
  <2>3. Node(tree, a) = tree.nodes[a]
    BY ONLY <1>5, <1>6, <2>1, <2>2, GrowthIs
  <2>4. This = tree.nodes[a] /\ x.key = op.key
    BY <1>2, <1>3, <1>5, <2>3 DEF This, At
  <2> QED
    BY <2>4 DEF InsertKey, Fits, NumKeys, Room
<1>10. AllFit(u)
  BY ONLY <1>4, <1>5, <1>6, <1>8, <1>9, AllFit(tree), KeyFits
<1> QED
  BY <1>7, <1>10

LEMMA InsertSplitFits ==
  ASSUME KeysAreShort, HalvesHaveRoom, NEW f, Stands(tree, op, f), AllFit(tree), InsertSplit
  PROVE  AllFit(tree')
<1>1. PICK g : g = [f EXCEPT ![op.call.key] = op.call.value]
  OBVIOUS
<1>2. PICK x : x = [key |-> op.key, value |-> op.value]
  OBVIOUS
<1>3. PICK st : st = op.stack
  OBVIOUS
<1>4. Growing(tree, g, st, x) /\ Growing(tree, g, op.stack, x)
  BY <1>1, <1>2, <1>3, InsertGrows DEF InsertSplit
<1>5. PICK a : a = Last(st).node
  OBVIOUS
<1>6. PICK i : i = Last(st).index
  OBVIOUS
<1>7. Full(tree, a, x)
  BY <1>2, <1>3, <1>4, <1>5, NodeIsFull DEF InsertSplit, At
<1>8. PICK split : split = Split(Node(tree, a), i, x)
  OBVIOUS
<1>9. PICK u : u = tree'
  OBVIOUS
<1>10. PICK new \in SplitAllocations, told \in BOOLEAN :
         /\ new.root # Null => u = Rooted(SplitNodes(new.tree, a, new.other, split, told), new.root, a, new.other, split.up)
         /\ new.root = Null => u = SplitNodes(new.tree, a, new.other, split, told)
  <2>1. Outcomes(This.left) \subseteq BOOLEAN
    BY DEF Outcomes
  <2> QED
    BY <1>2, <1>3, <1>5, <1>6, <1>8, <1>9, <2>1 DEF InsertSplit, At, This
<1>11. Stored(tree) /\ FreeSound(tree)
  BY <1>4 DEF Growing
<1>12. CASE a = tree.root
  <2>1. PICK rn \in Allocate(tree) : \E y \in Allocate(rn.tree) : new = [root |-> rn.node, other |-> y.node, tree |-> y.tree]
    BY <1>3, <1>5, <1>10, <1>12 DEF SplitAllocations, At
  <2>2. PICK y \in Allocate(rn.tree) : new = [root |-> rn.node, other |-> y.node, tree |-> y.tree]
    BY <2>1
  <2>3. new.root = rn.node /\ new.other = y.node /\ new.tree = y.tree
    BY <2>2
  <2>4. Allocated(tree, rn.node, rn.tree)
    BY <1>11, AllocateIs
  <2>5. new.root # Null
    BY <2>3, <2>4 DEF Allocated, Null
  <2>6. u = Rooted(SplitNodes(y.tree, a, y.node, split, told), rn.node, a, y.node, split.up)
    BY <1>10, <2>3, <2>5
  <2>7. AllFit(u)
    BY ONLY KeysAreShort, HalvesHaveRoom, <1>4, <1>5, <1>6, <1>7, <1>8, <2>6, AllFit(tree), RootSplitFits,
            rn \in Allocate(tree), y \in Allocate(rn.tree)
  <2> QED
    BY <1>9, <2>7
<1>13. CASE a # tree.root
  <2>1. PICK y \in Allocate(tree) : new = [root |-> Null, other |-> y.node, tree |-> y.tree]
    BY <1>3, <1>5, <1>10, <1>13 DEF SplitAllocations, At
  <2>2. new.root = Null /\ new.other = y.node /\ new.tree = y.tree
    BY <2>1
  <2>3. u = SplitNodes(y.tree, a, y.node, split, told)
    BY <1>10, <2>2
  <2>4. AllFit(u)
    BY ONLY KeysAreShort, HalvesHaveRoom, <1>4, <1>5, <1>6, <1>7, <1>8, <2>3, AllFit(tree), SplitFits, y \in Allocate(tree)
  <2> QED
    BY <1>9, <2>4
<1> QED
  BY <1>12, <1>13

LEMMA RemoveFromRootFits ==
  ASSUME HalvesHaveRoom, NEW f, Stands(tree, op, f), AllFit(tree), RemoveFromRoot
  PROVE  AllFit(tree')
<1>1. PICK a, i, st, k, g : RemovesAt(f, a, i, st, k, g)
  BY RemovesWhere DEF RemoveFromRoot
<1>2. Stored(tree) /\ tree \in TreeType
  BY <1>1, StoredNow, StoredIs
<1>3. a = tree.root /\ Loads(tree, a)
  BY <1>1 DEF RemovesAt, RemoveFromRoot, EmptyRoot
<1>4. tree.nodes[a] \in NodeType
  BY <1>2, <1>3, LoadsIs, StoredIs
<1>5. PICK u : u = tree'
  OBVIOUS
<1>6. PICK c : c = [tree.nodes[a] EXCEPT !.entries = <<>>, !.overflow = Null]
  OBVIOUS
<1>7. c.entries = <<>>
  BY <1>4, <1>6 DEF NodeType
<1>8. u.nodes = [tree.nodes EXCEPT ![a] = c]
  <2>1. u = [tree EXCEPT !.nodes[a].entries = <<>>, !.nodes[a].overflow = Null, !.levels = 1]
    BY <1>3, <1>5 DEF RemoveFromRoot, Emptied
  <2>2. a \in DOMAIN tree.nodes
    BY <1>3, LoadsIs
  <2> QED
    BY <1>2, <1>6, <2>1, <2>2 DEF TreeType
<1>9. Used(c.entries) <= NodeSize
  BY <1>7, EmptyFits
<1>10. AllFit(u)
  BY ONLY <1>2, <1>8, <1>9, AllFit(tree), OneChanged
<1> QED
  BY <1>5, <1>10

LEMMA RemoveKeyFits ==
  ASSUME NEW f, Stands(tree, op, f), AllFit(tree), RemoveKey
  PROVE  AllFit(tree')
<1>1. PICK a, i, st, k, g : RemovesAt(f, a, i, st, k, g)
  BY RemovesWhere DEF RemoveKey
<1>2. Stored(tree)
  BY <1>1, StoredNow
<1>3. /\ a = Last(st).node /\ i = Last(st).index /\ NumKeys(This) = Len(tree.nodes[a].entries)
      /\ Loads(tree, a) /\ a = At.node /\ i = At.index /\ This = tree.nodes[a] /\ This = Node(tree, a)
      /\ NumKeys(This) \in Nat
  BY <1>1, LoadsIs DEF RemovesAt
<1>4. PICK u : u = tree'
  OBVIOUS
<1>5. u = [tree EXCEPT !.nodes[a] = WithoutKey(@, i)]
  BY <1>3, <1>4 DEF RemoveKey
<1>6. PICK l \in Nat : l = Len(tree.nodes[a].entries)
  BY <1>3
<1>7. /\ i \in Nat
      /\ IF ~ IsLeaf(tree.nodes[a]) /\ i = NumKeys(tree.nodes[a])
           THEN tree.nodes[a].entries # <<>> ELSE i + 1 \in 1 .. Len(tree.nodes[a].entries)
  <2>1. CASE IsLeaf(This) /\ NumKeys(This) > 0 /\ \E s : Leaves(tree, f, k, st, s)
    <3>1. PICK s : Leaves(tree, f, k, st, s)
      BY <2>1
    <3>2. i \in Nat /\ i + 1 \in 1 .. Len(s.entries[a]) /\ Holds(tree, s, a)
      BY <1>3, <3>1 DEF Leaves
    <3>3. s.entries[a] = tree.nodes[a].entries
      BY <3>2 DEF Holds
    <3> QED
      BY <1>3, <2>1, <3>2, <3>3
  <2>2. CASE ~ IsLeaf(This) /\ Shrinking(tree, g, st)
    <3>1. PICK s : ShrinksTo(tree, g, st, s)
      BY <2>2 DEF Shrinking
    <3>2. /\ s.entries[a] \in Seq(Entry) /\ Len(s.entries[a]) \in Nat
          /\ Loads(tree, a) /\ Node(tree, a) = tree.nodes[a] /\ tree.nodes[a].entries = s.entries[a]
          /\ i \in 0 .. Len(s.entries[a]) /\ i \in Nat
      <4>1. a = Last(st).node /\ i = Last(st).index
        BY <1>3
      <4> QED
        BY ONLY <1>2, <3>1, <4>1, ShrinkageIs
    <3>3. l > 1 \/ l = 1
      BY <1>3, <1>6 DEF RemoveKey, KeepsNode
    <3>4. tree.nodes[a].entries # <<>>
      BY <1>6, <3>3
    <3>5. i \in 0 .. l
      BY <1>6, <3>2
    <3>6. i # l => i + 1 \in 1 .. l
      BY <3>5
    <3>7. NumKeys(tree.nodes[a]) = l
      BY <1>3, <1>6
    <3>8. CASE i = l
      <4>1. ~ IsLeaf(tree.nodes[a])
        BY <1>3, <2>2
      <4> QED
        BY ONLY <3>2, <3>4, <3>7, <3>8, <4>1
    <3>9. CASE i # l
      <4>1. i + 1 \in 1 .. Len(tree.nodes[a].entries)
        BY <1>6, <3>6, <3>9
      <4>2. ~ (~ IsLeaf(tree.nodes[a]) /\ i = NumKeys(tree.nodes[a]))
        BY ONLY <3>7, <3>9
      <4> QED
        BY ONLY <3>2, <4>1, <4>2
    <3> QED
      BY ONLY <3>8, <3>9
  <2> QED
    BY <1>1, <2>1, <2>2 DEF RemovesAt
<1>8. AllFit(u)
  BY <1>2, <1>3, <1>5, <1>7, WithoutKeyFits
<1> QED
  BY <1>4, <1>8

LEMMA RemoveNodeFits ==
  ASSUME HalvesHaveRoom, NEW f, Stands(tree, op, f), AllFit(tree), RemoveNode
  PROVE  AllFit(tree')
<1>1. PICK a, i, st, k, g : RemovesAt(f, a, i, st, k, g)
  BY RemovesWhere DEF RemoveNode
<1>2. Stored(tree) /\ FreeSound(tree)
  BY <1>1 DEF RemovesAt, Leaves, Shrinking
<1>3. Loads(tree, a) /\ a = At.node /\ This = tree.nodes[a]
  BY <1>1 DEF RemovesAt
<1>4. PICK u : u = tree'
  OBVIOUS
<1>5. TakenOut(tree, a, u)
  BY <1>3, <1>4 DEF RemoveNode, TakenOut, Outcomes
<1>6. AllFit(u)
  BY <1>2, <1>3, <1>5, UnlinkedFits
<1> QED
  BY <1>4, <1>6

LEMMA ReplaceFits ==
  ASSUME NEW f, Stands(tree, op, f), AllFit(tree), NEW k \in Key, NEW v \in Values[k], Replace(k, v)
  PROVE  AllFit(tree')
<1>1. f \in Pairs /\ Done(tree, f)
  BY StandsIdle DEF Replace, MayStart
<1>2. Stored(tree)
  BY <1>1 DEF Done, Sound
<1>3. PICK s : SearchTree(s, {}) /\ Represents(tree, s) /\ Shows(s, f)
  BY <1>1 DEF Done, Sound
<1>4. PICK a : a = LeafFor(tree, k)
  OBVIOUS
<1>5. a \in s.nodes
  BY <1>2, <1>3, <1>4, ShownIsFound
<1>6. Holds(tree, s, a)
  BY <1>3, <1>5, HoldsAll
<1>7. Loads(tree, a) /\ tree \in TreeType /\ tree.nodes[a] \in NodeType /\ a \in DOMAIN tree.nodes
  BY <1>2, <1>6, LoadsIs, StoredIs DEF Holds
<1>8. PICK i : i = KeyIndex(Node(tree, a), k) + 1
  OBVIOUS
<1>9. PICK u : u = tree'
  OBVIOUS
<1>10. u = [tree EXCEPT !.nodes[a].entries[i].value = v]
  BY <1>4, <1>8, <1>9 DEF Replace
<1>11. PICK e : e = tree.nodes[a].entries
  OBVIOUS
<1>12. PICK d : d = [e EXCEPT ![i].value = v]
  OBVIOUS
<1>13. e \in Seq(Entry) /\ v \in Nat
  BY <1>7, <1>11, NodesAssumption DEF NodeType
<1>14. d \in Seq(Entry) /\ Len(d) = Len(e) /\ \A j \in 1 .. Len(e) : d[j].key = e[j].key
  <2>1. Len(e) \in Nat /\ DOMAIN e = 1 .. Len(e) /\ DOMAIN d = DOMAIN e
    BY <1>12, <1>13
  <2>2. \A j \in 1 .. Len(e) : d[j] \in Entry /\ d[j].key = e[j].key
    <3> TAKE j \in 1 .. Len(e)
    <3>1. e[j] \in Entry
      BY <1>13
    <3>2. d[j] = IF j = i THEN [e[j] EXCEPT !.value = v] ELSE e[j]
      BY <1>12, <2>1
    <3> QED
      BY <1>13, <3>1, <3>2 DEF Entry
  <2>3. d = [j \in 1 .. Len(e) |-> d[j]]
    BY <1>12, <2>1
  <2>4. d \in [1 .. Len(e) -> Entry]
    BY <2>2, <2>3
  <2>5. d \in Seq(Entry)
    BY <2>1, <2>4
  <2> QED
    BY <2>1, <2>2, <2>5
<1>15. Used(d) = Used(e)
  BY <1>13, <1>14, SameKeys
<1>16. PICK c : c = [tree.nodes[a] EXCEPT !.entries = d]
  OBVIOUS
<1>17. Used(c.entries) <= NodeSize
  <2>1. c.entries = d /\ Used(e) <= NodeSize
    BY <1>7, <1>11, <1>16 DEF NodeType, AllFit
  <2> QED
    BY <1>15, <2>1
<1>18. u.nodes = [tree.nodes EXCEPT ![a] = c]
  BY <1>7, <1>10, <1>11, <1>12, <1>16 DEF TreeType
<1>19. AllFit(u)
  BY ONLY <1>7, <1>17, <1>18, AllFit(tree), OneChanged
<1> QED
  BY <1>9, <1>19

\* What was saved is still saved, or no longer needed.
LEMMA SavedFits ==
  ASSUME NEW f, Fit(tree, op), Finishes(f) \/ GoesOn(f), AllFit(tree')
  PROVE  Fit(tree', op')
<1>1. CASE Finishes(f)
  BY <1>1, RestIs DEF Finishes, Fit, Resting
<1>2. CASE GoesOn(f)
  BY <1>2 DEF GoesOn, Fit, Resting, Idle
<1> QED
  BY <1>1, <1>2

LEMMA StepsFit ==
  ASSUME KeysAreShort, HalvesHaveRoom, NEW f, Stands(tree, op, f), Fit(tree, op), [Next]_vars
  PROVE  Fit(tree', op')
<1>1. AllFit(tree)
  BY DEF Fit
<1>2. ASSUME tree' = tree, op' = op
      PROVE  Fit(tree', op')
  BY <1>2
<1>3. ASSUME ~ Idle, Abort
      PROVE  Fit(tree', op')
  <2>1. AllFit(op.saved)
    BY <1>3 DEF Fit, Resting, Idle
  <2>2. tree' = op.saved /\ op' = Failed
    BY <1>3 DEF Abort
  <2>3. Resting(op')
    BY <2>2, RestIs DEF Resting
  <2> QED
    BY <2>1, <2>2, <2>3 DEF Fit
<1>4. ASSUME NEW c, Start(c)
      PROVE  Fit(tree', op')
  BY <1>1, <1>4 DEF Start, Fit
<1>5. ASSUME NEW k \in Removed, NEW v \in Values[k], Replace(k, v)
      PROVE  Fit(tree', op')
  <2>1. k \in Key
    BY NodesAssumption
  <2>2. AllFit(tree')
    BY <1>1, <1>5, <2>1, ReplaceFits
  <2>3. op' = op /\ Resting(op)
    BY <1>5 DEF Replace, MayStart, Idle, Resting
  <2> QED
    BY <2>2, <2>3 DEF Fit
<1>6. CASE InsertExists
  <2>1. Finishes(f) /\ tree' = tree
    BY <1>6, InsertExistsStep DEF InsertExists
  <2> QED
    BY <1>1, <2>1, SavedFits
<1>7. CASE InsertKey
  BY <1>1, <1>7, InsertKeyStep, InsertKeyFits, SavedFits
<1>8. CASE InsertSplit
  BY <1>1, <1>8, InsertSplitStep, InsertSplitFits, SavedFits
<1>9. CASE InsertNoRoom
  <2>1. ~ Idle /\ Abort
    BY <1>9 DEF InsertNoRoom, Inserting, Idle
  <2> QED
    BY <1>3, <2>1
<1>10. CASE RemoveMissing
  <2>1. Finishes(f) /\ tree' = tree
    BY <1>10, RemoveMissingStep DEF RemoveMissing
  <2> QED
    BY <1>1, <2>1, SavedFits
<1>11. CASE RemoveFromRoot
  BY <1>1, <1>11, RemoveFromRootStep, RemoveFromRootFits, SavedFits
<1>12. CASE RemoveKey
  BY <1>1, <1>12, RemoveKeyStep, RemoveKeyFits, SavedFits
<1>13. CASE RemoveNode
  BY <1>1, <1>13, RemoveNodeStep, RemoveNodeFits, SavedFits
<1>14. CASE WriteFails
  BY <1>3, <1>14 DEF WriteFails
<1>15. CASE Rewind \/ GetNextEntry \/ GetNoEntry \/ UNCHANGED vars
  BY <1>2, <1>15 DEF Rewind, GetNextEntry, GetNoEntry, vars
<1>16. CASE (\E k \in Key : \E v \in Values[k] : StartInsert(k, v)) \/ \E k \in Removed : StartRemove(k)
  BY <1>4, <1>16 DEF StartInsert, StartRemove
<1> QED
  BY <1>5, <1>6, <1>7, <1>8, <1>9, <1>10, <1>11, <1>12, <1>13, <1>14, <1>15, <1>16 DEF Next

LEMMA InitFits ==
  ASSUME HalvesHaveRoom, Init
  PROVE  Fit(tree, op)
<1>1. tree.nodes = <<NewNode>> /\ op = NoOp
  BY DEF Init
<1>2. \A n \in DOMAIN tree.nodes : tree.nodes[n] = NewNode
  BY <1>1
<1>3. AllFit(tree)
  BY <1>2, EmptyFits, NewNodeIs DEF AllFit
<1>4. Resting(op)
  BY <1>1, RestIs DEF Resting
<1> QED
  BY <1>3, <1>4 DEF Fit

\* The inductive invariant.
FitInv == DictionaryInv /\ Fit(tree, op)

\* No node is filled beyond its end, by a key that fits or by a split, whose
\* halves are unequal when keys differ in length; nor is one that an abort
\* brings back.  The keys must be so short that a full node has a half with
\* keys on either side, and that half a node holds one of them.
THEOREM NothingOverflows ==
  ASSUME KeysAreShort, HalvesHaveRoom
  PROVE  Spec => []NodesFit
<1>1. Init => FitInv
  BY InitStands, InitFits DEF DictionaryInv, FitInv
<1>2. FitInv /\ [Next]_vars => FitInv'
  <2> SUFFICES ASSUME FitInv, [Next]_vars
               PROVE  FitInv'
    OBVIOUS
  <2>1. PICK f : Stands(tree, op, f)
    BY DEF FitInv, DictionaryInv
  <2>2. PICK g : Stands(tree', op', g)
    BY <2>1, TreeSteps
  <2>3. Fit(tree', op')
    BY <2>1, StepsFit DEF FitInv
  <2> QED
    BY <2>2, <2>3 DEF FitInv, DictionaryInv
<1>3. FitInv => NodesFit
  BY DEF FitInv, Fit, AllFit, NodesFit
<1> QED
  BY <1>1, <1>2, <1>3, PTL DEF Spec
=============================================================================
