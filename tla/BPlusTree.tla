----------------------------- MODULE BPlusTree -----------------------------
(***************************************************************************)
(* The B+tree of bfs/BPlusTree.cpp that directories are stored in: one     *)
(* value per key.  The keys of a leaf carry the values; an index node      *)
(* leads to the nodes below it, by its values and, for keys behind its     *)
(* last one, by its overflow link.  Nodes of one level are linked to their *)
(* neighbours, and TreeIterator walks the leaves by these links.           *)
(*                                                                         *)
(* Insert and Remove go down to a leaf with a stack of the nodes they      *)
(* passed and then work their way up.  A step of the module is one turn of *)
(* that loop: any of them can fail, and the caller then aborts its         *)
(* transaction, which brings the old nodes back, but not the iterators.    *)
(* Only where a neighbour cannot be told of a change of its level, or an   *)
(* empty node cannot be freed, the call goes on with success, and leaves   *)
(* a tree that is damaged.  The tree's lock keeps readers away until the   *)
(* loop has ended.                                                         *)
(*                                                                         *)
(* In this build a node cannot be made writable and _UpdateIterators hangs *)
(* in SimpleLock::Lock, so writing is modelled as it is written, for       *)
(* transactions and locks that work.  Left out: trees with duplicates, and *)
(* GetPreviousEntry, which nobody calls.                                   *)
(***************************************************************************)
EXTENDS Integers, FiniteSets, SequencesExt

CONSTANTS
  Key,         \* positive numbers, in the order of compareKeys
  KeyLength,   \* KeyLength[k]: how many bytes a key has
  Values,      \* Values[k]: the inode numbers that are stored under a key
  NodeSize,    \* fNodeSize
  HeaderSize,  \* sizeof(bplustree_node)
  SlotSize,    \* sizeof(uint16) + sizeof(off_t)
  Alignment,   \* round_up, of the arrays behind the keys
  Removed,     \* bound: the keys that Remove and Replace are called for
  MaxNodes,    \* bound: nodes the volume has room for
  MayFail,     \* bound: whether nodes may fail to be made writable, unless there is an iterator
  MayPass,     \* bound: whether a free node that cannot be made writable is passed over
  Iterated,    \* bound: the keys of a tree that has an iterator
               \* without end when writing may also fail
  NoValue

ASSUME NodesAssumption ==
  /\ Key \subseteq Nat \ {0}
  /\ KeyLength \in [Key -> Nat \ {0}]
  /\ Removed \subseteq Key
  /\ Values \in [Key -> SUBSET Nat]
  /\ {NodeSize, SlotSize, Alignment, MaxNodes} \subseteq Nat \ {0}
  /\ HeaderSize \in Nat
  /\ {MayFail, MayPass} \subseteq BOOLEAN /\ Iterated \subseteq Key
  /\ \A k \in Key : NoValue \notin Values[k]

Null == -1      \* BPLUSTREE_NULL
FreeMark == -2  \* BPLUSTREE_FREE

\* bplustree_node::Initialize
NewNode == [entries |-> <<>>, overflow |-> Null, left |-> Null, right |-> Null]

VARIABLES
  tree,  \* the header and the nodes of the stream
  op,    \* Insert or Remove, between two turns of their loop
  iter,  \* a TreeIterator; the keys it has returned, and those it still must
  damaged  \* a neighbour was not told, or an empty node not freed

vars == <<tree, op, iter, damaged>>

NoOp == [call |-> [kind |-> "none"]]
Failed == [call |-> [kind |-> "failed"]]
Idle == op.call.kind \in {"none", "failed"}

\* Bound: a damaged tree is not followed beyond the call that damaged it.
MayStart == Idle /\ ~ damaged
Followed == Idle => ~ damaged

-----------------------------------------------------------------------------
(* Nodes.                                                                  *)

IsLeaf(node) == node.overflow = Null
NumKeys(node) == Len(node.entries)

\* Used(): the space of n keys, and of a sequence of entries.
Space(bytes, n) == Alignment * ((HeaderSize + bytes + Alignment - 1) \div Alignment) + n * SlotSize
Bytes(entries) ==
  LET sum[n \in 0 .. Len(entries)] == IF n = 0 THEN 0 ELSE sum[n - 1] + KeyLength[entries[n].key]
  IN  sum[Len(entries)]
Used(entries) == Space(Bytes(entries), Len(entries))

\* CachedNode::SetTo; what it refuses is shown as an empty node.  That a node
\* is too full, as NodesFit excludes, is left out of its sanity checks.
Loads(t, n) == n \in DOMAIN t.nodes /\ t.nodes[n].overflow # FreeMark
Node(t, n) == IF Loads(t, n) THEN t.nodes[n] ELSE NewNode

\* _FindKey, by its effect: the index of the first key that is not smaller.
KeyIndex(node, k) == Cardinality({i \in 1 .. NumKeys(node) : node.entries[i].key < k})
HasKey(node, k) == \E i \in 1 .. NumKeys(node) : node.entries[i].key = k

Child(node, index) ==
  IF index < NumKeys(node) THEN node.entries[index + 1].value ELSE node.overflow

\* _SeekDown: the nodes from the root to the leaf for a key, with the way
\* taken in each.
Descent(t, k) ==
  LET down[d \in 0 .. MaxNodes] ==
        [n \in Int |->
           LET here == [node |-> n, index |-> KeyIndex(Node(t, n), k)]
           IN  IF IsLeaf(Node(t, n)) \/ d = 0
                 THEN <<here>>
                 ELSE <<here>> \o down[d - 1][Child(Node(t, n), here.index)]]
  IN  down[MaxNodes][t.root]

LeafFor(t, k) == Last(Descent(t, k)).node

\* Find
LookUp(t, k) ==
  LET find[d \in 0 .. MaxNodes] ==
        [n \in Int |->
           LET index == KeyIndex(Node(t, n), k)
           IN  IF ~ IsLeaf(Node(t, n)) /\ d > 0 THEN find[d - 1][Child(Node(t, n), index)]
               ELSE IF HasKey(Node(t, n), k) THEN Node(t, n).entries[index + 1].value
               ELSE NoValue]
  IN  find[MaxNodes][t.root]

Keys(t) == {k \in Key : LookUp(t, k) # NoValue}

\* A node may fail to be made writable.
CanFail == MayFail /\ iter.node = Null

\* CachedNode::Allocate: a node from the free list, or one more behind the
\* last when there is none or it cannot be made writable; the set is empty when
\* the stream cannot grow.
Allocate(t) ==
  {[node |-> n,
    tree |-> [t EXCEPT !.nodes[n] = NewNode, !.free = t.nodes[n].left]] : n \in {t.free} \ {Null}}
  \cup
  {[node |-> n, tree |-> [t EXCEPT !.nodes = Append(@, NewNode)]] :
     n \in IF t.free = Null \/ (MayPass /\ CanFail) THEN {Len(t.nodes) + 1} \cap 1 .. MaxNodes ELSE {}}

\* Mutant: the header is not told of the free node.
FreeUnlisted(t, n) ==
  IF n = Len(t.nodes)
    THEN [t EXCEPT !.nodes = Front(@)]
    ELSE [t EXCEPT !.nodes[n] = [NewNode EXCEPT !.overflow = FreeMark]]

\* CachedNode::Free: the last node shortens the stream.  Of a free node only
\* its mark and its link to the next one are ever read.
Free(t, n) ==
  IF n = Len(t.nodes)
    THEN [t EXCEPT !.nodes = Front(@)]
    ELSE [t EXCEPT !.nodes[n] = [NewNode EXCEPT !.left = t.free, !.overflow = FreeMark], !.free = n]

\* What may become of a neighbour, or of a node that is freed: done, or not, when
\* it cannot be made writable or the stream not be shortened.  Both go on.
Outcomes(n) == {TRUE, ~ (CanFail /\ Loads(tree, n))}

\* The neighbours of a node are told of another one.
SetRight(t, n, to, told) == IF told /\ Loads(t, n) THEN [t EXCEPT !.nodes[n].right = to] ELSE t
SetLeft(t, n, to, told) == IF told /\ Loads(t, n) THEN [t EXCEPT !.nodes[n].left = to] ELSE t

-----------------------------------------------------------------------------
(* Splitting.                                                              *)

\* Mutant: the new node is filled instead of half filled.
SplitAtEnd(entries, index) ==
  LET full == {n \in 1 .. Len(entries) : Space(Bytes(SubSeq(entries, 1, n)), n) >= NodeSize}
  IN  CHOOSE n \in full : \A m \in full : n <= m

\* The first keys go to a new node in front of the old one, until half a node
\* is used.  Before the new key has its turn, the key that is being looked at
\* is not counted.
SplitAt(entries, index) ==
  LET counted(n) == IF n <= index THEN n - 1 ELSE n
      half == {n \in 1 .. Len(entries) :
                 Space(Bytes(SubSeq(entries, 1, counted(n))), n) >= NodeSize \div 2}
  IN  CHOOSE n \in half : \A m \in half : n <= m

\* Keys are short enough for SplitAt: a node has room for any one of them, and
\* when two more do not fit behind n keys these already fill half of it.
KeysAreShort ==
  \A k, k2 \in Key :
    /\ Space(KeyLength[k], 1) < NodeSize
    /\ \A n \in 0 .. NodeSize : \A bytes \in n .. NodeSize :
         /\ n = 0 => bytes = 0
         /\ Space(bytes + KeyLength[k] + KeyLength[k2], n + 2) >= NodeSize
         => Space(bytes, n + 1) >= NodeSize \div 2

\* A node has room for its header, and one more key with what rounding up may
\* cost takes no more than half of it.
HalvesHaveRoom ==
  /\ Space(0, 0) <= NodeSize
  /\ \A k \in Key : Space(KeyLength[k], 1) + 2 * (Alignment - 1) <= NodeSize \div 2

\* Mutant: an index node keeps the key that moves up.
SplitKeeping(node, index, entry) ==
  LET all == InsertAt(node.entries, index + 1, entry)
      out == SplitAt(all, index)
  IN  [other   |-> [entries |-> SubSeq(all, 1, out),
                    overflow |-> IF IsLeaf(node) THEN Null ELSE all[out].value],
       entries |-> SubSeq(all, out + 1, Len(all)),
       up      |-> all[out].key]

\* _SplitNode: an index node drops the key behind the first half, which moves
\* up; of a leaf, the last key of the first half is copied up.
Split(node, index, entry) ==
  LET all == InsertAt(node.entries, index + 1, entry)
      out == SplitAt(all, index)
      drop == ~ IsLeaf(node)
  IN  [other   |-> [entries |-> SubSeq(all, 1, out),
                    overflow |-> IF drop THEN all[out + 1].value ELSE Null],
       entries |-> SubSeq(all, IF drop THEN out + 2 ELSE out + 1, Len(all)),
       up      |-> all[IF drop THEN out + 1 ELSE out].key]

\* Mutant: the link to the neighbour is read when it leads to the new node.
SplitNodesLate(t, n, other, split, told) ==
  SetRight([t EXCEPT !.nodes[other] = [entries |-> split.other.entries, overflow |-> split.other.overflow,
                                       left |-> t.nodes[n].left, right |-> n],
                     !.nodes[n].entries = split.entries,
                     !.nodes[n].left = other],
           other, other, told)

\* The tree with node n split and its neighbour in front relinked.
SplitNodes(t, n, other, split, told) ==
  SetRight([t EXCEPT !.nodes[other] = [entries |-> split.other.entries, overflow |-> split.other.overflow,
                                       left |-> t.nodes[n].left, right |-> n],
                     !.nodes[n].entries = split.entries,
                     !.nodes[n].left = other],
           t.nodes[n].left, other, told)

-----------------------------------------------------------------------------
(* Iterators.                                                              *)

\* Mutant: an iterator on the removed or inserted key is not moved.
UpdatedBehind(node, next, index, splitAt, change) ==
  IF iter.node # node
    THEN iter
    ELSE [iter EXCEPT !.node = IF next # Null THEN next ELSE @,
                      !.key = IF index < @ THEN @ + change ELSE @]

\* The position of an iterator is no longer that of the key it returned last.
Strayed(i) == [i EXCEPT !.strayed = TRUE, !.must = {}, !.seen = {}]

\* TreeIterator::Update.  The key index is a uint16.
Updated(node, next, index, splitAt, change) ==
  LET moves == next # Null /\ splitAt <= iter.key
      key == IF moves THEN iter.key - splitAt ELSE iter.key
      at == IF moves THEN (index - splitAt) % 65536 ELSE index
  IN  IF iter.node # node
        THEN iter
        ELSE [iter EXCEPT !.node = IF next # Null THEN next ELSE @,
                          !.key = IF at <= key THEN key + change ELSE key]

\* strayed: a split of its node or an abort has taken the iterator's position
\* away, and what it returns is no longer compared with what it must.
NoIterator == [node |-> Null, key |-> -1, must |-> {}, seen |-> {},
               twice |-> FALSE, strayed |-> FALSE]

\* Rewind, or the first call of a new iterator: Goto(BPLUSTREE_BEGIN).
Rewind ==
  /\ MayStart
  /\ Keys(tree) \subseteq Iterated
  /\ iter' = [NoIterator EXCEPT !.node = LeafFor(tree, 0), !.must = Keys(tree)]
  /\ UNCHANGED <<tree, op, damaged>>

\* The position behind the end of a node is the first one of the next node
\* that has keys; {} if there is none.
Forward(n, key) ==
  LET from[m \in Int, i \in Int, d \in Nat] ==
        IF i < NumKeys(Node(tree, m)) THEN {<<m, i>>}
        ELSE IF d = 0 THEN {} ELSE from[Node(tree, m).right, 0, d - 1]
  IN  from[n, key, Len(tree.nodes)]

\* Traverse returns the next key.
GetNextEntry ==
  /\ MayStart
  /\ Loads(tree, iter.node)
  /\ \E to \in Forward(iter.node, iter.key + 1) :
       LET k == Node(tree, to[1]).entries[to[2] + 1].key
       IN  iter' = [iter EXCEPT !.node = to[1], !.key = to[2],
                                !.must = @ \ {k},
                                !.seen = IF iter.strayed THEN @ ELSE @ \cup {k},
                                !.twice = @ \/ k \in iter.seen]
  /\ UNCHANGED <<tree, op, damaged>>

\* There is none: B_ENTRY_NOT_FOUND, and the position stays; or the tree was
\* emptied.  The caller has seen the end and drops the iterator.
GetNoEntry ==
  /\ MayStart
  /\ iter.node # Null
  /\ Loads(tree, iter.node) => Forward(iter.node, iter.key + 1) = {}
  /\ iter' = [NoIterator EXCEPT !.must = IF iter.strayed THEN {} ELSE iter.must]
  /\ UNCHANGED <<tree, op, damaged>>

-----------------------------------------------------------------------------
(* Insert.                                                                 *)

\* A call of Insert or Remove, its locals, and the nodes as they were.  The key
\* and the value change when the loop comes to a parent.
Start(call) ==
  /\ MayStart
  /\ iter.node # Null => call.key \in Iterated
  /\ op' = [call |-> call, key |-> call.key, value |-> call.value,
            stack |-> Descent(tree, call.key), saved |-> tree]
  /\ UNCHANGED <<tree, iter, damaged>>

StartInsert(k, v) == Start([kind |-> "insert", key |-> k, value |-> v])
StartRemove(k) == Start([kind |-> "remove", key |-> k, value |-> NoValue])

\* The node on top of the stack.
At == Last(op.stack)
This == Node(tree, At.node)

Inserting == op.call.kind = "insert"
Exists == IsLeaf(This) /\ HasKey(This, op.key)

Fits == Space(Bytes(This.entries) + KeyLength[op.key], NumKeys(This) + 1) < NodeSize

\* B_NAME_IN_USE
InsertExists ==
  /\ Inserting
  /\ Exists
  /\ op' = NoOp
  /\ UNCHANGED <<tree, iter, damaged>>

\* The node is big enough.
InsertKey ==
  /\ Inserting
  /\ ~ Exists
  /\ Fits
  /\ tree' = [tree EXCEPT !.nodes[At.node].entries =
                InsertAt(@, At.index + 1, [key |-> op.key, value |-> op.value])]
  /\ iter' = Updated(At.node, Null, At.index, 0, 1)
  /\ op' = NoOp
  /\ UNCHANGED damaged

\* The nodes a split needs: a new root, if the root is split, and the other half.
SplitAllocations ==
  LET roots == IF At.node = tree.root THEN Allocate(tree) ELSE {[node |-> Null, tree |-> tree]}
  IN  UNION {{[root |-> r.node, other |-> o.node, tree |-> o.tree] : o \in Allocate(r.tree)} : r \in roots}

\* A new root above node n and its other half.
Rooted(t, root, n, other, key) ==
  [t EXCEPT !.nodes[root] = [NewNode EXCEPT !.entries = <<[key |-> key, value |-> other]>>, !.overflow = n],
            !.root = root,
            !.levels = @ + 1]

\* The node is split.  The loop goes on with a key for the other half, in the
\* parent, or ends with a new root.  The iterators are told that the keys from
\* the number left in the node on are in the other half.
InsertSplit ==
  /\ Inserting
  /\ ~ Exists
  /\ ~ Fits
  /\ \E new \in SplitAllocations, told \in Outcomes(This.left) :
       LET n == At.node
           split == Split(This, At.index, [key |-> op.key, value |-> op.value])
           done == SplitNodes(new.tree, n, new.other, split, told)
       IN  /\ damaged' = (damaged \/ ~ told)
           /\ iter' = IF iter.node = n
                        THEN Strayed(Updated(n, new.other, At.index, Len(split.entries), 1))
                        ELSE iter
           /\ IF new.root # Null
                THEN /\ tree' = Rooted(done, new.root, n, new.other, split.up)
                     /\ op' = NoOp
                ELSE /\ tree' = done
                     /\ op' = [op EXCEPT !.key = split.up, !.value = new.other, !.stack = Front(@)]

\* The caller's transaction is aborted.
Abort ==
  /\ tree' = op.saved
  /\ op' = Failed
  /\ iter' = IF iter.node = Null THEN iter ELSE Strayed(iter)
  /\ damaged' = FALSE

\* A node cannot be allocated.
InsertNoRoom ==
  /\ Inserting
  /\ ~ Exists
  /\ ~ Fits
  /\ SplitAllocations = {}
  /\ Abort

\* The node or the header cannot be made writable, in any turn of a loop.
WriteFails ==
  /\ ~ Idle
  /\ CanFail
  /\ Abort

-----------------------------------------------------------------------------
(* Remove and Replace.                                                     *)

Removing == op.call.kind = "remove"
Present == IsLeaf(This) => HasKey(This, op.key)

\* B_ENTRY_NOT_FOUND
RemoveMissing ==
  /\ Removing
  /\ ~ Present
  /\ op' = NoOp
  /\ UNCHANGED <<tree, iter, damaged>>

\* At the leaf the iterators are corrected; from its last key they go to the
\* next leaf.
IteratorsCorrected ==
  IF ~ IsLeaf(This)
    THEN iter
    ELSE [Updated(At.node,
                  IF NumKeys(This) > 1 THEN Null
                  ELSE IF This.right = Null THEN FreeMark ELSE This.right,
                  At.index, 0, -1)
            EXCEPT !.must = @ \ {op.key}, !.seen = @ \ {op.key}]

\* Mutant: only a leaf is looked for.
EmptyRootLeaf == At.node = tree.root /\ NumKeys(This) = 1 /\ IsLeaf(This)

EmptyRoot == At.node = tree.root /\ (NumKeys(This) = 0 \/ (NumKeys(This) = 1 /\ IsLeaf(This)))
KeepsNode == NumKeys(This) > 1 \/ (~ IsLeaf(This) /\ NumKeys(This) = 1)

\* The root becomes an empty leaf.
Emptied(t) == [t EXCEPT !.nodes[t.root].entries = <<>>, !.nodes[t.root].overflow = Null, !.levels = 1]

RemoveFromRoot ==
  /\ Removing
  /\ Present
  /\ EmptyRoot
  /\ tree' = Emptied(tree)
  /\ iter' = IteratorsCorrected
  /\ op' = NoOp
  /\ UNCHANGED damaged

\* _RemoveKey; in place of the overflow link the last key is dropped.
WithoutKey(node, index) ==
  IF ~ IsLeaf(node) /\ index = NumKeys(node)
    THEN [node EXCEPT !.entries = Front(@), !.overflow = Last(node.entries).value]
    ELSE [node EXCEPT !.entries = RemoveAt(@, index + 1)]

RemoveKey ==
  /\ Removing
  /\ Present
  /\ ~ EmptyRoot
  /\ KeepsNode
  /\ tree' = [tree EXCEPT !.nodes[At.node] = WithoutKey(@, At.index)]
  /\ iter' = IteratorsCorrected
  /\ op' = NoOp
  /\ UNCHANGED damaged

\* A node without keys is taken out of the links of its level and is freed.
Unlinked(t, n, left, right, free) ==
  LET node == t.nodes[n]
      linked == SetLeft(SetRight(t, node.left, node.right, left), node.right, node.left, right)
  IN  IF free THEN Free(linked, n) ELSE linked

\* Nothing is left in the node; the loop goes on to take it out of its parent,
\* whatever has failed.
RemoveNode ==
  /\ Removing
  /\ Present
  /\ ~ EmptyRoot
  /\ ~ KeepsNode
  /\ \E left \in Outcomes(This.left), right \in Outcomes(This.right), free \in Outcomes(At.node) :
       /\ tree' = Unlinked(tree, At.node, left, right, free)
       /\ damaged' = (damaged \/ ~ (left /\ right /\ free))
  /\ iter' = IteratorsCorrected
  /\ op' = [op EXCEPT !.stack = Front(@)]

Replace(k, v) ==
  LET leaf == LeafFor(tree, k)
  IN  /\ MayStart
      /\ HasKey(Node(tree, leaf), k)
      /\ tree' = [tree EXCEPT !.nodes[leaf].entries[KeyIndex(Node(tree, leaf), k) + 1].value = v]
      /\ UNCHANGED <<op, iter, damaged>>

\* SetTo, for a new tree.
Init ==
  /\ tree = [nodes |-> <<NewNode>>, root |-> 1, levels |-> 1, free |-> Null]
  /\ op = NoOp
  /\ iter = NoIterator
  /\ damaged = FALSE

Next ==
  \/ \E k \in Key : \E v \in Values[k] : StartInsert(k, v)
  \/ \E k \in Removed : StartRemove(k) \/ \E v \in Values[k] : Replace(k, v)
  \/ InsertExists \/ InsertKey \/ InsertSplit \/ InsertNoRoom
  \/ RemoveMissing \/ RemoveFromRoot \/ RemoveKey \/ RemoveNode
  \/ WriteFails
  \/ Rewind \/ GetNextEntry \/ GetNoEntry

Spec == Init /\ [][Next]_vars

-----------------------------------------------------------------------------
(* Properties.                                                             *)

Entry == [key : Key, value : Nat]

\* Nodes, a running call and the iterator have the parts the code gives them,
\* and links are nodes or one of the two marks.
TypeOK ==
  LET link == {Null} \cup 1 .. MaxNodes
  IN  /\ tree.root \in DOMAIN tree.nodes
      /\ tree.free \in link
      /\ tree.levels \in 1 .. MaxNodes
      /\ \A n \in DOMAIN tree.nodes :
           /\ tree.nodes[n].entries \in Seq(Entry)
           /\ tree.nodes[n].overflow \in link \cup {FreeMark}
           /\ tree.nodes[n].left \in link
           /\ tree.nodes[n].right \in link
      /\ ~ Idle => op.key \in Key /\ op.stack # <<>>
      /\ iter.key \in Int
      /\ iter.must \cup iter.seen \subseteq Key

\* No node is filled beyond its end: not by a key that fits, and not by a
\* split, whose halves are unequal when keys differ in length.
NodesFit == \A n \in DOMAIN tree.nodes : Used(tree.nodes[n].entries) <= NodeSize

\* "But it's still sane at leaf level" (Insert, when a new root cannot be
\* had): between any two turns, half way through a split or a removal, the
\* leaves are one chain in both directions, with the keys in order.  Only a
\* removal of the last key has no leaf left, before it comes to the root.  So it
\* is as long as every neighbour could be told.
LeafLevelSane ==
  LET leaves == {n \in DOMAIN tree.nodes : Loads(tree, n) /\ IsLeaf(tree.nodes[n])}
      ends == IF leaves = {} /\ Removing THEN 0 ELSE 1
  IN  /\ Cardinality({n \in leaves : tree.nodes[n].left = Null}) = ends
      /\ Cardinality({n \in leaves : tree.nodes[n].right = Null}) = ends
      /\ \A n \in leaves :
           LET node == tree.nodes[n]
           IN  /\ \A i \in 1 .. NumKeys(node) - 1 : node.entries[i].key < node.entries[i + 1].key
               /\ node.right # Null =>
                    /\ node.right \in leaves
                    /\ tree.nodes[node.right].left = n
                    /\ node.entries # <<>>
                    /\ tree.nodes[node.right].entries # <<>>
                    /\ Last(node.entries).key < Head(tree.nodes[node.right].entries).key

\* The nodes of the tree.
Reachable ==
  LET below[n \in Int, d \in Nat] ==
        {n} \cup IF IsLeaf(Node(tree, n)) \/ d = MaxNodes THEN {}
                 ELSE UNION {below[Child(Node(tree, n), i), d + 1] : i \in 0 .. NumKeys(Node(tree, n))}
  IN  below[tree.root, 1]

\* The nodes in the list of free nodes.
FreeList ==
  LET behind[n \in Int, d \in Nat] ==
        IF n = Null \/ d > MaxNodes THEN {} ELSE {n} \cup behind[tree.nodes[n].left, d + 1]
  IN  behind[tree.free, 1]

\* When no call is running, every node of the stream is part of the tree or
\* waits in the list of free nodes, and never both: none is lost when a split
\* or a removal goes through several levels, or fails in one of them.  Every way
\* down takes as many nodes as the header says ("levels don't match", Find).
NodesAccounted ==
  Idle => /\ Reachable \cup FreeList = DOMAIN tree.nodes
          /\ Reachable \cap FreeList = {}
          /\ \A k \in Key : Len(Descent(tree, k)) = tree.levels

\* The nodes of the tree, between any two turns of a call that goes through
\* several levels, and after failures that abort it; but not when a neighbour
\* could not be told or a node not be freed, which is what damaged means.
TreeSound == TypeOK /\ (~ damaged => LeafLevelSane /\ NodesAccounted)

\* "When we are here, we can just free the node, but we have to update the
\* right/left link of the siblings first" (Remove): when a call has ended, the
\* nodes of a level are linked to each other.
SiblingsUpdated ==
  Idle => \A n \in Reachable :
            LET right == tree.nodes[n].right
            IN  right # Null => right \in Reachable /\ tree.nodes[right].left = n

\* An iterator beside inserts and removes returns every key that was there
\* from its start to its end, and none twice, unless a split of its own node
\* or an abort took its position away.
IteratorSeesAll ==
  ~ iter.strayed => /\ ~ iter.twice
                    /\ iter.node = Null => iter.must = {}

\* The tree is a dictionary: when a call ends it has done its work on its own
\* key, when it fails nothing has changed, and until then Find would return
\* what it returned before.
Promise == INSTANCE Dictionary WITH
  Value <- UNION {Values[k] : k \in Key},
  pairs <- [k \in Key |-> LookUp(IF Idle THEN tree ELSE op.saved, k)],
  call <- op.call

IsDictionary == Promise!Spec
=============================================================================
