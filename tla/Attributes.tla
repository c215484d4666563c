----------------------------- MODULE Attributes -----------------------------
(***************************************************************************)
(* The attributes of one inode: the second half of bfs/Inode.cpp.          *)
(*                                                                         *)
(* An attribute is kept in the small_data section of the inode's block as  *)
(* long as it fits there, and in a file of the attribute directory         *)
(* otherwise.  A write may move it either way, and a longer file name      *)
(* pushes other attributes out.  AttributeIterator walks through both      *)
(* places; Index::Update is told each change of an indexed attribute.      *)
(*                                                                         *)
(* Nothing in this build writes attributes, and its vnode functions are    *)
(* stubs: the code is modelled as it is written, with vnodes that work.    *)
(* Left out: types, and failures of allocations, after which the           *)
(* transaction is undone.                                                  *)
(***************************************************************************)
EXTENDS Integers, SequencesExt, FiniteSetsExt

CONSTANTS
  Name,        \* names of attributes, numbers in the order of the directory
  Indexed,     \* names with an index
  Data,        \* what is written, sequences of bytes
  Position,    \* where it is written
  Short, Long, \* the data of the first small attributes and files
  Overhead,    \* the bytes of an item without its data
  Capacity,    \* the bytes of the small_data section
  MaxKey,      \* BPLUSTREE_MAX_KEY_LENGTH
  MaxChanges   \* bound: changes of attributes

NameTag == 0   \* FILE_NAME_NAME: the item that holds the name of the file
None == <<-1>> \* no such attribute

ASSUME AttributesAssumption ==
  /\ Indexed \subseteq Name /\ Name \subseteq Nat \ {NameTag} /\ IsFiniteSet(Name)
  /\ <<>> \in Data /\ Data \subseteq Seq(0 .. 255) /\ {Short, Long} \subseteq Data \ {<<>>}
  /\ 0 \in Position /\ Position \subseteq Nat
  /\ Overhead \in Nat \ {0} /\ Capacity \in Nat /\ MaxKey \in Nat \ {0}

VARIABLES
  inode,   \* the items of its small_data section, its attribute directory and the files in it
  iter,    \* an AttributeIterator
  index,   \* the keys that each index has of this inode
  op,      \* what was done last
  loose,   \* for the properties: names whose value was written in a way the index is not told of
  changes

vars == <<inode, iter, index, op, loose, changes>>

-----------------------------------------------------------------------------
(* The small_data section.  s is the inode together with the iterator that *)
(* is corrected when items move.                                           *)

Size(item) == Overhead + Len(item.data)
Used(small) ==
  LET sum[i \in 0 .. Len(small)] == IF i = 0 THEN 0 ELSE sum[i - 1] + Size(small[i])
  IN  sum[Len(small)]

\* FindSmallData: its place, 0 if it is not there.
FindSmallData(small, n) == SelectInSeq(small, LAMBDA item : item.name = n)

\* AttributeIterator::Update.  The place of an item counts the name, current
\* does not: the item that follows the one returned last is skipped.
Update(it, place, change) ==
  [it EXCEPT !.current = IF place - 1 < @ THEN @ + change ELSE @]

\* _RemoveSmallData
RemovedSmallData(s, place) ==
  [s EXCEPT !.inode.small = RemoveAt(@, place),
            !.iter = [Update(s.iter, place, -1) EXCEPT
                        !.skips = @ \/ (s.inode.small[1].name = NameTag /\ place - 1 = s.iter.current)]]

\* _AddSmallData, when it is not forced to make room.
AddedSmallData(s, n, data) ==
  LET small == s.inode.small
      at == FindSmallData(small, n)
      item == [name |-> n, data |-> data]
      replaced == [small EXCEPT ![at] = item]
  IN  IF Size(item) > Capacity THEN [s EXCEPT !.ok = FALSE]
      ELSE IF at # 0
        THEN IF Len(small[at].data) > Len(data) \/ Used(replaced) <= Capacity
               THEN [s EXCEPT !.ok = TRUE, !.inode.small = replaced]
               ELSE [s EXCEPT !.ok = FALSE]
      ELSE IF Used(small) + Size(item) > Capacity THEN [s EXCEPT !.ok = FALSE]
      ELSE [s EXCEPT !.ok = TRUE, !.inode.small = Append(@, item), !.iter = Update(@, Len(small) + 1, 1)]

-----------------------------------------------------------------------------
(* Attribute files.                                                        *)

\* CreateAttribute, and the directory with the first one.
CreatedAttribute(s, n) == [s EXCEPT !.inode.dir = TRUE, !.inode.file[n] = <<>>]

\* WriteAt: a file never gets shorter.  0 is whatever the disk had in a gap.
WriteAt(data, pos, buffer) ==
  [i \in 1 .. Max({Len(data), pos + Len(buffer)}) |->
     IF i \in pos + 1 .. pos + Len(buffer) THEN buffer[i - pos] ELSE IF i <= Len(data) THEN data[i] ELSE 0]

\* The end of _RemoveAttribute: the directory goes with its last file.
RemovedAttribute(s, n) ==
  LET file == [s.inode.file EXCEPT ![n] = None]
      empty == \A m \in Name : file[m] = None
  IN  [s EXCEPT !.inode.file = file,
                !.inode.dir = ~ empty,
                !.iter.dir = IF empty /\ @ = "current" THEN "removed" ELSE @]

\* Mutant: the item that is moved is not the one that is removed.
MakeSpaceAtEnd(s, bytes) ==
  LET large == {i \in 1 .. Len(s.inode.small) :
                  s.inode.small[i].name # NameTag /\ Size(s.inode.small[i]) > bytes}
      item == s.inode.small[Min(large)]
  IN  IF large = {} THEN [s EXCEPT !.ok = FALSE]
      ELSE RemovedSmallData([CreatedAttribute(s, item.name) EXCEPT !.inode.file[item.name] = item.data, !.ok = TRUE],
                            Len(s.inode.small))

\* _MakeSpaceForSmallData: the first item that is larger than what is needed
\* is moved to a file; several smaller ones never are.
MakeSpace(s, bytes) ==
  LET large == {i \in 1 .. Len(s.inode.small) :
                  s.inode.small[i].name # NameTag /\ Size(s.inode.small[i]) > bytes}
      item == s.inode.small[Min(large)]
  IN  IF large = {} THEN [s EXCEPT !.ok = FALSE]
      ELSE RemovedSmallData([CreatedAttribute(s, item.name) EXCEPT !.inode.file[item.name] = item.data, !.ok = TRUE],
                            Min(large))

\* _AddSmallData of the name, which is always there, with force.
NameSet(s, data) ==
  LET at == FindSmallData(s.inode.small, NameTag)
      free == Capacity - Used(s.inode.small)
      more == Len(data) - Len(s.inode.small[at].data)
      made == IF more > free THEN MakeSpace(s, more - free) ELSE [s EXCEPT !.ok = TRUE]
  IN  IF Overhead + Len(data) > Capacity \/ ~ made.ok THEN [s EXCEPT !.ok = FALSE]
      ELSE [made EXCEPT !.inode.small[FindSmallData(made.inode.small, NameTag)].data = data]

-----------------------------------------------------------------------------
(* Attributes.                                                             *)

Key(data) == SubSeq(data, 1, Min({Len(data), MaxKey}))

\* Index::Update; it refuses an empty key, and so does a removal of one.
Updated(s, n, old, new) ==
  IF n \notin Indexed \/ (old = <<>> /\ new = None) \/ new = <<>> \/ old = new THEN s
  ELSE [s EXCEPT !.index[n] = (@ \ {old}) \cup ({new} \ {None})]

\* Mutant: an attribute that got too large stays in the small_data section.
WrittenTwice(s, n, pos, buffer) ==
  LET hasFile == s.inode.file[n] # None
      at == FindSmallData(s.inode.small, n)
      added == AddedSmallData(s, n, buffer)
      opened == IF hasFile THEN s ELSE CreatedAttribute(s, n)
      again == AddedSmallData(opened, n, buffer)
      oldFile == opened.inode.file[n]
      old == IF oldFile # <<>> THEN Key(oldFile) ELSE IF at # 0 THEN Key(s.inode.small[at].data) ELSE <<>>
      done == IF ~ hasFile /\ added.ok THEN added
              ELSE IF again.ok THEN RemovedAttribute(again, n)
              ELSE [opened EXCEPT !.inode.file[n] = WriteAt(@, pos, buffer)]
  IN  IF pos = 0 THEN Updated(done, n, old, Key(buffer)) ELSE done

\* WriteAttribute.  A small attribute is replaced as a whole, wherever it is
\* written, and a file that is written at any place with what would fit into
\* the section is moved there.
Written(s, n, pos, buffer) ==
  LET hasFile == s.inode.file[n] # None
      at == FindSmallData(s.inode.small, n)
      added == AddedSmallData(s, n, buffer)
      removed == IF at = 0 THEN s ELSE RemovedSmallData(s, at)
      opened == IF hasFile THEN s ELSE CreatedAttribute(removed, n)
      again == AddedSmallData(opened, n, buffer)
      oldFile == opened.inode.file[n]
      old == IF oldFile # <<>> THEN Key(oldFile) ELSE IF at # 0 THEN Key(s.inode.small[at].data) ELSE <<>>
      done == IF ~ hasFile /\ added.ok THEN added
              ELSE IF again.ok THEN RemovedAttribute(again, n)
              ELSE [opened EXCEPT !.inode.file[n] = WriteAt(@, pos, buffer)]
  IN  IF pos = 0 THEN Updated(done, n, old, Key(buffer)) ELSE done

\* Mutant: the index is told of a removal from the small_data section only.
RemovedUntold(s, n) ==
  LET at == FindSmallData(s.inode.small, n)
  IN  IF at # 0 THEN RemovedSmallData(Updated(s, n, Key(s.inode.small[at].data), None), at)
      ELSE IF s.inode.file[n] # None THEN RemovedAttribute(s, n)
      ELSE s

\* RemoveAttribute and _RemoveAttribute
Removed(s, n) ==
  LET at == FindSmallData(s.inode.small, n)
  IN  IF at # 0 THEN RemovedSmallData(Updated(s, n, Key(s.inode.small[at].data), None), at)
      ELSE IF s.inode.file[n] # None THEN RemovedAttribute(Updated(s, n, Key(s.inode.file[n]), None), n)
      ELSE s

-----------------------------------------------------------------------------
(* The iterator.                                                           *)

NewIterator == [current |-> 0, dir |-> "closed", last |-> 0, skips |-> FALSE]

\* The items that have so many others in front of them; the name does not count.
Behind(small, count) ==
  {i \in 1 .. Len(small) : /\ small[i].name # NameTag
                          /\ Cardinality({j \in 1 .. i - 1 : small[j].name # NameTag}) = count}

\* AttributeIterator::GetNext; name is NameTag when it has come to the end.
NextAttribute(s) ==
  LET it == s.iter
      items == Behind(s.inode.small, it.current)
      dir == IF it.dir = "closed" THEN "current" ELSE it.dir
      later == {n \in Name : dir = "current" /\ s.inode.file[n] # None /\ n > it.last}
  IN  IF items # {}
        THEN [name |-> s.inode.small[Min(items)].name, iter |-> [it EXCEPT !.current = @ + 1]]
      ELSE IF ~ s.inode.dir THEN [name |-> NameTag, iter |-> [it EXCEPT !.current = -1]]
      ELSE IF later = {} THEN [name |-> NameTag, iter |-> [it EXCEPT !.current = -1, !.dir = dir]]
      ELSE [name |-> Min(later), iter |-> [it EXCEPT !.current = -1, !.dir = dir, !.last = Min(later)]]

\* Mutant: the iterator goes on in the directory where it was.
RewoundSmall(it) == [it EXCEPT !.current = 0, !.skips = FALSE]

Rewound(it) == [it EXCEPT !.current = 0, !.last = 0, !.skips = FALSE]

\* The loop of Free, with an iterator of its own; each round removes an attribute.
Freed(s) ==
  LET freed[k \in 0 .. Cardinality(Name)] ==
        IF k = 0 THEN s
        ELSE LET t == freed[k - 1]
                 next == NextAttribute(t)
             IN  IF next.name = NameTag THEN t ELSE Removed([t EXCEPT !.iter = next.iter], next.name)
  IN  freed[Cardinality(Name)]

-----------------------------------------------------------------------------
(* Actions.                                                                *)

Now == [inode |-> inode, iter |-> iter.it, index |-> index, ok |-> TRUE]
Present(i) == {n \in Name : i.file[n] # None \/ FindSmallData(i.small, n) # 0}
Value(i, n) ==
  LET at == FindSmallData(i.small, n)
  IN  IF at # 0 THEN i.small[at].data ELSE i.file[n]

\* For the properties: the names that are, and stay, where they are.
InPlace(i, j) ==
  {n \in Present(i) : \/ i.file[n] # None /\ j.file[n] # None
                      \/ FindSmallData(i.small, n) # 0 /\ FindSmallData(j.small, n) # 0}

\* The index is told the bytes that are written at the beginning: it is not
\* told of others, of what is left of a longer file, nor that nothing is left.
Loosens(n, pos, buffer, i) ==
  \/ pos > 0
  \/ buffer = <<>>
  \/ Len(buffer) < MaxKey /\ i.file[n] # None /\ Len(buffer) < Len(i.file[n])

Change(s, what) ==
  /\ ~ inode.freed
  /\ changes < MaxChanges
  /\ changes' = changes + 1
  /\ inode' = s.inode
  /\ index' = s.index
  /\ iter' = [iter EXCEPT !.it = s.iter, !.stay = @ \cap InPlace(inode, s.inode)]
  /\ op' = what
  /\ loose' = IF what.kind = "write" /\ Loosens(what.name, what.pos, what.data, s.inode) THEN loose \cup {what.name} ELSE loose

WriteAttribute(n, pos, buffer) ==
  /\ pos = 0 \/ (n \in Present(inode) /\ pos <= Len(Value(inode, n)))
  /\ Change(Written(Now, n, pos, buffer), [kind |-> "write", name |-> n, pos |-> pos, data |-> buffer])

RemoveAttribute(n) ==
  /\ n \in Present(inode)
  /\ Change(Removed(Now, n), [kind |-> "remove", name |-> n])

\* SetName; an inode without a name never gets one.
SetName(data) ==
  /\ FindSmallData(inode.small, NameTag) # 0
  /\ data # <<>>
  /\ LET s == NameSet(Now, data)
     IN  s.ok /\ Change(s, [kind |-> "name", name |-> NameTag])

\* Free, when the last one who used the inode is gone.
Free ==
  LET s == Freed([Now EXCEPT !.iter = NewIterator])
  IN  Change([s EXCEPT !.inode.freed = TRUE], [kind |-> "free", name |-> NameTag, small |-> Len(inode.small)])

GetNext ==
  /\ ~ inode.freed /\ ~ iter.ended
  /\ LET next == NextAttribute(Now)
     IN  iter' = [iter EXCEPT !.it = next.iter,
                              !.ended = next.name = NameTag,
                              !.seen = IF next.name = NameTag THEN @ ELSE Append(@, next.name)]
  /\ UNCHANGED <<inode, index, op, loose, changes>>

Rewind ==
  /\ ~ inode.freed /\ iter.ended
  /\ iter' = [it |-> Rewound(iter.it), ended |-> FALSE, seen |-> <<>>,
              stay |-> {n \in Present(inode) : iter.it.dir # "removed" \/ inode.file[n] = None}]
  /\ UNCHANGED <<inode, index, op, loose, changes>>

\* An inode with a name or, like an index, without, and with any attributes.
Init ==
  /\ \E name \in {<<>>} \cup {<<[name |-> NameTag, data |-> Short]>>}, small, files \in SUBSET Name :
       LET items == SetToSeq({[name |-> n, data |-> Short] : n \in small})
       IN  /\ small \cap files = {}
           /\ Used(name \o items) <= Capacity
           /\ inode = [small |-> name \o items, dir |-> files # {},
                       file |-> [n \in Name |-> IF n \in files THEN Long ELSE None], freed |-> FALSE]
           /\ index = [n \in Indexed |-> IF n \in small THEN {Key(Short)} ELSE IF n \in files THEN {Key(Long)} ELSE {}]
           /\ iter = [it |-> NewIterator, ended |-> FALSE, seen |-> <<>>, stay |-> small \cup files]
  /\ op = [kind |-> "none", name |-> NameTag]
  /\ loose = {}
  /\ changes = 0

Next ==
  \/ \E n \in Name : RemoveAttribute(n) \/ \E pos \in Position, buffer \in Data : WriteAttribute(n, pos, buffer)
  \/ \E data \in Data : SetName(data)
  \/ Free
  \/ GetNext \/ Rewind

Spec == Init /\ [][Next]_vars

-----------------------------------------------------------------------------
(* Properties.                                                             *)

\* The section never grows over the end of the block, the name stays in front,
\* each attribute is either in the section or in a file and once only, and the
\* attribute directory is there as long as it has files.
OnePlace ==
  LET small == inode.small
  IN  /\ Used(small) <= Capacity
      /\ \A i, j \in 1 .. Len(small) : small[i].name = small[j].name => i = j
      /\ \A i \in 1 .. Len(small) :
           /\ small[i].name = NameTag => i = 1
           /\ small[i].name # NameTag => inode.file[small[i].name] = None
      /\ inode.dir = (\E n \in Name : inode.file[n] # None)

\* What is written at the beginning of an attribute, or anywhere in a file, can
\* be read where it was written; a file that stays one keeps its other bytes, and
\* anything else is then just what was written.  Nothing else changes: whatever
\* is moved to make room for an attribute or a name keeps its value.  Nothing is
\* asked of a write behind the beginning of an attribute that is in the section
\* afterwards: its data is then put at the beginning.
WritesRead ==
  [][LET n == op'.name
         stayed == IF inode.file[n] # None /\ inode'.file[n] # None THEN Len(inode.file[n]) ELSE 0
     IN  op' # op =>
         /\ \A m \in Name \ {n} : op'.kind # "free" => Value(inode', m) = Value(inode, m)
         /\ op'.kind = "remove" => n \notin Present(inode')
         /\ op'.kind = "write" /\ (op'.pos = 0 \/ inode'.file[n] # None) =>
              /\ SubSeq(Value(inode', n), op'.pos + 1, op'.pos + Len(op'.data)) = op'.data
              /\ Len(Value(inode', n)) = Max({stayed, op'.pos + Len(op'.data)})
              /\ \A i \in 1 .. stayed :
                   i \in op'.pos + 1 .. op'.pos + Len(op'.data) \/ Value(inode', n)[i] = Value(inode, n)[i]]_<<inode, op>>

\* An index has the beginning of each attribute, and nothing when the
\* attribute is gone, even after Free if there was one small attribute at most.
\* ("Free all attributes, and remove their indices", Inode.cpp; of several, Free
\* skips every second.)
IndexFollows ==
  \A n \in Indexed \ loose :
    IF inode.freed
      THEN op.small <= 2 \/ FindSmallData(inode.small, NameTag) = 0 => index[n] = {}
      ELSE index[n] = IF n \in Present(inode) THEN {Key(Value(inode, n))} ELSE {}

\* An iterator that came to its end has returned each attribute that stayed in
\* its place all the time, and once only, whatever else was written or removed
\* meanwhile, except when the attribute it returned last was removed.
IteratorSeesAll ==
  iter.ended /\ ~ iter.it.skips =>
    \A n \in iter.stay : Cardinality({i \in 1 .. Len(iter.seen) : iter.seen[i] = n}) = 1

=============================================================================
