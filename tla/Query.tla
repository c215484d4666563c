------------------------------- MODULE Query -------------------------------
(***************************************************************************)
(* Queries and indices: bfs/Query.cpp and bfs/Index.cpp.                   *)
(*                                                                         *)
(* A query walks through the indices of some of its equations, and asks    *)
(* each inode it meets for the rest of the expression.  While attributes   *)
(* change, Index::Update keeps the indices up to date and tells the        *)
(* listener of a live query what enters and leaves its result.             *)
(*                                                                         *)
(* Nothing in this build creates queries or writes attributes; the code is *)
(* modelled as it is written.  An index is its set of entries, in the      *)
(* order of the B+tree; attributes change while no walk is going on, since *)
(* what an iterator sees of changes beside it is the B+tree's business.    *)
(* Left out: failing reads and allocations, and empty values.              *)
(***************************************************************************)
EXTENDS Expression, FiniteSets

CONSTANTS
  Node,        \* inodes, 1 to their number
  Type,        \* the type of each attribute, "string" or "number"
  Indexed,     \* attributes with an index
  Weight,      \* (2048 * 1024) / the size of the index
  Values,      \* the values of each attribute
  Expressions, \* the expressions of the queries, as tokens
  FirstNodes,  \* what an inode looks like at the beginning
  MaxChanges   \* bound: changes of attributes

Attribute == DOMAIN Type
Missing == <<>>
NoNode == [a \in Attribute |-> Missing]

ASSUME QueryAssumption ==
  /\ Node = 1 .. Cardinality(Node)
  /\ {"name", "size", "last_modified"} \subseteq Indexed
  /\ Indexed \subseteq Attribute
  /\ \A a \in Attribute : Missing \notin Values[a]

VARIABLES
  value,     \* the attributes of each inode
  oldSize,   \* fOldSize: the size of the inode that is in the index
  index,     \* the entries of each index
  query,     \* the Query object with its equations
  listener,  \* what the one who asked has been told, and at which number of changes
  abandoned, \* for the properties: the numbers whose inode left entries in an index behind
  changes

vars == <<value, oldSize, index, query, listener, abandoned, changes>>

Exists(n) == value[n]["name"] # Missing
Ordinary == Attribute \ {"name", "size", "last_modified"}

\* The terms of its expression, the last one is the root.
terms == query.terms
Root == Len(terms)
IsOperator(t) == terms[t].op \in {"&&", "||"}
Parents(t) == {p \in 1 .. Root : IsOperator(p) /\ t \in {terms[p].left, terms[p].right}}
Other(p, t) == IF terms[p].right = t THEN terms[p].left ELSE terms[p].right

-----------------------------------------------------------------------------
(* Scores.                                                                 *)

\* Equation::CalculateScore
EquationScore(eq) ==
  IF eq.op = "!=" \/ eq.attr \notin Indexed THEN 0
  ELSE Weight[eq.attr] * (IF eq.pattern # <<>> THEN 8 * FirstSymbol(eq.pattern)
                          ELSE IF eq.op = "=" THEN 2048 ELSE 5)

\* Operator::Score, of all terms
Scores(ts) ==
  LET score[t \in 1 .. Len(ts)] ==
        LET term == ts[t]
        IN  CASE term.op = "&&" -> Max({score[term.left], score[term.right]})
              [] term.op = "||" -> Min({score[term.left], score[term.right]})
              [] OTHER -> EquationScore(term)
  IN  [t \in 1 .. Len(ts) |-> score[t]]

Better(p) == query.score[terms[p].right] > query.score[terms[p].left]

\* Rewind: of an AND the better side is walked, of an OR both.
Stack(ts, score) ==
  LET push[t \in 1 .. Len(ts)] ==
        LET term == ts[t]
        IN  CASE term.op = "||" -> push[term.right] \o push[term.left]
              [] term.op = "&&" -> push[IF score[term.right] > score[term.left] THEN term.right ELSE term.left]
              [] OTHER -> <<t>>
  IN  push[Len(ts)]

Walked == Stack(terms, query.score)

-----------------------------------------------------------------------------
(* Matching.  types is fType of the equations, given a key that is used    *)
(* instead of the inode's own value.                                       *)

NoKey == [attr |-> "", key |-> Missing]

\* MatchEmptyString: without an attribute, strings are compared with "".
MatchEmptyString(t, types) ==
  IF types[t] = "number" THEN [ok |-> FALSE, types |-> types]
  ELSE [ok |-> CompareTo(terms[t], <<>>), types |-> [types EXCEPT ![t] = "string"]]

\* Equation::Match
MatchEquation(t, attributes, given, types) ==
  LET attr == terms[t].attr
      live == given.attr = attr
      key == IF live THEN given.key ELSE attributes[attr]
  IN  IF key # Missing
        THEN [ok |-> CompareTo(terms[t], key), types |-> [types EXCEPT ![t] = Type[attr]]]
      ELSE IF live /\ Type[attr] # "string" THEN [ok |-> FALSE, types |-> types]
      ELSE MatchEmptyString(t, types)

\* Operator::Match.  Of an OR the right side is asked only if it has the
\* better score.
RECURSIVE Match(_, _, _, _)
Match(t, attributes, given, types) ==
  IF ~ IsOperator(t) THEN MatchEquation(t, attributes, given, types)
  ELSE LET second == terms[t].op = "||" /\ ~ Better(t)
           ask == IF terms[t].op = "&&" THEN <<terms[t].left, terms[t].right>>
                  ELSE <<terms[t].right, terms[t].left>>
           first == IF second THEN [ok |-> FALSE, types |-> types] ELSE Match(ask[1], attributes, given, types)
       IN  IF first.ok # (terms[t].op = "&&") THEN first
           ELSE Match(ask[2], attributes, given, first.types)

\* Mutant: the way up ends at an OR.
AscendToOr(t, n, types) ==
  LET up[s \in 1 .. Root, ty \in [1 .. Root -> {"none", "string", "number"}]] ==
        IF Parents(s) = {} THEN [ok |-> TRUE, types |-> ty]
        ELSE LET p == CHOOSE p \in Parents(s) : TRUE
                 m == Match(Other(p, s), value[n], NoKey, ty)
             IN  IF terms[p].op = "||" THEN [ok |-> TRUE, types |-> ty]
                 ELSE IF m.ok THEN up[p, m.types] ELSE m
  IN  up[t, types]

\* The end of GetNextMatching: the other sides of all AND operators above the
\* equation have to match.
Ascend(t, n, types) ==
  LET up[s \in 1 .. Root, ty \in [1 .. Root -> {"none", "string", "number"}]] ==
        IF Parents(s) = {} THEN [ok |-> TRUE, types |-> ty]
        ELSE LET p == CHOOSE p \in Parents(s) : TRUE
                 m == Match(Other(p, s), value[n], NoKey, ty)
             IN  IF terms[p].op = "||" THEN up[p, ty]
                 ELSE IF m.ok THEN up[p, m.types] ELSE m
  IN  up[t, types]

-----------------------------------------------------------------------------
(* Walking.  An entry of an index is a key and an inode; at is the entry   *)
(* that the iterator returned last, or a place between two entries.        *)

Behind(x, y) == CompareKeys(x.key, y.key) > 0 \/ (x.key = y.key /\ x.node > y.node)
Place(key) == [key |-> key, node |-> 0]
First == Place(<<>>)
AfterKey(key) == [key |-> key, node |-> Cardinality(Node) + 1]

\* Mutant: the iterator is set behind the key.
SeekBehind(eq) ==
  IF ~ (eq.op \in {"=", ">", ">="} \/ eq.pattern # <<>>) THEN First
  ELSE IF eq.pattern # <<>>
    THEN Place([i \in 1 .. FirstSymbol(eq.pattern) |-> CHOOSE c \in eq.pattern[i].chars : TRUE])
  ELSE AfterKey(eq.value)

\* Where PrepareQuery sets the iterator.
Seek(eq) ==
  IF ~ (eq.op \in {"=", ">", ">="} \/ eq.pattern # <<>>) THEN First
  ELSE IF eq.pattern # <<>>
    THEN Place([i \in 1 .. FirstSymbol(eq.pattern) |-> CHOOSE c \in eq.pattern[i].chars : TRUE])
  ELSE Place(IF IsSpecialTime(eq.attr) THEN eq.value \o <<0>> ELSE eq.value)

\* PrepareQuery, for the equation from the top of the stack.
Prepared(q) ==
  LET t == Last(q.stack)
      eq == terms[t]
      known == eq.attr \in Indexed
      own == known /\ eq.op # "!="
      popped == [q EXCEPT !.stack = Front(@), !.current = t]
      found == \E x \in index[eq.attr] : x.key = eq.value
  IN  IF ~ known /\ ~ q.nonIndexed THEN [popped EXCEPT !.ended = TRUE]
      ELSE [popped EXCEPT !.walk = IF own THEN eq.attr ELSE "name",
                          !.own = own,
                          !.types[t] = IF known THEN Type[eq.attr] ELSE "string",
                          !.at = IF own THEN Seek(eq) ELSE First,
                          !.ended = /\ own /\ eq.op = "=" /\ eq.pattern = <<>>
                                    /\ ~ IsSpecialTime(eq.attr) /\ ~ found]

NotWalking(q) == [q EXCEPT !.current = 0, !.walk = "", !.own = FALSE, !.at = First]

\* GetNextMatching.  An entry whose inode is gone is passed.
RECURSIVE GetNextMatching(_)
GetNextMatching(q) ==
  LET eq == terms[q.current]
      later == {x \in index[q.walk] : Behind(x, q.at)}
      x == CHOOSE x \in later : \A y \in later : y = x \/ Behind(y, x)
      same == {y \in index[q.walk] : y.key = x.key}
      duplicate == IF x.key = q.at.key /\ q.at.node # 0 THEN 2 ELSE IF Cardinality(same) > 1 THEN 1 ELSE 0
      passed == [q EXCEPT !.at = x]
      own == IF q.own THEN [ok |-> TRUE, types |-> q.types]
             ELSE MatchEquation(q.current, value[x.node], NoKey, q.types)
      m == IF own.ok THEN Ascend(q.current, x.node, own.types) ELSE own
  IN  IF later = {} THEN NotWalking(q)
      ELSE IF q.own /\ duplicate < 2 /\ ~ CompareTo(eq, x.key)
        THEN IF eq.op \in {"<", "<="} \/ (eq.op = "=" /\ eq.pattern = <<>>)
               THEN NotWalking(passed)
               ELSE GetNextMatching(IF duplicate = 1 THEN [q EXCEPT !.at = AfterKey(x.key)] ELSE passed)
      ELSE IF ~ Exists(x.node) THEN GetNextMatching(passed)
      ELSE IF m.ok THEN [passed EXCEPT !.types = m.types, !.returned = Append(@, x.node)]
      ELSE GetNextMatching([passed EXCEPT !.types = m.types])

\* Query::GetNextEntry
RECURSIVE NextEntry(_)
NextEntry(q) ==
  IF q.current = 0 \/ q.walk = ""
    THEN IF q.stack = <<>> THEN [q EXCEPT !.ended = TRUE]
         ELSE LET p == Prepared(q) IN IF p.ended THEN p ELSE NextEntry(p)
    ELSE LET m == GetNextMatching(q)
         IN  IF m.current = 0 THEN NextEntry(m) ELSE m

\* The one who asks goes on until nothing is left on the stack.
GetNextEntry ==
  /\ ~ query.ended \/ query.stack # <<>>
  /\ query' = NextEntry([query EXCEPT !.ended = FALSE])
  /\ listener' = [listener EXCEPT !.known = @ \cup ToSet(query'.returned), !.asked = changes]
  /\ UNCHANGED <<value, oldSize, index, abandoned, changes>>

\* For the properties: the listener cannot be sure of an inode without a number
\* that is asked for, or changed while its size is not yet in the index; nor of a
\* new one that matches, like x != y, before it has attributes, since it only "stays".
Unsure(n, attributes) ==
  \/ value[n] = NoNode /\ \E t \in 1 .. Root : ~ IsOperator(t) /\ Satisfies(terms[t], Missing)
  \/ \E t \in 1 .. Root : /\ ~ IsOperator(t) /\ Type[terms[t].attr] = "number"
                            /\ attributes # NoNode /\ attributes[terms[t].attr] = Missing
  \/ /\ oldSize[n] # value[n]["size"]
     /\ \E a \in Attribute \ {"size"} : attributes[a] # value[n][a]
Certain == {n \in Node \ abandoned : ~ Unsure(n, value[n]) /\ oldSize[n] = value[n]["size"]}

Rewound(q) == [NotWalking(q) EXCEPT !.stack = Stack(q.terms, q.score), !.returned = <<>>, !.ended = FALSE]

Rewind ==
  /\ query.ended
  /\ query' = Rewound(query)
  /\ listener' = [listener EXCEPT !.known = {}, !.sure = Certain]
  /\ UNCHANGED <<value, oldSize, index, abandoned, changes>>

SetLiveMode ==
  /\ ~ listener.live
  /\ query.returned = <<>> /\ ~ query.ended
  /\ listener' = [listener EXCEPT !.live = TRUE]
  /\ UNCHANGED <<value, oldSize, index, query, abandoned, changes>>

-----------------------------------------------------------------------------
(* Changing attributes.  s holds the indices, what the listener knows, the *)
(* types of the equations, and the attributes that a removal has skipped.  *)

\* Mutant: an entry that stays is created, but none is removed.
LiveUpdateCreated(s, n, attributes, attr, old, new) ==
  LET now == Match(Root, attributes, [attr |-> attr, key |-> new], s.types)
  IN  IF listener.live /\ now.ok THEN [s EXCEPT !.known = @ \cup {n}] ELSE s

\* LiveUpdate: the entry is created, removed, or renamed.
LiveUpdate(s, n, attributes, attr, old, new) ==
  LET before == Match(Root, attributes, [attr |-> attr, key |-> old], s.types)
      now == Match(Root, attributes, [attr |-> attr, key |-> new], before.types)
      renamed == attr = "name" /\ old # Missing
      known == CASE before.ok /\ ~ now.ok -> s.known \ {n}
                 [] ~ before.ok /\ now.ok -> s.known \cup {n}
                 [] before.ok /\ now.ok /\ renamed -> s.known \cup {n}
                 [] OTHER -> s.known
  IN  IF listener.live THEN [s EXCEPT !.known = known, !.types = now.types] ELSE s

\* Mutant: the old key stays in the index when the attribute is removed.
UpdatedOnly(s, n, attributes, attr, old, new) ==
  LET told == LiveUpdate(s, n, attributes, attr, old, new)
  IN  IF old = new THEN s
      ELSE IF attr \notin Indexed \/ new = Missing THEN told
      ELSE [told EXCEPT !.index[attr] = (@ \ {[key |-> old, node |-> n]}) \cup {[key |-> new, node |-> n]}]

\* Index::Update: live queries first, then the index, if there is one.
Updated(s, n, attributes, attr, old, new) ==
  LET told == LiveUpdate(s, n, attributes, attr, old, new)
      added == IF new = Missing THEN {} ELSE {[key |-> new, node |-> n]}
  IN  IF old = new THEN s
      ELSE IF attr \notin Indexed THEN told
      ELSE [told EXCEPT !.index[attr] = (@ \ {[key |-> old, node |-> n]}) \cup added]

Now == [index |-> index, known |-> listener.known, types |-> query.types, kept |-> {}]

\* An attribute of a regular inode changes, between two walks.
Change(n, attributes, s) ==
  /\ changes < MaxChanges
  /\ query.ended /\ query.stack = <<>>
  /\ changes' = changes + 1
  /\ value' = [value EXCEPT ![n] = attributes]
  /\ index' = s.index
  /\ listener' = [listener EXCEPT !.known = s.known, !.sure = IF Unsure(n, attributes) \/ s.kept # {} THEN @ \ {n} ELSE @]
  /\ query' = [query EXCEPT !.types = s.types]
  /\ abandoned' = IF s.kept \cap Indexed # {} THEN abandoned \cup {n} ELSE abandoned

\* WriteAttribute and RemoveAttribute; a name is changed by UpdateName.
Write(n, attr, v) ==
  LET attributes == [value[n] EXCEPT ![attr] = v]
  IN  /\ Exists(n)
      /\ Change(n, attributes, Updated(Now, n, attributes, attr, value[n][attr], v))
      /\ UNCHANGED oldSize

\* SetFileSize: the index is not changed before UpdateSize.
SetFileSize(n, v) ==
  /\ Exists(n)
  /\ Change(n, [value[n] EXCEPT !["size"] = v], Now)
  /\ UNCHANGED oldSize

UpdateSize(n) ==
  /\ Exists(n)
  /\ oldSize[n] # value[n]["size"]
  /\ Change(n, value[n], Updated(Now, n, value[n], "size", oldSize[n], value[n]["size"]))
  /\ oldSize' = [oldSize EXCEPT ![n] = value[n]["size"]]

\* UpdateLastModified: the inode gets the time after the index.
UpdateLastModified(n, v) ==
  LET s == Updated(Now, n, value[n], "last_modified", value[n]["last_modified"], v)
  IN  /\ Exists(n)
      /\ Change(n, [value[n] EXCEPT !["last_modified"] = v], s)
      /\ UNCHANGED oldSize

\* The end of Inode::Create: InsertName, InsertSize and InsertLastModified.
CreateInode(n, attributes) ==
  LET new == [a \in Attribute |-> IF a \in Ordinary THEN Missing ELSE attributes[a]]
      insert(s, attr) == Updated(s, n, new, attr, Missing, new[attr])
  IN  /\ ~ Exists(n)
      /\ Change(n, new, insert(insert(insert(Now, "name"), "size"), "last_modified"))
      /\ oldSize' = [oldSize EXCEPT ![n] = new["size"]]

\* The end of Inode::Remove, and Inode::Free, whose iterator skips every second
\* attribute of the small_data section: neither the index nor the listener is told
\* of those in kept, which may be any, but no more than half of what there is.
RemoveInode(n) ==
  LET old(attr) == IF attr = "size" THEN oldSize[n] ELSE value[n][attr]
      left(gone) == [a \in Attribute |-> IF a \in gone THEN Missing ELSE value[n][a]]
      remove(s, attr) == Updated(s, n, left({}), attr, old(attr), Missing)
      s3 == remove(remove(remove(Now, "name"), "size"), "last_modified")
      present == {a \in Ordinary : value[n][a] # Missing}
      free[gone \in SUBSET present] ==
        IF gone = {} THEN s3
        ELSE LET a == CHOOSE a \in gone : TRUE
             IN  Updated(free[gone \ {a}], n, left(gone), a, value[n][a], Missing)
  IN  /\ Exists(n)
      /\ \E kept \in SUBSET present :
           /\ 2 * Cardinality(kept) <= Cardinality(present)
           /\ Change(n, NoNode, [free[present \ kept] EXCEPT !.kept = kept])
      /\ oldSize' = [oldSize EXCEPT ![n] = Missing]

Init ==
  /\ value \in [Node -> FirstNodes]
  /\ oldSize = [n \in Node |-> value[n]["size"]]
  /\ index = [a \in Indexed |-> {[key |-> value[n][a], node |-> n] : n \in {m \in Node : value[m][a] # Missing}}]
  /\ \E x \in 1 .. Len(Expressions), nonIndexed \in BOOLEAN :
       LET ts == Parsed(Expressions[x]).terms
       IN  query = [expr |-> x, terms |-> ts, score |-> Scores(ts), nonIndexed |-> nonIndexed,
                    stack |-> Stack(ts, Scores(ts)), current |-> 0, walk |-> "", own |-> FALSE, at |-> First,
                    types |-> [t \in 1 .. Len(ts) |-> "none"], returned |-> <<>>, ended |-> FALSE]
  /\ abandoned = {}
  /\ listener = [live |-> FALSE, known |-> {}, asked |-> 0, sure |-> Certain]
  /\ changes = 0

Next ==
  \/ GetNextEntry \/ Rewind \/ SetLiveMode
  \/ \E n \in Node :
       \/ \E attr \in Ordinary : \E v \in Values[attr] \cup {Missing} : Write(n, attr, v)
       \/ \E v \in Values["name"] : Write(n, "name", v)
       \/ \E v \in Values["size"] : SetFileSize(n, v)
       \/ \E v \in Values["last_modified"] : UpdateLastModified(n, v)
       \/ UpdateSize(n)
       \/ \E attributes \in FirstNodes : CreateInode(n, attributes)
       \/ RemoveInode(n)

Spec == Init /\ [][Next]_vars

-----------------------------------------------------------------------------
(* Properties.                                                             *)

TypeOK ==
  /\ \A n \in Node, a \in Attribute : value[n][a] \in Values[a] \cup {Missing}
  /\ \A a \in Indexed : \A x \in index[a] : x.node \in Node /\ x.key \in Values[a]
  /\ query.current \in 0 .. Root
  /\ ToSet(query.stack) \subseteq 1 .. Root
  /\ ToSet(query.returned) \cup listener.known \subseteq Node
  /\ \A t \in 1 .. Root : query.types[t] \in {"none", "string", "number"}

Equations == {t \in 1 .. Root : ~ IsOperator(t)}
Above[t \in 1 .. 20] == LET p == Parents(t) IN p \cup UNION {Above[s] : s \in p}

\* The walk can go through all equations it begins with, and is over.
Walkable == query.nonIndexed \/ \A t \in ToSet(Walked) : terms[t].attr \in Indexed
Finished == query.ended /\ query.stack = <<>>

\* What the code can decide: no question mark stands behind a star, and the
\* numbers that are asked for are there.
Decidable ==
  \A t \in Equations : \A i \in 1 .. Len(terms[t].pattern) - 1 :
    ~ (terms[t].pattern[i].sym = "star" /\ terms[t].pattern[i + 1].sym = "any")
HasNumbers(attributes) ==
  \A t \in Equations : Type[terms[t].attr] = "string" \/ attributes[terms[t].attr] # Missing
Settled(n) == Exists(n) /\ HasNumbers(value[n]) /\ oldSize[n] = value[n]["size"]

Meant(n) == Means(Expressions[query.expr], value[n])

\* A walk that has come to its end has found every inode that the expression
\* means, whatever side of an AND was walked, and whatever stands in brackets.
\* ("For OP_AND, we can use the scoring system to decide which path to add")
\* An OR below an AND is left out unless its right side has the better score:
\* otherwise Operator::Match never asks the right side.
FindsAll ==
  /\ Finished /\ Walkable /\ Decidable /\ listener.asked = changes
  /\ \A p \in 1 .. Root : terms[p].op = "||" /\ (\E s \in Above[p] : terms[s].op = "&&") => Better(p)
  => \A n \in Node : Settled(n) /\ Meant(n) => n \in ToSet(query.returned)

\* It finds nothing else, and an inode no more often than there are equations
\* walked that it satisfies: an AND never returns an inode twice.  Inodes are left
\* out whose number was that of another that left entries in an index behind: the
\* query takes such an entry for theirs.
FindsOnly ==
  Decidable /\ listener.asked = changes =>
    \A n \in ToSet(query.returned) \ abandoned : Settled(n) =>
      /\ Meant(n)
      /\ Cardinality({i \in 1 .. Len(query.returned) : query.returned[i] = n})
           <= Cardinality({t \in ToSet(Walked) : Satisfies(terms[t], value[n][terms[t].attr])})

\* The listener of a live query knows what a new walk would find, after any
\* changes of attributes, names and sizes.  It is not sure of an inode that was
\* removed with several attributes: Inode::Free skips every second small one.
ListenerKnows ==
  /\ listener.live /\ Finished /\ Walkable /\ Decidable
  /\ \A p \in 1 .. Root : terms[p].op = "||" => Better(p)
  => \A n \in listener.sure :
       /\ Settled(n) => (n \in listener.known) = Meant(n)
       /\ ~ Exists(n) /\ (\A t \in Equations : ~ Satisfies(terms[t], Missing)) => n \notin listener.known

\* Each index has an entry for each inode with the attribute, under its value,
\* and no other entries; that of the size follows with UpdateSize.  Left out are
\* the numbers of inodes whose removal skipped an attribute with an index.
IndicesFollow ==
  /\ TypeOK
  /\ \A a \in Indexed :
       LET key(n) == IF a = "size" THEN oldSize[n] ELSE value[n][a]
       IN  {x \in index[a] : x.node \notin abandoned}
             = {[key |-> key(n), node |-> n] : n \in {m \in Node \ abandoned : key(m) # Missing}}
=============================================================================
