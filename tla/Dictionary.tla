----------------------------- MODULE Dictionary -----------------------------
(***************************************************************************)
(* What a B+tree without duplicates promises to directories and to the     *)
(* attribute directory of an inode (bfs/BPlusTree.h): it keeps one value   *)
(* per key.  A call does to its own key what it is asked to, once and when *)
(* it ends, or it fails and nothing has changed.                           *)
(***************************************************************************)
CONSTANTS
  Key,
  Value,
  NoValue   \* the value of a key that is not in the tree

VARIABLES
  pairs,  \* pairs[k]: what Find returns for k
  call    \* the running call, or how the last one ended

vars == <<pairs, call>>

Ended == [kind |-> "none"]
Failed == [kind |-> "failed"]
Idle == call \in {Ended, Failed}

Calls == [kind : {"insert"}, key : Key, value : Value]
           \cup [kind : {"remove"}, key : Key, value : {NoValue}]

Begin ==
  /\ Idle
  /\ call' \in Calls
  /\ UNCHANGED pairs

\* Inserting a key that is there, or removing one that is not, changes nothing.
End ==
  /\ ~ Idle
  /\ call' = Ended
  /\ pairs' = IF (call.kind = "insert") = (pairs[call.key] = NoValue)
                THEN [pairs EXCEPT ![call.key] = call.value]
                ELSE pairs

Fail ==
  /\ ~ Idle
  /\ call' = Failed
  /\ UNCHANGED pairs

Replace(k, v) ==
  /\ Idle
  /\ pairs[k] # NoValue
  /\ pairs' = [pairs EXCEPT ![k] = v]
  /\ UNCHANGED call

Init == pairs = [k \in Key |-> NoValue] /\ call = Ended

Next == Begin \/ End \/ Fail \/ \E k \in Key, v \in Value : Replace(k, v)

Spec == Init /\ [][Next]_vars
=============================================================================
