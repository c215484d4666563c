---------------------------- MODULE MCBPlusTree ----------------------------
EXTENDS BPlusTree

\* The keys are short enough to split any node into two with keys.
ASSUME KeysAreShort
ASSUME HalvesHaveRoom

\* Keys of a quarter of a node: two or three of them fill it.
Lengths == [k \in Key |-> IF k = 6 THEN 1 ELSE 2]

\* Every key has its own inode, and one of them is replaced.
Inodes == [k \in Key |-> IF k = 2 THEN {2, 9} ELSE {k}]
=============================================================================
