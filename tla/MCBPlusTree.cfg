\* Three levels; keys of a quarter of a node at most, as in the code.  Trees of the
\* first four keys have an iterator.
SPECIFICATION Spec
CONSTANTS
  Key = {1, 2, 3, 4, 5, 6}
  KeyLength <- Lengths
  Values <- Inodes
  NodeSize = 8
  HeaderSize = 1
  SlotSize = 1
  Alignment = 1
  Removed = {1, 2, 3}
  MaxNodes = 7
  MayFail = TRUE
  MayPass = FALSE
  Iterated = {1, 2, 3, 4}
  NoValue = 0
CONSTRAINT Followed
INVARIANTS
  NodesFit
  TreeSound
  IteratorSeesAll
PROPERTY IsDictionary
