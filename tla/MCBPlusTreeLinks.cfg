\* Leaves of two or three keys, and no iterator.
SPECIFICATION Spec
CONSTANTS
  Key = {1, 2, 3, 4, 5}
  KeyLength <- Lengths
  Values <- Inodes
  NodeSize = 8
  HeaderSize = 1
  SlotSize = 1
  Alignment = 1
  Removed = {1, 2, 3}
  MaxNodes = 7
  MayFail = TRUE
  MayPass = TRUE
  Iterated = {}
  NoValue = 0
CONSTRAINT Followed
INVARIANT SiblingsUpdated
