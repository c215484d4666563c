\* The section has room for three short items, or two long ones.  A freed inode does
\* nothing more.
SPECIFICATION Spec
CONSTANTS
  Name = {1, 2, 3}
  Indexed = {1, 2}
  Data <- SomeData
  Short <- SomeShort
  Long <- SomeLong
  Position = {0, 2}
  Overhead = 1
  Capacity = 7
  MaxKey = 2
  MaxChanges = 2
CHECK_DEADLOCK FALSE
INVARIANTS
  OnePlace
  IndexFollows
  IteratorSeesAll
PROPERTY
  WritesRead
