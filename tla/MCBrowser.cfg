SPECIFICATION Spec
CONSTANTS
  MaxTables = 3
  Systems <- OneSystem
  Number = {0, 1, 2}
  BlockSize = {1024}
  Garbage = {20000000}
  MaxHandles = 4
  MaxVolumes = 4
  Root = "root"
  Directory <- Directories
  Size <- Sizes
  Block = 2
CHECK_DEADLOCK FALSE
INVARIANTS
  EveryItemTried
  ItemsAreEntries
  CopyWhole
PROPERTY
  HandlersReturn
