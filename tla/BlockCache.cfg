\* Three holders can keep three blocks, one more than the limit of two; four
\* blocks fill the unused list beside them, and the four addresses are reused
\* while seven allocations are made.
CONSTANTS
  Holder = {h1, h2, h3}
  MaxBlocks = 4
  KeyModulus = 4
  kMaxBlockCount = 2
  Addr = {a1, a2, a3, a4}
  MaxAllocations = 7
  Absent = Absent
  NoBlock = NoBlock
  Free = Free
SPECIFICATION Spec
INVARIANTS
  CacheSound
  HeldBlocksStay
  HoldersReadTheirBlock
  StaysWithinLimit
PROPERTIES
  OldestLeaveFirst
  ImplementsStore
