\* A group of 4 bits in two bitmap blocks, and a last group of 3 bits whose second
\* bitmap block is shorter than its first.
CONSTANTS
  BitsPerBlock = 2
  BlocksPerGroup = 2
  NumBlocks = 7
  Reserved = 1
  Starts = {0, 3, 4}
  Sizes <- SomeSizes
  MaxOps = 1
  MaxAborts = 1
SPECIFICATION Spec
CONSTRAINT CountsInRange
INVARIANTS
  TypeOK
  NoDoubleAllocation
  SearchIsThorough
  HintsFitBitmap
