\* Indirect arrays of 4 runs, double indirect ones of 4 runs of 2 blocks; deadlock is
\* not checked, since a failed grow ends the transaction and with it the behaviour.
CONSTANTS
  NumDirect = 1
  RunsPerBlock = 2
  ArrayBlocks = 2
  BlockSize = 2
  NumBlocks = 24
  MaxRun = 3
  Prealloc = 2
  Tight = 4
  IntModulus = 65536
  Layouts <- SomeLayouts
  Sizes = {0, 2, 3, 21}
SPECIFICATION Spec
CHECK_DEADLOCK FALSE
INVARIANTS
  StreamSound
  FindsEveryBlock
  GrowEnds
PROPERTIES
  DataStays
  KeepsWhatItNeeds
