\* Entries of two or three blocks in a log of seven that begins in its middle, so that
\* one entry goes round its end while another one is not yet written back.
SPECIFICATION Spec
CONSTANTS
  NumBlocks = 3
  LogSize = 7
  MaxRuns = 2
  MaxTransactionSize = 2
  Content = {0, 1}
  FirstStart = 3
  MaxNesting = 2
  MaxEntries = 2
  MayFail = TRUE
CONSTRAINT LogIsWhole
INVARIANTS
  Recoverable
  LogPointers
PROPERTY FailureUndone
