\* Entries of two blocks in a log with room for three: each is written, fits, and has one
\* array, so that nothing but the order of steps can lose one.
SPECIFICATION Spec
CONSTANTS
  NumBlocks = 1
  LogSize = 7
  MaxRuns = 2
  MaxTransactionSize = 1
  Content = {0, 1}
  FirstStart = 0
  MaxNesting = 1
  MaxEntries = 2
  MayFail = FALSE
INVARIANT EndIsValid
