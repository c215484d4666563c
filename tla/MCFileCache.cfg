\* Every layout and every request; one disk read or map lookup may fail.
CONSTANTS
  PageSize = 4
  BlockSize = 2
  MaxIoVecs = 2
  MaxFileIoVecs = 2
  MaxTempIoVecs = 1
  Layouts <- AllLayouts
  FilePages = 3
  Requests <- AllRequests
  BufferSize = 12
  Failures = 1
  Garbage = Garbage
SPECIFICATION Spec
INVARIANTS
  PlainReadsRight
  PagesHoldTheFile
PROPERTY FreshReadsReturn
