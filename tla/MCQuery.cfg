\* All pairs of inodes, all expressions, with and without queries that need no index,
\* and one change between two walks.
SPECIFICATION Spec
CONSTANTS
  Node = {1, 2}
  Type <- Types
  Indexed = {"name", "size", "last_modified", "rating"}
  Weight <- Weights
  Values <- SomeValues
  Expressions <- SomeExpressions
  FirstNodes <- SomeNodes
  MaxChanges = 2
INVARIANTS
  FindsAll
  FindsOnly
  ListenerKnows
  IndicesFollow
