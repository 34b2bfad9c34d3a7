\* A translation ends: what it has made is the end of it.
CHECK_DEADLOCK FALSE
SPECIFICATION Spec
CONSTANTS
  Statements <- SQLQueries
  Calls <- MQLCalls
  Trees <- BuiltTrees
INVARIANTS
  SameRows
  BoundInOrder
  ClausesInOrder
  OnlyNamedRows
