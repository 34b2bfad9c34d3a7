\* The calls are made once each, so the system stops when all are answered.
CHECK_DEADLOCK FALSE
SPECIFICATION Spec
CONSTANTS
  Calls = {c1, c2, c3}
  Drainers = {}
  NoOp = NoOp
  Outsiders = FALSE
  Faults = {"before", "begin", "commit", "after"}
INVARIANTS
  TypeOK
  AllOrNothing
  NoTransactionLeaks
PROPERTIES
  CommitsOneTransaction
  QueuedIsAnswered
