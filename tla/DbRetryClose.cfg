\* The calls are made once each, so the system stops when all are answered.
CHECK_DEADLOCK FALSE
SPECIFICATION DbSpec
CONSTANTS
  Calls <- MCCalls
  Txs = {t1}
  Batches = {b1}
  Execs = {e1}
  Vacuums = {v1}
  RunOps = {}
  Drainers = {"closer"}
  NoOp = NoOp
  Outsiders = FALSE
  Faults = {"begin", "commit"}
  MaxRetries = 1
INVARIANTS
  DbTypeOK
  WritesAllOrNothing
  AppliedOnce
  ClosedWhenQuiet
PROPERTIES
  NoItemStartsAfterClose
  EveryCallIsAnswered
  CloseCompletes
