\* The calls are made once each, so the system stops when all are answered.
CHECK_DEADLOCK FALSE
SPECIFICATION DbSpec
CONSTANTS
  Calls <- MCCalls
  Txs = {t1, t2}
  Batches = {}
  Execs = {}
  Vacuums = {}
  RunOps = {r1}
  Drainers = {"closer"}
  NoOp = NoOp
  Outsiders = FALSE
  Faults = {"before", "begin"}
  MaxRetries = 1
INVARIANTS
  WritesAllOrNothing
PROPERTIES
  EveryCallIsAnswered
