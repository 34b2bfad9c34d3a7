\* The calls are made once each, so the system stops when all are answered.
CHECK_DEADLOCK FALSE
SPECIFICATION DbSpec
CONSTANTS
  Calls <- MCCalls
  Txs = {}
  Batches = {b1}
  Execs = {}
  Vacuums = {v1}
  RunOps = {}
  Drainers = {"closer"}
  NoOp = NoOp
  Outsiders = FALSE
  Faults = {}
  MaxRetries = 1
INVARIANT
  BatchAndExecAreRetried
