\* The calls are made once each, so the system stops when all are answered.
CHECK_DEADLOCK FALSE
SPECIFICATION DbSpec
CONSTANTS
  Calls <- MCCalls
  Txs = {t1, t2}
  Batches = {}
  Execs = {}
  Vacuums = {}
  RunOps = {}
  Drainers = {"closer"}
  NoOp = NoOp
  Outsiders = FALSE
  Faults = {"begin"}
  MaxRetries = 1
INVARIANT
  ResolvedIsNeverLost
