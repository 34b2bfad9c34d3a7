\* The calls are made once each, so the system stops when all are answered.
CHECK_DEADLOCK FALSE
SPECIFICATION Spec
CONSTANTS
  Calls = {c1, c2}
  Drainers = {}
  NoOp = NoOp
  Outsiders = FALSE
  Faults = {"commit"}
INVARIANTS
  FailureRollsBack
