SPECIFICATION Spec
CONSTANTS
  Callers = {c1, c2}
  Conns = {k1, k2}
  MaxSize = 1
  None = None
INVARIANT
  MaxIsRespected
