\* After close() and with every Statement object forgotten nothing is left to do.
CHECK_DEADLOCK FALSE
SPECIFICATION Spec
SYMMETRY ObjectsAreAlike
CONSTANTS
  Sqls = {q1, q2, q3}
  Stmts = {s1, s2, s3, s4, s5}
  Wrappers = {w1, w2}
  Contexts = {x1}
  DirectSqls = {q1}
  MaxSize = 2
  None = None
INVARIANTS
  TypeOK
  CachedAreLive
  OnlyStraysAreUnowned
PROPERTIES
  RecentStaysUsable
