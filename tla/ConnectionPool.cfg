SPECIFICATION Spec
CONSTANTS
  Callers = {c1, c2, c3}
  Conns = {k1, k2, k3}
  MaxSize = 2
  None = None
INVARIANTS
  TypeOK
  OneOwner
  ActiveIsHonest
  SequentialOpensRespectMax
  OnlyRefusedAreForgotten
PROPERTIES
  HandedOverConnected
  WaitingEnds
