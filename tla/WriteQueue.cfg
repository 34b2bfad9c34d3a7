SPECIFICATION Spec
CONSTANTS
  Ops = {o1, o2, o3}
  Drainers = {d1, d2}
  NoOp = NoOp
INVARIANTS
  TypeOK
  OneProcessLoop
  HeldExactlyOnce
  DrainMeansSettled
PROPERTIES
  AcceptedIsSettled
  ClosedQueueDrains
  SerialInOrder
