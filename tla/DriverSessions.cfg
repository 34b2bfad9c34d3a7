SPECIFICATION Spec
CONSTANT MaxCalls = 2
INVARIANTS
  TypeOK
  OwnAnswers
  OneAnswerEach
PROPERTY CallsEnd
CHECK_DEADLOCK FALSE
