SPECIFICATION Spec
CONSTANTS
  Workers = {w1, w2}
  NoStatus = NoStatus
  Program <- LoadingProgram
  MAX_SIGNALS = 1
INVARIANTS
  TypeOK
  NoFalseIdle
PROPERTIES
  AwaitIdleReturnsEventually
