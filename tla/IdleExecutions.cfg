SPECIFICATION LoadedSpec
CONSTANTS
  Workers = {w1, w2}
  NoStatus = NoStatus
  Program <- BothPrograms
  MAX_SIGNALS = 2
SYMMETRY Symmetry
INVARIANTS
  NoFalseIdle
  DetectorAssertions
