SPECIFICATION Spec
CONSTANTS
  Browsers = {b1, b2}
  NoOne = NoOne
  INTERVAL = 1
  MAX_ITERATION = 1
  MAX_CUTS = 0
  MAX_UNREAD = 1
  MAX_CLICKS = 2
CHECK_DEADLOCK FALSE
SYMMETRY Symmetry
INVARIANTS
  NoSleepingWithTokens
  OneCommandAtATime
