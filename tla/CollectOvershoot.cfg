SPECIFICATION Spec
CONSTANTS
  Browsers = {b1}
  NoOne = NoOne
  INTERVAL = 2
  MAX_ITERATION = 1
  MAX_CUTS = 0
  MAX_UNREAD = 1
  MAX_CLICKS = 1
CHECK_DEADLOCK FALSE
INVARIANTS
  CollectCompletesIteration
