SPECIFICATION Spec
CONSTANTS
  Browsers = {b1}
  NoOne = NoOne
  INTERVAL = 1
  MAX_ITERATION = 1
  MAX_CUTS = 1
  MAX_UNREAD = 1
  MAX_CLICKS = 2
CHECK_DEADLOCK FALSE
INVARIANTS
  TypeOK
  OpenedOncePerConnection
PROPERTIES
  FollowsIterations
  TerminateEnds
