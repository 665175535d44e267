SPECIFICATION Spec
CONSTANTS
  Browsers = {b1}
  MAX_CONDITIONS = 2
  MAX_ORDERS = 3
INVARIANTS
  NothingLost
  HighlightedWasMet
