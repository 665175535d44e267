SPECIFICATION Spec
CONSTANTS
  VertexIds <- MCVertexIds
  Targets <- MCTargets
  Limits <- MCLimits
  MAX_SEQUENCE = 5
  MAX_UNDER_WAY = 1
INVARIANTS
  TypeOK
  TablesExact
  EdgesJoinShown
  WithinLimit
PROPERTIES
  ArrivedStays
  RefreshEndsByEmptyAnswer
