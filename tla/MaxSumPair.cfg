SPECIFICATION Spec
CONSTANTS
  Agents <- MCAgents
  Meetings <- MCMeetings
  Vertices <- PairVertices
  Nodes <- PairNodes
  TIMESLOTS = 2
  MAX_ROUND = 3
  Rank <- MCRank
  Problems <- PairProblems
  Workers <- MCWorkers
  WorkerOf <- PairWorkerOf
  NoSignal = NoSignal
  ExecutionModes = {"Synchronous", "OptimizedAsynchronous"}
INVARIANTS
  TypeOK
  NobodyLeftBehind
  FinishedOnSameTimeslot
PROPERTIES
  FollowsProtocol
  EventuallyStops
