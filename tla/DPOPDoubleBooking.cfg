SPECIFICATION Spec
CONSTANTS
  Agents <- MCAgents
  Meetings <- MCMeetings
  Vertices <- FanVertices
  Nodes <- FanVertices
  TIMESLOTS = 3
  MAX_ROUND = 3
  Rank <- MCRank
  Problems <- FanProblems
  Workers <- MCWorkers
  WorkerOf <- FanWorkerOf
  NoSignal = NoSignal
  ExecutionModes = {"OptimizedAsynchronous"}
INVARIANTS
  AgreedNotDoubleBooked
