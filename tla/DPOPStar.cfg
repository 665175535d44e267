SPECIFICATION Spec
CONSTANTS
  Agents <- MCAgents
  Meetings <- MCMeetings
  Vertices <- CornerVertices
  Nodes <- CornerVertices
  TIMESLOTS = 3
  MAX_ROUND = 3
  Rank <- MCRank
  Problems <- CornerProblems
  Workers <- MCWorkers
  WorkerOf <- CornerWorkerOf
  NoSignal = NoSignal
  ExecutionModes = {"Synchronous", "OptimizedAsynchronous"}
INVARIANTS
  TypeOK
  MeetingAgreement
  TwoEngagementsDiffer
PROPERTIES
  FollowsProtocol
  EventuallyStops
