SPECIFICATION Spec
CONSTANTS
  Agents <- SquareAgents
  Meetings <- SquareMeetings
  Vertices <- SquareVertices
  Nodes <- SquareVertices
  TIMESLOTS = 3
  MAX_ROUND = 4
  Rank <- MCRank
  Problems <- SquareProblems
  Workers <- MCWorkers
  WorkerOf <- SquareWorkerOf
  NoSignal = NoSignal
  ExecutionModes = {"Synchronous", "OptimizedAsynchronous"}
INVARIANTS
  TypeOK
  MeetingAgreement
  ConsecutiveDifference
  NoLostWakeup
PROPERTIES
  FollowsProtocol
  SilentMeetingIsFinal
  EventuallyStops
