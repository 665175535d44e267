SPECIFICATION Spec
CONSTANTS
  Agents <- MCAgents
  Meetings <- MCMeetings
  Vertices <- MCVertices
  Nodes <- MCVertices
  TIMESLOTS = 2
  MAX_ROUND = 3
  Rank <- MCRank
  Problems <- MCProblems
  Workers <- OneWorker
  WorkerOf <- OneWorkerOf
  NoSignal = NoSignal
  ExecutionModes = {"OptimizedAsynchronous"}
  Modes <- AllModes
  MAX_ADDED = 1
INVARIANTS
  TypeOK
  MeetingAgreement
PROPERTIES
  SilentMeetingKeepsSlots
  StopsUnlessReset
