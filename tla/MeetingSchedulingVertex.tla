------------------------ MODULE MeetingSchedulingVertex ------------------------
(***************************************************************************)
(* What the vertices of all algorithms inherit from BasicVertex and        *)
(* MeetingSchedulingVertex: their fields, the round, the two looks of      *)
(* convergenceCheck, the registration and the score.  The vertices of an   *)
(* agent, and those of a meeting, live on several worker threads and share *)
(* their maps without any lock, so a collect operation is several steps of *)
(* its worker: pc tells how far it has got.                                *)
(***************************************************************************)
EXTENDS Scheduling, SignalCollect

\* Every participation is a vertex of the graph; MaxSum has others besides.
ASSUME NodesAssumption == Vertices \subseteq Nodes

VARIABLES
  preference,    \* CONSTRAINTS_ORIGINAL.preferred of the vertex' own meeting
  blocked,       \* blocked slots per agent
  free,          \* free slots per agent
  value,         \* Absent stands for -1, i.e. not initialized
  agentIndex,    \* AGENT_INDEX entries
  meetingIndex,  \* MEETING_INDEX entries
  status,        \* the converged flag
  roundCount,    \* saturating at MAX_ROUND
  pc,            \* "idle"; "comparing" before the second look of convergenceCheck;
                 \* "choosing" and "registering" around findMaxValue
  candidate,     \* the value to register, local to the choice
  state          \* what the vertex signals

constraintVars == <<preference, blocked>>
scheduleVars == <<free, value, agentIndex, meetingIndex, status, roundCount, pc,
                  candidate, state>>

VertexTypeOK(Message) ==
  /\ EngineTypeOK(Message)
  /\ preference \in [Vertices -> Slots]
  /\ blocked \in [Agents -> SUBSET Slots]
  /\ free \in [Agents -> SUBSET Slots]
  /\ value \in Index
  /\ agentIndex \in Index
  /\ meetingIndex \in Index
  /\ status \in [Vertices -> Status]
  /\ roundCount \in [Vertices -> 0 .. MAX_ROUND]
  /\ pc \in [Vertices -> {"idle", "comparing", "choosing", "registering"}]
  /\ candidate \in Index
  /\ state \in [Nodes -> Message]

\* A problem is drawn and nobody has collected; the maps are the factory's.
VertexInit(initialState) ==
  /\ \E p \in Problems :
       /\ preference = p.preference
       /\ blocked = p.blocked
       /\ free = InitialFree(p.preference, p.blocked)
  /\ value = [v \in Vertices |-> Absent]
  /\ status = [v \in Vertices |-> "active"]
  /\ roundCount = [v \in Vertices |-> 0]
  /\ pc = [v \in Vertices |-> "idle"]
  /\ candidate = [v \in Vertices |-> Absent]
  /\ state = [n \in Nodes |-> initialState]
  /\ EngineInit

-------------------------------------------------------------------------------

\* CONSTRAINTS_CURRENT of a vertex: the agent's blocked and free sets, and a
\* preference map of its own in which only its own meeting is ever updated.
Calendar(v) ==
  [blocked   |-> blocked[AgentOf(v)],
   free      |-> free[AgentOf(v)],
   preferred |-> {preference[u] : u \in OtherEngagements(v)}
                   \cup {IF value[v] = Absent THEN preference[v] ELSE value[v]}]

\* scoreSignal.
Score(v) == IF status'[v] = "active" THEN 1 ELSE 0

\* A worker runs the collect of one vertex at a time.
StartCollect(v) ==
  /\ MayCollect(v)
  /\ \A u \in VerticesOf(WorkerOf[v]) \cap Vertices : pc[u] = "idle"
  /\ roundCount' = [roundCount EXCEPT ![v] = NextRound(@)]

\* collect returns: the vertex signals its new state, or keeps silent.
FinishCollect(v, message) ==
  /\ pc' = [pc EXCEPT ![v] = "idle"]
  /\ state' = [state EXCEPT ![v] = message]
  /\ Finish(v, state', Score(v))

\* collect goes on to choose a value.
GoOnToChoose(v) ==
  /\ pc' = [pc EXCEPT ![v] = "choosing"]
  /\ UNCHANGED <<state, engineVars>>

\* convergenceCheck finds one value in the meeting's map so far.
FirstLook(v) ==
  /\ status[v] = "active"
  /\ Same(meetingIndex, v)
  /\ pc' = [pc EXCEPT ![v] = "comparing"]
  /\ UNCHANGED <<free, value, agentIndex, meetingIndex, status, candidate, state, engineVars>>

\* convergenceCheck goes on to the agent's map.
SecondLook(v) ==
  /\ pc[v] = "comparing"
  /\ status' = [status EXCEPT ![v] =
                  Outcome(@, Different(agentIndex, v), roundCount[v])]
  /\ UNCHANGED roundCount

\* convergenceCheck when the meeting's map has already decided it, or when it
\* can change nothing because the vertex has converged before.
FailedLook(v) ==
  /\ status[v] # "active" \/ ~ Same(meetingIndex, v)
  /\ status' = [status EXCEPT ![v] = Outcome(@, FALSE, roundCount'[v])]

\* registerValue and the end of collect.
Register(v, message) ==
  /\ pc[v] = "registering"
  /\ value' = RegisterIn(value, v, candidate[v])
  /\ agentIndex' = RegisterIn(agentIndex, v, candidate[v])
  /\ meetingIndex' = RegisterIn(meetingIndex, v, candidate[v])
  /\ free' = UpdateFree(free, v, candidate[v])
  /\ candidate' = [candidate EXCEPT ![v] = Absent]
  /\ UNCHANGED <<status, roundCount>>
  /\ FinishCollect(v, message)

-------------------------------------------------------------------------------

\* The steps of the shared protocol: choosing and registering together are its
\* registration step.
ProtocolPc == [v \in Vertices |-> IF pc[v] = "registering" THEN "choosing" ELSE pc[v]]

Protocol == INSTANCE SharedSchedule WITH pc <- ProtocolPc

\* An algorithm follows the shared protocol: no signal, message or scheduling of
\* the workers makes a vertex register after it has gone silent, or rely on a
\* map it has not looked at (convergenceCheck, registerValue).
FollowsProtocol == Protocol!Spec

\* The protocol's promises (SharedSchedule), of an algorithm on the engine.
MeetingAgreement == Protocol!MeetingAgreement
ConsecutiveDifference == Protocol!ConsecutiveDifference
TwoEngagementsDiffer == Protocol!TwoEngagementsDiffer
SilentMeetingIsFinal == Protocol!SilentMeetingIsFinal

\* The execution never ends between two linked vertices that both still want
\* to change: the signal of the one that collected last has woken the other.
\* An active vertex is left behind only by neighbours that have gone silent.
NoLostWakeup ==
  phase = "done" =>
    \A l \in edges : status[l[1]] # "active" \/ status[l[2]] # "active"

-------------------------------------------------------------------------------
\* What MeetingSchedulingVertex says of itself.  DPOP does not keep the first,
\* and MGM does not keep the second.

\* "values chosen by user -> needs to be different".
\* convergenceCheck compares an entry of the agent's map with the one before it
\* only, and a vertex that has never registered a value (in MGM) with none.
AgreedNotDoubleBooked ==
  \A a \in Agents : \A u, w \in Engagements(a) :
    u # w /\ status[u] = "agreed" /\ status[w] = "agreed" => value[u] # value[w]

\* "Finish when all participants have same timeslot
\* for meeting".  A vertex that has changed its value for a neighbour that is
\* silent by then is never collected again, and the execution is over with no
\* vertex at its round limit.
FinishedOnSameTimeslot ==
  phase = "done" /\ (\A v \in Vertices : status[v] # "exhausted") =>
    \A m \in Meetings : \A u, w \in Participants(m) : value[u] = value[w]
===============================================================================
