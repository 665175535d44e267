--------------------------------- MODULE DPOP ---------------------------------
(***************************************************************************)
(* The DPOP algorithm: DPOPVertex.collect on the tree that                 *)
(* DPOPGraphFactory builds, executed by Signal/Collect.  buildPseudoTree   *)
(* picks a random leader and hangs every other vertex below it, because    *)
(* the full parent is dropped from a copy of connectableVertices; so the   *)
(* tree is a star of all participations.  A message holds references to    *)
(* its sender's maps: what a receiver reads is what they contain by then,  *)
(* and every vertex below the leader adopts the leader's `values' as its   *)
(* own.                                                                    *)
(***************************************************************************)
EXTENDS MeetingSchedulingVertex, FiniteSetsExt

\* The graph has no other vertices.
ASSUME ParticipationsOnly == Nodes = Vertices

\* The factory builds a list of them.
ASSUME FinitelyMany == IsFiniteSet(Vertices)

VARIABLES
  leader,        \* the vertex picked first, root of the tree
  utilities,     \* the entry of a vertex' utilities for its own meeting
  values         \* the leader's values, shared by all that have heard of it

treeVars == <<leader, utilities, values>>
vertexVars == <<scheduleVars, treeVars>>
vars == <<constraintVars, vertexVars, engineVars>>

\* The state of a vertex is null until its first collect.
NoMessage == "null"
UtilValueMessage == "util and value"
Message == {NoMessage, UtilValueMessage}

\* An edge without a signal is told from one with any.
ASSUME NoSignalIsNoMessage == NoSignal \notin Message

\* A meeting that is not in `values'; Absent (0) is there when it was chosen.
NoKey == -1

Others == Vertices \ {leader}

TypeOK ==
  /\ VertexTypeOK(Message)
  /\ leader \in Vertices
  /\ utilities \in [Vertices -> [Slots -> Nat]]
  /\ values \in [Meetings -> NoKey .. TIMESLOTS]

-------------------------------------------------------------------------------

\* DPOPGraphFactory.build and buildPseudoTree; both maps start empty.
Init ==
  /\ VertexInit(NoMessage)
  /\ agentIndex = [v \in Vertices |-> Absent]
  /\ meetingIndex = [v \in Vertices |-> Absent]
  /\ leader \in Vertices
  /\ utilities = [v \in Vertices |-> [s \in Slots |-> 0]]
  /\ values = [m \in Meetings |-> NoKey]
  /\ edges = ({leader} \X Others) \cup (Others \X {leader})

Heard(u, v) == received[<<u, v>>] = UtilValueMessage

\* isFinished: the children, if any, have all converged.
ChildrenFinished(v) == v = leader => \A u \in Others : status[u] # "active"

\* computeUtils below the leader, where no util messages are kept.  (Entering
\* its own preference does not change what a vertex computes.)
LeafUtilities(v) == AllUtilities(agentIndex, v, Calendar(v))

SumOfUtilities(S, s) == MapThenSumSet(LAMBDA u : utilities[u][s], S)

\* computeUtils of the leader: its own utilities plus, for each child of the
\* same meeting, the utilities that the child has computed last.
MergedUtilities ==
  [s \in Slots |-> LeafUtilities(leader)[s] + SumOfUtilities(Neighbours(leader), s)]

\* Faulty variant of ProcessMessages: a converged vertex goes on to choose.
ProcessMessagesAlways(v) ==
  /\ utilities' = IF v = leader THEN utilities
                  ELSE [utilities EXCEPT ![v] = LeafUtilities(v)]
  /\ LET Expected == IF v = leader THEN Others ELSE {leader}
         mayChoose == \A u \in Expected : Heard(u, v)
     IN  \/ mayChoose /\ GoOnToChoose(v)
         \/ ~ mayChoose /\ FinishCollect(v, UtilValueMessage)
  /\ UNCHANGED <<free, candidate, leader, values>>

\* UTIL and VALUE propagation up to the choice: the leader chooses when it has
\* heard of all children, a child (after computeUtils) when it has heard of
\* the leader; chooseOptimal does nothing once the vertex has converged.
ProcessMessages(v) ==
  /\ utilities' = IF v = leader THEN utilities
                  ELSE [utilities EXCEPT ![v] = LeafUtilities(v)]
  /\ LET Expected == IF v = leader THEN Others ELSE {leader}
         mayChoose == (\A u \in Expected : Heard(u, v)) /\ status'[v] = "active"
     IN  \/ mayChoose /\ GoOnToChoose(v)
         \/ ~ mayChoose /\ FinishCollect(v, UtilValueMessage)
  /\ UNCHANGED <<free, candidate, leader, values>>

\* The first collect takes the preference and enters it in both maps.
Initialize(v) ==
  /\ value[v] = Absent
  /\ StartCollect(v)
  /\ value' = [value EXCEPT ![v] = preference[v]]
  /\ agentIndex' = [agentIndex EXCEPT ![v] = preference[v]]
  /\ meetingIndex' = [meetingIndex EXCEPT ![v] = preference[v]]
  /\ UNCHANGED status
  /\ ProcessMessages(v)

\* A later collect that may check convergence: in one step or in two.
CompareMeeting(v) ==
  /\ value[v] # Absent
  /\ StartCollect(v)
  /\ ChildrenFinished(v)
  /\ FirstLook(v)
  /\ UNCHANGED treeVars

CompareAgent(v) ==
  /\ SecondLook(v)
  /\ UNCHANGED <<value, agentIndex, meetingIndex>>
  /\ ProcessMessages(v)

Collect(v) ==
  /\ value[v] # Absent
  /\ StartCollect(v)
  /\ \/ ChildrenFinished(v) /\ FailedLook(v)
     \/ ~ ChildrenFinished(v) /\ UNCHANGED status
  /\ UNCHANGED <<value, agentIndex, meetingIndex>>
  /\ ProcessMessages(v)

\* chooseOptimal at the leader.
ChooseAtLeader(v) ==
  /\ v = leader
  /\ utilities' = [utilities EXCEPT ![v] = MergedUtilities]
  /\ \E c \in FindMaxValue(agentIndex, v, utilities'[v]) :
       candidate' = [candidate EXCEPT ![v] = c]

\* chooseOptimal below it: what `values' says of the meeting, whether it suits
\* the agent or not; a choice of its own only when it says nothing.
ChooseBelow(v) ==
  /\ v # leader
  /\ LET known == values[MeetingOf(v)]
     IN  \/ /\ known # NoKey
            /\ candidate' = [candidate EXCEPT ![v] = known]
            /\ UNCHANGED utilities
         \/ /\ known = NoKey
            /\ \E c \in FindMaxValue(agentIndex, v, utilities[v]) :
                 candidate' = [candidate EXCEPT ![v] = c]
            /\ utilities' = [utilities EXCEPT ![v] = LeafUtilities(v)]

ChooseOptimal(v) ==
  /\ pc[v] = "choosing"
  /\ ChooseAtLeader(v) \/ ChooseBelow(v)
  /\ pc' = [pc EXCEPT ![v] = "registering"]
  /\ UNCHANGED <<free, value, agentIndex, meetingIndex, status, roundCount, leader, values,
                 state, engineVars>>

\* registerValue, and values.put even of a choice that found no slot.
RegisterValue(v) ==
  /\ Register(v, UtilValueMessage)
  /\ values' = [values EXCEPT ![MeetingOf(v)] = candidate[v]]
  /\ UNCHANGED <<leader, utilities>>

VertexStep(v) ==
  \/ Initialize(v)
  \/ CompareMeeting(v)
  \/ CompareAgent(v)
  \/ Collect(v)
  \/ ChooseOptimal(v)
  \/ RegisterValue(v)

WorkerStep(w) ==
  /\ \/ SignalStep(w, state) /\ UNCHANGED vertexVars
     \/ BeginBatch(w) /\ UNCHANGED vertexVars
     \/ \E v \in VerticesOf(w) : VertexStep(v)
  /\ UNCHANGED constraintVars

DriverStep ==
  /\ SignalStepDone \/ CollectStepDone \/ BecomeIdle
  /\ UNCHANGED <<constraintVars, vertexVars>>

Stopped == phase = "done" /\ UNCHANGED vars

Next == (\E w \in Workers : WorkerStep(w)) \/ DriverStep \/ Stopped

\* Worker actors and the calling thread are always eventually scheduled.
Fairness == WF_vars(DriverStep) /\ \A w \in Workers : WF_vars(WorkerStep(w))

Spec == Init /\ [][Next]_vars /\ Fairness

-------------------------------------------------------------------------------

\* Every execution stops: the children reach MAX_ROUND, and a leader that hears
\* no more of them is not collected again.
EventuallyStops == <>(phase = "done")
===============================================================================
