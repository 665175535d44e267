--------------------------------- MODULE MGM ---------------------------------
(***************************************************************************)
(* The MGM algorithm: MGMVertex.collect on the graph that MGMGraphFactory  *)
(* builds, executed by Signal/Collect.  A collect operation is up to four  *)
(* steps: the look at the meeting's map; the look at the agent's map and   *)
(* the messages; the choice, which reads the agent's map; the              *)
(* registration, which writes both maps.                                   *)
(***************************************************************************)
EXTENDS MeetingSchedulingVertex

\* The graph has no other vertices.
ASSUME ParticipationsOnly == Nodes = Vertices

\* The factory builds a list of them.
ASSUME FinitelyMany == IsFiniteSet(Vertices)

VARIABLES
  values,        \* <<v, u>>: what v last heard to be the value of u
  lastGain

gainVars == <<values, lastGain>>
vertexVars == <<scheduleVars, gainVars>>
vars == <<constraintVars, vertexVars, engineVars>>

\* MGMMessage, by its three constructors.
StartMessage == [type |-> ""]
ValueMessage(s) == [type |-> "value", value |-> s]
GainMessage(g) == [type |-> "gain", gain |-> g]

Message ==
  {StartMessage} \cup [type : {"value"}, value : Slots] \cup [type : {"gain"}, gain : Int]

\* An edge without a signal is told from one with any.
ASSUME NoSignalIsNoMessage == NoSignal \notin Message

TypeOK ==
  /\ VertexTypeOK(Message)
  /\ values \in [Links -> 0 .. TIMESLOTS]
  /\ lastGain \in [Vertices -> Int]

-------------------------------------------------------------------------------

\* MGMGraphFactory.build: the meeting maps hold the preferences, the agent
\* maps are empty, and the participants of a meeting are connected pairwise.
Init ==
  /\ VertexInit(StartMessage)
  /\ meetingIndex = preference
  /\ agentIndex = [v \in Vertices |-> Absent]
  /\ values = [l \in Links |-> Absent]
  /\ lastGain = [v \in Vertices |-> 0]
  /\ edges = {l \in Links : l[2] \in Neighbours(l[1])}

\* The first collect announces the preference and checks nothing.
Initialize(v) ==
  /\ value[v] = Absent
  /\ StartCollect(v)
  /\ value' = [value EXCEPT ![v] = preference[v]]
  /\ lastGain' = [lastGain EXCEPT ![v] =
                    SingleUtility(agentIndex, v, Calendar(v), preference[v])]
  /\ UNCHANGED <<free, agentIndex, meetingIndex, status, candidate, values>>
  /\ FinishCollect(v, ValueMessage(preference[v]))

\* The most recent signal of every neighbour, by type.
GainsFor(v) ==
  {received[<<u, v>>].gain : u \in {n \in Neighbours(v) :
      received[<<n, v>>] # NoSignal /\ received[<<n, v>>].type = "gain"}}

HeardValues(v) ==
  [l \in Links |->
     IF l[1] = v /\ received[<<l[2], v>>] # NoSignal /\ received[<<l[2], v>>].type = "value"
     THEN received[<<l[2], v>>].value
     ELSE values[l]]

HasBestGain(v) == GainsFor(v) # {} /\ \A g \in GainsFor(v) : g <= lastGain[v]

\* Faulty variant of ProcessMessages: a converged vertex goes on to choose.
ProcessMessagesAlways(v) ==
  /\ values' = HeardValues(v)
  /\ \/ /\ HasBestGain(v)
        /\ FinishCollect(v, ValueMessage(value[v]))
     \/ /\ ~ HasBestGain(v)
        /\ GoOnToChoose(v)
  /\ UNCHANGED <<free, value, agentIndex, meetingIndex, candidate, lastGain>>

\* What collect does with the messages: a vertex with the best gain sends its
\* value; one without it goes on to chooseMaximalGain, which does nothing once
\* the vertex has converged.
ProcessMessages(v) ==
  /\ values' = HeardValues(v)
  /\ \/ /\ HasBestGain(v)
        /\ FinishCollect(v, ValueMessage(value[v]))
     \/ /\ ~ HasBestGain(v)
        /\ status'[v] # "active"
        /\ FinishCollect(v, GainMessage(lastGain[v]))
     \/ /\ ~ HasBestGain(v)
        /\ status'[v] = "active"
        /\ GoOnToChoose(v)
  /\ UNCHANGED <<free, value, agentIndex, meetingIndex, candidate, lastGain>>

\* A later collect: convergenceCheck, in one step or in two, then the messages.
CompareMeeting(v) ==
  /\ value[v] # Absent
  /\ StartCollect(v)
  /\ FirstLook(v)
  /\ UNCHANGED gainVars

CompareAgent(v) == SecondLook(v) /\ ProcessMessages(v)

Collect(v) ==
  /\ value[v] # Absent
  /\ StartCollect(v)
  /\ FailedLook(v)
  /\ ProcessMessages(v)

\* Own utilities plus 2.0 for every neighbour known to hold the slot.
GainUtilities(v) ==
  [s \in Slots |->
     SingleUtility(agentIndex, v, Calendar(v), s)
       + 2 * UtilityUnit * Cardinality({u \in Neighbours(v) : values[<<v, u>>] = s})]

ChooseMaximalGain(v) ==
  /\ pc[v] = "choosing"
  /\ \E c \in FindMaxValue(agentIndex, v, GainUtilities(v)) :
       /\ candidate' = [candidate EXCEPT ![v] = c]
       /\ lastGain' = [lastGain EXCEPT ![v] =
                         GainUtilities(v)[RegisterIn(value, v, c)[v]] - @]
  /\ pc' = [pc EXCEPT ![v] = "registering"]
  /\ UNCHANGED <<free, value, agentIndex, meetingIndex, status, roundCount, values,
                 state, engineVars>>

RegisterValue(v) ==
  /\ Register(v, GainMessage(lastGain[v]))
  /\ UNCHANGED gainVars

VertexStep(v) ==
  \/ Initialize(v)
  \/ CompareMeeting(v)
  \/ CompareAgent(v)
  \/ Collect(v)
  \/ ChooseMaximalGain(v)
  \/ RegisterValue(v)

WorkerStep(w) ==
  /\ \/ SignalStep(w, state) /\ UNCHANGED vertexVars
     \/ BeginBatch(w) /\ UNCHANGED vertexVars
     \/ \E v \in VerticesOf(w) : VertexStep(v)
  /\ UNCHANGED constraintVars

\* DefaultGraph.execute, the driver of the workers.
DriverStep ==
  /\ SignalStepDone \/ CollectStepDone \/ BecomeIdle
  /\ UNCHANGED <<constraintVars, vertexVars>>

\* The execution has returned.
Stopped == phase = "done" /\ UNCHANGED vars

Next == (\E w \in Workers : WorkerStep(w)) \/ DriverStep \/ Stopped

\* Worker actors and the calling thread are always eventually scheduled.
Fairness == WF_vars(DriverStep) /\ \A w \in Workers : WF_vars(WorkerStep(w))

Spec == Init /\ [][Next]_vars /\ Fairness

-------------------------------------------------------------------------------

\* Every execution stops: silence spreads at the latest when the vertices
\* reach MAX_ROUND, whatever the maps say (BasicVertex.convergenceCheck).
EventuallyStops == <>(phase = "done")
===============================================================================
