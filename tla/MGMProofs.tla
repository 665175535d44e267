------------------------------ MODULE MGMProofs ------------------------------
(***************************************************************************)
(* MGM implements SharedSchedule, for every graph, problem, number of      *)
(* workers and execution mode; so it keeps the protocol's promises.        *)
(***************************************************************************)
EXTENDS MGM, VertexProofs, FiniteSetTheorems

LEMMA InitCore == Init => CoreInv
  BY InitialCore DEF Init

LEMMA InitRefines == Init => Protocol!Init
  BY InitialRefines DEF Init

\* The steps of the engine alone leave the vertices as they are.
LEMMA StepCases ==
  ASSUME [Next]_vars
  PROVE  \/ UNCHANGED <<preference, vertexVars>>
         \/ \E v \in Vertices : VertexStep(v) /\ UNCHANGED preference
  BY ParticipationsOnly DEF Next, WorkerStep, DriverStep, Stopped, vars, constraintVars, VerticesOf

\* After the check a collect operation ends or goes on to choose, for an
\* active vertex only; either way the maps stay as they are.
LEMMA ProcessMessagesStep ==
  ASSUME NEW v \in Vertices, ProcessMessages(v)
  PROVE  EndOrChoose(v) /\ UNCHANGED <<value, agentIndex, meetingIndex, candidate>>
  BY DEF ProcessMessages, FinishCollect, GoOnToChoose, EndOrChoose

\* What chooseMaximalGain puts forward is a slot or nothing.
LEMMA ChoiceStep ==
  ASSUME NEW v \in Vertices, ChooseMaximalGain(v)
  PROVE  \E c \in 0 .. TIMESLOTS : candidate' = [candidate EXCEPT ![v] = c]
  BY FindMaxValueRange DEF ChooseMaximalGain

LEMMA CoreStep == CoreInv /\ [Next]_vars => CoreInv'
  <1> SUFFICES ASSUME CoreInv, [Next]_vars PROVE CoreInv'
    OBVIOUS
  <1>1. CASE UNCHANGED <<preference, vertexVars>>
    BY <1>1 DEF vertexVars, scheduleVars, CoreInv
  <1>2. ASSUME NEW v \in Vertices, Initialize(v) PROVE CoreInv'
    BY <1>2 DEF Initialize, FinishCollect, CoreInv, PcValues
  <1>3. ASSUME NEW v \in Vertices, CompareMeeting(v) PROVE CoreInv'
    BY <1>3, CoreAfterFirstLook DEF CompareMeeting
  <1>4. ASSUME NEW v \in Vertices, CompareAgent(v) PROVE CoreInv'
    BY <1>4, ProcessMessagesStep, CoreAfterCheck DEF CompareAgent
  <1>5. ASSUME NEW v \in Vertices, Collect(v) PROVE CoreInv'
    BY <1>5, ProcessMessagesStep, CoreAfterCheck DEF Collect
  <1>6. ASSUME NEW v \in Vertices, ChooseMaximalGain(v) PROVE CoreInv'
    BY <1>6, ChoiceStep, CoreAfterChoice DEF ChooseMaximalGain
  <1>7. ASSUME NEW v \in Vertices, RegisterValue(v) PROVE CoreInv'
    BY <1>7, CoreAfterRegister DEF RegisterValue
  <1> QED
    BY <1>1, <1>2, <1>3, <1>4, <1>5, <1>6, <1>7, StepCases DEF VertexStep

-------------------------------------------------------------------------------

\* Every step of a vertex is a step of the protocol, or invisible to it.
LEMMA StepRefines ==
  ASSUME CoreInv, [Next]_vars
  PROVE  [Protocol!Next]_(Protocol!vars)
  <1>1. CASE UNCHANGED <<preference, vertexVars>>
    BY <1>1 DEF vertexVars, scheduleVars, Protocol!vars, ProtocolPc
  <1>2. ASSUME NEW v \in Vertices, Initialize(v), UNCHANGED preference
        PROVE  Protocol!Initialize(v)
    <2>1. EndOrChoose(v)
      BY <1>2 DEF Initialize, FinishCollect, EndOrChoose
    <2> QED
      BY <1>2, <2>1, StartRefines, ContinueRefines, SameOperators
      DEF Initialize, Protocol!Initialize
  <1>3. ASSUME NEW v \in Vertices, CompareMeeting(v), UNCHANGED preference
        PROVE  Protocol!CompareMeeting(v)
    BY <1>3, FirstLookRefines DEF CompareMeeting
  <1>4. ASSUME NEW v \in Vertices, CompareAgent(v), UNCHANGED preference
        PROVE  Protocol!CompareAgent(v)
    BY <1>4, ProcessMessagesStep, SecondLookRefines DEF CompareAgent
  <1>5. ASSUME NEW v \in Vertices, Collect(v), UNCHANGED preference
        PROVE  Protocol!Collect(v)
    BY <1>5, ProcessMessagesStep, CollectRefines DEF Collect
  <1>6. ASSUME NEW v \in Vertices, ChooseMaximalGain(v), UNCHANGED preference
        PROVE  UNCHANGED Protocol!vars
    <2>1. ProtocolPc' = ProtocolPc
      BY <1>6 DEF ChooseMaximalGain, CoreInv, ProtocolPc
    <2> QED
      BY <1>6, <2>1 DEF ChooseMaximalGain, Protocol!vars
  <1>7. ASSUME NEW v \in Vertices, RegisterValue(v), UNCHANGED preference
        PROVE  Protocol!Register(v)
    BY <1>7, RegisterRefines DEF RegisterValue
  <1> QED
    BY <1>1, <1>2, <1>3, <1>4, <1>5, <1>6, <1>7, StepCases
    DEF VertexStep, Protocol!Next, Protocol!VertexStep

-------------------------------------------------------------------------------

\* Every behaviour of MGM, on every graph, is one of the protocol.
THEOREM Refinement == Spec => FollowsProtocol
  BY InitCore, CoreStep, InitRefines, StepRefines, PTL
  DEF Spec, FollowsProtocol, Protocol!Spec

\* MGM's converged vertices agree on every meeting, on every graph, whatever
\* the engine delivers and whichever worker runs first.
THEOREM MGMAgreement == Spec => []MeetingAgreement
  BY Refinement, AgreementTheorem

\* Converged engagements of an agent that follow each other in its map differ.
THEOREM MGMDifference == Spec => []ConsecutiveDifference
  BY Refinement, DifferenceTheorem

\* No MGM vertex registers a value after it has gone silent.
THEOREM MGMFinality == Spec => SilentMeetingIsFinal
  BY Refinement, FinalityTheorem
-------------------------------------------------------------------------------
(***************************************************************************)
(* Types and wake-ups.  A gain is the difference of two utilities of slots *)
(* in the domain, so no vertex may choose before it holds a value; with    *)
(* the wake-ups of VertexProofs this is inductive.                         *)
(***************************************************************************)

ChoosesInitialized == \A v \in Vertices : pc[v] # "idle" => value[v] # Absent

MGMInv == TypeOK /\ WakeInv /\ ChoosesInitialized

LEMMA InvParts ==
  MGMInv <=> /\ ScheduleTypeOK /\ StateTypeOK(Message)
             /\ values \in [Links -> 0 .. TIMESLOTS]
             /\ lastGain \in [Vertices -> Int]
             /\ WakeInv /\ ChoosesInitialized
  BY TypeParts DEF MGMInv, TypeOK

\* Utilities are integers,
LEMMA SingleUtilityInt ==
  ASSUME NEW index, NEW v, NEW calendar, NEW s \in Slots
  PROVE  SingleUtility(index, v, calendar, s) \in Int
  <1>1. CalendarUtility(calendar, s) \in Int
    BY TimeslotsAssumption DEF CalendarUtility, UtilityUnit
  <1> QED
    BY <1>1, TimeslotsAssumption DEF SingleUtility, Slots

\* and so are MGM's, which count neighbours.
LEMMA GainUtilitiesInt ==
  ASSUME NEW v \in Vertices
  PROVE  GainUtilities(v) \in [Slots -> Int]
  <1> SUFFICES ASSUME NEW s \in Slots
               PROVE  SingleUtility(agentIndex, v, Calendar(v), s)
                        + 2 * UtilityUnit
                            * Cardinality({u \in Neighbours(v) : values[<<v, u>>] = s}) \in Int
    BY DEF GainUtilities
  <1>1. IsFiniteSet({u \in Neighbours(v) : values[<<v, u>>] = s})
    BY FinitelyMany, FS_Subset DEF Neighbours, Participants
  <1>2. Cardinality({u \in Neighbours(v) : values[<<v, u>>] = s}) \in Nat
    BY <1>1, FS_CardinalityType
  <1>3. SingleUtility(agentIndex, v, Calendar(v), s) \in Int
    BY SingleUtilityInt
  <1>4. UtilityUnit \in Int
    BY TimeslotsAssumption DEF UtilityUnit
  <1> QED
    BY <1>2, <1>3, <1>4

\* The messages a vertex sends.
LEMMA Messages ==
  /\ StartMessage \in Message
  /\ \A s \in Slots : ValueMessage(s) \in Message
  /\ \A g \in Int : GainMessage(g) \in Message
  BY DEF Message, StartMessage, ValueMessage, GainMessage

\* What a vertex has heard is a slot of its neighbour.
LEMMA HeardTypes ==
  ASSUME StateTypeOK(Message), values \in [Links -> 0 .. TIMESLOTS], NEW v \in Vertices
  PROVE  HeardValues(v) \in [Links -> 0 .. TIMESLOTS]
  <1>1. ASSUME NEW l \in Links, l[1] = v,
               received[<<l[2], v>>] # NoSignal, received[<<l[2], v>>].type = "value"
        PROVE  received[<<l[2], v>>].value \in 0 .. TIMESLOTS
    <2>1. received[<<l[2], v>>] \in Message
      BY <1>1, NodesAssumption DEF StateTypeOK, EngineTypeOK, Links
    <2>2. ASSUME NEW m \in Message, m.type = "value" PROVE m.value \in Slots
      <3>1. m # StartMessage
        <4>1. StartMessage.type = "" /\ "" # "value"
          BY Zenon DEF StartMessage
        <4> QED
          BY <2>2, <4>1
      <3>2. m \notin [type : {"gain"}, gain : Int]
        BY <2>2
      <3>3. m \in [type : {"value"}, value : Slots]
        BY <3>1, <3>2 DEF Message
      <3> QED
        BY <3>3
    <2> QED
      BY <1>1, <2>1, <2>2, IndexRange
  <1> QED
    BY <1>1 DEF HeardValues

LEMMA InitInv == Init => MGMInv
  <1> SUFFICES ASSUME Init PROVE MGMInv
    OBVIOUS
  <1>1. edges \subseteq Links /\ \A l \in edges : Back(l) \in edges
    BY ParticipationsOnly DEF Init, Links, Back, Neighbours, Participants
  <1>2. ScheduleTypeOK /\ StateTypeOK(Message)
    BY <1>1, InitialTypes, Messages DEF Init
  <1>3. WakeInv
    BY <1>1, InitialWake DEF Init
  <1>4. values \in [Links -> 0 .. TIMESLOTS] /\ lastGain \in [Vertices -> Int]
    BY IndexRange DEF Init
  <1>5. ChoosesInitialized
    BY DEF Init, VertexInit, ChoosesInitialized
  <1> QED
    BY <1>2, <1>3, <1>4, <1>5, InvParts

-------------------------------------------------------------------------------

\* What is to be shown of a step, part by part.
LEMMA InvPartsAfter ==
  ASSUME ScheduleTypeOK', StateTypeOK(Message)', WakeInv', ChoosesInitialized',
         values' \in [Links -> 0 .. TIMESLOTS], lastGain' \in [Vertices -> Int]
  PROVE  MGMInv'
  BY DEF MGMInv, TypeOK, VertexTypeOK, ScheduleTypeOK, StateTypeOK, CoreInv, PcValues

\* The steps of the engine alone.
LEMMA EngineStep ==
  ASSUME MGMInv, [Next]_vars, UNCHANGED <<preference, vertexVars>>,
         ~ \E v \in Vertices : VertexStep(v)
  PROVE  MGMInv'
  <1>1. StateTypeOK(Message) /\ WakeInv /\ ScheduleTypeOK
    BY InvParts
  <1>2. UNCHANGED <<pc, status, state, value, values, lastGain, preference>>
    BY DEF vertexVars, scheduleVars, gainVars
  <1>3. UNCHANGED constraintVars
    BY DEF Next, WorkerStep, DriverStep, Stopped, vars
  <1>4. StateTypeOK(Message)' /\ WakeInv'
    <2>1. CASE DriverStep
      BY <1>1, <1>2, <2>1, DriverWakes DEF DriverStep
    <2>2. ASSUME NEW w \in Workers, WorkerStep(w) PROVE StateTypeOK(Message)' /\ WakeInv'
      <3>1. SignalStep(w, state) \/ BeginBatch(w)
        BY <2>2, ParticipationsOnly DEF WorkerStep, VerticesOf
      <3> QED
        BY <1>1, <1>2, <3>1, SignalStepWakes, BatchWakes, NoSignalIsNoMessage
    <2>3. CASE UNCHANGED vars
      BY <1>1, <1>2, <2>3, NothingWakes DEF vars
    <2> QED
      BY <2>1, <2>2, <2>3 DEF Next, Stopped
  <1>5. ScheduleTypeOK'
    BY <1>1, <1>3 DEF vertexVars, scheduleVars, constraintVars, ScheduleTypeOK, CoreInv
  <1>6. ChoosesInitialized' /\ values' \in [Links -> 0 .. TIMESLOTS]
        /\ lastGain' \in [Vertices -> Int]
    BY <1>2, InvParts DEF MGMInv, ChoosesInitialized
  <1> QED
    BY <1>4, <1>5, <1>6, InvPartsAfter

\* The end of a collect operation after its check, and its way to the choice.
LEMMA ProcessMessagesInv ==
  ASSUME MGMInv, NEW v \in Vertices, value[v] # Absent, v \in toCollect,
         phase \in {"collecting", "computing"}, FailedLook(v) \/ SecondLook(v),
         roundCount' \in [Vertices -> 0 .. MAX_ROUND],
         ProcessMessages(v), UNCHANGED constraintVars
  PROVE  MGMInv'
  <1>1. ScheduleTypeOK /\ StateTypeOK(Message) /\ WakeInv /\ ChoosesInitialized /\ CoreInv
        /\ values \in [Links -> 0 .. TIMESLOTS] /\ lastGain \in [Vertices -> Int]
    BY InvParts DEF ScheduleTypeOK
  <1>2. ScheduleTypeOK'
    <2>1. CoreInv'
      BY <1>1, ProcessMessagesStep, CoreAfterCheck
    <2> QED
      BY <1>1, <2>1 DEF ProcessMessages, constraintVars, ScheduleTypeOK
  <1>3. StateTypeOK(Message)' /\ WakeInv'
    <2>1. \A u \in Vertices \ {v} : status'[u] = status[u]
      BY <1>1, OwnStatus
    <2>2. ValueMessage(value[v]) \in Message /\ GainMessage(lastGain[v]) \in Message
      BY <1>1, Messages, IndexRange DEF ScheduleTypeOK, Index
    <2> QED
      BY <1>1, <2>1, <2>2, FinishCollectWakes, GoOnWakes, NoSignalIsNoMessage
      DEF ProcessMessages, GoOnToChoose
  <1>4. ChoosesInitialized'
    BY <1>1, ProcessMessagesStep DEF ChoosesInitialized, EndOrChoose, CoreInv
  <1>5. values' \in [Links -> 0 .. TIMESLOTS] /\ lastGain' \in [Vertices -> Int]
    BY <1>1, HeardTypes DEF ProcessMessages
  <1> QED
    BY <1>2, <1>3, <1>4, <1>5, InvPartsAfter

LEMMA VertexInv ==
  ASSUME MGMInv, NEW v \in Vertices, VertexStep(v), UNCHANGED constraintVars
  PROVE  MGMInv'
  <1>0. ScheduleTypeOK /\ StateTypeOK(Message) /\ WakeInv /\ ChoosesInitialized /\ CoreInv
        /\ values \in [Links -> 0 .. TIMESLOTS] /\ lastGain \in [Vertices -> Int]
    BY InvParts DEF ScheduleTypeOK
  <1>1. CASE Initialize(v)
    <2>1. v \in toCollect /\ phase \in {"collecting", "computing"}
      BY <1>0, <1>1, Collecting DEF Initialize
    <2>2. preference[v] \in Slots
      BY <1>0 DEF ScheduleTypeOK
    <2>3. ScheduleTypeOK'
      BY <1>0, <1>1, <2>2, RoundRange, IndexRange
      DEF Initialize, FinishCollect, constraintVars, ScheduleTypeOK, Index, CoreInv, PcValues
    <2>4. StateTypeOK(Message)' /\ WakeInv'
      BY <1>0, <1>1, <2>1, <2>2, FinishCollectWakes, Messages, NoSignalIsNoMessage
      DEF Initialize
    <2>5. ChoosesInitialized'
      BY <1>0, <1>1, <2>2 DEF Initialize, FinishCollect, ChoosesInitialized, ScheduleTypeOK,
         Index, CoreInv, Slots, Absent
    <2>6. values' \in [Links -> 0 .. TIMESLOTS] /\ lastGain' \in [Vertices -> Int]
      BY <1>0, <1>1, <2>2, SingleUtilityInt DEF Initialize
    <2> QED
      BY <2>3, <2>4, <2>5, <2>6, InvPartsAfter
  <1>2. CASE CompareMeeting(v)
    <2>1. v \in toCollect /\ phase \in {"collecting", "computing"}
      BY <1>0, <1>2, Collecting DEF CompareMeeting
    <2>2. ScheduleTypeOK'
      <3>1. CoreInv'
        BY <1>0, <1>2, CoreAfterFirstLook DEF CompareMeeting
      <3> QED
        BY <1>0, <1>2, <3>1, RoundRange
        DEF CompareMeeting, FirstLook, constraintVars, ScheduleTypeOK
    <2>3. StateTypeOK(Message)' /\ WakeInv'
      BY <1>0, <1>2, <2>1, GoOnWakes DEF CompareMeeting, FirstLook
    <2>4. ChoosesInitialized'
      BY <1>0, <1>2 DEF CompareMeeting, FirstLook, ChoosesInitialized, CoreInv
    <2> QED
      BY <1>0, <1>2, <2>2, <2>3, <2>4, InvPartsAfter DEF CompareMeeting, gainVars
  <1>3. CASE CompareAgent(v)
    <2>1. pc[v] # "idle"
      BY <1>3 DEF CompareAgent, SecondLook
    <2>2. v \in toCollect /\ phase \in {"collecting", "computing"} /\ value[v] # Absent
      BY <1>0, <2>1, Collecting DEF ChoosesInitialized
    <2>3. roundCount' \in [Vertices -> 0 .. MAX_ROUND]
      BY <1>0, <1>3 DEF CompareAgent, SecondLook, ScheduleTypeOK
    <2> QED
      BY <1>3, <2>2, <2>3, ProcessMessagesInv DEF CompareAgent
  <1>4. CASE Collect(v)
    <2>1. v \in toCollect /\ phase \in {"collecting", "computing"}
      BY <1>0, <1>4, Collecting DEF Collect
    <2>2. roundCount' \in [Vertices -> 0 .. MAX_ROUND]
      BY <1>0, <1>4, RoundRange DEF Collect
    <2> QED
      BY <1>4, <2>1, <2>2, ProcessMessagesInv DEF Collect
  <1>5. CASE ChooseMaximalGain(v)
    <2>1. v \in toCollect /\ phase \in {"collecting", "computing"} /\ value[v] # Absent
      BY <1>0, <1>5, Collecting DEF ChooseMaximalGain, ChoosesInitialized
    <2>2. ScheduleTypeOK'
      <3>1. CoreInv'
        BY <1>0, <1>5, ChoiceStep, CoreAfterChoice DEF ChooseMaximalGain
      <3> QED
        BY <1>0, <1>5, <3>1 DEF ChooseMaximalGain, constraintVars, ScheduleTypeOK
    <2>3. StateTypeOK(Message)' /\ WakeInv'
      BY <1>0, <1>5, <2>1, GoOnWakes DEF ChooseMaximalGain
    <2>4. ChoosesInitialized'
      BY <1>0, <1>5, <2>1 DEF ChooseMaximalGain, ChoosesInitialized, CoreInv
    <2>5. lastGain' \in [Vertices -> Int]
      <3>1. \A c : RegisterIn(value, v, c)[v] \in Slots
        BY <1>0, <2>1, IndexRange DEF RegisterIn, ScheduleTypeOK, Index
      <3> QED
        BY <1>0, <1>5, <3>1, GainUtilitiesInt DEF ChooseMaximalGain
    <2> QED
      BY <1>0, <1>5, <2>2, <2>3, <2>4, <2>5, InvPartsAfter DEF ChooseMaximalGain
  <1>6. CASE RegisterValue(v)
    <2>1. v \in toCollect /\ phase \in {"collecting", "computing"} /\ value[v] # Absent
      BY <1>0, <1>6, Collecting DEF RegisterValue, Register, ChoosesInitialized
    <2>2. ScheduleTypeOK'
      BY <1>0, <1>6, RegisterTypes DEF RegisterValue
    <2>3. StateTypeOK(Message)' /\ WakeInv'
      BY <1>0, <1>6, <2>1, FinishCollectWakes, Messages, NoSignalIsNoMessage
      DEF RegisterValue, Register
    <2>4. ChoosesInitialized'
      BY <1>0, <1>6 DEF RegisterValue, Register, FinishCollect, RegisterIn, ChoosesInitialized,
         ScheduleTypeOK, CoreInv, Index, Slots, Absent
    <2> QED
      BY <1>0, <1>6, <2>2, <2>3, <2>4, InvPartsAfter DEF RegisterValue, gainVars
  <1> QED
    BY <1>1, <1>2, <1>3, <1>4, <1>5, <1>6 DEF VertexStep

LEMMA InvStep == MGMInv /\ [Next]_vars => MGMInv'
  <1> SUFFICES ASSUME MGMInv, [Next]_vars PROVE MGMInv'
    OBVIOUS
  <1>1. CASE \E v \in Vertices : VertexStep(v)
    <2>1. UNCHANGED constraintVars
      BY DEF Next, WorkerStep, DriverStep, Stopped, vars
    <2> QED
      BY <1>1, <2>1, VertexInv
  <1>2. CASE ~ \E v \in Vertices : VertexStep(v)
    BY <1>2, StepCases, EngineStep
  <1> QED
    BY <1>1, <1>2

\* Every field, signal and mailbox entry keeps its type: no vertex indexes its
\* utilities by a slot outside the domain, and nothing else is ever delivered.
THEOREM MGMTypes == Spec => []TypeOK
  <1>1. MGMInv => TypeOK
    BY DEF MGMInv
  <1> QED
    BY <1>1, InitInv, InvStep, PTL DEF Spec

\* The execution never ends between two neighbours that both still want to
\* change, on every graph, in both modes and however workers are scheduled.
THEOREM MGMNoLostWakeup == Spec => []NoLostWakeup
  <1>1. MGMInv => NoLostWakeup
    <2> SUFFICES ASSUME MGMInv, phase = "done", NEW l \in edges,
                        status[l[1]] = "active", status[l[2]] = "active"
                 PROVE  FALSE
      BY DEF NoLostWakeup
    <2>1. edges \subseteq Links
      BY InvParts DEF StateTypeOK, EngineTypeOK
    <2> QED
      BY <2>1, AsleepWhenDone DEF MGMInv, Speaks
  <1> QED
    BY <1>1, InitInv, InvStep, PTL DEF Spec
===============================================================================
