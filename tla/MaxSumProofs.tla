---------------------------- MODULE MaxSumProofs ----------------------------
(***************************************************************************)
(* MaxSum implements SharedSchedule, for every graph, problem, number of   *)
(* workers and execution mode: whatever utilities the functions send, and  *)
(* whatever assignment they make look best.                                *)
(***************************************************************************)
EXTENDS MaxSum, VertexProofs

LEMMA InitCore == Init => CoreInv
  BY InitialCore DEF Init

LEMMA InitRefines == Init => Protocol!Init
  BY InitialRefines DEF Init

\* What a variable does not do itself is invisible to the protocol: the steps
\* of the engine and those of the functions.
Invisible ==
  UNCHANGED <<preference, value, agentIndex, meetingIndex, status, roundCount, pc, candidate>>

LEMMA StepCases ==
  ASSUME [Next]_vars
  PROVE  \/ Invisible
         \/ \E v \in Vertices : VariableStep(v) /\ UNCHANGED preference
  <1>1. CASE UNCHANGED vars
    BY <1>1 DEF vars, constraintVars, scheduleVars, Invisible
  <1>2. CASE DriverStep \/ Stopped
    BY <1>2 DEF DriverStep, Stopped, vars, constraintVars, scheduleVars, Invisible
  <1>3. ASSUME NEW w \in Workers, WorkerStep(w)
        PROVE  \/ Invisible
               \/ \E v \in Vertices : VariableStep(v) /\ UNCHANGED preference
    BY <1>3 DEF WorkerStep, CollectFunction, constraintVars, scheduleVars, Invisible
  <1> QED
    BY <1>1, <1>2, <1>3 DEF Next

\* After the check a collect operation ends or goes on to choose, for an
\* active vertex only; either way the maps stay as they are.
LEMMA ProcessMessagesStep ==
  ASSUME NEW v \in Vertices, ProcessMessages(v)
  PROVE  EndOrChoose(v) /\ UNCHANGED <<value, agentIndex, meetingIndex, candidate>>
  BY DEF ProcessMessages, FinishCollect, GoOnToChoose, EndOrChoose

\* What findBestValueAssignment puts forward is a slot or nothing.
LEMMA ChoiceStep ==
  ASSUME NEW v \in Vertices, FindBestValueAssignment(v)
  PROVE  \E c \in 0 .. TIMESLOTS : candidate' = [candidate EXCEPT ![v] = c]
  <1>1. BestAssignments(v) \subseteq 0 .. TIMESLOTS
    BY IndexRange DEF BestAssignments, OpenSlots
  <1> QED
    BY <1>1 DEF FindBestValueAssignment

LEMMA CoreStep == CoreInv /\ [Next]_vars => CoreInv'
  <1> SUFFICES ASSUME CoreInv, [Next]_vars PROVE CoreInv'
    OBVIOUS
  <1>1. CASE Invisible
    BY <1>1 DEF Invisible, CoreInv
  <1>2. ASSUME NEW v \in Vertices, Initialize(v) PROVE CoreInv'
    BY <1>2 DEF Initialize, FinishCollect, CoreInv, PcValues
  <1>3. ASSUME NEW v \in Vertices, CompareMeeting(v) PROVE CoreInv'
    BY <1>3, CoreAfterFirstLook DEF CompareMeeting
  <1>4. ASSUME NEW v \in Vertices, CompareAgent(v) PROVE CoreInv'
    BY <1>4, ProcessMessagesStep, CoreAfterCheck DEF CompareAgent
  <1>5. ASSUME NEW v \in Vertices, Collect(v) PROVE CoreInv'
    BY <1>5, ProcessMessagesStep, CoreAfterCheck DEF Collect
  <1>6. ASSUME NEW v \in Vertices, FindBestValueAssignment(v) PROVE CoreInv'
    BY <1>6, ChoiceStep, CoreAfterChoice DEF FindBestValueAssignment
  <1>7. ASSUME NEW v \in Vertices, RegisterValue(v) PROVE CoreInv'
    BY <1>7, CoreAfterRegister DEF RegisterValue
  <1> QED
    BY <1>1, <1>2, <1>3, <1>4, <1>5, <1>6, <1>7, StepCases DEF VariableStep

-------------------------------------------------------------------------------

\* Every step of a variable is a step of the protocol, or invisible to it.
LEMMA StepRefines ==
  ASSUME CoreInv, [Next]_vars
  PROVE  [Protocol!Next]_(Protocol!vars)
  <1>1. CASE Invisible
    BY <1>1 DEF Invisible, Protocol!vars, ProtocolPc
  <1>2. ASSUME NEW v \in Vertices, Initialize(v), UNCHANGED preference
        PROVE  Protocol!Initialize(v)
    <2>1. EndOrChoose(v)
      BY <1>2 DEF Initialize, FinishCollect, EndOrChoose
    <2> QED
      BY <1>2, <2>1, StartRefines, ContinueRefines, SameOperators
      DEF Initialize, Protocol!Initialize
  <1>3. ASSUME NEW v \in Vertices, CompareMeeting(v), UNCHANGED preference
        PROVE  Protocol!CompareMeeting(v)
    BY <1>3, FirstLookRefines DEF CompareMeeting
  <1>4. ASSUME NEW v \in Vertices, CompareAgent(v), UNCHANGED preference
        PROVE  Protocol!CompareAgent(v)
    BY <1>4, ProcessMessagesStep, SecondLookRefines DEF CompareAgent
  <1>5. ASSUME NEW v \in Vertices, Collect(v), UNCHANGED preference
        PROVE  Protocol!Collect(v)
    BY <1>5, ProcessMessagesStep, CollectRefines DEF Collect
  <1>6. ASSUME NEW v \in Vertices, FindBestValueAssignment(v), UNCHANGED preference
        PROVE  UNCHANGED Protocol!vars
    <2>1. ProtocolPc' = ProtocolPc
      BY <1>6 DEF FindBestValueAssignment, CoreInv, ProtocolPc
    <2> QED
      BY <1>6, <2>1 DEF FindBestValueAssignment, Protocol!vars
  <1>7. ASSUME NEW v \in Vertices, RegisterValue(v), UNCHANGED preference
        PROVE  Protocol!Register(v)
    BY <1>7, RegisterRefines DEF RegisterValue
  <1> QED
    BY <1>1, <1>2, <1>3, <1>4, <1>5, <1>6, <1>7, StepCases
    DEF VariableStep, Protocol!Next, Protocol!VertexStep

-------------------------------------------------------------------------------

\* Every behaviour of MaxSum, on every graph, is one of the protocol.
THEOREM Refinement == Spec => FollowsProtocol
  BY InitCore, CoreStep, InitRefines, StepRefines, PTL
  DEF Spec, FollowsProtocol, Protocol!Spec

\* MaxSum's converged variables agree on every meeting, whatever the functions
\* have told them.
THEOREM MaxSumAgreement == Spec => []MeetingAgreement
  BY Refinement, AgreementTheorem

\* Converged engagements of an agent that follow each other in its map differ.
THEOREM MaxSumDifference == Spec => []ConsecutiveDifference
  BY Refinement, DifferenceTheorem

\* No variable registers a value after it has gone silent, although its
\* functions go on sending to it.
THEOREM MaxSumFinality == Spec => SilentMeetingIsFinal
  BY Refinement, FinalityTheorem
-------------------------------------------------------------------------------
(***************************************************************************)
(* Types and wake-ups.  A variable is linked with its function, which      *)
(* never falls silent; so a variable that wants to go on is awake, and     *)
(* when the execution ends all have converged.  Then the entries that the  *)
(* protocol makes them agree on are their values.                          *)
(***************************************************************************)

\* Every variable is linked with its own function, among others.
LinkedInv == \A v \in Vertices : <<v, Function(v)>> \in edges

\* The entry of a variable in the meeting's map is its value, or still its
\* preference; and a variable that chooses or has converged holds a value.
EntryInv ==
  \A v \in Vertices :
    /\ meetingIndex[v] = IF value[v] = Absent THEN preference[v] ELSE value[v]
    /\ pc[v] # "idle" \/ status[v] # "active" => value[v] # Absent

MaxSumInv == TypeOK /\ WakeInv /\ LinkedInv /\ EntryInv

LEMMA InvParts ==
  MaxSumInv <=> /\ ScheduleTypeOK /\ StateTypeOK(Message)
                /\ WakeInv /\ LinkedInv /\ EntryInv
  BY TypeParts DEF MaxSumInv, TypeOK

\* What is to be shown of a step, part by part.
LEMMA InvPartsAfter ==
  ASSUME ScheduleTypeOK', StateTypeOK(Message)', WakeInv', LinkedInv', EntryInv'
  PROVE  MaxSumInv'
  BY DEF MaxSumInv, TypeOK, VertexTypeOK, ScheduleTypeOK, StateTypeOK, CoreInv, PcValues

\* A function is a vertex of the graph, but not a participation.
LEMMA FunctionIsNode ==
  ASSUME NEW v \in Vertices
  PROVE  Function(v) \in Nodes /\ Function(v) \notin Vertices
  <1>1. Function(v) \in Nodes
    BY VariablesAndFunctions DEF Functions
  <1>2. Function(v) \notin Agents \X Meetings
    BY DEF Function
  <1> QED
    BY <1>1, <1>2, VerticesAssumption

LEMMA InitInv == Init => MaxSumInv
  <1> SUFFICES ASSUME Init PROVE MaxSumInv
    OBVIOUS
  <1>1. \A v \in Vertices : FunctionsOf(v) \subseteq Nodes
    BY VariablesAndFunctions DEF FunctionsOf, Functions, Participants
  <1>2. edges \subseteq Links /\ \A l \in edges : Back(l) \in edges
    <2>1. edges \subseteq Links
      BY <1>1, NodesAssumption DEF Init, Links
    <2>2. ASSUME NEW l \in edges PROVE Back(l) \in edges
      <3>1. PICK v \in Vertices : l \in ({v} \X FunctionsOf(v)) \cup (FunctionsOf(v) \X {v})
        BY <2>2 DEF Init
      <3>2. Back(l) \in ({v} \X FunctionsOf(v)) \cup (FunctionsOf(v) \X {v})
        BY <3>1 DEF Back
      <3> QED
        BY <3>2 DEF Init
    <2> QED
      BY <2>1, <2>2
  <1>3. ScheduleTypeOK /\ StateTypeOK(Message)
    BY <1>2, InitialTypes DEF Init, Message
  <1>4. WakeInv
    BY <1>2, InitialWake DEF Init
  <1>5. LinkedInv
    <2> SUFFICES ASSUME NEW v \in Vertices PROVE <<v, Function(v)>> \in edges
      BY DEF LinkedInv
    <2>1. Function(v) \in FunctionsOf(v)
      BY DEF FunctionsOf, Participants
    <2> QED
      BY <2>1 DEF Init
  <1>6. EntryInv
    BY DEF Init, VertexInit, EntryInv
  <1> QED
    BY <1>3, <1>4, <1>5, <1>6, InvParts

\* The steps of the engine alone, and those of the functions.
LEMMA InvisibleInv ==
  ASSUME MaxSumInv, [Next]_vars, Invisible, ~ \E v \in Vertices : VariableStep(v)
  PROVE  MaxSumInv'
  <1>1. StateTypeOK(Message) /\ WakeInv /\ ScheduleTypeOK /\ LinkedInv /\ EntryInv
    BY InvParts
  <1>2. UNCHANGED <<constraintVars, free, edges>>
    BY DEF Next, WorkerStep, DriverStep, Stopped, vars, scheduleVars, engineVars, SignalStep,
       BeginBatch, CollectFunction, Finish, SignalStepDone, CollectStepDone, BecomeIdle
  <1>3. StateTypeOK(Message)' /\ WakeInv'
    <2>1. CASE DriverStep
      BY <1>1, <2>1, DriverWakes DEF DriverStep, scheduleVars
    <2>2. ASSUME NEW w \in Workers, SignalStep(w, state) \/ BeginBatch(w), UNCHANGED scheduleVars
          PROVE  StateTypeOK(Message)' /\ WakeInv'
      BY <1>1, <2>2, SignalStepWakes, BatchWakes, NoSignalIsNoMessage DEF scheduleVars
    <2>3. ASSUME NEW f \in Functions, CollectFunction(f)
          PROVE  StateTypeOK(Message)' /\ WakeInv'
      <3>1. f \in Nodes
        BY VariablesAndFunctions
      <3>2. Handles(f)
        BY <2>3 DEF CollectFunction, MayCollect, Handles
      <3>3. PICK message \in Passed(f) : state' = [state EXCEPT ![f] = message]
        BY <2>3 DEF CollectFunction
      <3>4. message \in Message
        BY <3>3 DEF Passed, Message
      <3>5. f \in Vertices => pc'[f] = "idle"
        BY <2>3, <3>1 DEF CollectFunction, VerticesOf
      <3>6. Finish(f, state', 1)
        BY <2>3 DEF CollectFunction, FunctionScore
      <3>7. 1 \in Int /\ (Speaks(f)' => 1 > 0)
        OBVIOUS
      <3> QED
        BY <1>1, <3>1, <3>2, <3>3, <3>4, <3>5, <3>6, <3>7, FinishWakes, NoSignalIsNoMessage, Zenon
    <2>4. CASE UNCHANGED vars
      BY <1>1, <2>4, NothingWakes DEF vars, scheduleVars
    <2> QED
      BY <2>1, <2>2, <2>3, <2>4 DEF Next, WorkerStep, Stopped
  <1>4. ScheduleTypeOK'
    BY <1>1, <1>2 DEF Invisible, constraintVars, ScheduleTypeOK, CoreInv
  <1>5. LinkedInv' /\ EntryInv'
    BY <1>1, <1>2 DEF Invisible, LinkedInv, EntryInv
  <1> QED
    BY <1>3, <1>4, <1>5, InvPartsAfter

\* The end of a collect operation after its check, and its way to the choice.
LEMMA ProcessMessagesInv ==
  ASSUME MaxSumInv, NEW v \in Vertices, value[v] # Absent, v \in toCollect,
         phase \in {"collecting", "computing"}, FailedLook(v) \/ SecondLook(v),
         roundCount' \in [Vertices -> 0 .. MAX_ROUND],
         ProcessMessages(v), UNCHANGED constraintVars
  PROVE  MaxSumInv'
  <1>1. ScheduleTypeOK /\ StateTypeOK(Message) /\ WakeInv /\ LinkedInv /\ EntryInv /\ CoreInv
    BY InvParts DEF ScheduleTypeOK
  <1>2. ScheduleTypeOK'
    <2>1. CoreInv'
      BY <1>1, ProcessMessagesStep, CoreAfterCheck
    <2> QED
      BY <1>1, <2>1 DEF ProcessMessages, constraintVars, ScheduleTypeOK
  <1>3. \A u \in Vertices \ {v} : status'[u] = status[u]
    BY <1>1, OwnStatus
  <1>4. StateTypeOK(Message)' /\ WakeInv'
    <2>1. Built(v) \in Message
      BY DEF Built, Message
    <2> QED
      BY <1>1, <1>3, <2>1, FinishCollectWakes, GoOnWakes, NoSignalIsNoMessage
      DEF ProcessMessages, GoOnToChoose
  <1>5. LinkedInv'
    BY <1>1 DEF ProcessMessages, GoOnToChoose, FinishCollect, Finish, engineVars, LinkedInv
  <1>6. EntryInv'
    BY <1>1, <1>3, ProcessMessagesStep DEF EntryInv, EndOrChoose, CoreInv, constraintVars
  <1> QED
    BY <1>2, <1>4, <1>5, <1>6, InvPartsAfter

LEMMA VariableInv ==
  ASSUME MaxSumInv, NEW v \in Vertices, VariableStep(v), UNCHANGED constraintVars
  PROVE  MaxSumInv'
  <1>0. ScheduleTypeOK /\ StateTypeOK(Message) /\ WakeInv /\ LinkedInv /\ EntryInv /\ CoreInv
    BY InvParts DEF ScheduleTypeOK
  <1>1. CASE Initialize(v)
    <2>1. v \in toCollect /\ phase \in {"collecting", "computing"}
      BY <1>0, <1>1, Collecting DEF Initialize
    <2>2. preference[v] \in Slots
      BY <1>0 DEF ScheduleTypeOK
    <2>3. ScheduleTypeOK'
      BY <1>0, <1>1, <2>2, RoundRange, IndexRange
      DEF Initialize, FinishCollect, constraintVars, ScheduleTypeOK, Index, CoreInv, PcValues
    <2>4. OwnUtilities \in Message
      BY DEF Message
    <2>5. StateTypeOK(Message)' /\ WakeInv'
      BY <1>0, <1>1, <2>1, <2>4, FinishCollectWakes, NoSignalIsNoMessage DEF Initialize
    <2>6. LinkedInv'
      BY <1>0, <1>1 DEF Initialize, FinishCollect, Finish, LinkedInv
    <2>7. meetingIndex[v] = preference[v]
      BY <1>0, <1>1 DEF Initialize, EntryInv
    <2>8. EntryInv'
      BY <1>0, <1>1, <2>2, <2>7 DEF Initialize, FinishCollect, EntryInv, ScheduleTypeOK, constraintVars,
         Index, CoreInv, Slots, Absent
    <2> QED
      BY <2>3, <2>5, <2>6, <2>8, InvPartsAfter
  <1>2. CASE CompareMeeting(v)
    <2>1. v \in toCollect /\ phase \in {"collecting", "computing"}
      BY <1>0, <1>2, Collecting DEF CompareMeeting
    <2>2. ScheduleTypeOK'
      <3>1. CoreInv'
        BY <1>0, <1>2, CoreAfterFirstLook DEF CompareMeeting
      <3> QED
        BY <1>0, <1>2, <3>1, RoundRange
        DEF CompareMeeting, FirstLook, constraintVars, ScheduleTypeOK
    <2>3. StateTypeOK(Message)' /\ WakeInv'
      BY <1>0, <1>2, <2>1, GoOnWakes DEF CompareMeeting, FirstLook
    <2>4. LinkedInv' /\ EntryInv'
      BY <1>0, <1>2 DEF CompareMeeting, FirstLook, EntryInv, LinkedInv, CoreInv, engineVars, constraintVars
    <2> QED
      BY <2>2, <2>3, <2>4, InvPartsAfter
  <1>3. CASE CompareAgent(v)
    <2>1. pc[v] # "idle"
      BY <1>3 DEF CompareAgent, SecondLook
    <2>2. v \in toCollect /\ phase \in {"collecting", "computing"} /\ value[v] # Absent
      BY <1>0, <2>1, Collecting DEF EntryInv
    <2>3. roundCount' \in [Vertices -> 0 .. MAX_ROUND]
      BY <1>0, <1>3 DEF CompareAgent, SecondLook, ScheduleTypeOK
    <2> QED
      BY <1>3, <2>2, <2>3, ProcessMessagesInv DEF CompareAgent
  <1>4. CASE Collect(v)
    <2>1. v \in toCollect /\ phase \in {"collecting", "computing"}
      BY <1>0, <1>4, Collecting DEF Collect
    <2>2. roundCount' \in [Vertices -> 0 .. MAX_ROUND]
      BY <1>0, <1>4, RoundRange DEF Collect
    <2> QED
      BY <1>4, <2>1, <2>2, ProcessMessagesInv DEF Collect
  <1>5. CASE FindBestValueAssignment(v)
    <2>1. v \in toCollect /\ phase \in {"collecting", "computing"} /\ value[v] # Absent
      BY <1>0, <1>5, Collecting DEF FindBestValueAssignment, EntryInv
    <2>2. ScheduleTypeOK'
      <3>1. CoreInv'
        BY <1>0, <1>5, ChoiceStep, CoreAfterChoice DEF FindBestValueAssignment
      <3> QED
        BY <1>0, <1>5, <3>1 DEF FindBestValueAssignment, constraintVars, ScheduleTypeOK
    <2>3. StateTypeOK(Message)' /\ WakeInv'
      BY <1>0, <1>5, <2>1, GoOnWakes DEF FindBestValueAssignment
    <2>4. LinkedInv' /\ EntryInv'
      BY <1>0, <1>5, <2>1 DEF FindBestValueAssignment, EntryInv, LinkedInv, CoreInv, engineVars,
         constraintVars
    <2> QED
      BY <2>2, <2>3, <2>4, InvPartsAfter
  <1>6. CASE RegisterValue(v)
    <2>1. v \in toCollect /\ phase \in {"collecting", "computing"} /\ value[v] # Absent
      BY <1>0, <1>6, Collecting DEF RegisterValue, Register, EntryInv
    <2>2. ScheduleTypeOK'
      BY <1>0, <1>6, RegisterTypes DEF RegisterValue
    <2>3. Built(v) \in Message
      BY DEF Built, Message
    <2>4. StateTypeOK(Message)' /\ WakeInv'
      BY <1>0, <1>6, <2>1, <2>3, FinishCollectWakes, NoSignalIsNoMessage
      DEF RegisterValue, Register
    <2>5. LinkedInv'
      BY <1>0, <1>6 DEF RegisterValue, Register, FinishCollect, Finish, LinkedInv
    <2>6. EntryInv'
      BY <1>0, <1>6 DEF RegisterValue, Register, FinishCollect, RegisterIn, EntryInv,
         constraintVars, ScheduleTypeOK, CoreInv, Index, Slots, Absent
    <2> QED
      BY <2>2, <2>4, <2>5, <2>6, InvPartsAfter
  <1> QED
    BY <1>1, <1>2, <1>3, <1>4, <1>5, <1>6 DEF VariableStep

LEMMA InvStep == MaxSumInv /\ [Next]_vars => MaxSumInv'
  <1> SUFFICES ASSUME MaxSumInv, [Next]_vars PROVE MaxSumInv'
    OBVIOUS
  <1>1. CASE \E v \in Vertices : VariableStep(v)
    <2>1. UNCHANGED constraintVars
      BY DEF Next, WorkerStep, DriverStep, Stopped, vars
    <2> QED
      BY <1>1, <2>1, VariableInv
  <1>2. CASE ~ \E v \in Vertices : VariableStep(v)
    BY <1>2, StepCases, InvisibleInv
  <1> QED
    BY <1>1, <1>2

\* The invariant holds throughout.
LEMMA Invariance == Spec => []MaxSumInv
  BY InitInv, InvStep, PTL DEF Spec

LEMMA EverybodySilentWhenDone == MaxSumInv => NobodyLeftBehind
  <1> SUFFICES ASSUME MaxSumInv, phase = "done", NEW v \in Vertices, status[v] = "active"
               PROVE  FALSE
    BY DEF NobodyLeftBehind
  <1>1. edges \subseteq Links /\ <<v, Function(v)>> \in edges /\ WakeInv
    BY InvParts DEF StateTypeOK, EngineTypeOK, LinkedInv
  <1>2. Speaks(v) /\ Speaks(Function(v))
    BY FunctionIsNode DEF Speaks
  <1> QED
    BY <1>1, <1>2, AsleepWhenDone

\* Every field, signal and mailbox entry of MaxSum keeps its type.
THEOREM MaxSumTypes == Spec => []TypeOK
  <1>1. MaxSumInv => TypeOK
    BY DEF MaxSumInv
  <1> QED
    BY <1>1, Invariance, PTL

\* When a MaxSum execution ends no variable is left active, on every graph, in
\* both modes and however the workers are scheduled.
THEOREM MaxSumNobodyLeftBehind == Spec => []NobodyLeftBehind
  BY Invariance, EverybodySilentWhenDone, PTL

\* When a MaxSum execution ends before a round limit, all participants of a
\* meeting hold the same slot.
THEOREM MaxSumSameTimeslot == Spec => []FinishedOnSameTimeslot
  <1>1. MaxSumInv /\ MeetingAgreement => FinishedOnSameTimeslot
    <2> SUFFICES ASSUME MaxSumInv, MeetingAgreement, phase = "done",
                        \A v \in Vertices : status[v] # "exhausted",
                        NEW m \in Meetings, NEW u \in Participants(m), NEW w \in Participants(m)
                 PROVE  value[u] = value[w]
      BY DEF FinishedOnSameTimeslot
    <2>1. ASSUME NEW v \in Participants(m)
          PROVE  /\ v \in Vertices /\ status[v] = "agreed"
                 /\ meetingIndex[v] = value[v] /\ value[v] # Absent
      <3>1. v \in Vertices
        BY DEF Participants
      <3>2. status[v] = "agreed"
        BY <3>1, EverybodySilentWhenDone, InvParts
        DEF NobodyLeftBehind, ScheduleTypeOK, CoreInv, Status
      <3> QED
        BY <3>1, <3>2, InvParts DEF EntryInv
    <2> QED
      BY <2>1 DEF MeetingAgreement, Protocol!MeetingAgreement, Protocol!Registered,
         Protocol!AgreedOf, Protocol!Participants, Protocol!MeetingOf, Protocol!Absent,
         Participants, MeetingOf, Absent
  <1> QED
    BY <1>1, Invariance, MaxSumAgreement, PTL

===============================================================================
