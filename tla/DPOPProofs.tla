----------------------------- MODULE DPOPProofs -----------------------------
(***************************************************************************)
(* DPOP implements SharedSchedule, for every graph, leader, problem,       *)
(* number of workers and execution mode, although its messages are         *)
(* references into maps that their senders go on changing.  Unlike in the  *)
(* other algorithms a candidate may come out of such a map, so CoreInv is  *)
(* not inductive by itself: DPOPInv also bounds the leader's values.       *)
(***************************************************************************)
EXTENDS DPOP, VertexProofs, FiniteSetTheorems, WellFoundedInduction

ValuesInRange == values \in [Meetings -> NoKey .. TIMESLOTS]

DPOPInv == CoreInv /\ ValuesInRange

LEMMA InitCore == Init => DPOPInv
  BY InitialCore, TimeslotsAssumption DEF Init, DPOPInv, ValuesInRange, NoKey

LEMMA InitRefines == Init => Protocol!Init
  BY InitialRefines DEF Init

\* The steps of the engine alone leave the vertices as they are.
LEMMA StepCases ==
  ASSUME [Next]_vars
  PROVE  \/ UNCHANGED <<preference, vertexVars>>
         \/ \E v \in Vertices : VertexStep(v) /\ UNCHANGED preference
  BY ParticipationsOnly DEF Next, WorkerStep, DriverStep, Stopped, vars, constraintVars, VerticesOf

\* After the check a collect operation ends or goes on to choose, for an
\* active vertex only; either way the leader's values stay as they are.
LEMMA ProcessMessagesStep ==
  ASSUME NEW v \in Vertices, ProcessMessages(v)
  PROVE  EndOrChoose(v) /\ UNCHANGED <<candidate, values>>
  BY DEF ProcessMessages, FinishCollect, GoOnToChoose, EndOrChoose

\* What chooseOptimal puts forward is a slot or nothing: its own choice, or
\* what the leader's values say, which may be that no slot was found.
LEMMA ChoiceStep ==
  ASSUME DPOPInv, NEW v \in Vertices, ChooseOptimal(v)
  PROVE  \E c \in 0 .. TIMESLOTS : candidate' = [candidate EXCEPT ![v] = c]
  <1>1. CASE ChooseAtLeader(v)
    BY <1>1, FindMaxValueRange DEF ChooseAtLeader
  <1>2. CASE ChooseBelow(v)
    <2>1. MeetingOf(v) \in Meetings
      BY VerticesAssumption DEF MeetingOf
    <2>2. values[MeetingOf(v)] # NoKey => values[MeetingOf(v)] \in 0 .. TIMESLOTS
      BY <2>1, TimeslotsAssumption DEF DPOPInv, ValuesInRange, NoKey
    <2> QED
      BY <1>2, <2>2, FindMaxValueRange DEF ChooseBelow
  <1> QED
    BY <1>1, <1>2 DEF ChooseOptimal

LEMMA ValuesStep == DPOPInv /\ [Next]_vars => ValuesInRange'
  <1> SUFFICES ASSUME DPOPInv, [Next]_vars PROVE ValuesInRange'
    OBVIOUS
  <1>1. CASE UNCHANGED <<preference, vertexVars>>
    BY <1>1 DEF vertexVars, treeVars, DPOPInv, ValuesInRange
  <1>2. ASSUME NEW v \in Vertices, Initialize(v) \/ CompareAgent(v) \/ Collect(v)
        PROVE  ValuesInRange'
    BY <1>2, ProcessMessagesStep
    DEF Initialize, CompareAgent, Collect, DPOPInv, ValuesInRange
  <1>3. ASSUME NEW v \in Vertices, CompareMeeting(v) \/ ChooseOptimal(v)
        PROVE  ValuesInRange'
    BY <1>3 DEF CompareMeeting, ChooseOptimal, treeVars, DPOPInv, ValuesInRange
  <1>4. ASSUME NEW v \in Vertices, RegisterValue(v) PROVE ValuesInRange'
    <2>1. candidate[v] \in NoKey .. TIMESLOTS
      BY TimeslotsAssumption DEF DPOPInv, CoreInv, Index, NoKey
    <2> QED
      BY <1>4, <2>1 DEF RegisterValue, DPOPInv, ValuesInRange
  <1> QED
    BY <1>1, <1>2, <1>3, <1>4, StepCases DEF VertexStep

LEMMA CoreStep == DPOPInv /\ [Next]_vars => CoreInv'
  <1> SUFFICES ASSUME DPOPInv, [Next]_vars PROVE CoreInv'
    OBVIOUS
  <1>0. CoreInv
    BY DEF DPOPInv
  <1>1. CASE UNCHANGED <<preference, vertexVars>>
    BY <1>0, <1>1 DEF vertexVars, scheduleVars, CoreInv
  <1>2. ASSUME NEW v \in Vertices, Initialize(v) PROVE CoreInv'
    BY <1>0, <1>2, ProcessMessagesStep, CoreAfterCheck DEF Initialize
  <1>3. ASSUME NEW v \in Vertices, CompareMeeting(v) PROVE CoreInv'
    BY <1>0, <1>3, CoreAfterFirstLook DEF CompareMeeting
  <1>4. ASSUME NEW v \in Vertices, CompareAgent(v) PROVE CoreInv'
    BY <1>0, <1>4, ProcessMessagesStep, CoreAfterCheck DEF CompareAgent
  <1>5. ASSUME NEW v \in Vertices, Collect(v) PROVE CoreInv'
    BY <1>0, <1>5, ProcessMessagesStep, CoreAfterCheck DEF Collect
  <1>6. ASSUME NEW v \in Vertices, ChooseOptimal(v) PROVE CoreInv'
    BY <1>0, <1>6, ChoiceStep, CoreAfterChoice DEF ChooseOptimal
  <1>7. ASSUME NEW v \in Vertices, RegisterValue(v) PROVE CoreInv'
    BY <1>0, <1>7, CoreAfterRegister DEF RegisterValue
  <1> QED
    BY <1>1, <1>2, <1>3, <1>4, <1>5, <1>6, <1>7, StepCases DEF VertexStep

-------------------------------------------------------------------------------

\* Every step of a vertex is a step of the protocol, or invisible to it.
LEMMA StepRefines ==
  ASSUME DPOPInv, [Next]_vars
  PROVE  [Protocol!Next]_(Protocol!vars)
  <1>0. CoreInv
    BY DEF DPOPInv
  <1>1. CASE UNCHANGED <<preference, vertexVars>>
    BY <1>1 DEF vertexVars, scheduleVars, Protocol!vars, ProtocolPc
  <1>2. ASSUME NEW v \in Vertices, Initialize(v), UNCHANGED preference
        PROVE  Protocol!Initialize(v)
    BY <1>0, <1>2, ProcessMessagesStep, StartRefines, ContinueRefines, SameOperators
    DEF Initialize, Protocol!Initialize
  <1>3. ASSUME NEW v \in Vertices, CompareMeeting(v), UNCHANGED preference
        PROVE  Protocol!CompareMeeting(v)
    BY <1>0, <1>3, FirstLookRefines DEF CompareMeeting
  <1>4. ASSUME NEW v \in Vertices, CompareAgent(v), UNCHANGED preference
        PROVE  Protocol!CompareAgent(v)
    BY <1>0, <1>4, ProcessMessagesStep, SecondLookRefines DEF CompareAgent
  <1>5. ASSUME NEW v \in Vertices, Collect(v), UNCHANGED preference
        PROVE  Protocol!Collect(v)
    BY <1>0, <1>5, ProcessMessagesStep, CollectRefines DEF Collect
  <1>6. ASSUME NEW v \in Vertices, ChooseOptimal(v), UNCHANGED preference
        PROVE  UNCHANGED Protocol!vars
    <2>1. ProtocolPc' = ProtocolPc
      BY <1>0, <1>6 DEF ChooseOptimal, CoreInv, ProtocolPc
    <2> QED
      BY <1>6, <2>1 DEF ChooseOptimal, Protocol!vars
  <1>7. ASSUME NEW v \in Vertices, RegisterValue(v), UNCHANGED preference
        PROVE  Protocol!Register(v)
    BY <1>0, <1>7, RegisterRefines DEF RegisterValue
  <1> QED
    BY <1>1, <1>2, <1>3, <1>4, <1>5, <1>6, <1>7, StepCases
    DEF VertexStep, Protocol!Next, Protocol!VertexStep

-------------------------------------------------------------------------------

\* Every behaviour of DPOP, on every graph and below every leader, is one of the protocol.
THEOREM Refinement == Spec => FollowsProtocol
  BY InitCore, CoreStep, ValuesStep, InitRefines, StepRefines, PTL
  DEF Spec, FollowsProtocol, Protocol!Spec, DPOPInv

\* DPOP's converged vertices agree on every meeting, although a vertex may take
\* over a slot from a map that another is about to overwrite.
THEOREM DPOPAgreement == Spec => []MeetingAgreement
  BY Refinement, AgreementTheorem

\* An agent with two converged engagements is not double-booked.
THEOREM DPOPDifference == Spec => []TwoEngagementsDiffer
  BY Refinement, TwoEngagementsTheorem

\* No DPOP vertex registers a value after it has gone silent.
THEOREM DPOPFinality == Spec => SilentMeetingIsFinal
  BY Refinement, FinalityTheorem
-------------------------------------------------------------------------------
(***************************************************************************)
(* Utilities.  The leader adds up what its children have computed, with a  *)
(* fold over a set: that the fold is defined and its result a number is an *)
(* induction over the cardinality.  The library's induction theorems take  *)
(* an operator, which no prover can instantiate; the one below takes a set *)
(* and rests on WFMin, that a well-founded order has minima.               *)
(***************************************************************************)

Less == OpToRel(<, Nat)

LEMMA NatSetInduction ==
  ASSUME NEW Good, 0 \in Good, \A n \in Nat : n \in Good => n + 1 \in Good
  PROVE  Nat \subseteq Good
  <1> SUFFICES ASSUME ~ (Nat \subseteq Good) PROVE FALSE
    OBVIOUS
  <1> DEFINE Bad == {n \in Nat : n \notin Good}
  <1>1. IsWellFoundedOn(Less, Nat)
    BY NatLessThanWellFounded DEF Less
  <1>2. PICK n \in Bad : \A m \in Bad : ~ (<<m, n>> \in Less)
    <2>1. Bad \subseteq Nat /\ Bad # {}
      OBVIOUS
    <2> HIDE DEF Bad
    <2> QED BY <2>1, <1>1, WFMin
  <1>3. n # 0 /\ n - 1 \in Nat /\ n - 1 < n
    OBVIOUS
  <1>4. <<n - 1, n>> \in Less
    BY <1>3 DEF Less, OpToRel
  <1>5. n - 1 \in Good
    BY <1>2, <1>3, <1>4
  <1> QED BY <1>2, <1>3, <1>5

One(S) == CHOOSE x \in S : TRUE

\* What the fold computes for every set of children T in S, at the slot s.
AddsUp(total, S, s) ==
  total = [T \in SUBSET S |-> IF T = {} THEN 0 ELSE utilities[One(T)][s] + total[T \ {One(T)}]]

\* The subsets of S by their cardinality.
Small(S, n) == {T \in SUBSET S : Cardinality(T) <= n}

LEMMA SmallSets ==
  ASSUME NEW S, IsFiniteSet(S)
  PROVE  /\ Small(S, 0) = {{}}
         /\ Cardinality(S) \in Nat /\ Small(S, Cardinality(S)) = SUBSET S
         /\ \A n \in Nat : Small(S, n) \subseteq Small(S, n + 1)
         /\ \A n \in Nat : \A T \in Small(S, n + 1) :
              T # {} => One(T) \in S /\ T \ {One(T)} \in Small(S, n)
  <1>1. \A T \in SUBSET S : IsFiniteSet(T) /\ Cardinality(T) \in Nat
    BY FS_Subset, FS_CardinalityType
  <1>2. ASSUME NEW n \in Nat, NEW T \in Small(S, n + 1), T # {}
        PROVE  One(T) \in S /\ T \ {One(T)} \in Small(S, n)
    <2>1. One(T) \in T
      BY <1>2 DEF One
    <2>2. T \in SUBSET S /\ Cardinality(T) <= n + 1
      BY DEF Small
    <2>3. Cardinality(T \ {One(T)}) = Cardinality(T) - 1
      BY <1>1, <2>1, <2>2, FS_RemoveElement
    <2> QED BY <1>1, <2>1, <2>2, <2>3 DEF Small
  <1>3. Small(S, 0) = {{}}
    BY <1>1, FS_EmptySet DEF Small
  <1>4. Small(S, Cardinality(S)) = SUBSET S
    BY FS_Subset DEF Small
  <1>5. \A n \in Nat : Small(S, n) \subseteq Small(S, n + 1)
    BY <1>1 DEF Small
  <1> QED BY <1>1, <1>2, <1>3, <1>4, <1>5

LEMMA TotalExists ==
  ASSUME NEW S, IsFiniteSet(S), NEW s
  PROVE  \E total : AddsUp(total, S, s)
  <1> DEFINE Sum(g, T) == IF T = {} THEN 0 ELSE utilities[One(T)][s] + g[T \ {One(T)}]
             Good == {n \in Nat : \E g : g = [T \in Small(S, n) |-> Sum(g, T)]}
  <1>1. 0 \in Good
    <2> DEFINE g == [T \in Small(S, 0) |-> 0]
    <2>1. g = [T \in Small(S, 0) |-> Sum(g, T)]
      BY SmallSets
    <2> QED BY <2>1
  <1>2. ASSUME NEW n \in Nat, n \in Good PROVE n + 1 \in Good
    <2>1. PICK g : g = [T \in Small(S, n) |-> Sum(g, T)]
      BY <1>2
    <2> DEFINE h == [T \in Small(S, n + 1) |-> Sum(g, T)]
    <2>2. \A T \in Small(S, n) : h[T] = g[T]
      BY <2>1, SmallSets
    <2>3. \A T \in Small(S, n + 1) : Sum(g, T) = Sum(h, T)
      BY <2>2, SmallSets
    <2>4. h = [T \in Small(S, n + 1) |-> Sum(h, T)]
      BY <2>3
    <2> HIDE DEF h, Sum
    <2> QED BY <2>4
  <1>3. Cardinality(S) \in Good
    <2> HIDE DEF Good
    <2> QED BY <1>1, <1>2, NatSetInduction, SmallSets
  <1>4. PICK g : g = [T \in SUBSET S |-> Sum(g, T)]
    <2>1. Small(S, Cardinality(S)) = SUBSET S
      BY SmallSets
    <2> HIDE DEF Sum
    <2> QED BY <1>3, <2>1
  <1>5. AddsUp(g, S, s)
    BY <1>4 DEF AddsUp
  <1> QED BY <1>5

LEMMA TotalNat ==
  ASSUME NEW S, IsFiniteSet(S), NEW s, \A u \in S : utilities[u][s] \in Nat
  PROVE  SumOfUtilities(S, s) \in Nat
  <1>1. SumOfUtilities(S, s) =
          (CHOOSE total : total = [T \in SUBSET S |->
             IF T = {} THEN 0
             ELSE utilities[CHOOSE x \in T : TRUE][s] + total[T \ {CHOOSE x \in T : TRUE}]])[S]
    BY DEF SumOfUtilities, MapThenSumSet, MapThenFoldSet
  <1>2. PICK total : AddsUp(total, S, s) /\ SumOfUtilities(S, s) = total[S]
    <2>1. SumOfUtilities(S, s) = (CHOOSE t : AddsUp(t, S, s))[S]
      BY <1>1 DEF AddsUp, One
    <2> QED BY <2>1, TotalExists
  <1> DEFINE Good == {n \in Nat : \A T \in Small(S, n) : total[T] \in Nat}
  <1>3. 0 \in Good
    BY <1>2, SmallSets DEF AddsUp
  <1>4. ASSUME NEW n \in Nat, n \in Good PROVE n + 1 \in Good
    <2> SUFFICES ASSUME NEW T \in Small(S, n + 1) PROVE total[T] \in Nat
      OBVIOUS
    <2>1. T \in SUBSET S
      BY DEF Small
    <2>2. CASE T = {}
      BY <1>2, <2>1, <2>2 DEF AddsUp
    <2>3. CASE T # {}
      <3>1. One(T) \in S /\ T \ {One(T)} \in Small(S, n)
        BY <2>3, SmallSets
      <3>2. utilities[One(T)][s] \in Nat /\ total[T \ {One(T)}] \in Nat
        BY <1>4, <3>1
      <3>3. total[T] = utilities[One(T)][s] + total[T \ {One(T)}]
        BY <1>2, <2>1, <2>3 DEF AddsUp
      <3> QED BY <3>2, <3>3
    <2> QED BY <2>2, <2>3
  <1>5. Cardinality(S) \in Good
    <2> HIDE DEF Good
    <2> QED BY <1>3, <1>4, NatSetInduction, SmallSets
  <1>6. S \in Small(S, Cardinality(S))
    BY SmallSets
  <1> QED BY <1>2, <1>5, <1>6

UtilitiesOK == utilities \in [Vertices -> [Slots -> Nat]]

\* No utility is negative: a slot of the domain is no later than the last one.
LEMMA LeafUtilitiesNat ==
  ASSUME NEW v
  PROVE  LeafUtilities(v) \in [Slots -> Nat]
  <1> SUFFICES ASSUME NEW s \in Slots PROVE SingleUtility(agentIndex, v, Calendar(v), s) \in Nat
    BY DEF LeafUtilities, AllUtilities
  <1>1. CalendarUtility(Calendar(v), s) \in Nat
    BY TimeslotsAssumption DEF CalendarUtility, UtilityUnit
  <1> QED
    BY <1>1, TimeslotsAssumption DEF SingleUtility, Slots

LEMMA MergedUtilitiesNat ==
  ASSUME UtilitiesOK
  PROVE  MergedUtilities \in [Slots -> Nat]
  <1> SUFFICES ASSUME NEW s \in Slots
               PROVE  LeafUtilities(leader)[s] + SumOfUtilities(Neighbours(leader), s) \in Nat
    BY DEF MergedUtilities
  <1>1. IsFiniteSet(Neighbours(leader)) /\ Neighbours(leader) \subseteq Vertices
    BY FinitelyMany, FS_Subset DEF Neighbours, Participants
  <1>2. SumOfUtilities(Neighbours(leader), s) \in Nat
    BY <1>1, TotalNat DEF UtilitiesOK
  <1>3. LeafUtilities(leader)[s] \in Nat
    BY LeafUtilitiesNat
  <1> QED
    BY <1>2, <1>3

LEMMA UtilitiesStep ==
  ASSUME UtilitiesOK, [Next]_vars
  PROVE  UtilitiesOK'
  <1>1. CASE UNCHANGED <<preference, vertexVars>>
    BY <1>1 DEF vertexVars, treeVars, UtilitiesOK
  <1>2. ASSUME NEW v \in Vertices, ProcessMessages(v) PROVE UtilitiesOK'
    BY <1>2, LeafUtilitiesNat DEF ProcessMessages, UtilitiesOK
  <1>3. ASSUME NEW v \in Vertices, ChooseOptimal(v) PROVE UtilitiesOK'
    <2>1. CASE ChooseAtLeader(v)
      <3>1. utilities' = [utilities EXCEPT ![v] = MergedUtilities]
        BY <2>1 DEF ChooseAtLeader
      <3> QED
        BY <3>1, MergedUtilitiesNat DEF UtilitiesOK
    <2>2. CASE ChooseBelow(v)
      <3>1. \/ UNCHANGED utilities
            \/ utilities' = [utilities EXCEPT ![v] = LeafUtilities(v)]
        BY <2>2 DEF ChooseBelow
      <3> QED
        BY <3>1, LeafUtilitiesNat DEF UtilitiesOK
    <2> QED
      BY <1>3, <2>1, <2>2 DEF ChooseOptimal
  <1>4. ASSUME NEW v \in Vertices, CompareMeeting(v) \/ RegisterValue(v) PROVE UtilitiesOK'
    BY <1>4 DEF CompareMeeting, RegisterValue, treeVars, UtilitiesOK
  <1> QED
    BY <1>1, <1>2, <1>3, <1>4, StepCases DEF VertexStep, Initialize, CompareAgent, Collect

-------------------------------------------------------------------------------
(* Types and wake-ups. *)

TreeInv ==
  /\ VertexTypeOK(Message)
  /\ leader \in Vertices
  /\ ValuesInRange
  /\ WakeInv

LEMMA InvParts ==
  TreeInv <=> /\ ScheduleTypeOK /\ StateTypeOK(Message)
              /\ leader \in Vertices /\ ValuesInRange /\ WakeInv
  BY TypeParts DEF TreeInv

\* What is to be shown of a step, part by part.
LEMMA InvPartsAfter ==
  ASSUME TreeInv, [Next]_vars, ScheduleTypeOK', StateTypeOK(Message)', WakeInv',
         UNCHANGED leader
  PROVE  TreeInv'
  <1>1. DPOPInv
    BY InvParts DEF DPOPInv, ScheduleTypeOK
  <1>2. ValuesInRange'
    BY <1>1, ValuesStep
  <1> QED
    BY <1>2 DEF TreeInv, VertexTypeOK, ScheduleTypeOK, StateTypeOK, CoreInv, PcValues

LEMMA InitTree == Init => TreeInv
  <1> SUFFICES ASSUME Init PROVE TreeInv
    OBVIOUS
  <1>1. edges \subseteq Links /\ \A l \in edges : Back(l) \in edges
    BY ParticipationsOnly DEF Init, Links, Back, Others
  <1>2. ScheduleTypeOK /\ StateTypeOK(Message)
    BY <1>1, InitialTypes DEF Init, Message
  <1>3. WakeInv
    BY <1>1, InitialWake DEF Init
  <1> QED
    BY <1>2, <1>3, InitCore, InvParts DEF Init, DPOPInv

\* The steps of the engine alone.
LEMMA EngineStep ==
  ASSUME TreeInv, [Next]_vars, UNCHANGED <<preference, vertexVars>>,
         ~ \E v \in Vertices : VertexStep(v)
  PROVE  TreeInv'
  <1>1. StateTypeOK(Message) /\ WakeInv /\ ScheduleTypeOK
    BY InvParts
  <1>2. UNCHANGED <<pc, status, state, leader>>
    BY DEF vertexVars, scheduleVars, treeVars
  <1>3. UNCHANGED constraintVars
    BY DEF Next, WorkerStep, DriverStep, Stopped, vars
  <1>4. StateTypeOK(Message)' /\ WakeInv'
    <2>1. CASE DriverStep
      BY <1>1, <1>2, <2>1, DriverWakes DEF DriverStep
    <2>2. ASSUME NEW w \in Workers, WorkerStep(w) PROVE StateTypeOK(Message)' /\ WakeInv'
      <3>1. SignalStep(w, state) \/ BeginBatch(w)
        BY <2>2, ParticipationsOnly DEF WorkerStep, VerticesOf
      <3> QED
        BY <1>1, <1>2, <3>1, SignalStepWakes, BatchWakes, NoSignalIsNoMessage
    <2>3. CASE UNCHANGED vars
      BY <1>1, <1>2, <2>3, NothingWakes DEF vars
    <2> QED
      BY <2>1, <2>2, <2>3 DEF Next, Stopped
  <1>5. ScheduleTypeOK'
    BY <1>1, <1>3 DEF vertexVars, scheduleVars, constraintVars, ScheduleTypeOK, CoreInv
  <1> QED
    BY <1>2, <1>4, <1>5, InvPartsAfter

\* The end of a collect operation after its check, and its way to the choice:
\* the first collect has had none.
LEMMA ProcessMessagesInv ==
  ASSUME TreeInv, NEW v \in Vertices, v \in toCollect, phase \in {"collecting", "computing"},
         status' = status \/ FailedLook(v) \/ SecondLook(v), ProcessMessages(v)
  PROVE  CoreInv' /\ StateTypeOK(Message)' /\ WakeInv'
  <1>1. StateTypeOK(Message) /\ WakeInv /\ CoreInv
    BY InvParts DEF ScheduleTypeOK
  <1>2. CoreInv'
    BY <1>1, ProcessMessagesStep, CoreAfterCheck
  <1>3. \A u \in Vertices \ {v} : status'[u] = status[u]
    BY <1>1, OwnStatus
  <1>4. UtilValueMessage \in Message
    BY DEF Message
  <1> QED
    BY <1>1, <1>2, <1>3, <1>4, FinishCollectWakes, GoOnWakes, NoSignalIsNoMessage
    DEF ProcessMessages, GoOnToChoose

LEMMA VertexInv ==
  ASSUME TreeInv, [Next]_vars, NEW v \in Vertices, VertexStep(v), UNCHANGED constraintVars
  PROVE  TreeInv'
  <1>0. ScheduleTypeOK /\ StateTypeOK(Message) /\ WakeInv /\ CoreInv
    BY InvParts DEF ScheduleTypeOK
  <1>1. CASE Initialize(v)
    <2>1. v \in toCollect /\ phase \in {"collecting", "computing"}
      BY <1>0, <1>1, Collecting DEF Initialize
    <2>2. preference[v] \in 0 .. TIMESLOTS
      BY <1>0, IndexRange DEF ScheduleTypeOK
    <2>3. CoreInv' /\ StateTypeOK(Message)' /\ WakeInv'
      BY <1>1, <2>1, ProcessMessagesInv DEF Initialize
    <2>4. ScheduleTypeOK'
      BY <1>0, <1>1, <2>2, <2>3, RoundRange
      DEF Initialize, ProcessMessages, constraintVars, ScheduleTypeOK, Index
    <2> QED
      BY <1>1, <2>3, <2>4, InvPartsAfter DEF Initialize, ProcessMessages
  <1>2. CASE CompareMeeting(v)
    <2>1. v \in toCollect /\ phase \in {"collecting", "computing"}
      BY <1>0, <1>2, Collecting DEF CompareMeeting
    <2>2. CoreInv'
      BY <1>0, <1>2, CoreAfterFirstLook DEF CompareMeeting
    <2>3. ScheduleTypeOK'
      BY <1>0, <1>2, <2>2, RoundRange
      DEF CompareMeeting, FirstLook, constraintVars, ScheduleTypeOK
    <2>4. StateTypeOK(Message)' /\ WakeInv'
      BY <1>0, <1>2, <2>1, GoOnWakes DEF CompareMeeting, FirstLook
    <2> QED
      BY <1>2, <2>3, <2>4, InvPartsAfter DEF CompareMeeting, treeVars
  <1>3. CASE CompareAgent(v)
    <2>1. v \in toCollect /\ phase \in {"collecting", "computing"}
      BY <1>0, <1>3, Collecting DEF CompareAgent, SecondLook
    <2>2. CoreInv' /\ StateTypeOK(Message)' /\ WakeInv'
      BY <1>3, <2>1, ProcessMessagesInv DEF CompareAgent
    <2>3. ScheduleTypeOK'
      BY <1>0, <1>3, <2>2
      DEF CompareAgent, SecondLook, ProcessMessages, constraintVars, ScheduleTypeOK
    <2> QED
      BY <1>3, <2>2, <2>3, InvPartsAfter DEF CompareAgent, ProcessMessages
  <1>4. CASE Collect(v)
    <2>1. v \in toCollect /\ phase \in {"collecting", "computing"}
      BY <1>0, <1>4, Collecting DEF Collect
    <2>2. CoreInv' /\ StateTypeOK(Message)' /\ WakeInv'
      BY <1>4, <2>1, ProcessMessagesInv DEF Collect
    <2>3. ScheduleTypeOK'
      BY <1>0, <1>4, <2>2, RoundRange DEF Collect, ProcessMessages, constraintVars, ScheduleTypeOK
    <2> QED
      BY <1>4, <2>2, <2>3, InvPartsAfter DEF Collect, ProcessMessages
  <1>5. CASE ChooseOptimal(v)
    <2>1. v \in toCollect /\ phase \in {"collecting", "computing"}
      BY <1>0, <1>5, Collecting DEF ChooseOptimal
    <2>2. DPOPInv
      BY InvParts DEF DPOPInv, ScheduleTypeOK
    <2>3. CoreInv'
      BY <1>0, <1>5, <2>2, ChoiceStep, CoreAfterChoice DEF ChooseOptimal
    <2>4. ScheduleTypeOK'
      BY <1>0, <1>5, <2>3 DEF ChooseOptimal, constraintVars, ScheduleTypeOK
    <2>5. StateTypeOK(Message)' /\ WakeInv'
      BY <1>0, <1>5, <2>1, GoOnWakes DEF ChooseOptimal
    <2> QED
      BY <1>5, <2>4, <2>5, InvPartsAfter DEF ChooseOptimal
  <1>6. CASE RegisterValue(v)
    <2>1. v \in toCollect /\ phase \in {"collecting", "computing"}
      BY <1>0, <1>6, Collecting DEF RegisterValue, Register
    <2>2. ScheduleTypeOK'
      BY <1>0, <1>6, RegisterTypes DEF RegisterValue
    <2>3. UtilValueMessage \in Message
      BY DEF Message
    <2>4. StateTypeOK(Message)' /\ WakeInv'
      BY <1>0, <1>6, <2>1, <2>3, FinishCollectWakes, NoSignalIsNoMessage
      DEF RegisterValue, Register
    <2> QED
      BY <1>6, <2>2, <2>4, InvPartsAfter DEF RegisterValue
  <1> QED
    BY <1>1, <1>2, <1>3, <1>4, <1>5, <1>6 DEF VertexStep

LEMMA TreeStep == TreeInv /\ [Next]_vars => TreeInv'
  <1> SUFFICES ASSUME TreeInv, [Next]_vars PROVE TreeInv'
    OBVIOUS
  <1>1. CASE \E v \in Vertices : VertexStep(v)
    <2>1. UNCHANGED constraintVars
      BY DEF Next, WorkerStep, DriverStep, Stopped, vars
    <2> QED
      BY <1>1, <2>1, VertexInv
  <1>2. CASE ~ \E v \in Vertices : VertexStep(v)
    BY <1>2, StepCases, EngineStep
  <1> QED
    BY <1>1, <1>2

\* Every field keeps its type, and the leader's values stay in the domain although
\* every vertex writes them; the utilities that are sent and merged stay natural.
THEOREM DPOPTypes == Spec => []TypeOK
  <1>1. TreeInv /\ UtilitiesOK => TypeOK
    BY DEF TreeInv, TypeOK, ValuesInRange, UtilitiesOK
  <1>2. Init => UtilitiesOK
    BY DEF Init, UtilitiesOK
  <1>3. UtilitiesOK /\ [Next]_vars => UtilitiesOK'
    BY UtilitiesStep
  <1> QED
    BY <1>1, <1>2, <1>3, InitTree, TreeStep, PTL DEF Spec

\* When a DPOP execution ends the leader, or every vertex below it, has
\* converged: the signal of whoever collected last has woken the other side.
THEOREM DPOPNoLostWakeup == Spec => []NoLostWakeup
  <1>1. TreeInv => NoLostWakeup
    <2> SUFFICES ASSUME TreeInv, phase = "done", NEW l \in edges,
                        status[l[1]] = "active", status[l[2]] = "active"
                 PROVE  FALSE
      BY DEF NoLostWakeup
    <2>1. edges \subseteq Links
      BY InvParts DEF StateTypeOK, EngineTypeOK
    <2> QED
      BY <2>1, AsleepWhenDone DEF TreeInv, Speaks
  <1> QED
    BY <1>1, InitTree, TreeStep, PTL DEF Spec

===============================================================================
