----------------------------- MODULE VertexProofs -----------------------------
(***************************************************************************)
(* What the proofs about MGM, DPOP and MaxSum have in common: the steps of *)
(* MeetingSchedulingVertex are steps of SharedSchedule, and what is proved *)
(* of that protocol holds of any algorithm that follows it.                *)
(*                                                                         *)
(* The refinement needs little of a vertex' own state: that the program    *)
(* counter and the choice waiting to be registered stay in their types.    *)
(***************************************************************************)
EXTENDS MeetingSchedulingVertex, TLAPS

PcValues == {"idle", "comparing", "choosing", "registering"}

CoreInv ==
  /\ pc \in [Vertices -> PcValues]
  /\ candidate \in Index
  /\ status \in [Vertices -> Status]

\* What an index may hold.
LEMMA IndexRange == Slots \cup {Absent} = 0 .. TIMESLOTS
  BY TimeslotsAssumption DEF Slots, Absent

\* findMaxValue returns a slot or nothing.
LEMMA FindMaxValueRange ==
  ASSUME NEW v \in Vertices, NEW utilityOf
  PROVE  FindMaxValue(agentIndex, v, utilityOf) \subseteq 0 .. TIMESLOTS
  BY IndexRange DEF FindMaxValue, BestOpen, OpenSlots

\* Every convergenceCheck yields a status.
LEMMA OutcomeRange ==
  ASSUME CoreInv, NEW v \in Vertices, NEW agreement, NEW round
  PROVE  Outcome(status[v], agreement, round) \in Status
  BY DEF Outcome, Status, CoreInv

\* A state in which nobody has collected.
LEMMA InitialCore ==
  ASSUME NEW initialState, VertexInit(initialState)
  PROVE  CoreInv
  BY TimeslotsAssumption DEF VertexInit, CoreInv, PcValues, Index, Status, Absent

\* The two ways in which collect goes on after its check.
EndOrChoose(v) ==
  \E next \in {"idle", "choosing"} :
    /\ pc' = [pc EXCEPT ![v] = next]
    /\ next = "choosing" => status'[v] = "active"

-------------------------------------------------------------------------------
\* What a step of a vertex leaves of CoreInv.

LEMMA CoreAfterCheck ==
  ASSUME CoreInv, NEW v \in Vertices, EndOrChoose(v), UNCHANGED candidate,
         status' = status \/ FailedLook(v) \/ SecondLook(v)
  PROVE  CoreInv'
  <1>1. Outcome(status[v], FALSE, roundCount'[v]) \in Status
    BY OutcomeRange
  <1>2. Outcome(status[v], Different(agentIndex, v), roundCount[v]) \in Status
    BY OutcomeRange
  <1>3. status' \in [Vertices -> Status]
    BY <1>1, <1>2 DEF FailedLook, SecondLook, CoreInv
  <1> QED
    BY <1>3 DEF EndOrChoose, CoreInv, PcValues

LEMMA CoreAfterFirstLook ==
  ASSUME CoreInv, NEW v \in Vertices, FirstLook(v)
  PROVE  CoreInv'
  BY DEF FirstLook, CoreInv, PcValues

LEMMA CoreAfterChoice ==
  ASSUME CoreInv, NEW v \in Vertices, NEW c \in 0 .. TIMESLOTS,
         candidate' = [candidate EXCEPT ![v] = c],
         pc' = [pc EXCEPT ![v] = "registering"], UNCHANGED status
  PROVE  CoreInv'
  BY DEF CoreInv, PcValues, Index

LEMMA CoreAfterRegister ==
  ASSUME CoreInv, NEW v \in Vertices, NEW message, Register(v, message)
  PROVE  CoreInv'
  BY IndexRange DEF Register, FinishCollect, CoreInv, PcValues, Index

-------------------------------------------------------------------------------

\* The protocol's instance of Scheduling is the vertices' own.
LEMMA SameOperators ==
  /\ Protocol!Absent = Absent
  /\ Protocol!Slots = Slots
  /\ \A r : Protocol!NextRound(r) = NextRound(r)
  /\ \A s, agreement, r : Protocol!Outcome(s, agreement, r) = Outcome(s, agreement, r)
  /\ \A index, v, c : Protocol!RegisterIn(index, v, c) = RegisterIn(index, v, c)
  /\ \A v : Protocol!Same(meetingIndex, v) = Same(meetingIndex, v)
  /\ \A v : Protocol!Different(agentIndex, v) = Different(agentIndex, v)
  <1>1. Protocol!Absent = Absent /\ Protocol!Slots = Slots
    BY DEF Protocol!Absent, Absent, Protocol!Slots, Slots
  <1>2. \A r : Protocol!NextRound(r) = NextRound(r)
    BY DEF Protocol!NextRound, NextRound
  <1>3. \A s, agreement, r : Protocol!Outcome(s, agreement, r) = Outcome(s, agreement, r)
    BY DEF Protocol!Outcome, Outcome
  <1>4. \A index, v, c : Protocol!RegisterIn(index, v, c) = RegisterIn(index, v, c)
    BY <1>1 DEF Protocol!RegisterIn, RegisterIn
  <1>5. \A v : Protocol!Same(meetingIndex, v) = Same(meetingIndex, v)
    BY DEF Protocol!Same, Same, Protocol!Registered, Registered, Protocol!Participants,
           Participants, Protocol!MeetingOf, MeetingOf, Protocol!Absent, Absent
  <1>6. \A v : Protocol!Different(agentIndex, v) = Different(agentIndex, v)
    BY DEF Protocol!Different, Different, Protocol!Registered, Registered,
           Protocol!Engagements, Engagements, Protocol!Consecutive, Consecutive,
           Protocol!AgentOf, AgentOf, Protocol!MeetingOf, MeetingOf,
           Protocol!Absent, Absent
  <1> QED
    BY <1>1, <1>2, <1>3, <1>4, <1>5, <1>6

\* Nobody has collected, and the factory has filled each kind of map with the
\* preferences or left it empty.
LEMMA InitialRefines ==
  ASSUME NEW initialState, VertexInit(initialState),
         agentIndex \in {[v \in Vertices |-> Absent], preference},
         meetingIndex \in {[v \in Vertices |-> Absent], preference}
  PROVE  Protocol!Init
  <1>1. preference \in [Vertices -> Slots]
    BY ProblemsAssumption DEF VertexInit
  <1>2. ProtocolPc = [v \in Vertices |-> "idle"]
    BY DEF VertexInit, ProtocolPc
  <1> QED
    BY <1>1, <1>2, SameOperators DEF VertexInit, Protocol!Init

\* newRound starts a round of the protocol.
LEMMA StartRefines ==
  ASSUME NEW v \in Vertices, StartCollect(v)
  PROVE  ProtocolPc[v] = "idle" /\ Protocol!StartRound(v)
  <1>1. pc[v] = "idle"
    BY NodesAssumption DEF StartCollect, VerticesOf
  <1> QED
    BY <1>1, SameOperators DEF StartCollect, Protocol!StartRound, ProtocolPc

\* What follows the check is what the protocol continues with.
LEMMA ContinueRefines ==
  ASSUME CoreInv, NEW v \in Vertices, EndOrChoose(v)
  PROVE  Protocol!Continue(v)
  <1>1. PICK next \in {"idle", "choosing"} :
          /\ pc' = [pc EXCEPT ![v] = next]
          /\ next = "choosing" => status'[v] = "active"
    BY DEF EndOrChoose
  <1>2. ProtocolPc' = [ProtocolPc EXCEPT ![v] = next]
    BY <1>1 DEF CoreInv, ProtocolPc
  <1> QED
    BY <1>1, <1>2 DEF Protocol!Continue

LEMMA FirstLookRefines ==
  ASSUME CoreInv, NEW v \in Vertices, value[v] # Absent, StartCollect(v), FirstLook(v)
  PROVE  Protocol!CompareMeeting(v)
  <1>1. ProtocolPc' = [ProtocolPc EXCEPT ![v] = "comparing"]
    BY DEF FirstLook, CoreInv, ProtocolPc
  <1> QED
    BY <1>1, StartRefines, SameOperators DEF FirstLook, Protocol!CompareMeeting

LEMMA SecondLookRefines ==
  ASSUME CoreInv, NEW v \in Vertices, SecondLook(v), EndOrChoose(v),
         UNCHANGED <<value, agentIndex, meetingIndex>>
  PROVE  Protocol!CompareAgent(v)
  <1>1. ProtocolPc[v] = "comparing"
    BY DEF SecondLook, ProtocolPc
  <1> QED
    BY <1>1, ContinueRefines, SameOperators DEF SecondLook, Protocol!CompareAgent

\* A collect without a check, or with one that fails at the meeting's map.
LEMMA CollectRefines ==
  ASSUME CoreInv, NEW v \in Vertices, value[v] # Absent, StartCollect(v),
         FailedLook(v) \/ UNCHANGED status, EndOrChoose(v),
         UNCHANGED <<value, agentIndex, meetingIndex>>
  PROVE  Protocol!Collect(v)
  BY StartRefines, ContinueRefines, SameOperators DEF FailedLook, Protocol!Collect

LEMMA RegisterRefines ==
  ASSUME CoreInv, NEW v \in Vertices, NEW message, Register(v, message)
  PROVE  Protocol!Register(v)
  <1>1. ProtocolPc[v] = "choosing" /\ ProtocolPc' = [ProtocolPc EXCEPT ![v] = "idle"]
    BY DEF Register, FinishCollect, CoreInv, ProtocolPc
  <1>2. candidate[v] \in Slots \cup {Absent}
    BY IndexRange DEF CoreInv, Index
  <1> QED
    BY <1>1, <1>2, SameOperators DEF Register, Protocol!Register

-------------------------------------------------------------------------------

(***************************************************************************)
(* The promises of SharedSchedule, for every set of agents, meetings and   *)
(* participations, every number of slots and rounds and every iteration    *)
(* order of the agents' maps.  They are proved of the protocol as the      *)
(* vertices follow it; ProtocolPc can be anything that pc can be there.    *)
(*                                                                         *)
(* MeetingAgreement is not inductive: a vertex between its two looks has   *)
(* already relied on the meeting's map.  ProtocolInv therefore speaks of   *)
(* the vertices that are past the first look, and says that such a vertex  *)
(* no longer writes.                                                       *)
(***************************************************************************)

\* Relying on the meeting's map: between the two looks, or converged by them.
Relying(v) == status[v] = "agreed" \/ ProtocolPc[v] = "comparing"

BusyIsActive == \A v \in Vertices : ProtocolPc[v] # "idle" => status[v] = "active"

UninitializedIsIdle ==
  \A v \in Vertices : value[v] = Protocol!Absent => status[v] = "active" /\ ProtocolPc[v] = "idle"

RelyingAgree ==
  \A u, w \in Vertices :
    /\ Protocol!MeetingOf(u) = Protocol!MeetingOf(w)
    /\ Relying(u) /\ Relying(w)
    /\ meetingIndex[u] # Protocol!Absent /\ meetingIndex[w] # Protocol!Absent
    => meetingIndex[u] = meetingIndex[w]

AgreedDiffer ==
  \A u, w \in Vertices :
    /\ Protocol!AgentOf(u) = Protocol!AgentOf(w)
    /\ status[u] = "agreed" /\ status[w] = "agreed"
    /\ agentIndex[u] # Protocol!Absent /\ agentIndex[w] # Protocol!Absent
    /\ Protocol!Consecutive(agentIndex, u, w)
    => agentIndex[u] # agentIndex[w]

ProtocolInv ==
  /\ Protocol!TypeOK
  /\ BusyIsActive
  /\ UninitializedIsIdle
  /\ RelyingAgree
  /\ AgreedDiffer

-------------------------------------------------------------------------------
\* Lemmas about the operators of Scheduling.

\* Outcome yields a status, and keeps the status of a converged vertex.
LEMMA OutcomeStatus ==
  ASSUME NEW s \in Protocol!Status, NEW agreement \in BOOLEAN, NEW r \in 0 .. MAX_ROUND
  PROVE  /\ Protocol!Outcome(s, agreement, r) \in Protocol!Status
         /\ s # "active" => Protocol!Outcome(s, agreement, r) = s
         /\ ~ agreement /\ Protocol!Outcome(s, agreement, r) = "agreed" => s = "agreed"
  BY MaxRoundAssumption DEF Protocol!Outcome, Protocol!Status

\* newRound stays within the bound.
LEMMA NextRoundBound ==
  ASSUME NEW r \in 0 .. MAX_ROUND
  PROVE  Protocol!NextRound(r) \in 0 .. MAX_ROUND
  BY MaxRoundAssumption DEF Protocol!NextRound

\* registerValue changes no entry but its own, and never removes one.
LEMMA RegisterInIndex ==
  ASSUME NEW index \in Protocol!Index, NEW v \in Vertices,
         NEW c \in Protocol!Slots \cup {Protocol!Absent}
  PROVE  /\ Protocol!RegisterIn(index, v, c) \in Protocol!Index
         /\ \A u \in Vertices : u # v => Protocol!RegisterIn(index, v, c)[u] = index[u]
         /\ \A u \in Vertices : index[u] # Protocol!Absent => Protocol!RegisterIn(index, v, c)[u] # Protocol!Absent
  BY TimeslotsAssumption DEF Protocol!RegisterIn, Protocol!Index, Protocol!Slots, Protocol!Absent

\* Registering more entries makes fewer pairs of entries consecutive.
LEMMA ConsecutiveMonotone ==
  ASSUME NEW old \in Protocol!Index, NEW new \in Protocol!Index,
         \A x \in Vertices : old[x] # Protocol!Absent => new[x] # Protocol!Absent,
         NEW u \in Vertices, NEW w \in Vertices, Protocol!Consecutive(new, u, w)
  PROVE  Protocol!Consecutive(old, u, w)
  BY DEF Protocol!Consecutive, Protocol!Registered, Protocol!Engagements

-------------------------------------------------------------------------------

LEMMA ProtocolInitInv == Protocol!Init => ProtocolInv
  <1> SUFFICES ASSUME Protocol!Init PROVE ProtocolInv
    OBVIOUS
  <1>1. Protocol!TypeOK
    BY TimeslotsAssumption, MaxRoundAssumption
    DEF Protocol!Init, Protocol!TypeOK, Protocol!Index, Protocol!Slots, Protocol!Absent,
           Protocol!Status
  <1> QED
    BY <1>1 DEF Protocol!Init, ProtocolInv, BusyIsActive, UninitializedIsIdle, RelyingAgree,
                AgreedDiffer, Relying

-------------------------------------------------------------------------------
\* One lemma per conjunct of Inv, one step per action.

LEMMA ProtocolTypeStep == Protocol!TypeOK /\ [Protocol!Next]_(Protocol!vars) => Protocol!TypeOK'
  <1> SUFFICES ASSUME Protocol!TypeOK, [Protocol!Next]_(Protocol!vars) PROVE Protocol!TypeOK'
    OBVIOUS
  <1>1. CASE UNCHANGED Protocol!vars
    BY <1>1 DEF Protocol!vars, Protocol!TypeOK
  <1>2. ASSUME NEW v \in Vertices, Protocol!Initialize(v), UNCHANGED preference
        PROVE  Protocol!TypeOK'
    BY <1>2, NextRoundBound DEF Protocol!Initialize, Protocol!StartRound, Protocol!Continue,
           Protocol!TypeOK, Protocol!Index, Protocol!Slots
  <1>3. ASSUME NEW v \in Vertices, Protocol!CompareMeeting(v), UNCHANGED preference
        PROVE  Protocol!TypeOK'
    BY <1>3, NextRoundBound DEF Protocol!CompareMeeting, Protocol!StartRound, Protocol!TypeOK
  <1>4. ASSUME NEW v \in Vertices, Protocol!Collect(v), UNCHANGED preference
        PROVE  Protocol!TypeOK'
    <2>1. Protocol!NextRound(roundCount[v]) \in 0 .. MAX_ROUND
      BY NextRoundBound DEF Protocol!TypeOK
    <2>2. roundCount' \in [Vertices -> 0 .. MAX_ROUND] /\ roundCount'[v] \in 0 .. MAX_ROUND
      BY <1>4, <2>1 DEF Protocol!Collect, Protocol!StartRound, Protocol!TypeOK
    <2>3. status' \in [Vertices -> Protocol!Status]
      BY <1>4, <2>2 DEF Protocol!Collect, Protocol!TypeOK, Protocol!Outcome, Protocol!Status
    <2> QED
      BY <1>4, <2>2, <2>3 DEF Protocol!Collect, Protocol!Continue, Protocol!StartRound,
             Protocol!TypeOK
  <1>5. ASSUME NEW v \in Vertices, Protocol!CompareAgent(v), UNCHANGED preference
        PROVE  Protocol!TypeOK'
    <2>1. Protocol!Different(agentIndex, v) \in BOOLEAN
      BY DEF Protocol!Different
    <2>2. status' \in [Vertices -> Protocol!Status]
      BY <1>5, <2>1, OutcomeStatus DEF Protocol!CompareAgent, Protocol!TypeOK
    <2> QED
      BY <1>5, <2>2 DEF Protocol!CompareAgent, Protocol!Continue, Protocol!TypeOK
  <1>6. ASSUME NEW v \in Vertices, Protocol!Register(v), UNCHANGED preference
        PROVE  Protocol!TypeOK'
    BY <1>6, RegisterInIndex DEF Protocol!Register, Protocol!TypeOK
  <1> QED
    BY <1>1, <1>2, <1>3, <1>4, <1>5, <1>6 DEF Protocol!Next, Protocol!VertexStep

\* A step changes the flag of a vertex only if it is active, and makes it
\* "agreed" only in CompareAgent.
LEMMA StatusStep ==
  ASSUME Protocol!TypeOK, NEW v \in Vertices, Protocol!VertexStep(v), NEW u \in Vertices
  PROVE  /\ status[u] # "active" => status'[u] = status[u]
         /\ status'[u] = "agreed" /\ status[u] # "agreed" => u = v /\ Protocol!CompareAgent(v)
  <1>1. CASE Protocol!Initialize(v) \/ Protocol!CompareMeeting(v) \/ Protocol!Register(v)
    BY <1>1 DEF Protocol!Initialize, Protocol!CompareMeeting, Protocol!Register
  <1>2. CASE Protocol!Collect(v)
    <2>1. /\ Protocol!NextRound(roundCount[v]) \in 0 .. MAX_ROUND
          /\ roundCount'[v] = Protocol!NextRound(roundCount[v])
      BY <1>2, NextRoundBound DEF Protocol!Collect, Protocol!StartRound, Protocol!TypeOK
    <2>2. \/ status' = status
          \/ status' = [status EXCEPT ![v] = Protocol!Outcome(status[v], FALSE, roundCount'[v])]
      BY <1>2 DEF Protocol!Collect
    <2> QED
      BY <2>2 DEF Protocol!TypeOK, Protocol!Outcome
  <1>3. CASE Protocol!CompareAgent(v)
    <2>1. Protocol!Different(agentIndex, v) \in BOOLEAN /\ roundCount[v] \in 0 .. MAX_ROUND
      BY DEF Protocol!Different, Protocol!TypeOK
    <2> QED
      BY <1>3, <2>1, OutcomeStatus DEF Protocol!CompareAgent, Protocol!TypeOK
  <1> QED
    BY <1>1, <1>2, <1>3 DEF Protocol!VertexStep

LEMMA BusyStep ==
  ASSUME Protocol!TypeOK, BusyIsActive, NEW v \in Vertices, Protocol!VertexStep(v)
  PROVE  BusyIsActive'
  <1>1. CASE Protocol!Initialize(v)
    BY <1>1 DEF Protocol!Initialize, Protocol!StartRound, Protocol!Continue, BusyIsActive,
           Protocol!TypeOK
  <1>2. CASE Protocol!CompareMeeting(v)
    BY <1>2 DEF Protocol!CompareMeeting, BusyIsActive, Protocol!TypeOK
  <1>3. CASE Protocol!Collect(v) \/ Protocol!CompareAgent(v)
    <2>1. \A u \in Vertices : u # v => ProtocolPc'[u] = ProtocolPc[u] /\ status'[u] = status[u]
      BY <1>3 DEF Protocol!Collect, Protocol!CompareAgent, Protocol!StartRound,
             Protocol!Continue, Protocol!TypeOK
    <2>2. ProtocolPc'[v] # "idle" => status'[v] = "active"
      BY <1>3 DEF Protocol!Collect, Protocol!CompareAgent, Protocol!Continue, Protocol!TypeOK
    <2> QED
      BY <2>1, <2>2 DEF BusyIsActive
  <1>4. CASE Protocol!Register(v)
    BY <1>4 DEF Protocol!Register, BusyIsActive, Protocol!TypeOK
  <1> QED
    BY <1>1, <1>2, <1>3, <1>4 DEF Protocol!VertexStep

LEMMA UninitializedStep ==
  ASSUME Protocol!TypeOK, BusyIsActive, UninitializedIsIdle, NEW v \in Vertices, Protocol!VertexStep(v)
  PROVE  UninitializedIsIdle'
  <1>1. CASE Protocol!Initialize(v)
    <2>1. value' = [value EXCEPT ![v] = preference[v]] /\ status' = status
      BY <1>1 DEF Protocol!Initialize
    <2>2. preference[v] # Protocol!Absent
      BY TimeslotsAssumption DEF Protocol!TypeOK, Protocol!Slots, Protocol!Absent
    <2>3. value'[v] # Protocol!Absent
      BY <2>1, <2>2 DEF Protocol!TypeOK, Protocol!Index
    <2>4. \A u \in Vertices : u # v => value'[u] = value[u] /\ ProtocolPc'[u] = ProtocolPc[u]
      BY <1>1, <2>1 DEF Protocol!Initialize, Protocol!Continue, Protocol!TypeOK, Protocol!Index
    <2> QED
      BY <2>1, <2>3, <2>4 DEF UninitializedIsIdle
  <1>2. CASE Protocol!CompareMeeting(v)
    BY <1>2 DEF Protocol!CompareMeeting, UninitializedIsIdle, Protocol!TypeOK
  <1>3. CASE Protocol!Collect(v)
    BY <1>3 DEF Protocol!Collect, Protocol!StartRound, Protocol!Continue, UninitializedIsIdle,
           Protocol!TypeOK
  <1>4. CASE Protocol!CompareAgent(v)
    BY <1>4 DEF Protocol!CompareAgent, Protocol!Continue, UninitializedIsIdle, Protocol!TypeOK
  <1>5. CASE Protocol!Register(v)
    <2>1. status' = status /\ status[v] = "active" /\ ProtocolPc' = [ProtocolPc EXCEPT ![v] = "idle"]
      BY <1>5 DEF Protocol!Register, BusyIsActive
    <2>2. PICK c \in Protocol!Slots \cup {Protocol!Absent} : value' = Protocol!RegisterIn(value, v, c)
      BY <1>5 DEF Protocol!Register
    <2>3. \A u \in Vertices : value[u] # Protocol!Absent => value'[u] # Protocol!Absent
      BY <2>2, RegisterInIndex DEF Protocol!TypeOK
    <2> QED
      BY <2>1, <2>3 DEF UninitializedIsIdle, Protocol!TypeOK
  <1> QED
    BY <1>1, <1>2, <1>3, <1>4, <1>5 DEF Protocol!VertexStep

\* A step writes at most its own vertex' entries of the maps, removes none,
\* and writes only on behalf of a vertex that relies on nothing, before or
\* after the step.
LEMMA WriteStep ==
  ASSUME Protocol!TypeOK, BusyIsActive, UninitializedIsIdle, NEW v \in Vertices, Protocol!VertexStep(v)
  PROVE  /\ \A u \in Vertices : u # v =>
              meetingIndex'[u] = meetingIndex[u] /\ agentIndex'[u] = agentIndex[u]
         /\ \A u \in Vertices : agentIndex[u] # Protocol!Absent => agentIndex'[u] # Protocol!Absent
         /\ \/ meetingIndex' = meetingIndex /\ agentIndex' = agentIndex
            \/ status[v] = "active" /\ ~ Relying(v)'
  <1>1. CASE Protocol!Initialize(v)
    <2>1. status[v] = "active" /\ status' = status /\ ProtocolPc'[v] # "comparing"
      BY <1>1 DEF Protocol!Initialize, Protocol!Continue, UninitializedIsIdle, Protocol!TypeOK
    <2>2. preference[v] # Protocol!Absent
      BY TimeslotsAssumption DEF Protocol!TypeOK, Protocol!Slots, Protocol!Absent
    <2> QED
      BY <1>1, <2>1, <2>2 DEF Protocol!Initialize, Relying, Protocol!TypeOK, Protocol!Index
  <1>2. CASE Protocol!CompareMeeting(v) \/ Protocol!Collect(v) \/ Protocol!CompareAgent(v)
    BY <1>2 DEF Protocol!CompareMeeting, Protocol!Collect, Protocol!CompareAgent
  <1>3. CASE Protocol!Register(v)
    <2>1. status[v] = "active" /\ status' = status /\ ProtocolPc'[v] = "idle"
      BY <1>3 DEF Protocol!Register, BusyIsActive, Protocol!TypeOK
    <2>2. PICK c \in Protocol!Slots \cup {Protocol!Absent} :
            /\ agentIndex' = Protocol!RegisterIn(agentIndex, v, c)
            /\ meetingIndex' = Protocol!RegisterIn(meetingIndex, v, c)
      BY <1>3 DEF Protocol!Register
    <2>3. /\ \A u \in Vertices : u # v =>
               meetingIndex'[u] = meetingIndex[u] /\ agentIndex'[u] = agentIndex[u]
          /\ \A u \in Vertices : agentIndex[u] # Protocol!Absent => agentIndex'[u] # Protocol!Absent
      <3>1. meetingIndex \in Protocol!Index /\ agentIndex \in Protocol!Index
        BY DEF Protocol!TypeOK
      <3>2. \A u \in Vertices : u # v => meetingIndex'[u] = meetingIndex[u]
        BY <2>2, <3>1, RegisterInIndex
      <3>3. \A u \in Vertices : u # v => agentIndex'[u] = agentIndex[u]
        BY <2>2, <3>1, RegisterInIndex
      <3>4. \A u \in Vertices : agentIndex[u] # Protocol!Absent => agentIndex'[u] # Protocol!Absent
        BY <2>2, <3>1, RegisterInIndex
      <3> QED
        BY <3>2, <3>3, <3>4
    <2> QED
      BY <2>1, <2>3 DEF Relying
  <1> QED
    BY <1>1, <1>2, <1>3 DEF Protocol!VertexStep

\* A vertex that relies on its meeting after a step of v either did so before
\* or is v, which has just found its meeting in agreement.
LEMMA RelyingStep ==
  ASSUME Protocol!TypeOK, BusyIsActive, UninitializedIsIdle, NEW v \in Vertices, Protocol!VertexStep(v),
         NEW u \in Vertices, Relying(u)', ~ Relying(u)
  PROVE  u = v /\ Protocol!CompareMeeting(v)
  <1>1. CASE status'[u] = "agreed"
    <2>1. u = v /\ Protocol!CompareAgent(v)
      BY <1>1, StatusStep DEF Relying
    <2> QED
      BY <2>1 DEF Protocol!CompareAgent, Relying
  <1>2. CASE ProtocolPc'[u] = "comparing"
    BY <1>2 DEF Relying, Protocol!VertexStep, Protocol!Initialize, Protocol!CompareMeeting,
           Protocol!Collect, Protocol!CompareAgent,
                Protocol!Register, Protocol!StartRound, Protocol!Continue, Protocol!TypeOK
  <1> QED
    BY <1>1, <1>2 DEF Relying

LEMMA RelyingAgreeStep ==
  ASSUME ProtocolInv, NEW v \in Vertices, Protocol!VertexStep(v)
  PROVE  RelyingAgree'
  <1> USE DEF ProtocolInv
  <1> SUFFICES ASSUME NEW u \in Vertices, NEW w \in Vertices,
                      Protocol!MeetingOf(u) = Protocol!MeetingOf(w),
                      Relying(u)', Relying(w)',
                      meetingIndex'[u] # Protocol!Absent, meetingIndex'[w] # Protocol!Absent
               PROVE  meetingIndex'[u] = meetingIndex'[w]
    BY DEF RelyingAgree
  <1>1. CASE Protocol!CompareMeeting(v)
    <2>1. meetingIndex' = meetingIndex /\ Protocol!Same(meetingIndex, v)
      BY <1>1 DEF Protocol!CompareMeeting
    <2>2. CASE u = v \/ w = v
      BY <2>1, <2>2 DEF Protocol!Same, Protocol!Registered, Protocol!Participants
    <2>3. CASE u # v /\ w # v
      BY <2>1, <2>3, RelyingStep DEF RelyingAgree
    <2> QED
      BY <2>2, <2>3
  <1>2. CASE ~ Protocol!CompareMeeting(v)
    <2>1. Relying(u) /\ Relying(w)
      BY <1>2, RelyingStep
    <2>2. meetingIndex'[u] = meetingIndex[u] /\ meetingIndex'[w] = meetingIndex[w]
      BY WriteStep
    <2> QED
      BY <2>1, <2>2 DEF RelyingAgree
  <1> QED
    BY <1>1, <1>2

LEMMA AgreedDifferStep ==
  ASSUME ProtocolInv, Protocol!TypeOK', NEW v \in Vertices, Protocol!VertexStep(v)
  PROVE  AgreedDiffer'
  <1> USE DEF ProtocolInv
  <1> SUFFICES ASSUME NEW u \in Vertices, NEW w \in Vertices,
                      Protocol!AgentOf(u) = Protocol!AgentOf(w),
                      status'[u] = "agreed", status'[w] = "agreed",
                      agentIndex'[u] # Protocol!Absent, agentIndex'[w] # Protocol!Absent,
                      Protocol!Consecutive(agentIndex', u, w)
               PROVE  agentIndex'[u] # agentIndex'[w]
    BY DEF AgreedDiffer, Protocol!Consecutive, Protocol!Registered, Protocol!Engagements
  <1>1. agentIndex'[u] = agentIndex[u] /\ agentIndex'[w] = agentIndex[w]
    BY WriteStep DEF Relying
  <1>2. Protocol!Consecutive(agentIndex, u, w)
    BY WriteStep, ConsecutiveMonotone DEF Protocol!TypeOK
  <1>3. CASE status[u] = "agreed" /\ status[w] = "agreed"
    BY <1>1, <1>2, <1>3 DEF AgreedDiffer
  <1>4. CASE status[u] # "agreed" \/ status[w] # "agreed"
    <2>1. Protocol!CompareAgent(v) /\ (u = v \/ w = v)
      BY <1>4, StatusStep
    <2>2. status'[v] = "agreed" /\ status[v] # "agreed"
      BY <1>4, <2>1, StatusStep
    <2>3. Protocol!Different(agentIndex, v)
      BY <2>1, <2>2 DEF Protocol!CompareAgent, Protocol!Outcome, Protocol!TypeOK
    <2> QED
      BY <1>1, <1>2, <2>1, <2>3 DEF Protocol!Different, Protocol!Registered, Protocol!Engagements
  <1> QED
    BY <1>3, <1>4

LEMMA ProtocolInvStep == ProtocolInv /\ [Protocol!Next]_(Protocol!vars) => ProtocolInv'
  <1> SUFFICES ASSUME ProtocolInv, [Protocol!Next]_(Protocol!vars) PROVE ProtocolInv'
    OBVIOUS
  <1>1. Protocol!TypeOK'
    BY ProtocolTypeStep DEF ProtocolInv
  <1>2. CASE UNCHANGED Protocol!vars
    BY <1>1, <1>2 DEF Protocol!vars, ProtocolInv, BusyIsActive, UninitializedIsIdle,
           RelyingAgree, Relying,
                      AgreedDiffer, Protocol!Consecutive, Protocol!Registered, Protocol!Engagements
  <1>3. ASSUME NEW v \in Vertices, Protocol!VertexStep(v) PROVE ProtocolInv'
    <2>1. BusyIsActive' /\ UninitializedIsIdle'
      BY <1>3, BusyStep, UninitializedStep DEF ProtocolInv
    <2>2. RelyingAgree' /\ AgreedDiffer'
      BY <1>1, <1>3, RelyingAgreeStep, AgreedDifferStep
    <2> QED
      BY <1>1, <2>1, <2>2 DEF ProtocolInv
  <1> QED
    BY <1>2, <1>3 DEF Protocol!Next

-------------------------------------------------------------------------------

\* Inv is an invariant of the protocol.
THEOREM ProtocolInvariance == Protocol!Spec => []ProtocolInv
  BY ProtocolInitInv, ProtocolInvStep, PTL DEF Protocol!Spec

\* Every variable keeps its type: no round, slot or status outside its range,
\* whatever the algorithm chooses.
THEOREM ProtocolTypes == Protocol!Spec => []Protocol!TypeOK
  <1>1. ProtocolInv => Protocol!TypeOK
    BY DEF ProtocolInv
  <1> QED
    BY <1>1, ProtocolInvariance, PTL

\* Participants that converge on the maps have registered one slot, although
\* no lock covers check and registration (convergenceCheck, registerValue).
THEOREM AgreementTheorem == FollowsProtocol => []MeetingAgreement
  <1>1. ProtocolInv => MeetingAgreement
    BY DEF ProtocolInv, RelyingAgree, Relying, MeetingAgreement, Protocol!MeetingAgreement,
           Protocol!Registered, Protocol!AgreedOf, Protocol!Participants
  <1> QED
    BY <1>1, ProtocolInvariance, PTL DEF FollowsProtocol

\* Converged engagements that follow each other in the agent's map differ:
\* later registrations never make two entries neighbours that were not.
THEOREM DifferenceTheorem == FollowsProtocol => []ConsecutiveDifference
  <1>1. ProtocolInv => ConsecutiveDifference
    BY DEF ProtocolInv, AgreedDiffer, ConsecutiveDifference, Protocol!ConsecutiveDifference,
           Protocol!Registered, Protocol!AgreedOf, Protocol!Engagements
  <1> QED
    BY <1>1, ProtocolInvariance, PTL DEF FollowsProtocol

\* No double booking for an agent with two engagements, both of them in its
\* map and converged on it.
THEOREM TwoEngagementsTheorem == FollowsProtocol => []TwoEngagementsDiffer
  <1>1. ProtocolInv => TwoEngagementsDiffer
    <2> SUFFICES ASSUME ProtocolInv,
                        NEW u \in Vertices, NEW w \in Vertices, u # w,
                        Protocol!Engagements(Protocol!AgentOf(u)) = {u, w},
                        {u, w} \subseteq Protocol!Registered(agentIndex, Protocol!AgreedOf(Vertices))
                 PROVE  agentIndex[u] # agentIndex[w]
      BY DEF TwoEngagementsDiffer, Protocol!TwoEngagementsDiffer
    <2>1. Protocol!AgentOf(u) = Protocol!AgentOf(w)
      BY DEF Protocol!Engagements
    <2>2. /\ Protocol!MeetingOf(u) # Protocol!MeetingOf(w)
          /\ Protocol!MeetingOf(u) \in Meetings /\ Protocol!MeetingOf(w) \in Meetings
      BY <2>1, VerticesAssumption DEF Protocol!AgentOf, Protocol!MeetingOf
    <2>3. /\ Rank[Protocol!MeetingOf(u)] \in Nat /\ Rank[Protocol!MeetingOf(w)] \in Nat
          /\ Rank[Protocol!MeetingOf(u)] # Rank[Protocol!MeetingOf(w)]
      BY <2>2, RankAssumption
    <2>4. Protocol!Consecutive(agentIndex, u, w) \/ Protocol!Consecutive(agentIndex, w, u)
      BY <2>1, <2>3 DEF Protocol!Consecutive, Protocol!Registered
    <2> QED
      BY <2>1, <2>4 DEF ProtocolInv, AgreedDiffer, Protocol!Registered, Protocol!AgreedOf
  <1> QED
    BY <1>1, ProtocolInvariance, PTL DEF FollowsProtocol

\* The entries of a meeting whose participants are all silent are final.
THEOREM FinalityTheorem == FollowsProtocol => SilentMeetingIsFinal
  <1> DEFINE Final ==
        \A m \in Meetings :
          (\A v \in Protocol!Participants(m) : status[v] # "active") =>
             \A v \in Protocol!Participants(m) :
                /\ meetingIndex'[v] = meetingIndex[v]
                /\ agentIndex'[v] = agentIndex[v]
  <1>1. ProtocolInv /\ [Protocol!Next]_(Protocol!vars) => [Final]_(Protocol!vars)
    <2> SUFFICES ASSUME ProtocolInv, NEW v \in Vertices, Protocol!VertexStep(v) PROVE Final
      BY DEF Protocol!Next
    <2> SUFFICES ASSUME NEW u \in Vertices, status[u] # "active"
                 PROVE  meetingIndex'[u] = meetingIndex[u] /\ agentIndex'[u] = agentIndex[u]
      BY DEF Protocol!Participants
    <2> QED
      BY WriteStep DEF ProtocolInv
  <1> QED
    BY <1>1, ProtocolInvariance, PTL DEF FollowsProtocol, Protocol!Spec, SilentMeetingIsFinal,
           Protocol!SilentMeetingIsFinal

-------------------------------------------------------------------------------
(***************************************************************************)
(* Types.  Every step of MeetingSchedulingVertex keeps what VertexTypeOK   *)
(* says, provided that the algorithm signals messages and registers slots. *)
(***************************************************************************)

\* The fields of a vertex and the messages of the engine, apart.
ScheduleTypeOK ==
  /\ CoreInv
  /\ preference \in [Vertices -> Slots]
  /\ blocked \in [Agents -> SUBSET Slots]
  /\ free \in [Agents -> SUBSET Slots]
  /\ value \in Index
  /\ agentIndex \in Index
  /\ meetingIndex \in Index
  /\ roundCount \in [Vertices -> 0 .. MAX_ROUND]

StateTypeOK(Message) == EngineTypeOK(Message) /\ state \in [Nodes -> Message]

\* Together they are the vertices' type invariant.
LEMMA TypeParts ==
  ASSUME NEW Message
  PROVE  ScheduleTypeOK /\ StateTypeOK(Message) <=> VertexTypeOK(Message)
  BY DEF ScheduleTypeOK, StateTypeOK, VertexTypeOK, CoreInv, PcValues

\* A problem has been drawn and nobody has collected.
LEMMA InitialTypes ==
  ASSUME NEW Message, NEW initialState \in Message, VertexInit(initialState),
         agentIndex \in {[v \in Vertices |-> Absent], preference},
         meetingIndex \in {[v \in Vertices |-> Absent], preference},
         edges \subseteq Links
  PROVE  ScheduleTypeOK /\ StateTypeOK(Message)
  <1>1. CoreInv
    BY InitialCore
  <1>2. preference \in [Vertices -> Slots] /\ blocked \in [Agents -> SUBSET Slots]
    BY ProblemsAssumption DEF VertexInit
  <1>3. free \in [Agents -> SUBSET Slots]
    BY DEF VertexInit, InitialFree
  <1>4. value \in Index /\ agentIndex \in Index /\ meetingIndex \in Index
    BY <1>2, IndexRange DEF VertexInit, Index
  <1>5. roundCount \in [Vertices -> 0 .. MAX_ROUND]
    BY MaxRoundAssumption DEF VertexInit
  <1>6. StateTypeOK(Message)
    BY DEF VertexInit, EngineInit, StateTypeOK, EngineTypeOK, Links
  <1> QED
    BY <1>1, <1>2, <1>3, <1>4, <1>5, <1>6 DEF ScheduleTypeOK

\* newRound keeps the round within its limit.
LEMMA RoundRange ==
  ASSUME ScheduleTypeOK, NEW v \in Vertices, StartCollect(v)
  PROVE  roundCount' \in [Vertices -> 0 .. MAX_ROUND]
  <1>1. NextRound(roundCount[v]) \in 0 .. MAX_ROUND
    BY MaxRoundAssumption DEF NextRound, ScheduleTypeOK
  <1> QED
    BY <1>1 DEF StartCollect, ScheduleTypeOK

\* registerValue writes slots of the domain, or nothing.
LEMMA RegisterTypes ==
  ASSUME ScheduleTypeOK, NEW v \in Vertices, NEW message, Register(v, message),
         UNCHANGED constraintVars
  PROVE  ScheduleTypeOK'
  <1>1. CoreInv'
    BY CoreAfterRegister DEF ScheduleTypeOK
  <1>2. \A index \in Index : RegisterIn(index, v, candidate[v]) \in Index
    BY IndexRange DEF RegisterIn, Index
  <1>3. UpdateFree(free, v, candidate[v]) \in [Agents -> SUBSET Slots]
    BY DEF UpdateFree, ScheduleTypeOK
  <1> QED
    BY <1>1, <1>2, <1>3 DEF Register, constraintVars, ScheduleTypeOK

-------------------------------------------------------------------------------
(***************************************************************************)
(* Wake-ups.  No link between two vertices that would still signal falls   *)
(* asleep: one of them is to collect or to signal, or a signal is waiting  *)
(* for it.  What the engine is waiting for says which of these there may   *)
(* be; so when the execution ends there is none.                           *)
(***************************************************************************)

\* A function of MaxSum always signals, a participation until it converges.
Speaks(n) == n \in Vertices => status[n] = "active"

Back(l) == <<l[2], l[1]>>

Awake(l) ==
  \/ {l[1], l[2]} \cap (toCollect \cup toSignal) # {}
  \/ mailbox[l] # NoSignal
  \/ mailbox[Back(l)] # NoSignal

PhaseInv ==
  /\ phase \in {"signalling", "done"} => toCollect = {}
  /\ phase = "signalling" => \A n \in toSignal : WorkerOf[n] \in stepping
  /\ phase = "computing" => ~ Synchronous /\ toSignal = {}
  /\ phase = "collecting" => Synchronous
  /\ phase \in {"collecting", "done"} => \A l \in Links : mailbox[l] = NoSignal
  /\ phase = "done" => toSignal = {}

WakeInv ==
  /\ PhaseInv
  /\ \A v \in Vertices : pc[v] # "idle" => v \in toCollect
  /\ \A l \in edges : Back(l) \in edges
  /\ \A l \in edges : Speaks(l[1]) /\ Speaks(l[2]) => Awake(l)

\* Nothing is awake before the first signal step but everything is to signal.
LEMMA InitialWake ==
  ASSUME NEW initialState, VertexInit(initialState), edges \subseteq Links,
         \A l \in edges : Back(l) \in edges
  PROVE  WakeInv
  BY WorkerAssumption DEF VertexInit, EngineInit, WakeInv, PhaseInv, Awake, Links

LEMMA NothingWakes ==
  ASSUME NEW Message, StateTypeOK(Message), WakeInv,
         UNCHANGED <<pc, status, state, engineVars>>
  PROVE  StateTypeOK(Message)' /\ WakeInv'
  BY DEF engineVars, StateTypeOK, EngineTypeOK, WakeInv, PhaseInv, Awake, Speaks, Synchronous

\* What the vertices do not do themselves.
LEMMA SignalStepWakes ==
  ASSUME NEW Message, NoSignal \notin Message, StateTypeOK(Message), WakeInv,
         NEW w \in Workers, SignalStep(w, state), UNCHANGED <<pc, status, state>>
  PROVE  StateTypeOK(Message)' /\ WakeInv'
  <1>1. StateTypeOK(Message)'
    BY DEF SignalStep, Sent, StateTypeOK, EngineTypeOK, Links
  <1>2. PhaseInv'
    BY DEF SignalStep, WakeInv, PhaseInv, VerticesOf, Synchronous, StateTypeOK, EngineTypeOK
  <1>3. ASSUME NEW l \in edges, Awake(l) PROVE Awake(l)'
    <2>1. l \in Links /\ Back(l) \in Links /\ Back(l) \in edges
      BY DEF StateTypeOK, EngineTypeOK, Links, Back, WakeInv
    <2>2. ASSUME NEW k \in Links, mailbox[k] # NoSignal PROVE mailbox'[k] # NoSignal
      BY <2>2 DEF SignalStep, Sent, StateTypeOK, Links
    <2>3. ASSUME NEW k \in edges, k \in Links, k[1] \in toSignal, k[1] \notin toSignal'
          PROVE  mailbox'[k] # NoSignal
      BY <2>3 DEF SignalStep, Sent, StateTypeOK, EngineTypeOK, Links, VerticesOf
    <2>4. Back(l)[1] = l[2]
      BY DEF Back
    <2> QED
      BY <1>3, <2>1, <2>2, <2>3, <2>4 DEF Awake, SignalStep
  <1> QED
    BY <1>1, <1>2, <1>3 DEF SignalStep, WakeInv, Speaks

LEMMA DeliverWakes ==
  ASSUME NEW S \in SUBSET Nodes, Deliver(S), UNCHANGED <<edges, toSignal>>,
         edges \subseteq Links, NEW l \in edges, Awake(l)
  PROVE  Awake(l)'
  <1>1. l \in Links /\ Back(l) \in Links
    BY DEF Links, Back
  <1>2. ASSUME NEW k \in Links, mailbox[k] # NoSignal
        PROVE  mailbox'[k] # NoSignal \/ k[2] \in toCollect'
    BY <1>2 DEF Deliver, Arrived
  <1>3. toCollect \subseteq toCollect'
    BY DEF Deliver
  <1>4. Back(l)[2] = l[1]
    BY DEF Back
  <1> QED
    BY <1>1, <1>2, <1>3, <1>4 DEF Awake

LEMMA DeliverTypes ==
  ASSUME NEW Message, StateTypeOK(Message), NEW S \in SUBSET Nodes, Deliver(S)
  PROVE  /\ mailbox' \in [Links -> Message \cup {NoSignal}]
         /\ received' \in [Links -> Message \cup {NoSignal}]
         /\ toCollect' \subseteq Nodes
  BY DEF Deliver, Arrived, StateTypeOK, EngineTypeOK, Links

LEMMA BatchWakes ==
  ASSUME NEW Message, StateTypeOK(Message), WakeInv,
         NEW w \in Workers, BeginBatch(w), UNCHANGED <<pc, status, state>>
  PROVE  StateTypeOK(Message)' /\ WakeInv'
  <1>1. VerticesOf(w) \in SUBSET Nodes /\ Deliver(VerticesOf(w))
    BY DEF BeginBatch, VerticesOf
  <1>2. StateTypeOK(Message)'
    BY <1>1, DeliverTypes DEF BeginBatch, StateTypeOK, EngineTypeOK
  <1>3. PhaseInv'
    BY DEF BeginBatch, WakeInv, PhaseInv, Synchronous
  <1>4. \A l \in edges : Awake(l) => Awake(l)'
    BY <1>1, DeliverWakes DEF BeginBatch, StateTypeOK, EngineTypeOK
  <1>5. toCollect \subseteq toCollect'
    BY DEF BeginBatch, Deliver
  <1> QED
    BY <1>2, <1>3, <1>4, <1>5 DEF BeginBatch, WakeInv, Speaks

LEMMA DriverWakes ==
  ASSUME NEW Message, StateTypeOK(Message), WakeInv,
         SignalStepDone \/ CollectStepDone \/ BecomeIdle, UNCHANGED <<pc, status, state>>
  PROVE  StateTypeOK(Message)' /\ WakeInv'
  <1>1. CASE SignalStepDone
    <2>1. StateTypeOK(Message)'
      BY <1>1, DeliverTypes DEF SignalStepDone, StateTypeOK, EngineTypeOK
    <2>2. \A l \in Links : mailbox'[l] = NoSignal
      BY <1>1 DEF SignalStepDone, Deliver, Arrived, Links
    <2>3. toSignal = {}
      BY <1>1 DEF SignalStepDone, WakeInv, PhaseInv
    <2>4. PhaseInv'
      BY <1>1, <2>2, <2>3 DEF SignalStepDone, PhaseInv, Synchronous
    <2>5. \A l \in edges : Awake(l) => Awake(l)'
      BY <1>1, DeliverWakes DEF SignalStepDone, StateTypeOK, EngineTypeOK
    <2>6. toCollect \subseteq toCollect'
      BY <1>1 DEF SignalStepDone, Deliver
    <2> QED
      BY <1>1, <2>1, <2>4, <2>5, <2>6 DEF SignalStepDone, WakeInv, Speaks
  <1>2. CASE CollectStepDone
    <2>1. StateTypeOK(Message)'
      BY <1>2 DEF CollectStepDone, StateTypeOK, EngineTypeOK
    <2>2. PhaseInv'
      BY <1>2, WorkerAssumption
      DEF CollectStepDone, WakeInv, PhaseInv, StateTypeOK, EngineTypeOK, Synchronous
    <2> QED
      BY <1>2, <2>1, <2>2 DEF CollectStepDone, WakeInv, Speaks, Awake
  <1>3. CASE BecomeIdle
    <2>1. StateTypeOK(Message)'
      BY <1>3 DEF BecomeIdle, StateTypeOK, EngineTypeOK
    <2>2. PhaseInv'
      BY <1>3 DEF BecomeIdle, Quiescent, Arrived, Links, WakeInv, PhaseInv, Synchronous
    <2> QED
      BY <1>3, <2>1, <2>2 DEF BecomeIdle, WakeInv, Speaks, Awake
  <1> QED
    BY <1>1, <1>2, <1>3

\* A worker is busy with n, and whatever it does others still say what they said.
Handles(n) ==
  /\ n \in toCollect
  /\ phase \in {"collecting", "computing"}
  /\ \A u \in Vertices \ {n} : status'[u] = status[u] /\ pc'[u] = pc[u]

\* Within a collect operation the vertex stays in its worker's batch.
LEMMA CollectingWakes ==
  ASSUME NEW Message, StateTypeOK(Message), WakeInv, NEW n \in Nodes, Handles(n),
         UNCHANGED <<state, engineVars>>
  PROVE  StateTypeOK(Message)' /\ WakeInv'
  <1>1. StateTypeOK(Message)' /\ PhaseInv'
    BY DEF StateTypeOK, EngineTypeOK, engineVars, WakeInv, PhaseInv, Synchronous
  <1>2. \A v \in Vertices : pc'[v] # "idle" => v \in toCollect'
    BY DEF Handles, WakeInv, engineVars
  <1>3. ASSUME NEW l \in edges, Speaks(l[1])', Speaks(l[2])' PROVE Awake(l)'
    <2>1. CASE n \in {l[1], l[2]}
      BY <2>1 DEF Handles, Awake, engineVars
    <2>2. CASE n \notin {l[1], l[2]}
      BY <1>3, <2>2 DEF Handles, Speaks, WakeInv, Awake, engineVars
    <2> QED
      BY <2>1, <2>2
  <1> QED
    BY <1>1, <1>2, <1>3 DEF WakeInv, engineVars

\* At its end a vertex that still speaks has woken everyone it is linked with.
LEMMA FinishWakes ==
  ASSUME NEW Message, NoSignal \notin Message, StateTypeOK(Message), WakeInv,
         NEW n \in Nodes, Handles(n), NEW message \in Message,
         state' = [state EXCEPT ![n] = message], NEW score \in Int,
         Speaks(n)' => score > 0, Finish(n, state', score), n \in Vertices => pc'[n] = "idle"
  PROVE  StateTypeOK(Message)' /\ WakeInv'
  <1>1. state' \in [Nodes -> Message]
    BY DEF StateTypeOK
  <1>2. StateTypeOK(Message)'
    BY <1>1 DEF Finish, Sent, StateTypeOK, EngineTypeOK, Links
  <1>3. PhaseInv'
    BY DEF Finish, Handles, WakeInv, PhaseInv, Synchronous
  <1>4. \A v \in Vertices : pc'[v] # "idle" => v \in toCollect'
    BY DEF Handles, Finish, WakeInv
  <1>5. ASSUME NEW l \in edges, Speaks(l[1])', Speaks(l[2])' PROVE Awake(l)'
    <2>1. l \in Links /\ Back(l) \in Links /\ Back(l) \in edges
          /\ Back(l)[1] = l[2] /\ Back(l)[2] = l[1]
      BY DEF StateTypeOK, EngineTypeOK, Links, Back, WakeInv
    <2>2. ASSUME n \in {l[1], l[2]} PROVE Awake(l)'
      <3>1. score > 0
        BY <1>5, <2>2
      <3>2. CASE Synchronous
        BY <2>2, <3>1, <3>2 DEF Finish, Awake
      <3>3. CASE ~ Synchronous
        <4>1. ASSUME NEW k \in edges, k \in Links, k[1] = n PROVE mailbox'[k] # NoSignal
          BY <1>1, <3>1, <3>3, <4>1 DEF Finish, Sent, Links
        <4> QED
          BY <2>1, <2>2, <4>1 DEF Awake
      <3> QED
        BY <3>2, <3>3
    <2>3. ASSUME n \notin {l[1], l[2]} PROVE Awake(l)'
      <3>1. Awake(l)
        BY <1>5, <2>3 DEF Handles, Speaks, WakeInv
      <3>2. ASSUME NEW k \in Links, mailbox[k] # NoSignal PROVE mailbox'[k] # NoSignal
        BY <1>1, <3>2 DEF Finish, Sent, Links
      <3> QED
        BY <2>1, <2>3, <3>1, <3>2 DEF Finish, Awake
    <2> QED
      BY <2>2, <2>3
  <1> QED
    BY <1>2, <1>3, <1>4, <1>5 DEF WakeInv, Finish

\* A collect operation of a participation ends: it keeps silent only when it
\* has converged.
LEMMA FinishCollectWakes ==
  ASSUME NEW Message, NoSignal \notin Message, CoreInv, StateTypeOK(Message), WakeInv,
         NEW v \in Vertices, v \in toCollect, phase \in {"collecting", "computing"},
         NEW message \in Message, FinishCollect(v, message),
         \A u \in Vertices \ {v} : status'[u] = status[u]
  PROVE  StateTypeOK(Message)' /\ WakeInv'
  <1>1. Handles(v) /\ pc'[v] = "idle"
    BY DEF Handles, FinishCollect, CoreInv
  <1>2. Score(v) \in Int /\ (Speaks(v)' => Score(v) > 0)
    BY DEF Score, Speaks
  <1> QED
    BY <1>1, <1>2, FinishWakes, NodesAssumption DEF FinishCollect

\* Or it goes on, with any of its steps.
LEMMA GoOnWakes ==
  ASSUME NEW Message, CoreInv, StateTypeOK(Message), WakeInv,
         NEW v \in Vertices, v \in toCollect, phase \in {"collecting", "computing"},
         NEW next, pc' = [pc EXCEPT ![v] = next], UNCHANGED <<state, engineVars>>,
         \A u \in Vertices \ {v} : status'[u] = status[u]
  PROVE  StateTypeOK(Message)' /\ WakeInv'
  <1>1. Handles(v)
    BY DEF Handles, CoreInv
  <1> QED
    BY <1>1, CollectingWakes, NodesAssumption

\* A vertex that is collected, or has been, is in its worker's batch.
LEMMA Collecting ==
  ASSUME NEW Message, StateTypeOK(Message), WakeInv, NEW v \in Vertices,
         StartCollect(v) \/ pc[v] # "idle"
  PROVE  v \in toCollect /\ phase \in {"collecting", "computing"}
  BY DEF StartCollect, MayCollect, WakeInv, PhaseInv, StateTypeOK, EngineTypeOK

\* convergenceCheck decides the status of its own vertex only.
LEMMA OwnStatus ==
  ASSUME CoreInv, NEW v \in Vertices, FailedLook(v) \/ SecondLook(v) \/ UNCHANGED status
  PROVE  \A u \in Vertices \ {v} : status'[u] = status[u]
  BY DEF FailedLook, SecondLook, CoreInv

\* When the execution ends nothing is awake.
LEMMA AsleepWhenDone ==
  ASSUME WakeInv, edges \subseteq Links, phase = "done", NEW l \in edges,
         Speaks(l[1]), Speaks(l[2])
  PROVE  FALSE
  BY DEF WakeInv, PhaseInv, Awake, Links, Back

===============================================================================
