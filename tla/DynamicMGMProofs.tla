-------------------------- MODULE DynamicMGMProofs --------------------------
(***************************************************************************)
(* What survives of the promises of SharedSchedule when a controller       *)
(* thread resets flags, adds and removes participants between any two      *)
(* steps: for every problem, number of workers and controller mode.        *)
(*                                                                         *)
(* The argument differs from that of VertexProofs in what it may           *)
(* not use: a flag that is set need not stay set, an entry that is there   *)
(* need not stay there, and a converged vertex goes on checking.  What     *)
(* carries it is that the controller only ever makes fewer vertices rely   *)
(* on fewer entries, and that a vertex about to register is active,        *)
(* whoever has made it so.                                                 *)
(***************************************************************************)
EXTENDS DynamicMGM, FiniteSetTheorems, TLAPS

\* Relying on the meeting's map: between the two looks, or converged by them.
Relying(v) == status[v] = "agreed" \/ pc[v] = "comparing"

FlagsAndEntries ==
  /\ meetingIndex \in Index
  /\ candidate \in Index
  /\ status \in [Vertices -> Status]
  /\ pc \in [Vertices -> {"idle", "comparing", "checked", "registering"}]

RegisteringIsActive == \A v \in Vertices : pc[v] = "registering" => status[v] = "active"

RelyingAgree ==
  \A u, w \in Vertices :
    /\ MeetingOf(u) = MeetingOf(w)
    /\ Relying(u) /\ Relying(w)
    /\ meetingIndex[u] # Absent /\ meetingIndex[w] # Absent
    => meetingIndex[u] = meetingIndex[w]

Inv == FlagsAndEntries /\ RegisteringIsActive /\ RelyingAgree

-------------------------------------------------------------------------------
\* The steps of a vertex.

\* Outcome yields a status, and "agreed" only from an agreement or from itself.
LEMMA OutcomeStatus ==
  ASSUME NEW s \in Status, NEW agreement \in BOOLEAN, NEW r
  PROVE  /\ Outcome(s, agreement, r) \in Status
         /\ ~ agreement /\ Outcome(s, agreement, r) = "agreed" => s = "agreed"
  BY DEF Outcome, Status

\* A step touches the flag, the place and the entry of its own vertex only.
LEMMA OwnStateOnly ==
  ASSUME FlagsAndEntries, NEW v \in Vertices, VertexStep(v)
  PROVE  /\ FlagsAndEntries'
         /\ \A u \in Vertices : u # v =>
              /\ meetingIndex'[u] = meetingIndex[u]
              /\ status'[u] = status[u]
              /\ pc'[u] = pc[u]
  <1> USE DEF FlagsAndEntries
  <1>1. CASE Initialize(v) \/ KeepValue(v)
    BY <1>1 DEF Initialize, KeepValue, FinishCollect
  <1>2. CASE CompareMeeting(v)
    <2>1. status' = status \/ status' = [status EXCEPT ![v] = Outcome(@, FALSE, roundCount'[v])]
      BY <1>2 DEF CompareMeeting
    <2>2. Outcome(status[v], FALSE, roundCount'[v]) \in Status
      BY OutcomeStatus
    <2>3. /\ status' \in [Vertices -> Status]
          /\ \A u \in Vertices : u # v => status'[u] = status[u]
      BY <2>1, <2>2
    <2> QED
      BY <1>2, <2>3 DEF CompareMeeting
  <1>3. CASE CompareAgent(v)
    <2>1. Different(agentIndex, v) \in BOOLEAN
      BY DEF Different
    <2>2. /\ status' \in [Vertices -> Status]
          /\ \A u \in Vertices : u # v => status'[u] = status[u]
      BY <1>3, <2>1, OutcomeStatus DEF CompareAgent
    <2> QED
      BY <1>3, <2>2 DEF CompareAgent
  <1>4. CASE Choose(v)
    BY <1>4, TimeslotsAssumption DEF Choose, Index, Slots
  <1>5. CASE Register(v)
    BY <1>5, TimeslotsAssumption DEF Register, FinishCollect, Index, Absent
  <1> QED
    BY <1>1, <1>2, <1>3, <1>4, <1>5 DEF VertexStep

\* A vertex writes its entry only while it is active, relying on nothing
\* afterwards.
LEMMA WriteStep ==
  ASSUME Inv, NEW v \in Vertices, VertexStep(v)
  PROVE  \/ meetingIndex' = meetingIndex
         \/ status[v] = "active" /\ ~ Relying(v)'
  <1>1. CASE Register(v)
    BY <1>1 DEF Register, FinishCollect, Inv, FlagsAndEntries, RegisteringIsActive, Relying
  <1> QED
    BY <1>1 DEF VertexStep, Initialize, CompareMeeting, CompareAgent, KeepValue, Choose

LEMMA RegisteringStep ==
  ASSUME Inv, NEW v \in Vertices, VertexStep(v)
  PROVE  RegisteringIsActive'
  <1>1. pc'[v] = "registering" => status'[v] = "active"
    BY DEF VertexStep, Initialize, CompareMeeting, CompareAgent, KeepValue, Choose, Register,
           FinishCollect, Inv, FlagsAndEntries
  <1> QED
    BY <1>1, OwnStateOnly DEF Inv, RegisteringIsActive

\* A vertex that comes to rely on its meeting in a step of v is v, which has
\* just found its meeting in agreement.
LEMMA RelyingStep ==
  ASSUME Inv, NEW v \in Vertices, VertexStep(v), NEW u \in Vertices, Relying(u)', ~ Relying(u)
  PROVE  u = v /\ CompareMeeting(v) /\ Same(meetingIndex, v)
  <1> USE DEF Inv, FlagsAndEntries
  <1>1. u = v
    BY OwnStateOnly DEF Relying
  <1>2. ~ (Initialize(v) \/ KeepValue(v) \/ Choose(v) \/ Register(v))
    BY <1>1 DEF Initialize, KeepValue, Choose, Register, FinishCollect, Relying
  <1>3. ~ CompareAgent(v)
    BY <1>1 DEF CompareAgent, Relying
  <1>4. CASE CompareMeeting(v) /\ ~ Same(meetingIndex, v)
    <2>1. status'[v] = "agreed"
      BY <1>1, <1>4 DEF CompareMeeting, Relying
    <2>2. Outcome(status[v], FALSE, roundCount'[v]) = "agreed"
      BY <1>4, <2>1 DEF CompareMeeting
    <2>3. status[v] = "agreed"
      BY <2>2, OutcomeStatus
    <2> QED
      BY <1>1, <2>3 DEF Relying
  <1> QED
    BY <1>1, <1>2, <1>3, <1>4 DEF VertexStep

LEMMA RelyingAgreeStep ==
  ASSUME Inv, NEW v \in Vertices, VertexStep(v)
  PROVE  RelyingAgree'
  <1> SUFFICES ASSUME NEW u \in Vertices, NEW w \in Vertices,
                      MeetingOf(u) = MeetingOf(w),
                      Relying(u)', Relying(w)',
                      meetingIndex'[u] # Absent, meetingIndex'[w] # Absent
               PROVE  meetingIndex'[u] = meetingIndex'[w]
    BY DEF RelyingAgree
  <1>1. CASE Relying(u) /\ Relying(w)
    <2>1. meetingIndex'[u] = meetingIndex[u] /\ meetingIndex'[w] = meetingIndex[w]
      BY WriteStep, OwnStateOnly DEF Inv
    <2> QED
      BY <1>1, <2>1 DEF Inv, RelyingAgree
  <1>2. CASE ~ Relying(u) \/ ~ Relying(w)
    <2>1. CompareMeeting(v) /\ Same(meetingIndex, v) /\ (u = v \/ w = v)
      BY <1>2, RelyingStep
    <2>2. meetingIndex' = meetingIndex
      BY <2>1 DEF CompareMeeting
    <2> QED
      BY <2>1, <2>2 DEF Same, Registered, Participants
  <1> QED
    BY <1>1, <1>2

-------------------------------------------------------------------------------
\* The steps of the engine and of the controller.

LEMMA EngineStep ==
  ASSUME Inv, UNCHANGED collectVars
  PROVE  Inv'
  BY DEF collectVars, Inv, FlagsAndEntries, RegisteringIsActive, RelyingAgree, Relying

\* The controller moves no vertex, sets no flag but to "active", and replaces
\* no entry.
LEMMA ControllerOnlyTakesAway ==
  ASSUME Inv, ControllerStep
  PROVE  /\ pc' = pc
         /\ candidate' = candidate
         /\ status' \in [Vertices -> Status]
         /\ \A u \in Vertices : status'[u] \in {status[u], "active"}
         /\ meetingIndex' \in Index
         /\ \A u \in Vertices : meetingIndex'[u] \in {meetingIndex[u], Absent}
  <1> USE DEF Inv, FlagsAndEntries
  <1>1. CASE CheckFinish \/ ResetsDone \/ Change \/ ChangesDone
    BY <1>1 DEF CheckFinish, ResetsDone, Change, ChangesDone, collectVars
  <1>2. CASE ResetFlag
    BY <1>2 DEF ResetFlag, Status
  <1>3. CASE ClearIndices
    BY <1>3, TimeslotsAssumption DEF ClearIndices, Index, Absent
  <1> QED
    BY <1>1, <1>2, <1>3 DEF ControllerStep

LEMMA ControllerInv ==
  ASSUME Inv, ControllerStep
  PROVE  Inv'
  <1>1. FlagsAndEntries' /\ RegisteringIsActive'
    BY ControllerOnlyTakesAway DEF Inv, FlagsAndEntries, RegisteringIsActive
  <1>2. \A u \in Vertices : Relying(u)' => Relying(u)
    BY ControllerOnlyTakesAway DEF Relying
  <1>3. RelyingAgree'
    BY <1>2, ControllerOnlyTakesAway DEF Inv, RelyingAgree
  <1> QED
    BY <1>1, <1>3 DEF Inv

-------------------------------------------------------------------------------

LEMMA InitInv == Init => Inv
  <1> SUFFICES ASSUME Init PROVE Inv
    OBVIOUS
  <1>1. meetingIndex \in Index
    BY ProblemsAssumption, TimeslotsAssumption DEF Init, Index, Slots
  <1>2. candidate \in Index
    BY TimeslotsAssumption DEF Init, Index, Absent
  <1> QED
    BY <1>1, <1>2 DEF Init, Inv, FlagsAndEntries, RegisteringIsActive, RelyingAgree, Relying,
                      Status

LEMMA InvStep == Inv /\ [Next]_vars => Inv'
  <1> SUFFICES ASSUME Inv, [Next]_vars PROVE Inv'
    OBVIOUS
  <1>1. CASE UNCHANGED vars
    BY <1>1, EngineStep DEF vars
  <1>2. ASSUME NEW v \in Vertices, VertexStep(v) PROVE Inv'
    BY <1>2, OwnStateOnly, RegisteringStep, RelyingAgreeStep DEF Inv
  <1>3. ASSUME NEW w \in Workers, WorkerStep(w) PROVE Inv'
    BY <1>2, <1>3, EngineStep, ParticipationsOnly DEF WorkerStep, VerticesOf
  <1>4. CASE DriverStep
    BY <1>4, EngineStep DEF DriverStep
  <1>5. CASE ControllerStep
    BY <1>5, ControllerInv
  <1>6. CASE Stopped
    BY <1>6, EngineStep DEF Stopped, vars
  <1> QED
    BY <1>1, <1>3, <1>4, <1>5, <1>6 DEF Next

\* The inductive invariant: what vertices rely on agrees, with the controller
\* running (DynamicController, MGMGraphFactory.addAgent and removeAgent).
THEOREM Invariance == Spec => []Inv
  BY InitInv, InvStep, PTL DEF Spec

\* Participants of a meeting that are converged on the maps and entered in it
\* hold one slot, whatever DynamicController resets, adds and removes meanwhile.
THEOREM DynamicAgreement == Spec => []MeetingAgreement
  <1>1. Inv => MeetingAgreement
    BY DEF Inv, RelyingAgree, Relying, MeetingAgreement, Registered, AgreedOf, Participants
  <1> QED
    BY <1>1, Invariance, PTL

\* No step replaces an entry of a meeting whose participants are all silent.
THEOREM DynamicFinality == Spec => SilentMeetingKeepsSlots
  <1> DEFINE Kept ==
        \A m \in Meetings :
          (\A v \in Participants(m) : status[v] # "active") =>
             \A v \in Participants(m) : meetingIndex'[v] \in {meetingIndex[v], Absent}
  <1>1. Inv /\ [Next]_vars => [Kept]_vars
    <2> SUFFICES ASSUME Inv, Next,
                        NEW u \in Vertices, status[u] # "active"
                 PROVE  meetingIndex'[u] \in {meetingIndex[u], Absent}
      BY DEF Participants
    <2>1. ASSUME NEW v \in Vertices, VertexStep(v)
          PROVE  meetingIndex'[u] = meetingIndex[u]
      BY <2>1, WriteStep, OwnStateOnly DEF Inv
    <2>2. ASSUME NEW w \in Workers, WorkerStep(w)
          PROVE  meetingIndex'[u] = meetingIndex[u]
      BY <2>1, <2>2, ParticipationsOnly DEF WorkerStep, VerticesOf, collectVars
    <2>3. CASE DriverStep \/ Stopped
      BY <2>3 DEF DriverStep, Stopped, collectVars, vars
    <2> QED
      BY <2>2, <2>3, ControllerOnlyTakesAway DEF Next
  <1> QED
    BY <1>1, Invariance, PTL DEF Spec, SilentMeetingKeepsSlots
-------------------------------------------------------------------------------
(***************************************************************************)
(* Types.  The controller counts the meetings it has ever seen to pick or  *)
(* number the next one, so there must stay finitely many of them; and it   *)
(* clears only what a participation of the built graph has entered.        *)
(***************************************************************************)

MembersTypeOK ==
  /\ mode \in Modes
  /\ at \in {"loop", "change", "reset", "reactivate", "clear", "clearMeeting", "ended",
             "failed"}
  /\ isRunning \in BOOLEAN
  /\ todo \subseteq Vertices
  /\ cleared \in Vertices \cup {Nothing}
  /\ known \subseteq Nat
  /\ members \subseteq (Vertices \cup {Elsewhere}) \X (0 .. MAX_ADDED)
  /\ added \in 0 .. MAX_ADDED

CollectTypeOK ==
  /\ initialized \subseteq Vertices
  /\ agentIndex \in Index
  /\ roundCount \in [Vertices -> 0 .. MAX_ROUND]

TypeInv ==
  /\ FlagsAndEntries /\ CollectTypeOK /\ MembersTypeOK
  /\ EngineTypeOK({Signal})
  /\ IsFiniteSet(known)

LEMMA TypeParts == TypeInv <=> TypeOK /\ IsFiniteSet(known)
  BY DEF TypeInv, TypeOK, FlagsAndEntries, CollectTypeOK, MembersTypeOK

\* What the engine does, alone or at the end of a collect operation.
LEMMA EngineTypes ==
  ASSUME EngineTypeOK({Signal}),
         \/ UNCHANGED engineVars
         \/ \E w \in Workers : SignalStep(w, Signals) \/ BeginBatch(w)
         \/ SignalStepDone \/ CollectStepDone \/ BecomeIdle
         \/ \E v \in Nodes, score \in {0, 1} : Finish(v, Signals, score)
  PROVE  EngineTypeOK({Signal})'
  <1> USE DEF EngineTypeOK
  <1>1. \A S \in SUBSET Nodes : Sent(S, Signals) \in [Links -> {Signal} \cup {NoSignal}]
    BY DEF Sent, Signals, Links
  <1>2. ASSUME NEW S \in SUBSET Nodes, Deliver(S)
        PROVE  /\ mailbox' \in [Links -> {Signal} \cup {NoSignal}]
               /\ received' \in [Links -> {Signal} \cup {NoSignal}]
               /\ toCollect' \subseteq Nodes
    BY <1>2 DEF Deliver, Arrived, Links
  <1>3. CASE UNCHANGED engineVars
    BY <1>3 DEF engineVars
  <1>4. ASSUME NEW w \in Workers, SignalStep(w, Signals) PROVE EngineTypeOK({Signal})'
    BY <1>1, <1>4 DEF SignalStep, VerticesOf
  <1>5. ASSUME NEW w \in Workers, BeginBatch(w) PROVE EngineTypeOK({Signal})'
    BY <1>2, <1>5 DEF BeginBatch, VerticesOf
  <1>6. CASE SignalStepDone
    BY <1>2, <1>6 DEF SignalStepDone
  <1>7. CASE CollectStepDone \/ BecomeIdle
    BY <1>7 DEF CollectStepDone, BecomeIdle
  <1>8. ASSUME NEW v \in Nodes, NEW score \in {0, 1}, Finish(v, Signals, score)
        PROVE  EngineTypeOK({Signal})'
    BY <1>1, <1>8 DEF Finish
  <1> QED
    BY <1>3, <1>4, <1>5, <1>6, <1>7, <1>8

LEMMA VertexTypes ==
  ASSUME TypeInv, NEW v \in Vertices, VertexStep(v), UNCHANGED controllerVars
  PROVE  TypeInv'
  <1>1. FlagsAndEntries'
    BY OwnStateOnly DEF TypeInv
  <1>2. CollectTypeOK'
    <2>1. NextRound(roundCount[v]) \in 0 .. MAX_ROUND
      BY MaxRoundAssumption DEF TypeInv, CollectTypeOK, NextRound
    <2>2. Slots \subseteq 0 .. TIMESLOTS
      BY TimeslotsAssumption DEF Slots
    <2> QED
      BY <2>1, <2>2 DEF TypeInv, CollectTypeOK, VertexStep, Initialize, CompareMeeting,
         CompareAgent, KeepValue, Choose, Register, StartCollect, FinishCollect, Index
  <1>3. MembersTypeOK' /\ IsFiniteSet(known)'
    BY DEF TypeInv, MembersTypeOK, controllerVars
  <1>4. UNCHANGED engineVars \/ \E n \in Nodes, score \in {0, 1} : Finish(n, Signals, score)
    BY ParticipationsOnly DEF VertexStep, Initialize, CompareMeeting, CompareAgent, KeepValue,
       Choose, Register, FinishCollect
  <1>5. EngineTypeOK({Signal})'
    BY <1>4, EngineTypes DEF TypeInv
  <1> QED
    BY <1>1, <1>2, <1>3, <1>5 DEF TypeInv

\* An addition or a removal: the meeting is one of the known, or the next.
LEMMA ChangeTypes ==
  ASSUME TypeInv, Change
  PROVE  MembersTypeOK' /\ IsFiniteSet(known)'
  <1> USE DEF TypeInv, MembersTypeOK
  <1>1. PickedMeetings \subseteq Nat
    BY FS_CardinalityType DEF PickedMeetings
  <1>2. \A a, m : At(a, m) \in Vertices \cup {Elsewhere}
    BY DEF At
  <1>3. ASSUME NEW a, NEW m \in PickedMeetings, AddAgent(a, m)
        PROVE  MembersTypeOK' /\ IsFiniteSet(known)'
    <2>1. added' \in 0 .. MAX_ADDED
      BY <1>3, MaxAddedAssumption DEF AddAgent
    <2>2. members' \subseteq (Vertices \cup {Elsewhere}) \X (0 .. MAX_ADDED)
      BY <1>2, <1>3, <2>1 DEF AddAgent
    <2>3. known' \subseteq Nat /\ IsFiniteSet(known')
      BY <1>1, <1>3, FS_AddElement DEF AddAgent
    <2> QED
      BY <1>3, <2>1, <2>2, <2>3 DEF AddAgent, Change
  <1>4. ASSUME NEW a, NEW m \in PickedMeetings, RemoveAgent(a, m)
        PROVE  MembersTypeOK' /\ IsFiniteSet(known)'
    BY <1>4 DEF RemoveAgent, Change
  <1>5. CASE members = {} /\ at' = "failed" /\ UNCHANGED <<cleared, members, added, known>>
    BY <1>5 DEF Change
  <1> QED
    BY <1>3, <1>4, <1>5 DEF Change

LEMMA ControllerTypes ==
  ASSUME TypeInv, Inv, ControllerStep
  PROVE  TypeInv'
  <1>1. FlagsAndEntries'
    BY ControllerInv DEF Inv
  <1>2. CollectTypeOK'
    BY TimeslotsAssumption
    DEF TypeInv, CollectTypeOK, ControllerStep, CheckFinish, ResetFlag, ResetsDone, Change,
        ClearIndices, ChangesDone, collectVars, Index, Absent
  <1>3. EngineTypeOK({Signal})'
    BY EngineTypes DEF TypeInv, ControllerStep
  <1>4. MembersTypeOK' /\ IsFiniteSet(known)'
    <2>1. CASE Change
      BY <2>1, ChangeTypes
    <2>2. CASE CheckFinish \/ ResetFlag \/ ResetsDone \/ ClearIndices \/ ChangesDone
      BY <2>2 DEF TypeInv, MembersTypeOK, CheckFinish, ResetFlag, ResetsDone, ClearIndices,
         ChangesDone
    <2> QED
      BY <2>1, <2>2 DEF ControllerStep
  <1> QED
    BY <1>1, <1>2, <1>3, <1>4 DEF TypeInv

LEMMA InitTypes == Init => TypeInv
  <1> SUFFICES ASSUME Init PROVE TypeInv
    OBVIOUS
  <1>1. FlagsAndEntries
    BY InitInv DEF Inv
  <1>2. CollectTypeOK
    BY TimeslotsAssumption, MaxRoundAssumption DEF Init, CollectTypeOK, Index, Absent
  <1>3. EngineTypeOK({Signal})
    BY ParticipationsOnly DEF Init, EngineInit, EngineTypeOK, Links
  <1>4. MembersTypeOK /\ IsFiniteSet(known)
    BY NumberedAssumption, MaxAddedAssumption DEF Init, MembersTypeOK, Built
  <1> QED
    BY <1>1, <1>2, <1>3, <1>4 DEF TypeInv

LEMMA TypeStep == TypeInv /\ Inv /\ [Next]_vars => TypeInv'
  <1> SUFFICES ASSUME TypeInv, Inv, [Next]_vars PROVE TypeInv'
    OBVIOUS
  <1>1. ASSUME UNCHANGED <<collectVars, controllerVars>>, EngineTypeOK({Signal})' PROVE TypeInv'
    BY <1>1 DEF collectVars, controllerVars, TypeInv, FlagsAndEntries, CollectTypeOK, MembersTypeOK
  <1>2. CASE UNCHANGED vars
    BY <1>1, <1>2, EngineTypes DEF vars, TypeInv
  <1>3. ASSUME NEW w \in Workers, WorkerStep(w) PROVE TypeInv'
    <2>1. CASE \/ SignalStep(w, Signals) /\ UNCHANGED collectVars
               \/ BeginBatch(w) /\ UNCHANGED collectVars
      BY <1>1, <1>3, <2>1, EngineTypes DEF WorkerStep, TypeInv
    <2>2. ASSUME NEW v \in VerticesOf(w), VertexStep(v) PROVE TypeInv'
      BY <1>3, <2>2, VertexTypes, ParticipationsOnly DEF WorkerStep, VerticesOf
    <2> QED
      BY <1>3, <2>1, <2>2 DEF WorkerStep
  <1>4. CASE DriverStep
    BY <1>1, <1>4, EngineTypes DEF DriverStep, TypeInv
  <1>5. CASE ControllerStep
    BY <1>5, ControllerTypes
  <1> QED
    BY <1>2, <1>3, <1>4, <1>5 DEF Next, Stopped

\* Everything keeps its type while the controller adds, removes and resets.
THEOREM DynamicTypes == Spec => []TypeOK
  <1>1. TypeInv => TypeOK
    BY TypeParts
  <1> QED
    BY <1>1, InitTypes, TypeStep, Invariance, PTL DEF Spec

=============================================================================
