-------------------------------- MODULE MaxSum --------------------------------
(***************************************************************************)
(* The MaxSum algorithm: VariableVertex.collect and FunctionVertex.collect *)
(* on the graph that MaxSumGraphFactory builds, executed by Signal/Collect.*)
(* A participation has a variable vertex, which takes part in the shared   *)
(* protocol, and a function vertex, which only passes utilities on; within *)
(* a meeting every variable is linked with every function, both ways.      *)
(*                                                                         *)
(* Of the utilities only what decides the control is kept: whether a       *)
(* message is null, has anything in it, and has anything but zeros (a slot *)
(* that another engagement of the agent holds is worth 0, and all may be). *)
(* The sums that variables and functions exchange are left open, so the    *)
(* best assignment may be any slot the agent has not taken.                *)
(***************************************************************************)
EXTENDS MeetingSchedulingVertex

Function(v) == <<AgentOf(v), MeetingOf(v), "f">>
Functions == {Function(v) : v \in Vertices}

ASSUME VariablesAndFunctions == Nodes = Vertices \cup Functions

vars == <<constraintVars, scheduleVars, engineVars>>

\* The state of a vertex is null until its first collect.
NoMessage == "null"
OwnUtilities == "own"        \* of a variable, under its own id
EmptyMessage == "empty"      \* utilities for nobody, or for no slot
ZeroUtilities == "zeros"     \* by a variable per function, or by a function per
BuiltUtilities == "built"    \* variable: zeros only, and others
Message == {NoMessage, OwnUtilities, EmptyMessage, ZeroUtilities, BuiltUtilities}

\* An edge without a signal is told from one with any.
ASSUME NoSignalIsNoMessage == NoSignal \notin Message

TypeOK == VertexTypeOK(Message)

FunctionsOf(v) == {Function(u) : u \in Participants(MeetingOf(v))}

\* MaxSumGraphFactory.build: both maps hold the preferences.
Init ==
  /\ VertexInit(NoMessage)
  /\ agentIndex = preference
  /\ meetingIndex = preference
  /\ edges = UNION {({v} \X FunctionsOf(v)) \cup (FunctionsOf(v) \X {v}) : v \in Vertices}

-------------------------------------------------------------------------------
(* Variable vertices. *)

HeardBy(n, kinds) == {l \in edges : l[2] = n /\ received[l] \in kinds}

\* isNull: nothing but zeros in what the functions have sent.
IsNull(v) == HeardBy(v, {BuiltUtilities}) = {}

\* buildUtilities: all slots for every function heard of, with the sums of the others.
Built(v) ==
  CASE ~ IsNull(v) -> BuiltUtilities
    [] IsNull(v) /\ HeardBy(v, {EmptyMessage, ZeroUtilities}) # {} -> ZeroUtilities
    [] OTHER -> EmptyMessage

\* Faulty variant of ProcessMessages: a converged vertex goes on to choose.
ProcessMessagesAlways(v) ==
  /\ \/ ~ IsNull(v) /\ GoOnToChoose(v)
     \/ IsNull(v) /\ FinishCollect(v, Built(v))
  /\ UNCHANGED <<free, value, agentIndex, meetingIndex, candidate>>

\* The rest of collect up to the choice of a vertex that has not converged.
ProcessMessages(v) ==
  /\ LET mayChoose == ~ IsNull(v) /\ status'[v] = "active"
     IN  \/ mayChoose /\ GoOnToChoose(v)
         \/ ~ mayChoose /\ FinishCollect(v, Built(v))
  /\ UNCHANGED <<free, value, agentIndex, meetingIndex, candidate>>

\* The first collect announces the utilities and checks nothing.
Initialize(v) ==
  /\ value[v] = Absent
  /\ StartCollect(v)
  /\ value' = [value EXCEPT ![v] = preference[v]]
  /\ UNCHANGED <<free, agentIndex, meetingIndex, status, candidate>>
  /\ FinishCollect(v, OwnUtilities)

\* A later collect: convergenceCheck, in one step or in two, then the messages.
CompareMeeting(v) ==
  /\ value[v] # Absent
  /\ StartCollect(v)
  /\ FirstLook(v)

CompareAgent(v) == SecondLook(v) /\ ProcessMessages(v)

Collect(v) ==
  /\ value[v] # Absent
  /\ StartCollect(v)
  /\ FailedLook(v)
  /\ ProcessMessages(v)

\* Faulty variant of BestAssignments: the position of a slot, from 1, taken for an index from 0.
BestAssignmentsShifted(v) == {s + 1 : s \in OpenSlots(agentIndex, v)}

\* findBestValueAssignment: whatever the sums are, findMaxValue passes a slot
\* that another engagement of the agent holds, and may give up at one.
BestAssignments(v) ==
  OpenSlots(agentIndex, v) \cup IF OpenSlots(agentIndex, v) = Slots THEN {} ELSE {Absent}

FindBestValueAssignment(v) ==
  /\ pc[v] = "choosing"
  /\ \E c \in BestAssignments(v) : candidate' = [candidate EXCEPT ![v] = c]
  /\ pc' = [pc EXCEPT ![v] = "registering"]
  /\ UNCHANGED <<free, value, agentIndex, meetingIndex, status, roundCount, state, engineVars>>

RegisterValue(v) == Register(v, Built(v))

VariableStep(v) ==
  \/ Initialize(v)
  \/ CompareMeeting(v)
  \/ CompareAgent(v)
  \/ Collect(v)
  \/ FindBestValueAssignment(v)
  \/ RegisterValue(v)

-------------------------------------------------------------------------------
(* Function vertices. *)

\* For every receiver the utilities of the other senders, by the id they come
\* under, and the function's own on top: none when there is no other sender, as
\* for the one variable of a meeting that starts with its own id.  Utilities
\* under one id replace each other, and those of the agent's slots are read one
\* by one from a map that others write: there may be zeros only, unless all the
\* variables heard of have sent others.
Passed(f) ==
  LET zeros == HeardBy(f, {ZeroUtilities}) # {}
      built == HeardBy(f, {BuiltUtilities}) # {}
      own == HeardBy(f, {OwnUtilities}) # {} /\ Cardinality(Participants(MeetingOf(f))) > 1
  IN  CASE built /\ ~ zeros -> {BuiltUtilities}
        [] zeros \/ (own /\ ~ built) -> {ZeroUtilities, BuiltUtilities}
        [] OTHER -> {EmptyMessage}

\* Faulty variant of FunctionScore: a function that has passed utilities on goes silent.
FunctionScoreOnce(f) == IF state'[f] = BuiltUtilities THEN 0 ELSE 1

\* scoreSignal of a vertex that never checks its convergence.
FunctionScore(f) == 1

CollectFunction(f) ==
  /\ MayCollect(f)
  /\ \A u \in VerticesOf(WorkerOf[f]) \cap Vertices : pc[u] = "idle"
  /\ \E message \in Passed(f) : state' = [state EXCEPT ![f] = message]
  /\ Finish(f, state', FunctionScore(f))
  /\ UNCHANGED <<free, value, agentIndex, meetingIndex, status, roundCount, pc, candidate>>

-------------------------------------------------------------------------------

WorkerStep(w) ==
  /\ \/ SignalStep(w, state) /\ UNCHANGED scheduleVars
     \/ BeginBatch(w) /\ UNCHANGED scheduleVars
     \/ \E v \in VerticesOf(w) \cap Vertices : VariableStep(v)
     \/ \E f \in VerticesOf(w) \cap Functions : CollectFunction(f)
  /\ UNCHANGED constraintVars

DriverStep ==
  /\ SignalStepDone \/ CollectStepDone \/ BecomeIdle
  /\ UNCHANGED <<constraintVars, scheduleVars>>

Stopped == phase = "done" /\ UNCHANGED vars

Next == (\E w \in Workers : WorkerStep(w)) \/ DriverStep \/ Stopped

\* Worker actors and the calling thread are always eventually scheduled.
Fairness == WF_vars(DriverStep) /\ \A w \in Workers : WF_vars(WorkerStep(w))

Spec == Init /\ [][Next]_vars /\ Fairness

-------------------------------------------------------------------------------

\* Unlike in MGM and DPOP, no variable is left behind active when the execution
\* ends: a function answers every variable of the meeting whenever one speaks,
\* so whoever wants to go on is woken up again.
NobodyLeftBehind == phase = "done" => \A v \in Vertices : status[v] # "active"

\* Every execution stops, although functions always signal: they only collect
\* for a variable that has signalled, and variables stop at MAX_ROUND.
EventuallyStops == <>(phase = "done")
===============================================================================
