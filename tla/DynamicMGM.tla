------------------------------ MODULE DynamicMGM ------------------------------
(***************************************************************************)
(* MGM while DynamicController changes the problem from a thread of its    *)
(* own.  Constraints may change at any time, so a vertex may choose any    *)
(* slot; what remains of MGMVertex is when it collects, checks, registers  *)
(* and signals.  Every access to the `converged' flag and to an entry of a *)
(* shared map that the controller touches as well is a step of its own.    *)
(*                                                                         *)
(* changeDomain is left out: increaseDomain and decreaseDomain of the      *)
(* problem do nothing, so it assigns the domain the vertices already have. *)
(***************************************************************************)
EXTENDS Scheduling, SignalCollect

CONSTANTS
  Modes,        \* the modes of the controller, one of which is chosen
  MAX_ADDED     \* bound on the vertices that the controller adds

\* Agents and meetings are numbered from 1 (MeetingSchedulingFactory).
ASSUME NumberedAssumption ==
  Agents \subseteq Nat \ {0} /\ Meetings \subseteq Nat \ {0} /\ IsFiniteSet(Meetings)
ASSUME ParticipationsOnly == Nodes = Vertices
ASSUME ControllerModesAssumption ==
  Modes \subseteq {"changeConstraints", "changeVariables", "changeVariablesOnce"}
ASSUME MaxAddedAssumption == MAX_ADDED \in Nat

VARIABLES
  initialized,   \* vertices that have announced their preference
  agentIndex,    \* AGENT_INDEX entries
  meetingIndex,  \* MEETING_INDEX entries
  status,        \* the converged flag
  roundCount,    \* saturating at MAX_ROUND
  pc,            \* "idle"; "comparing" between the looks of convergenceCheck;
                 \* "checked" after it; "registering" between the two writes
  candidate,     \* the slot being registered
  mode,          \* what the controller does
  at,            \* of the controller thread: where it is
  isRunning,     \* of the controller thread
  todo,          \* vertices whose flag is still to be reset in this loop
  cleared,       \* the participation whose entries are being cleared
  members,       \* dynamicGraph.vertices: <<participation, 0>> for the vertex that
                 \* build has made, <<participation, k>> for the k-th addition
  added,         \* additions so far
  known          \* meetings that are keys of dynamicGraph.neighbourhoods

collectVars == <<initialized, agentIndex, meetingIndex, status, roundCount, pc, candidate>>
controllerVars == <<mode, at, isRunning, todo, cleared, members, added, known>>
vars == <<collectVars, controllerVars, engineVars>>

Signal == "signal"
Signals == [n \in Nodes |-> Signal]
Nothing == <<0, 0>>

\* A participation that no vertex of build stands for: those are not told apart.
Elsewhere == <<0, 0>>

Built == {<<v, 0>> : v \in Vertices}
Additions == {o \in members : o[2] > 0}

TypeOK ==
  /\ EngineTypeOK({Signal})
  /\ initialized \subseteq Vertices
  /\ agentIndex \in Index
  /\ meetingIndex \in Index
  /\ status \in [Vertices -> Status]
  /\ roundCount \in [Vertices -> 0 .. MAX_ROUND]
  /\ pc \in [Vertices -> {"idle", "comparing", "checked", "registering"}]
  /\ candidate \in Index
  /\ mode \in Modes
  /\ at \in {"loop", "change", "reset", "reactivate", "clear", "clearMeeting", "ended",
             "failed"}
  /\ isRunning \in BOOLEAN
  /\ todo \subseteq Vertices
  /\ cleared \in Vertices \cup {Nothing}
  /\ known \subseteq Nat
  /\ members \subseteq (Vertices \cup {Elsewhere}) \X (0 .. MAX_ADDED)
  /\ added \in 0 .. MAX_ADDED

\* MGMGraphFactory.build, and a controller that has been started.
Init ==
  /\ initialized = {}
  /\ agentIndex = [v \in Vertices |-> Absent]
  /\ \E p \in Problems : meetingIndex = p.preference
  /\ status = [v \in Vertices |-> "active"]
  /\ roundCount = [v \in Vertices |-> 0]
  /\ pc = [v \in Vertices |-> "idle"]
  /\ candidate = [v \in Vertices |-> Absent]
  /\ edges = {l \in Links : l[2] \in Neighbours(l[1])}
  /\ EngineInit
  /\ mode \in Modes
  /\ at = "loop"
  /\ isRunning = TRUE
  /\ todo = {}
  /\ cleared = Nothing
  /\ members = Built
  /\ added = 0
  /\ known = Meetings

-------------------------------------------------------------------------------
(* MGMVertex.collect. *)

StartCollect(v) ==
  /\ MayCollect(v)
  /\ \A u \in VerticesOf(WorkerOf[v]) : pc[u] = "idle"
  /\ roundCount' = [roundCount EXCEPT ![v] = NextRound(@)]

\* collect returns; the score is that of the flag at this moment.
FinishCollect(v) ==
  /\ pc' = [pc EXCEPT ![v] = "idle"]
  /\ Finish(v, Signals, IF status[v] = "active" THEN 1 ELSE 0)

Initialize(v) ==
  /\ v \notin initialized
  /\ StartCollect(v)
  /\ initialized' = initialized \cup {v}
  /\ FinishCollect(v)
  /\ UNCHANGED <<agentIndex, meetingIndex, status, candidate>>

\* convergenceCheck: the meeting's map, which may decide it already,
CompareMeeting(v) ==
  /\ v \in initialized
  /\ StartCollect(v)
  /\ IF Same(meetingIndex, v)
     THEN /\ pc' = [pc EXCEPT ![v] = "comparing"]
          /\ UNCHANGED status
     ELSE /\ pc' = [pc EXCEPT ![v] = "checked"]
          /\ status' = [status EXCEPT ![v] = Outcome(@, FALSE, roundCount'[v])]
  /\ UNCHANGED <<initialized, agentIndex, meetingIndex, candidate, engineVars>>

\* and the agent's map.
CompareAgent(v) ==
  /\ pc[v] = "comparing"
  /\ status' = [status EXCEPT ![v] =
                  Outcome(@, Different(agentIndex, v), roundCount[v])]
  /\ pc' = [pc EXCEPT ![v] = "checked"]
  /\ UNCHANGED <<initialized, agentIndex, meetingIndex, roundCount, candidate, engineVars>>

\* A vertex with the best gain, a converged one, or one that finds no slot is done.
KeepValue(v) ==
  /\ pc[v] = "checked"
  /\ FinishCollect(v)
  /\ UNCHANGED <<initialized, agentIndex, meetingIndex, status, roundCount, candidate>>

\* Faulty variant of Choose: a converged vertex chooses as well.
ChooseAlways(v) ==
  /\ pc[v] = "checked"
  /\ \E c \in Slots :
       /\ candidate' = [candidate EXCEPT ![v] = c]
       /\ agentIndex' = [agentIndex EXCEPT ![v] = c]
  /\ pc' = [pc EXCEPT ![v] = "registering"]
  /\ UNCHANGED <<initialized, meetingIndex, status, roundCount, engineVars>>

\* chooseMaximalGain and the first write of registerValue,
Choose(v) ==
  /\ pc[v] = "checked"
  /\ status[v] = "active"
  /\ \E c \in Slots :
       /\ candidate' = [candidate EXCEPT ![v] = c]
       /\ agentIndex' = [agentIndex EXCEPT ![v] = c]
  /\ pc' = [pc EXCEPT ![v] = "registering"]
  /\ UNCHANGED <<initialized, meetingIndex, status, roundCount, engineVars>>

\* and the second.
Register(v) ==
  /\ pc[v] = "registering"
  /\ meetingIndex' = [meetingIndex EXCEPT ![v] = candidate[v]]
  /\ candidate' = [candidate EXCEPT ![v] = Absent]
  /\ FinishCollect(v)
  /\ UNCHANGED <<initialized, agentIndex, status, roundCount>>

VertexStep(v) ==
  Initialize(v) \/ CompareMeeting(v) \/ CompareAgent(v) \/ KeepValue(v) \/ Choose(v) \/ Register(v)

WorkerStep(w) ==
  /\ \/ SignalStep(w, Signals) /\ UNCHANGED collectVars
     \/ BeginBatch(w) /\ UNCHANGED collectVars
     \/ \E v \in VerticesOf(w) : VertexStep(v)
  /\ UNCHANGED controllerVars

DriverStep ==
  /\ SignalStepDone \/ CollectStepDone \/ BecomeIdle
  /\ UNCHANGED <<collectVars, controllerVars>>

-------------------------------------------------------------------------------
(* DynamicController. *)

\* checkFinish: an added vertex never converges, because nobody signals it.
\* The loop that finds everything converged still makes its changes.  Nobody is
\* added or removed in the mode that resets the flags.
CheckFinish ==
  /\ at = "loop"
  /\ IF isRunning
     THEN /\ isRunning' = (Additions # {} \/ \E o \in members : status[o[1]] = "active")
          /\ IF mode = "changeConstraints"
             THEN at' = "reset" /\ todo' \in SUBSET Vertices
             ELSE at' = "change" /\ UNCHANGED todo
     ELSE at' = "ended" /\ UNCHANGED <<isRunning, todo>>
  /\ UNCHANGED <<mode, cleared, members, added, known, collectVars>>

\* converged = false, first for the agents picked, then for all.
ResetFlag ==
  /\ at \in {"reset", "reactivate"}
  /\ \E v \in todo :
       /\ todo' = todo \ {v}
       /\ status' = [status EXCEPT ![v] = "active"]
  /\ UNCHANGED <<mode, at, isRunning, cleared, members, added, known, initialized, agentIndex,
                 meetingIndex, roundCount, pc, candidate>>

ResetsDone ==
  /\ todo = {}
  /\ \/ at = "reset" /\ at' = "reactivate" /\ todo' = Vertices
     \/ at = "reactivate" /\ at' = "loop" /\ UNCHANGED todo
  /\ UNCHANGED <<mode, isRunning, cleared, members, added, known, collectVars>>

\* The meeting and the agent of a change, by number: an old one, from 0, or the next.
PickedMeetings == (0 .. Cardinality(known) - 1) \cup {Cardinality(known) + 1}
OldAgents == 0 .. Cardinality(members) - 1
NextAgent == Cardinality(members) + 1

\* Faulty variant of At: the agent and the meeting are not looked up.
AtUnchecked(a, m) == <<a, m>>

At(a, m) == IF <<a, m>> \in Vertices THEN <<a, m>> ELSE Elsewhere

\* addAgent: a vertex without edges.  One with the id of a vertex that is in
\* the graph is discarded there, but joins the other collections.
AddAgent(a, m) ==
  /\ added < MAX_ADDED
  /\ added' = added + 1
  /\ members' = members \cup {<<At(a, m), added + 1>>}
  /\ known' = known \cup {m}
  /\ UNCHANGED <<at, cleared>>

\* removeAgent: graph.removeVertex is given the vertex where it expects an id,
\* and removes nothing.  An agent that does not take part in the meeting is a
\* null pointer, which the caller catches.  The maps of a vertex elsewhere have
\* no entry to clear.
RemoveAgent(a, m) ==
  /\ \/ /\ \E o \in members : o[1] = At(a, m) /\ members' = members \ {o}
        /\ IF <<a, m>> \in Vertices
           THEN at' = "clear" /\ cleared' = <<a, m>>
           ELSE UNCHANGED <<at, cleared>>
     \/ /\ <<a, m>> \in Vertices => \A o \in members : o[1] # <<a, m>>
        /\ UNCHANGED <<members, at, cleared>>
  /\ UNCHANGED <<added, known>>

\* One change; which of the two it is and how many follow is a matter of
\* probabilities and parameters.  Picking one of no agents throws.
Change ==
  /\ at = "change"
  /\ \/ \E m \in PickedMeetings :
          \/ \E a \in OldAgents : AddAgent(a, m) \/ RemoveAgent(a, m)
          \/ AddAgent(NextAgent, m)
     \/ members = {} /\ at' = "failed" /\ UNCHANGED <<cleared, members, added, known>>
  /\ UNCHANGED <<mode, isRunning, todo, collectVars>>

\* Faulty variant of ClearIndices: the meeting's map gets the preference back.
ClearIndicesWrongly ==
  /\ at = "clear"
  /\ IF agentIndex[cleared] # Absent
     THEN agentIndex' = [agentIndex EXCEPT ![cleared] = Absent] /\ UNCHANGED <<meetingIndex, at, cleared>>
     ELSE /\ \E c \in Slots : meetingIndex' = [meetingIndex EXCEPT ![cleared] = c]
          /\ at' = "change" /\ cleared' = Nothing /\ UNCHANGED agentIndex
  /\ UNCHANGED <<mode, isRunning, todo, members, added, known, initialized, status, roundCount, pc,
                 candidate>>

\* The rest of removeAgent: the entry in the agent's map, the one in the meeting's.
ClearIndices ==
  /\ \/ /\ at = "clear"
        /\ agentIndex' = [agentIndex EXCEPT ![cleared] = Absent]
        /\ at' = "clearMeeting"
        /\ UNCHANGED <<meetingIndex, cleared>>
     \/ /\ at = "clearMeeting"
        /\ meetingIndex' = [meetingIndex EXCEPT ![cleared] = Absent]
        /\ at' = "change"
        /\ cleared' = Nothing
        /\ UNCHANGED agentIndex
  /\ UNCHANGED <<mode, isRunning, todo, members, added, known, initialized, status, roundCount, pc,
                 candidate>>

\* The end of a loop.
ChangesDone ==
  /\ at = "change"
  /\ at' = "loop"
  /\ isRunning' = (isRunning /\ mode # "changeVariablesOnce")
  /\ UNCHANGED <<mode, todo, cleared, members, added, known, collectVars>>

ControllerStep ==
  /\ CheckFinish \/ ResetFlag \/ ResetsDone \/ Change \/ ClearIndices \/ ChangesDone
  /\ UNCHANGED engineVars

-------------------------------------------------------------------------------

\* The execution has returned and the controller thread has ended.
Stopped == phase = "done" /\ at \in {"ended", "failed"} /\ UNCHANGED vars

Next == (\E w \in Workers : WorkerStep(w)) \/ DriverStep \/ ControllerStep \/ Stopped

\* All threads are always eventually scheduled.
Fairness ==
  /\ WF_vars(DriverStep)
  /\ \A w \in Workers : WF_vars(WorkerStep(w))
  /\ WF_vars(ControllerStep)

Spec == Init /\ [][Next]_vars /\ Fairness

-------------------------------------------------------------------------------

AgreedOf(S) == {v \in S : status[v] = "agreed"}

\* Participants of a meeting that have declared convergence on the maps and are
\* still in the meeting's map hold one slot, although the controller resets
\* flags and clears entries between any two of their steps, and the vertices
\* whose entries it has cleared go on and enter themselves again.
MeetingAgreement ==
  \A m \in Meetings :
    \A u, w \in Registered(meetingIndex, AgreedOf(Participants(m))) :
      meetingIndex[u] = meetingIndex[w]

\* What a meeting of silent vertices has settled on does not change under the
\* controller: entries may disappear, but none is replaced.
SilentMeetingKeepsSlots ==
  [][\A m \in Meetings :
       (\A v \in Participants(m) : status[v] # "active") =>
          \A v \in Participants(m) : meetingIndex'[v] \in {meetingIndex[v], Absent}]_vars

\* However the controller adds and removes participants, and whether it ever
\* ends or not, the execution does: the round limit still silences everyone.
\* The resets of changeConstraints may wake the vertices again and again.
StopsUnlessReset ==
  <>(phase = "done") \/ (mode = "changeConstraints" /\ []<>(at = "reactivate"))

-------------------------------------------------------------------------------
\* What the comments say of the changes and the code does not do: TLC refutes
\* both in a run of DynamicChanges.cfg that checks them.

\* "clear indices": a participation that has been removed has no entries.  Its
\* vertex is still in the graph and registers again.
RemovedLeavesNoEntries ==
  \A v \in Vertices :
    (\A o \in members : o[1] # v) /\ cleared # v =>
      agentIndex[v] = Absent /\ meetingIndex[v] = Absent

\* "reactivate agents": an execution does not end between two linked vertices
\* that are both active.  Nothing schedules a vertex whose flag is reset.
ReactivatedGoOn ==
  [][phase # "done" /\ phase' = "done" =>
       \A l \in edges : status[l[1]] # "active" \/ status[l[2]] # "active"]_vars
===============================================================================
