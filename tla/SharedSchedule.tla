---------------------------- MODULE SharedSchedule ----------------------------
(***************************************************************************)
(* What a DynDCO run promises whatever the algorithm: the protocol that    *)
(* the vertices of MGM, DPOP and MaxSum follow on the two shared maps.     *)
(* A collect operation starts a round and may run convergenceCheck, which  *)
(* looks at the meeting's map first and at the agent's map later; a vertex *)
(* that has not converged may then choose a slot and register it in both   *)
(* maps.  These are separate steps, because the vertices that share a map  *)
(* live on different worker threads and lock nothing.  Which slot is       *)
(* chosen, and when a vertex collects, is left to the algorithm.           *)
(***************************************************************************)
EXTENDS Scheduling

VARIABLES
  preference,    \* the preferred slot per participation, drawn by the problem factory
  value,         \* the slot a vertex holds, Absent before it is initialized
  agentIndex,    \* AGENT_INDEX entries
  meetingIndex,  \* MEETING_INDEX entries
  status,        \* the converged flag, which silences a vertex
  roundCount,    \* collect operations so far, saturating at MAX_ROUND
  pc             \* "idle"; "comparing" after the meeting's map passed the
                 \* check; "choosing" from the check to the registration

vars == <<preference, value, agentIndex, meetingIndex, status, roundCount, pc>>

TypeOK ==
  /\ preference \in [Vertices -> Slots]
  /\ value \in Index
  /\ agentIndex \in Index
  /\ meetingIndex \in Index
  /\ status \in [Vertices -> Status]
  /\ roundCount \in [Vertices -> 0 .. MAX_ROUND]
  /\ pc \in [Vertices -> {"idle", "comparing", "choosing"}]

\* The graph factories enter the preferences in both maps (MaxSum), in the
\* meeting map only (MGM), or in none (DPOP).
Init ==
  /\ preference \in [Vertices -> Slots]
  /\ value = [v \in Vertices |-> Absent]
  /\ agentIndex \in {[v \in Vertices |-> Absent], preference}
  /\ meetingIndex \in {[v \in Vertices |-> Absent], preference}
  /\ status = [v \in Vertices |-> "active"]
  /\ roundCount = [v \in Vertices |-> 0]
  /\ pc = [v \in Vertices |-> "idle"]

StartRound(v) ==
  /\ pc[v] = "idle"
  /\ roundCount' = [roundCount EXCEPT ![v] = NextRound(@)]

\* What is left of a collect operation after its check.
Continue(v) ==
  \E next \in {"idle", "choosing"} :
    /\ next = "choosing" => status'[v] = "active"
    /\ pc' = [pc EXCEPT ![v] = next]

\* The first collect: take the preference, perhaps entering it in the maps.
Initialize(v) ==
  /\ value[v] = Absent
  /\ StartRound(v)
  /\ value' = [value EXCEPT ![v] = preference[v]]
  /\ \/ UNCHANGED <<agentIndex, meetingIndex>>
     \/ /\ agentIndex' = [agentIndex EXCEPT ![v] = preference[v]]
        /\ meetingIndex' = [meetingIndex EXCEPT ![v] = preference[v]]
  /\ UNCHANGED status
  /\ Continue(v)

\* A later collect whose check gets past the meeting's map.
CompareMeeting(v) ==
  /\ value[v] # Absent
  /\ StartRound(v)
  /\ status[v] = "active"
  /\ Same(meetingIndex, v)
  /\ pc' = [pc EXCEPT ![v] = "comparing"]
  /\ UNCHANGED <<value, agentIndex, meetingIndex, status>>

\* A later collect with no check, or with one that the meeting's map fails.
Collect(v) ==
  /\ value[v] # Absent
  /\ StartRound(v)
  /\ \/ UNCHANGED status
     \/ status' = [status EXCEPT ![v] = Outcome(@, FALSE, roundCount'[v])]
  /\ Continue(v)
  /\ UNCHANGED <<value, agentIndex, meetingIndex>>

CompareAgent(v) ==
  /\ pc[v] = "comparing"
  /\ status' = [status EXCEPT ![v] =
                  Outcome(@, Different(agentIndex, v), roundCount[v])]
  /\ Continue(v)
  /\ UNCHANGED <<value, agentIndex, meetingIndex, roundCount>>

\* registerValue: ignored when the choice found no slot.  No vertex but v is
\* both in its meeting and of its agent, so nobody can tell in which order
\* the two maps are written.
Register(v) ==
  /\ pc[v] = "choosing"
  /\ \E c \in Slots \cup {Absent} :
       /\ value' = RegisterIn(value, v, c)
       /\ agentIndex' = RegisterIn(agentIndex, v, c)
       /\ meetingIndex' = RegisterIn(meetingIndex, v, c)
  /\ pc' = [pc EXCEPT ![v] = "idle"]
  /\ UNCHANGED <<status, roundCount>>

VertexStep(v) ==
  Initialize(v) \/ CompareMeeting(v) \/ Collect(v) \/ CompareAgent(v) \/ Register(v)

Next == (\E v \in Vertices : VertexStep(v)) /\ UNCHANGED preference

Spec == Init /\ [][Next]_vars

-------------------------------------------------------------------------------

AgreedOf(S) == {v \in S : status[v] = "agreed"}

\* Two participants of a meeting that have declared convergence on the maps
\* have registered the same slot, although each of them looked at the maps at
\* a different time, while others were still writing, and neither looks again.
MeetingAgreement ==
  \A m \in Meetings :
    \A u, w \in Registered(meetingIndex, AgreedOf(Participants(m))) :
      meetingIndex[u] = meetingIndex[w]

\* Two engagements of an agent that have declared convergence on the maps and
\* follow each other in the agent's map are at different slots: this is all
\* that convergenceCheck compares, and nothing another engagement registers
\* between the two looks can undo it.
ConsecutiveDifference ==
  \A a \in Agents :
    \A u, w \in Registered(agentIndex, AgreedOf(Engagements(a))) :
      Consecutive(agentIndex, u, w) => agentIndex[u] # agentIndex[w]

\* An agent with two engagements that have both declared convergence on the
\* maps, and are both in its map, is not double-booked: for two entries, and
\* no more, comparing neighbours in the map is comparing all.
TwoEngagementsDiffer ==
  \A u, w \in Vertices :
    /\ u # w
    /\ Engagements(AgentOf(u)) = {u, w}
    /\ {u, w} \subseteq Registered(agentIndex, AgreedOf(Vertices))
    => agentIndex[u] # agentIndex[w]

\* Once every participant of a meeting is silent its entries never change:
\* no vertex is still between its check and its registration.
SilentMeetingIsFinal ==
  [][\A m \in Meetings :
       (\A v \in Participants(m) : status[v] # "active") =>
          \A v \in Participants(m) :
             /\ meetingIndex'[v] = meetingIndex[v]
             /\ agentIndex'[v] = agentIndex[v]]_vars
===============================================================================
