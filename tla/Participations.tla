---------------------------- MODULE Participations ----------------------------
(***************************************************************************)
(* The PEAV mapping of the design chapter: a vertex of the graph is one    *)
(* meeting participation <<agent, meeting>>.                               *)
(***************************************************************************)
CONSTANTS
  Agents,       \* agent ids
  Meetings,     \* meeting ids
  Vertices      \* the participations

ASSUME VerticesAssumption == Vertices \subseteq Agents \X Meetings

AgentOf(v) == v[1]
MeetingOf(v) == v[2]

Participants(m) == {v \in Vertices : MeetingOf(v) = m}
Engagements(a) == {v \in Vertices : AgentOf(v) = a}
OtherEngagements(v) == Engagements(AgentOf(v)) \ {v}
Neighbours(v) == Participants(MeetingOf(v)) \ {v}
===============================================================================
