------------------------------ MODULE Scheduling ------------------------------
(***************************************************************************)
(* The data every DynDCO algorithm shares, and the decisions that          *)
(* MeetingSchedulingVertex.scala takes on it.  All vertices of a meeting   *)
(* share one MEETING_INDEX map, all vertices of an agent share one         *)
(* AGENT_INDEX map.  A vertex only ever writes its own entry of each map,  *)
(* so an index is a function of the vertices here; Absent stands for a key *)
(* that is not in the map.                                                 *)
(***************************************************************************)
EXTENDS Integers, FiniteSets, Participations

CONSTANTS
  TIMESLOTS,    \* the domain is 1 .. TIMESLOTS
  MAX_ROUND,    \* the round at which a vertex gives up
  Rank,         \* position of a meeting in the iteration order of AGENT_INDEX
  Problems      \* the generated problems: a preferred slot per participation
                \* and a set of blocked slots per agent

ASSUME TimeslotsAssumption == TIMESLOTS \in Nat \ {0}
ASSUME MaxRoundAssumption == MAX_ROUND \in Nat \ {0}
ASSUME RankAssumption ==
  /\ Rank \in [Meetings -> Nat]
  /\ \A m, n \in Meetings : Rank[m] = Rank[n] => m = n

Slots == 1 .. TIMESLOTS

\* buildSingleConstraints blocks no slot that it has drawn as a preference.
ASSUME ProblemsAssumption ==
  \A p \in Problems :
    /\ p.preference \in [Vertices -> Slots]
    /\ p.blocked \in [Agents -> SUBSET Slots]
    /\ \A v \in Vertices : p.preference[v] \notin p.blocked[v[1]]

\* A key that is not in an index; also the result of findMaxValue when no
\* candidate was accepted (the code's 0), which registerValue ignores.
Absent == 0

Index == [Vertices -> 0 .. TIMESLOTS]

Registered(index, S) == {v \in S : index[v] # Absent}

\* Faulty variant of Same: only the vertex' own entry is looked at.
SameOwnEntryOnly(meetingIndex, v) == Registered(meetingIndex, {v}) # {}

(***************************************************************************)
(* convergenceCheck: every registered participant of the meeting holds the *)
(* same value, and no two entries that FOLLOW EACH OTHER in the iteration  *)
(* of the agent's map are equal.                                           *)
(***************************************************************************)
Same(meetingIndex, v) ==
  LET R == Registered(meetingIndex, Participants(MeetingOf(v)))
  IN  /\ R # {}
      /\ \A u, w \in R : meetingIndex[u] = meetingIndex[w]

Consecutive(agentIndex, u, w) ==
  /\ Rank[MeetingOf(u)] < Rank[MeetingOf(w)]
  /\ \A x \in Registered(agentIndex, Engagements(AgentOf(u))) :
        ~ (/\ Rank[MeetingOf(u)] < Rank[MeetingOf(x)]
           /\ Rank[MeetingOf(x)] < Rank[MeetingOf(w)])

\* Faulty variant of Different: an entry in the agent's map is enough.
DifferentUnchecked(agentIndex, v) ==
  Registered(agentIndex, Engagements(AgentOf(v))) # {}

Different(agentIndex, v) ==
  LET R == Registered(agentIndex, Engagements(AgentOf(v)))
  IN  /\ R # {}
      /\ \A u, w \in R : Consecutive(agentIndex, u, w) => agentIndex[u] # agentIndex[w]

\* newRound; the count only matters up to MAX_ROUND, where it saturates here.
NextRound(r) == IF r < MAX_ROUND THEN r + 1 ELSE r

(***************************************************************************)
(* The `converged' flag, with what has set it: the maps ("agreed") or the  *)
(* round limit ("exhausted").  It is never reset by a vertex itself.       *)
(***************************************************************************)
Status == {"active", "agreed", "exhausted"}

\* Faulty variants of Outcome: no round limit; the flag is computed anew every time.
OutcomeUnlimited(current, agreement, round) ==
  IF current = "active" /\ agreement THEN "agreed" ELSE current

OutcomeNotSticky(current, agreement, round) ==
  IF agreement THEN "agreed" ELSE IF round >= MAX_ROUND THEN "exhausted" ELSE "active"

Outcome(current, agreement, round) ==
  IF current # "active" THEN current
  ELSE IF agreement THEN "agreed"
  ELSE IF round >= MAX_ROUND THEN "exhausted" ELSE "active"

(***************************************************************************)
(* calculateSingleUtility, in units of 1 / (4 * TIMESLOTS) so that the     *)
(* timeliness part, the calendar part (blocked 0, free 0.75, preferred 1)  *)
(* and the 2.0 that MGM adds per neighbour are all integers.  A slot that  *)
(* was free once and has since been registered and left is in none of the  *)
(* three calendar sets.                                                    *)
(***************************************************************************)
UtilityUnit == 4 * TIMESLOTS

TakenByOthers(agentIndex, v) == {agentIndex[u] : u \in OtherEngagements(v)}

CalendarUtility(calendar, s) ==
  CASE s \in calendar.blocked -> 0
    [] s \notin calendar.blocked /\ s \in calendar.free -> 3 * TIMESLOTS
    [] s \notin calendar.blocked \cup calendar.free /\ s \in calendar.preferred -> UtilityUnit
    [] OTHER -> 0

SingleUtility(agentIndex, v, calendar, s) ==
  IF s \in TakenByOthers(agentIndex, v)
  THEN 0
  ELSE 4 * (TIMESLOTS - (s - 1)) + CalendarUtility(calendar, s)

AllUtilities(agentIndex, v, calendar) ==
  [s \in Slots |-> SingleUtility(agentIndex, v, calendar, s)]

(***************************************************************************)
(* findMaxValue walks the slots by decreasing utility (ties in any order), *)
(* passing a slot that another engagement of the agent holds only with     *)
(* probability 0.1 per attempt, for at most MAX_ATTEMPTS attempts.  Its    *)
(* results are the best slots among the open ones; and Absent when the     *)
(* walk may meet a slot taken by the agent first.                          *)
(***************************************************************************)
OpenSlots(agentIndex, v) == Slots \ TakenByOthers(agentIndex, v)

BestOpen(agentIndex, v, utilities) ==
  {s \in OpenSlots(agentIndex, v) :
      \A r \in OpenSlots(agentIndex, v) : utilities[r] <= utilities[s]}

MayGiveUp(agentIndex, v, utilities) ==
  \/ OpenSlots(agentIndex, v) = {}
  \/ \E t \in Slots \ OpenSlots(agentIndex, v) :
        \A s \in BestOpen(agentIndex, v, utilities) : utilities[t] >= utilities[s]

\* Faulty variant of FindMaxValue: the position of a slot, from 1, taken for an index from 0.
FindMaxValueShifted(agentIndex, v, utilities) ==
  {s + 1 : s \in BestOpen(agentIndex, v, utilities)}

FindMaxValue(agentIndex, v, utilities) ==
  BestOpen(agentIndex, v, utilities)
    \cup IF MayGiveUp(agentIndex, v, utilities) THEN {Absent} ELSE {}

\* registerValue on one of the maps: a value outside the domain is ignored.
RegisterIn(index, v, c) ==
  IF c \in Slots THEN [index EXCEPT ![v] = c] ELSE index

\* MeetingConstraints.update: a registered slot stops being free, for good;
\* the free set is one object for all vertices of the agent (clone is shallow).
UpdateFree(free, v, c) == [free EXCEPT ![AgentOf(v)] = @ \ {c}]

\* buildFree: the slots that are neither preferred by the agent nor blocked.
InitialFree(preference, blocked) ==
  [a \in Agents |-> Slots \ (blocked[a] \cup {preference[v] : v \in Engagements(a)})]
===============================================================================
