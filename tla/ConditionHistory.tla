--------------------------- MODULE ConditionHistory ---------------------------
(***************************************************************************)
(* What the users of break conditions see, the history of the conditions,  *)
(* and what the one promises of the other.  BreakConditions has the steps. *)
(***************************************************************************)
VARIABLES
  conditions,         \* by id
  shown,              \* per browser: #gc_conditionList
  given,              \* history: <<id, condition>> of every addCondition
  deleted,            \* history: conditions whose deletion has been ordered
  fired               \* history: conditions that a check has found to be met

\* A condition that has been added stays until its browser orders the deletion
\* of a line that shows it, however stale that list is by then: no deletion of
\* another condition, and no addition, takes it away.  This needs that ids are
\* never used again.
NothingLost ==
  \A entry \in given :
    entry[2] \in deleted \/ \E i \in DOMAIN conditions : conditions[i] = entry[2]

\* A line is highlighted only for a condition that a check has found met: the
\* ids of an earlier check never stand for a condition that has come since,
\* although conditions and conditionsReached are changed, kept and read apart.
HighlightedWasMet ==
  \A b \in DOMAIN shown : \A line \in shown[b] : line.reached => line.condition \in fired

\* "Each condition has a unique ID which it receives when it's being created" does
\* not hold of two browsers: their threads may count to the same number.
UniqueIds == \A x, y \in given : x[1] = y[1] => x[2] = y[2]
===============================================================================
