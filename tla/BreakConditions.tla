--------------------------- MODULE BreakConditions ---------------------------
(***************************************************************************)
(* Break conditions of an interactive execution: the browsers that add,    *)
(* delete and list them (breakconditions.js), the threads of the web       *)
(* socket server that carry out these orders on two fields that nothing    *)
(* guards (BreakConditionsProvider, addCondition, removeCondition), and    *)
(* the run thread that checks them and pauses.                             *)
(*                                                                         *)
(* A condition is its place among those its browser has asked for, and     *)
(* the check that looks at it; whether its vertex meets it is left open.   *)
(* Of the run thread, InteractiveExecution has the whole.                  *)
(***************************************************************************)
EXTENDS Integers, FiniteSets, Sequences, Functions, ConditionHistory

CONSTANTS
  Browsers,
  MAX_CONDITIONS,  \* bound on the conditions that are asked for
  MAX_ORDERS       \* bound on the orders of a browser whose answers it has not read

ASSUME MaxConditionsAssumption == MAX_CONDITIONS \in Nat \ {0}
ASSUME MaxOrdersAssumption == MAX_ORDERS \in Nat \ {0}

VARIABLES
  conditionCounter,
  conditionsReached,  \* ids
  handler,            \* per browser: the order its server thread is at, and what that has read
  toServer,           \* per browser: orders under way
  toClient,           \* per browser: lists under way
  asked,              \* conditions asked for so far
  at,                 \* of the run thread: "waiting", "going", "aggregating" or "failed"
  phase,              \* of the run thread: the step of the iteration
  stepTokens,         \* whether there are any
  checked             \* the conditions the aggregator has been given

serverVars == <<conditionCounter, conditions, conditionsReached>>
clientVars == <<shown, asked>>
runVars == <<at, phase, stepTokens, checked>>
vars == <<serverVars, handler, toServer, toClient, clientVars, runVars, given, deleted, fired>>

Ids == 1 .. MAX_CONDITIONS

\* The collect scores are looked at in phase 2, the states and signal scores in 4.
Checks == {2, 4}
Condition == [nth : 1 .. MAX_CONDITIONS, when : Checks]
NoConditions == [i \in {} |-> 0]
Idle == [at |-> "idle"]

\* One line of the list: highlighted, if reached.
Lines(present, reached) ==
  {[id |-> i, condition |-> present[i], reached |-> i \in reached] : i \in DOMAIN present}

Unanswered(b) ==
  Len(toServer[b]) + Len(toClient[b]) + (IF handler[b].at = "idle" THEN 0 ELSE 1)

TypeOK ==
  /\ conditionCounter \in 0 .. MAX_CONDITIONS
  /\ DOMAIN conditions \subseteq Ids
  /\ \A i \in DOMAIN conditions : conditions[i] \in Condition
  /\ conditionsReached \subseteq Ids
  /\ DOMAIN handler = Browsers
  /\ \A b \in Browsers : Unanswered(b) <= MAX_ORDERS
  /\ \A b \in Browsers :
       shown[b] \subseteq [id : Ids, condition : Condition, reached : BOOLEAN]
  /\ asked \in 0 .. MAX_CONDITIONS
  /\ at \in {"waiting", "going", "aggregating", "failed"}
  /\ phase \in 1 .. 4
  /\ stepTokens \in BOOLEAN

Init ==
  /\ conditionCounter = 0 /\ conditions = NoConditions /\ conditionsReached = {}
  /\ handler = [b \in Browsers |-> Idle]
  /\ toServer = [b \in Browsers |-> <<>>]
  /\ toClient = [b \in Browsers |-> <<>>]
  /\ shown = [b \in Browsers |-> {}]
  /\ asked = 0
  /\ at = "waiting" /\ phase = 1 /\ stepTokens = FALSE /\ checked = NoConditions
  /\ given = {} /\ deleted = {} /\ fired = {}

-------------------------------------------------------------------------------
(* The browser. *)

Order(b, order) ==
  /\ Unanswered(b) < MAX_ORDERS
  /\ toServer' = [toServer EXCEPT ![b] = Append(@, order)]

\* The `add condition' button.
AddCondition(b) ==
  /\ asked < MAX_CONDITIONS
  /\ asked' = asked + 1
  /\ \E w \in Checks :
       Order(b, [action |-> "add", condition |-> [nth |-> asked + 1, when |-> w]])
  /\ UNCHANGED <<shown, toClient, deleted>>

\* The `delete' button of a line.
DeleteCondition(b) ==
  /\ \E line \in shown[b] :
       /\ Order(b, [action |-> "remove", id |-> line.id])
       /\ deleted' = deleted \cup {line.condition}
  /\ UNCHANGED <<shown, toClient, asked>>

\* State.onmessage orders the list when the execution pauses or goes on.
OrderList(b) == Order(b, [action |-> "list"]) /\ UNCHANGED <<clientVars, toClient, deleted>>

\* onmessage rebuilds the list.
OnMessage(b) ==
  /\ toClient[b] # <<>>
  /\ shown' = [shown EXCEPT ![b] = Head(toClient[b])]
  /\ toClient' = [toClient EXCEPT ![b] = Tail(@)]
  /\ UNCHANGED <<toServer, asked, deleted>>

BrowserStep(b) ==
  /\ AddCondition(b) \/ DeleteCondition(b) \/ OrderList(b) \/ OnMessage(b)
  /\ UNCHANGED <<serverVars, handler, runVars, given, fired>>

-------------------------------------------------------------------------------
(* The threads of the server: every access to a field is a step. *)

GoOn(b, h) == handler' = [handler EXCEPT ![b] = h]

\* BreakConditionsProvider.fetch; a condition that does not pass its
\* constructor's checks, or for which no worker can be asked, is not added.
Fetch(b) ==
  /\ handler[b].at = "idle"
  /\ toServer[b] # <<>>
  /\ toServer' = [toServer EXCEPT ![b] = Tail(@)]
  /\ LET order == Head(toServer[b]) IN
       \/ /\ order.action = "add"
          /\ \/ at # "failed" /\ GoOn(b, [at |-> "count", condition |-> order.condition])
             \/ at # "failed" /\ GoOn(b, [at |-> "list"])
             \/ at = "failed" /\ GoOn(b, Idle)
       \/ order.action = "remove" /\ GoOn(b, [at |-> "remove", id |-> order.id])
       \/ order.action = "list" /\ GoOn(b, [at |-> "list"])
  /\ UNCHANGED <<serverVars, toClient, given>>

\* Faulty variant of Increment: the id is the number of the conditions there are, plus one.
IncrementToSize(b) ==
  /\ \/ /\ handler[b].at = "count"
        /\ GoOn(b, [at |-> "counted", condition |-> handler[b].condition,
                    read |-> Cardinality(DOMAIN conditions)])
        /\ UNCHANGED conditionCounter
     \/ /\ handler[b].at = "counted"
        /\ conditionCounter' = handler[b].read + 1
        /\ GoOn(b, [at |-> "add", condition |-> handler[b].condition])
  /\ UNCHANGED <<conditions, conditionsReached, toServer, toClient, given>>

\* conditionCounter += 1,
Increment(b) ==
  /\ \/ /\ handler[b].at = "count"
        /\ GoOn(b, [at |-> "counted", condition |-> handler[b].condition,
                    read |-> conditionCounter])
        /\ UNCHANGED conditionCounter
     \/ /\ handler[b].at = "counted"
        /\ conditionCounter' = handler[b].read + 1
        /\ GoOn(b, [at |-> "add", condition |-> handler[b].condition])
  /\ UNCHANGED <<conditions, conditionsReached, toServer, toClient, given>>

\* A map with one more entry, or another one for an id it has.
Extend(map, id, condition) ==
  [i \in DOMAIN map \cup {id} |-> IF i = id THEN condition ELSE map[i]]

\* and conditions += (conditionCounter.toString -> condition).
Enter(b) ==
  /\ \/ /\ handler[b].at = "add"
        /\ GoOn(b, [at |-> "adding", condition |-> handler[b].condition, read |-> conditions])
        /\ UNCHANGED <<conditions, given>>
     \/ /\ handler[b].at = "adding"
        /\ GoOn(b, [at |-> "entering", condition |-> handler[b].condition,
                    read |-> handler[b].read, id |-> conditionCounter])
        /\ UNCHANGED <<conditions, given>>
     \/ /\ handler[b].at = "entering"
        /\ conditions' = Extend(handler[b].read, handler[b].id, handler[b].condition)
        /\ given' = given \cup {<<handler[b].id, handler[b].condition>>}
        /\ GoOn(b, [at |-> "list"])
  /\ UNCHANGED <<conditionCounter, conditionsReached, toServer, toClient>>

\* conditions -= id.
RemoveCondition(b) ==
  /\ \/ /\ handler[b].at = "remove"
        /\ GoOn(b, [at |-> "removing", id |-> handler[b].id, read |-> conditions])
        /\ UNCHANGED conditions
     \/ /\ handler[b].at = "removing"
        /\ conditions' = Restrict(handler[b].read, DOMAIN handler[b].read \ {handler[b].id})
        /\ GoOn(b, [at |-> "list"])
  /\ UNCHANGED <<conditionCounter, conditionsReached, toServer, toClient, given>>

\* fetchConditions, and the reply.
FetchConditions(b) ==
  /\ \/ /\ handler[b].at = "list"
        /\ GoOn(b, [at |-> "listing", read |-> conditions])
        /\ UNCHANGED toClient
     \/ /\ handler[b].at = "listing"
        /\ toClient' = [toClient EXCEPT ![b] =
                          Append(@, Lines(handler[b].read, conditionsReached))]
        /\ GoOn(b, Idle)
  /\ UNCHANGED <<serverVars, toServer, given>>

ServerStep(b) ==
  /\ Fetch(b) \/ Increment(b) \/ Enter(b) \/ RemoveCondition(b) \/ FetchConditions(b)
  /\ UNCHANGED <<clientVars, runVars, deleted, fired>>

-------------------------------------------------------------------------------
(* The run thread, and the commands of the users. *)

Spend == stepTokens' \in {stepTokens, FALSE}
NextPhase ==
  /\ phase' = 1 + (phase % 4)
  /\ at' = IF stepTokens' THEN "going" ELSE "waiting"

\* Signalling or collecting.
Perform ==
  /\ at = "going"
  /\ phase \notin Checks
  /\ Spend
  /\ NextPhase
  /\ UNCHANGED <<conditionsReached, checked, fired>>

\* checkBreakConditions: the aggregator has the conditions of the moment it
\* was made.
StartCheck ==
  /\ at = "going"
  /\ phase \in Checks
  /\ checked' = conditions
  /\ at' = "aggregating"
  /\ UNCHANGED <<conditionsReached, phase, stepTokens, fired>>

FinishCheck ==
  /\ at = "aggregating"
  /\ \E met \in SUBSET {i \in DOMAIN checked : checked[i].when = phase} :
       /\ conditionsReached' = met
       /\ fired' = fired \cup {checked[i] : i \in met}
       /\ IF met = {} THEN Spend ELSE stepTokens' = FALSE
  /\ checked' = NoConditions
  /\ NextPhase

\* A worker dies of a condition, as InteractiveExecution says: run is left.
FailCheck ==
  /\ at = "aggregating"
  /\ DOMAIN checked # {}
  /\ at' = "failed"
  /\ checked' = NoConditions
  /\ Spend
  /\ UNCHANGED <<conditionsReached, phase, fired>>

\* step, collect or continue.
Continue ==
  /\ at \in {"waiting", "failed"}
  /\ stepTokens' = TRUE
  /\ at' = IF at = "waiting" THEN "going" ELSE at
  /\ UNCHANGED <<conditionsReached, phase, checked, fired>>

\* pause takes no monitor.
Pause ==
  /\ stepTokens
  /\ stepTokens' = FALSE
  /\ at' = IF at = "going" THEN "waiting" ELSE at
  /\ UNCHANGED <<conditionsReached, phase, checked, fired>>

Reset ==
  /\ at \in {"waiting", "failed"}
  /\ conditionsReached' = {}
  /\ phase' = 1
  /\ UNCHANGED <<at, stepTokens, checked, fired>>

RunStep ==
  /\ Perform \/ StartCheck \/ FinishCheck \/ FailCheck \/ Continue \/ Pause \/ Reset
  /\ UNCHANGED <<conditionCounter, conditions, handler, toServer, toClient, clientVars, given,
                 deleted>>

Next == (\E b \in Browsers : BrowserStep(b) \/ ServerStep(b)) \/ RunStep

Spec == Init /\ [][Next]_vars
===============================================================================
