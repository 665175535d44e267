---------------------------- MODULE WebConsoleProofs ----------------------------
(***************************************************************************)
(* The console, for any number of browsers, messages under way, lost       *)
(* connections and clicks; and, with a state of their own, its break       *)
(* conditions, which WebConsole leaves out.                                *)
(***************************************************************************)
EXTENDS WebConsole, ConditionHistory, FiniteSetTheorems, SequenceTheorems, TLAPS

(* What the variables hold. *)

States == {"initExecution", "resetting", "terminating", "pausing"}
          \cup Paused \cup {Performing[p] : p \in Phases} \cup {Final(p) : p \in Phases}

\* A state that is no state of the execution carries no steps.
EarlyMessages == {StateMessage("undetermined", 0), StateMessage("initExecution", 0),
                  [provider |-> "state", state |-> "mode"]}
StateMessages == EarlyMessages \cup {StateMessage(s, t) : s \in States, t \in -1 .. 5}
Messages == StateMessages \cup [provider : {"controls", "error"}]

Requests == Commands \cup {"state"}
Sockets == {"connecting", "open", "closing", "retrying", "closed"}

ConnectionsOK ==
  /\ link \subseteq Browsers /\ lingering \subseteq Browsers /\ cuts \in 0 .. MAX_CUTS
  /\ toServer \in [Browsers -> Seq(Requests)]
  /\ toClient \in [Browsers -> Seq(Messages)]

ClientOK ==
  /\ socket \in [Browsers -> Sockets]
  /\ {reconnectAttempt, recreate, pendingCommand} \subseteq [Browsers -> BOOLEAN]
  /\ opened \in [Browsers -> Int]
  /\ enabled \in [Browsers -> SUBSET Commands]
  /\ retries \in [Browsers -> Nat]
  /\ clicks \in 0 .. MAX_CLICKS

Handling == Commands \cup {"idle", "accepted", "error", "collectMore", "resetting",
                           "resetGraph", "terminating", "terminateContinue"}
RequestsOK ==
  /\ handler \in [Browsers -> [at : Handling, orphan : BOOLEAN]]
  /\ fetched \in [Browsers -> StateMessages \cup {None}]

\* The run thread holds the monitor at these places.
Early == {"starting", "configured", "constructed"}
Holding == {"loop", "check", "hold", "perform", "test", "read", "write", "operate",
            "aggregate", "unanswered"}
Outside == {"waiting", "holding", "woken", "wokenHolding", "ended", "stopped", "failed",
            "timedOut"}

ExecutionOK ==
  /\ state \in States
  /\ stepTokens \in -1 .. 5 /\ readTokens \in 0 .. 5
  /\ at = "read" => stepTokens >= 0
  /\ \A b \in Browsers : handler[b].at = "collectMore" => stepTokens \in 0 .. 4
  /\ iteration \in 0 .. MAX_ITERATION
  /\ collectSteps \in 0 .. INTERVAL
  /\ resetting \in BOOLEAN /\ fullStep \in BOOLEAN /\ userTermination \in BOOLEAN
  /\ at \in Early \cup Holding \cup Outside
  /\ phase \in Phases

\* Who holds the monitor.
MonitorInv ==
  /\ owner \in Browsers \cup {NoOne, RunThread}
  /\ at \in Holding <=> owner = RunThread
  /\ \A b \in Browsers : handler[b].at \in {"collectMore", "resetGraph"} <=> owner = b

\* What is connected.
ConnectedInv ==
  /\ OpenedOncePerConnection
  /\ \A b \in Browsers :
       /\ socket[b] = "connecting" => reconnectAttempt[b]
       /\ b \in link => socket[b] = "open"

\* Where the command of a browser is.
Requested(b, i) == i \in DOMAIN toServer[b] /\ toServer[b][i] \in Commands
Handled(b) == handler[b].at # "idle"
Answered(b, i) == i \in DOMAIN toClient[b] /\ toClient[b][i].provider = "controls"

CommandInvOf(b) ==
  /\ \A i, j : Requested(b, i) /\ Requested(b, j) => i = j
  /\ \A i, j : Answered(b, i) /\ Answered(b, j) => i = j
  /\ \A i, j : ~ (Requested(b, i) /\ Answered(b, j))
  /\ \A i : Handled(b) => ~ Requested(b, i) /\ ~ Answered(b, i)
  /\ \A i : Requested(b, i) \/ Answered(b, i) \/ Handled(b) => pendingCommand[b]
  /\ pendingCommand[b] => enabled[b] = {}

CommandInv == \A b \in Browsers : CommandInvOf(b)

\* Before the run thread has entered the monitor nobody can give a command.
EarlyInv ==
  at \in Early =>
    /\ state = "initExecution" /\ stepTokens = 0 /\ ~ resetting /\ ~ userTermination
    /\ \A b \in Browsers :
         /\ enabled[b] = {} /\ handler[b].at = "idle"
         /\ toServer[b] \in Seq({"state"})
         /\ toClient[b] \in Seq(EarlyMessages)
         /\ fetched[b] \in EarlyMessages \cup {None}

\* A new iteration begins with a reset only to end the execution.
TerminationInv ==
  /\ at = "loop" /\ resetting => userTermination
  /\ \A b \in Browsers :
       handler[b].at \in {"terminating", "terminateContinue"} => userTermination

\* A state that is undetermined is told once per connection.
Unknown(s) == {i \in DOMAIN s : s[i].provider = "state" /\ s[i].state = "undetermined"}
UnknownFetched(b) == IF fetched[b] = StateMessage("undetermined", 0) THEN 1 ELSE 0
Told(b) == retries[b] + Cardinality(Unknown(toClient[b])) + UnknownFetched(b)
Due(b) == Told(b) + Len(toServer[b])
RetryInvOf(b) ==
  /\ at \in Early => Due(b) <= cuts + 1 /\ (b \notin link => Due(b) <= cuts)
  /\ at \notin Early => Told(b) <= MAX_CUTS + 1
RetryInv == \A b \in Browsers : RetryInvOf(b)

ConsoleInv ==
  /\ ConnectionsOK /\ ClientOK /\ RequestsOK /\ ExecutionOK
  /\ MonitorInv /\ ConnectedInv /\ NoSleepingWithTokens /\ CommandInv /\ EarlyInv
  /\ TerminationInv /\ RetryInv

-------------------------------------------------------------------------------
(* Queues and messages. *)

LEMMA QueueEmpty == \A S : << >> \in Seq(S) /\ DOMAIN << >> = {}
  <1>1. \A S : << >> \in Seq(S) /\ Len(<< >>) = 0
    BY EmptySeq
  <1> QED
    BY <1>1, LenProperties

\* A queue with one element more,
LEMMA QueueAppend ==
  ASSUME NEW S, NEW q \in Seq(S), NEW e \in S
  PROVE  /\ Append(q, e) \in Seq(S)
         /\ Len(q) \in Nat
         /\ DOMAIN q = 1 .. Len(q)
         /\ DOMAIN Append(q, e) = 1 .. Len(q) + 1
         /\ Len(Append(q, e)) = Len(q) + 1
         /\ \A i \in DOMAIN q : Append(q, e)[i] = q[i]
         /\ Append(q, e)[Len(q) + 1] = e
  BY AppendProperties, LenProperties

\* and one less.
LEMMA QueueTail ==
  ASSUME NEW S, NEW q \in Seq(S), q # << >>
  PROVE  /\ Head(q) \in S /\ Head(q) = q[1]
         /\ Tail(q) \in Seq(S)
         /\ Len(q) \in Nat \ {0}
         /\ DOMAIN q = 1 .. Len(q)
         /\ DOMAIN Tail(q) = 1 .. Len(q) - 1
         /\ Len(Tail(q)) = Len(q) - 1
         /\ \A i \in DOMAIN Tail(q) : Tail(q)[i] = q[i + 1]
  <1>1. Len(q) \in Nat \ {0} /\ DOMAIN q = 1 .. Len(q)
    BY LenProperties, EmptySeq
  <1>2. Tail(q) \in Seq(S) /\ Head(q) \in S /\ Len(Tail(q)) = Len(q) - 1
        /\ \A i \in 1 .. Len(Tail(q)) : Tail(q)[i] = q[i + 1]
    BY HeadTailProperties
  <1>3. DOMAIN Tail(q) = 1 .. Len(q) - 1
    BY <1>2, LenProperties
  <1> QED
    BY <1>1, <1>2, <1>3

LEMMA MessageKinds ==
  ASSUME NEW m \in Messages
  PROVE  \/ m \in StateMessages /\ m.provider = "state"
         \/ m \notin StateMessages /\ m.provider \in {"controls", "error"}
  BY DEF Messages, StateMessages, EarlyMessages, StateMessage

LEMMA NoMessage == None \notin Messages
  BY MessageKinds DEF None

\* What is told of the execution.
LEMMA StateIsTold ==
  ASSUME NEW s \in States, NEW t \in -1 .. 5
  PROVE  /\ StateMessage(s, t) \in StateMessages
         /\ StateMessage(s, t).provider = "state"
         /\ StateMessage(s, t).state # "undetermined"
  <1>1. \A x \in States : x # "undetermined"
    BY DEF States, Paused, PausedBefore, Performing, Final, Phases
  <1> QED
    BY <1>1 DEF StateMessages, StateMessage

LEMMA StateNames ==
  /\ \A p \in Phases : /\ PausedBefore[p] \in States \cap Paused
                       /\ Performing[p] \in States
                       /\ Final(p) \in States
  /\ {"initExecution", "pausing", "resetting", "terminating"} \subseteq States
  BY DEF States, Paused

TellsState ==
  /\ toClient' \in [Browsers -> Seq(Messages)]
  /\ \E s \in States, t \in -1 .. 5 : \A b \in Browsers :
       toClient'[b] \in {toClient[b], Append(toClient[b], StateMessage(s, t))}

\* A broadcast, one that is broken off as well.
LEMMA BroadcastTells ==
  ASSUME ConnectionsOK, NEW s \in States, NEW t \in -1 .. 5,
         Broadcast(StateMessage(s, t)) \/ BroadcastThrows(StateMessage(s, t))
  PROVE  TellsState
  <1>1. StateMessage(s, t) \in Messages
    BY StateIsTold DEF Messages
  <1>2. \A b \in Browsers : toClient[b] \in Seq(Messages)
                           /\ Append(toClient[b], StateMessage(s, t)) \in Seq(Messages)
    BY <1>1, QueueAppend DEF ConnectionsOK
  <1>3. PICK targets : BroadcastTo(targets, StateMessage(s, t))
    BY DEF Broadcast, BroadcastThrows
  <1> QED
    BY <1>2, <1>3 DEF BroadcastTo, TellsState

-------------------------------------------------------------------------------
(* What the steps of the server do to the connections. *)

\* The run thread says nothing before it has entered the monitor.
LEMMA RunThreadConnections ==
  ASSUME ConnectionsOK, ExecutionOK, RunThreadStep
  PROVE  \/ UNCHANGED <<connectionVars, requestVars>>
         \/ /\ at \notin Early
            /\ UNCHANGED <<link, lingering, toServer, cuts, requestVars>>
            /\ TellsState
         \/ Shutdown
  <1> USE DEF connectionVars, requestVars, executionVars
  <1>1. \A s \in States : PublishThrows(s, stepTokens) \/ Publish(s, stepTokens) => TellsState
    BY BroadcastTells DEF Publish, PublishThrows, ExecutionOK
  <1>2. PausedBefore[phase] \in States /\ Performing[phase] \in States
        /\ Final(phase) \in States /\ "pausing" \in States
    BY StateNames DEF ExecutionOK
  <1>3. CASE StartUp \/ EnterRun \/ Loop \/ Reenter \/ UseToken \/ TimeOut
    BY <1>3 DEF StartUp, EnterRun, Loop, Reenter, UseToken, TimeOut
  <1>4. CASE WaitBeforeStep
    BY <1>1, <1>2, <1>4 DEF WaitBeforeStep, WaitAs, Early
  <1>5. CASE WaitWhenDone
    BY <1>1, <1>2, <1>5 DEF WaitWhenDone, WaitAs, Early
  <1>6. CASE PerformStep
    BY <1>1, <1>2, <1>6 DEF PerformStep, Early
  <1>7. CASE Operate
    BY <1>7 DEF Operate, Signal, CheckBreakConditions, Collect, CheckGlobalCondition
  <1>8. CASE AggregateConditions
    <2>1. Publish("pausing", 0) \/ PublishThrows("pausing", 0) => TellsState
      BY BroadcastTells, <1>2 DEF Publish, PublishThrows
    <2>2. at \notin Early
      BY <1>8 DEF AggregateConditions, Early
    <2> QED
      BY <2>1, <2>2, <1>8 DEF AggregateConditions
  <1>9. CASE Shutdown
    BY <1>9
  <1> QED
    BY <1>3, <1>4, <1>5, <1>6, <1>7, <1>8, <1>9 DEF RunThreadStep

\* The thread of a command goes on to another place.
LEMMA CommandGoesOn ==
  ASSUME ConnectionsOK, RequestsOK, ExecutionOK, NEW b \in Browsers, Command(b)
  PROVE  /\ UNCHANGED <<link, lingering, toServer, cuts, fetched>>
         /\ UNCHANGED toClient \/ TellsState
         /\ handler[b].at \notin {"idle", "accepted", "error"}
         /\ \E place \in Handling \ {"idle"} : GoOn(b, place)
  <1>1. UNCHANGED <<link, lingering, toServer, cuts, fetched>>
    BY DEF Command
  <1>2. \A s \in States : PublishThrows(s, stepTokens) \/ Publish(s, stepTokens) => TellsState
    BY BroadcastTells DEF Publish, PublishThrows, ExecutionOK
  <1>3. "resetting" \in States /\ "terminating" \in States
    BY StateNames
  <1>4. CASE GiveTokens(b, "step", 1) \/ GiveTokens(b, "continue", Infinite)
    BY <1>1, <1>4 DEF GiveTokens, Handling
  <1>5. CASE CollectCommand(b)
    BY <1>1, <1>5 DEF CollectCommand, Handling
  <1>6. CASE Pause(b)
    BY <1>1, <1>6 DEF Pause, Handling
  <1>7. CASE Reset(b)
    BY <1>1, <1>2, <1>3, <1>7 DEF Reset, Handling
  <1>8. CASE TerminateCommand(b)
    BY <1>1, <1>2, <1>3, <1>8 DEF TerminateCommand, Handling
  <1> QED
    BY <1>4, <1>5, <1>6, <1>7, <1>8 DEF Command

LEMMA GoOnTo ==
  ASSUME RequestsOK, NEW b \in Browsers, NEW place \in Handling, GoOn(b, place)
  PROVE  /\ handler' \in [Browsers -> [at : Handling, orphan : BOOLEAN]]
         /\ handler'[b].at = place
         /\ \A c \in Browsers \ {b} : handler'[c] = handler[c]
  BY DEF RequestsOK, GoOn

\* The command of a connection that is gone is where it was.
LEMMA OrphanKeepsPlaces ==
  ASSUME RequestsOK, NEW b \in Browsers, Orphan(b)
  PROVE  /\ RequestsOK'
         /\ \A c \in Browsers : handler'[c].at = handler[c].at
         /\ \A c \in Browsers : fetched'[c] = IF c = b THEN None ELSE fetched[c]
  BY DEF RequestsOK, Orphan

\* What is fetched is a state, and an early one before there is a computation.
LEMMA FetchedMessages ==
  ASSUME ExecutionOK
  PROVE  /\ StateFetched \in StateMessages
         /\ EarlyInv /\ at \in Early => StateFetched \in EarlyMessages
  <1>1. StateMessage(state, stepTokens) \in StateMessages
    BY StateIsTold DEF ExecutionOK
  <1> QED
    BY <1>1 DEF StateFetched, StateMessages, EarlyMessages, EarlyInv, Early

-------------------------------------------------------------------------------
(* The types. *)

TypesOK == ConnectionsOK /\ ClientOK /\ RequestsOK

LEMMA OrderQueues ==
  ASSUME ConnectionsOK, NEW b \in Browsers, NEW request \in Requests, Order(b, request)
  PROVE  /\ toServer' \in [Browsers -> Seq(Requests)]
         /\ \A c \in Browsers \ {b} : toServer'[c] = toServer[c]
         /\ toServer'[b] \in {toServer[b], Append(toServer[b], request)}
  <1>1. Append(toServer[b], request) \in Seq(Requests)
    BY QueueAppend DEF ConnectionsOK
  <1> QED
    BY <1>1 DEF Order, ConnectionsOK

LEMMA ReplyQueues ==
  ASSUME ConnectionsOK, NEW b \in Browsers, NEW m \in Messages, Reply(b, m)
  PROVE  /\ toClient' \in [Browsers -> Seq(Messages)]
         /\ \A c \in Browsers \ {b} : toClient'[c] = toClient[c]
         /\ toClient'[b] = IF b \in link THEN Append(toClient[b], m) ELSE toClient[b]
  <1>1. Append(toClient[b], m) \in Seq(Messages)
    BY QueueAppend DEF ConnectionsOK
  <1> QED
    BY <1>1 DEF Reply, ConnectionsOK

\* What a message does to a browser.
LEMMA ReceiveTypes ==
  ASSUME TypesOK, NEW b \in Browsers, Receive(b)
  PROVE  ConnectionsOK' /\ ClientOK'
  <1> USE DEF TypesOK
  <1> DEFINE m == Head(toClient[b])
  <1>1. m \in Messages /\ Tail(toClient[b]) \in Seq(Messages) /\ << >> \in Seq(Messages)
        /\ << >> \in Seq(Requests)
    BY QueueTail, QueueEmpty DEF Receive, ConnectionsOK
  <1>2. toClient' \in [Browsers -> Seq(Messages)]
    BY <1>1 DEF Receive, ConnectionsOK
  <1>3. UNCHANGED <<reconnectAttempt, opened, clicks, cuts>>
    BY DEF Receive
  <1>4. CASE OnControls(b)
    BY <1>2, <1>3, <1>4 DEF OnControls, ConnectionsOK, ClientOK
  <1>5. CASE OnOther
    BY <1>2, <1>3, <1>5 DEF OnOther, stateModuleVars, ConnectionsOK, ClientOK
  <1>6. CASE OnUndetermined(b)
    BY <1>2, <1>3, <1>6 DEF OnUndetermined, ConnectionsOK, ClientOK
  <1>7. CASE OnState(b, m.state, m.steps)
    <2>1. ButtonsFor(b, m.state, m.steps) \subseteq Commands
      BY DEF ButtonsFor, EnabledButtons, ClientOK, Commands
    <2>2. Order(b, "state") => toServer' \in [Browsers -> Seq(Requests)]
      BY OrderQueues DEF Requests
    <2>3. ClientOK'
      <3>1. enabled' \in [Browsers -> SUBSET Commands]
        BY <2>1, <1>7 DEF OnState, ClientOK
      <3>2. socket' \in [Browsers -> Sockets] /\ recreate' \in [Browsers -> BOOLEAN]
        BY <1>7 DEF OnState, ClientOK, Sockets
      <3> QED
        BY <3>1, <3>2, <1>3, <1>7 DEF OnState, ClientOK
    <2>4. ConnectionsOK'
      BY <2>2, <1>1, <1>2, <1>3, <1>7 DEF OnState, ConnectionsOK
    <2> QED
      BY <2>3, <2>4
  <1> QED
    BY <1>4, <1>5, <1>6, <1>7 DEF Receive, OnMessage

\* What else happens in a browser.
LEMMA BrowserTypes ==
  ASSUME TypesOK, NEW b \in Browsers,
         \/ ClientStep(b) \/ Open(b) \/ \E control \in Commands : Click(b, control)
  PROVE  ConnectionsOK' /\ ClientOK'
  <1> USE DEF TypesOK, connectionVars, stateModuleVars, socketVars, Sockets
  <1>1. CASE ConnectFails(b) \/ Retry(b) \/ OnClose(b) \/ Recreate(b)
    <2>1. ConnectionsOK'
      BY <1>1 DEF ConnectFails, Retry, OnClose, Recreate, ConnectionsOK
    <2>2. CASE ConnectFails(b)
      BY <2>1, <2>2 DEF ConnectFails, ClientOK
    <2>3. CASE Retry(b)
      BY <2>1, <2>3 DEF Retry, Connect, ClientOK
    <2>4. CASE OnClose(b)
      BY <2>1, <2>4 DEF OnClose, CloseConsumers, ClientOK
    <2>5. CASE Recreate(b)
      BY <2>1, <2>5 DEF Recreate, Connect, ClientOK
    <2> QED
      BY <1>1, <2>1, <2>2, <2>3, <2>4, <2>5
  <1>2. CASE RetryState(b)
    <2>1. toServer' \in [Browsers -> Seq(Requests)]
      BY <1>2, OrderQueues DEF RetryState, Requests
    <2>2. ConnectionsOK'
      BY <2>1, <1>2 DEF RetryState, ConnectionsOK
    <2>3. ClientOK'
      BY <1>2 DEF RetryState, ClientOK
    <2> QED
      BY <2>2, <2>3
  <1>3. CASE Open(b)
    <2>1. toServer' \in [Browsers -> Seq(Requests)]
      BY <1>3, OrderQueues DEF Open, Requests
    <2>2. ConnectionsOK'
      BY <2>1, <1>3 DEF Open, ConnectionsOK
    <2>3. ClientOK'
      BY <1>3 DEF Open, ClientOK
    <2> QED
      BY <2>2, <2>3
  <1>4. ASSUME NEW control \in Commands, Click(b, control)
        PROVE  ConnectionsOK' /\ ClientOK'
    <2>1. toServer' \in [Browsers -> Seq(Requests)]
      BY <1>4, OrderQueues DEF Click, Requests
    <2>2. ConnectionsOK'
      BY <2>1, <1>4 DEF Click, ConnectionsOK
    <2>3. ClientOK'
      BY <1>4, MaxClicksAssumption DEF Click, ClientOK
    <2> QED
      BY <2>2, <2>3
  <1> QED
    BY <1>1, <1>2, <1>3, <1>4 DEF ClientStep

\* The connections, the browsers and the requests hold what they should.
LEMMA TypesStep ==
  ASSUME TypesOK, ExecutionOK, Next
  PROVE  TypesOK'
  <1> USE DEF serverVars, requestVars, clientVars, connectionVars
  <1>1. UNCHANGED clientVars /\ ClientOK => ClientOK'
    BY DEF socketVars, stateModuleVars, ClientOK
  <1>2. UNCHANGED requestVars /\ RequestsOK => RequestsOK'
    BY DEF RequestsOK
  <1>3. TellsState /\ UNCHANGED <<link, lingering, toServer, cuts>> => ConnectionsOK'
    BY DEF TellsState, TypesOK, ConnectionsOK
  <1>4. UNCHANGED connectionVars => ConnectionsOK'
    BY DEF TypesOK, ConnectionsOK
  <1>5. CASE RunStep
    <2>1. CASE Shutdown
      <3>1. ConnectionsOK'
        BY <2>1, QueueEmpty DEF Shutdown, ConnectionsOK, TypesOK
      <3>2. RequestsOK'
        BY <2>1 DEF Shutdown, RequestsOK, TypesOK
      <3> QED
        BY <1>1, <1>5, <3>1, <3>2 DEF RunStep, TypesOK
    <2> QED
      BY <1>1, <1>2, <1>3, <1>4, <1>5, <2>1, RunThreadConnections DEF RunStep, TypesOK
  <1>6. ASSUME NEW b \in Browsers, BrowserStep(b) \/ UserStep(b)
        PROVE  TypesOK'
    <2>1. CASE Receive(b) /\ IF socket'[b] = "closing" THEN Orphan(b) ELSE UNCHANGED requestVars
      BY <2>1, <1>2, ReceiveTypes, OrphanKeepsPlaces DEF TypesOK
    <2>2. CASE UNCHANGED serverVars
               /\ (ClientStep(b) \/ Open(b) \/ \E control \in Commands : Click(b, control))
      BY <2>2, <1>2, BrowserTypes DEF TypesOK
    <2> QED
      BY <1>6, <2>1, <2>2 DEF BrowserStep, UserStep
  <1>7. ASSUME NEW b \in Browsers, ConnectionStep(b)
        PROVE  TypesOK'
    <2>1. CASE Cut(b) /\ Orphan(b) /\ UNCHANGED clientVars
      <3>1. ConnectionsOK'
        BY <2>1, QueueEmpty, MaxCutsAssumption DEF Cut, Lose, ConnectionsOK, TypesOK
      <3> QED
        BY <2>1, <3>1, <1>1, OrphanKeepsPlaces DEF TypesOK
    <2>2. CASE Remove(b) /\ UNCHANGED <<serverVars, clientVars>>
      BY <2>2, <1>1, <1>2 DEF Remove, ConnectionsOK, TypesOK
    <2> QED
      BY <1>7, <2>1, <2>2 DEF ConnectionStep
  <1>8. ASSUME NEW b \in Browsers, ServeCommand(b)
        PROVE  TypesOK'
    <2>1. ClientOK'
      BY <1>1, <1>8 DEF ServeCommand, TypesOK
    <2>2. CASE Accept(b)
      <3>1. ConnectionsOK'
        BY <2>2, QueueTail DEF Accept, ConnectionsOK, TypesOK
      <3>2. RequestsOK'
        BY <2>2 DEF Accept, RequestsOK, TypesOK, Handling
      <3> QED
        BY <2>1, <3>1, <3>2 DEF TypesOK
    <2>3. CASE Command(b)
      <3>1. PICK place \in Handling : GoOn(b, place)
        BY <2>3, CommandGoesOn DEF TypesOK
      <3>2. UNCHANGED <<link, lingering, toServer, cuts, fetched>>
            /\ (UNCHANGED toClient \/ TellsState)
        BY <2>3, CommandGoesOn DEF TypesOK
      <3>3. RequestsOK'
        BY <3>1, <3>2, GoOnTo DEF TypesOK, RequestsOK
      <3> QED
        BY <1>3, <1>4, <2>1, <3>2, <3>3 DEF TypesOK
    <2>4. CASE Answer(b)
      <3>1. RequestsOK'
        BY <2>4 DEF Answer, RequestsOK, TypesOK, Handling, Idle
      <3>2. [provider |-> IF handler[b].at = "accepted" THEN "controls" ELSE "error"] \in Messages
        BY DEF Messages
      <3>3. toClient' \in [Browsers -> Seq(Messages)]
        BY <2>4, <3>2, ReplyQueues DEF Answer, TypesOK, ConnectionsOK
      <3>4. ConnectionsOK'
        BY <2>4, <3>3 DEF Answer, TypesOK, ConnectionsOK
      <3> QED
        BY <2>1, <3>1, <3>4 DEF TypesOK
    <2> QED
      BY <1>8, <2>2, <2>3, <2>4 DEF ServeCommand, CommandStep
  <1>9. ASSUME NEW b \in Browsers, ServeState(b)
        PROVE  TypesOK'
    <2>1. ClientOK'
      BY <1>1, <1>9 DEF ServeState, TypesOK
    <2>2. CASE FetchState(b)
      <3>1. ConnectionsOK'
        BY <2>2, QueueTail DEF FetchState, ConnectionsOK, TypesOK
      <3>2. RequestsOK'
        BY <2>2, FetchedMessages DEF FetchState, RequestsOK, TypesOK
      <3> QED
        BY <2>1, <3>1, <3>2 DEF TypesOK
    <2>3. CASE SendState(b)
      <3>1. RequestsOK'
        BY <2>3 DEF SendState, RequestsOK, TypesOK
      <3>2. fetched[b] \in Messages
        BY <2>3 DEF SendState, RequestsOK, TypesOK, Messages
      <3>3. toClient' \in [Browsers -> Seq(Messages)]
        BY <2>3, <3>2, ReplyQueues DEF SendState, TypesOK
      <3>4. ConnectionsOK'
        BY <2>3, <3>3 DEF SendState, TypesOK, ConnectionsOK
      <3> QED
        BY <2>1, <3>1, <3>4 DEF TypesOK
    <2> QED
      BY <1>9, <2>2, <2>3 DEF ServeState, StateRequestStep
  <1> QED
    BY <1>5, <1>6, <1>7, <1>8, <1>9 DEF Next

-------------------------------------------------------------------------------
(* The execution and its monitor. *)

LEMMA TokensOfAnIteration == \A s \in Paused : TokensToCollect(s) \in 0 .. 4
  BY DEF TokensToCollect, Paused, Phases

LEMMA NextPhaseTypes ==
  ASSUME phase \in Phases, resetting \in BOOLEAN, NextPhase
  PROVE  at' \in {"check", "loop"} /\ phase' \in Phases /\ resetting' \in BOOLEAN
  <1>1. CASE phase < 4 \/ (phase = 4 /\ ShouldCheckGlobalCondition)
    BY <1>1 DEF NextPhase, Phases
  <1>2. CASE ~ (phase < 4 \/ (phase = 4 /\ ShouldCheckGlobalCondition))
    BY <1>2 DEF NextPhase, Phases
  <1> QED
    BY <1>1, <1>2

\* The monitor belongs to the run thread, to one command, or to nobody.
LEMMA RunThreadExecution ==
  ASSUME ConnectionsOK, RequestsOK, ExecutionOK, MonitorInv, RunThreadStep
  PROVE  ExecutionOK' /\ MonitorInv'
  <1> USE ThreadsAssumption DEF executionVars, requestVars, Early, Holding, Outside
  <1>1. \A p \in Phases : /\ PausedBefore[p] \in States
                          /\ Performing[p] \in States
                          /\ Final(p) \in States
    BY StateNames
  <1>2. "pausing" \in States
    BY StateNames
  <1>3. NextPhase => /\ at' \in {"check", "loop"}
                     /\ phase' \in Phases
                     /\ resetting' \in BOOLEAN
    BY NextPhaseTypes DEF ExecutionOK
  <1>4. CASE StartUp
    BY <1>4 DEF StartUp, ExecutionOK, MonitorInv
  <1>5. CASE EnterRun
    BY <1>5 DEF EnterRun, ExecutionOK, MonitorInv
  <1>6. CASE Loop
    BY <1>6, MaxIterationAssumption DEF Loop, ExecutionOK, MonitorInv, Phases
  <1>7. CASE WaitBeforeStep
    BY <1>7, <1>1, <1>3
    DEF WaitBeforeStep, WaitAs, Publish, PublishThrows, Fail, ExecutionOK, MonitorInv
  <1>8. CASE WaitWhenDone
    BY <1>8, <1>1, <1>3
    DEF WaitWhenDone, WaitAs, Publish, PublishThrows, Fail, ExecutionOK, MonitorInv
  <1>9. CASE Reenter
    BY <1>9 DEF Reenter, ExecutionOK, MonitorInv
  <1>10. CASE PerformStep
    BY <1>10, <1>1, <1>3
    DEF PerformStep, Publish, PublishThrows, Fail, ExecutionOK, MonitorInv
  <1>11. CASE UseToken
    BY <1>11 DEF UseToken, ExecutionOK, MonitorInv
  <1>12. CASE Operate
    <2>1. CASE Signal
      BY <2>1, <1>12, <1>3 DEF Operate, Signal, ExecutionOK, MonitorInv
    <2>2. CASE CheckBreakConditions
      <3>1. \/ NextPhase
            \/ at' \in {"aggregate", "unanswered"} /\ UNCHANGED <<phase, resetting>>
        BY <2>2 DEF CheckBreakConditions
      <3> QED
        BY <2>2, <3>1, <1>12, <1>3 DEF Operate, CheckBreakConditions, ExecutionOK, MonitorInv
    <2>3. CASE Collect
      <3>1. collectSteps' \in 0 .. INTERVAL
        BY <2>3, IntervalAssumption DEF Collect, ExecutionOK
      <3> QED
        BY <2>3, <3>1, <1>12, <1>3 DEF Operate, Collect, ExecutionOK, MonitorInv
    <2>4. CASE CheckGlobalCondition
      BY <2>4, <1>12, <1>3 DEF Operate, CheckGlobalCondition, ExecutionOK, MonitorInv
    <2> QED
      BY <2>1, <2>2, <2>3, <2>4, <1>12 DEF Operate
  <1>13. CASE AggregateConditions
    <2>1. UNCHANGED <<iteration, userTermination, readTokens, collectSteps, handler>>
      BY <1>13 DEF AggregateConditions
    <2>2. /\ state' \in {state, "pausing"}
          /\ stepTokens' \in {stepTokens, 0}
          /\ fullStep' \in BOOLEAN
      BY <1>13 DEF AggregateConditions, Publish, PublishThrows, ExecutionOK
    <2>3. \/ NextPhase /\ UNCHANGED owner
          \/ at' = "unanswered" /\ UNCHANGED <<phase, resetting, owner>>
          \/ at' = "failed" /\ owner' = NoOne /\ UNCHANGED <<phase, resetting>>
      BY <1>13 DEF AggregateConditions, Fail
    <2>4. /\ at' \in {"check", "loop", "unanswered", "failed"}
          /\ phase' \in Phases /\ resetting' \in BOOLEAN
          /\ at' = "failed" <=> owner' = NoOne
          /\ owner' \in {owner, NoOne}
          /\ owner = RunThread
      BY <2>3, <1>13, <1>3 DEF AggregateConditions, ExecutionOK, MonitorInv
    <2>5. MonitorInv'
      BY <2>1, <2>4 DEF MonitorInv
    <2> QED
      BY <2>1, <2>2, <2>4, <2>5, <1>2 DEF ExecutionOK
  <1>14. CASE TimeOut
    BY <1>14 DEF TimeOut, ExecutionOK, MonitorInv
  <1>15. CASE Shutdown
    BY <1>15 DEF Shutdown, ExecutionOK, MonitorInv, RequestsOK
  <1> QED
    BY <1>4, <1>5, <1>6, <1>7, <1>8, <1>9, <1>10, <1>11, <1>12, <1>13, <1>14, <1>15
    DEF RunThreadStep

LEMMA CommandExecution ==
  ASSUME ConnectionsOK, RequestsOK, ExecutionOK, MonitorInv, NEW b \in Browsers, Command(b)
  PROVE  ExecutionOK' /\ MonitorInv'
  <1> USE ThreadsAssumption DEF Early, Holding, Outside
  <1>1. PICK place \in Handling : GoOn(b, place)
    BY CommandGoesOn
  <1>2. /\ handler'[b].at = place
        /\ \A c \in Browsers \ {b} : handler'[c] = handler[c]
    BY <1>1, GoOnTo
  <1>3. \A next \in Handling : GoOn(b, next) => next = place
    BY <1>2, GoOnTo
  <1>4. UNCHANGED <<collectSteps, phase, readTokens>>
    BY DEF Command
  <1>5. NotifyAll /\ at \notin Holding => /\ at' \notin Holding
                                          /\ at' \in Early \cup Outside
    BY DEF NotifyAll, ExecutionOK
  <1>6. "resetting" \in States /\ "terminating" \in States
    BY StateNames
  <1>7. ASSUME UNCHANGED userTermination, NEW command \in {"step", "continue"},
               NEW tokens \in -1 .. 5, GiveTokens(b, command, tokens)
        PROVE  ExecutionOK' /\ MonitorInv'
    <2>1. place = "accepted"
      BY <1>3, <1>7 DEF GiveTokens, Handling
    <2>2. at \notin Holding /\ at' \notin Holding /\ at' \in Early \cup Outside
      BY <1>5, <1>7 DEF GiveTokens, MonitorInv
    <2>3. MonitorInv'
      BY <2>1, <2>2, <1>2, <1>7 DEF GiveTokens, MonitorInv
    <2>4. ExecutionOK'
      BY <2>1, <2>2, <1>2, <1>4, <1>7 DEF GiveTokens, MonitorInv, ExecutionOK
    <2> QED
      BY <2>3, <2>4
  <1>8. CASE UNCHANGED userTermination /\ CollectCommand(b)
    <2>1. UNCHANGED <<state, resetting, iteration, userTermination>>
      BY <1>8 DEF CollectCommand
    <2>2. CASE handler[b].at = "collect" /\ state \in Paused
      <3>1. /\ owner = NoOne /\ owner' = b /\ stepTokens' \in 0 .. 4 /\ fullStep' = TRUE
            /\ UNCHANGED at /\ place = "collectMore"
        BY <2>2, <1>8, <1>3, TokensOfAnIteration DEF CollectCommand, Handling
      <3> QED
        BY <3>1, <2>1, <1>2, <1>4 DEF MonitorInv, ExecutionOK
    <2>3. CASE handler[b].at = "collect" /\ state \notin Paused
      <3>1. UNCHANGED <<stepTokens, owner, fullStep, at>> /\ place = "error"
        BY <2>3, <1>8, <1>3 DEF CollectCommand, Handling
      <3> QED
        BY <3>1, <2>1, <2>3, <1>2, <1>4 DEF MonitorInv, ExecutionOK
    <2>4. CASE handler[b].at = "collectMore"
      <3>1. /\ owner = b /\ owner' = NoOne /\ NotifyAll /\ UNCHANGED fullStep
            /\ stepTokens' \in {stepTokens, stepTokens + 1} /\ place = "accepted"
        BY <2>4, <1>8, <1>3 DEF CollectCommand, Handling, MonitorInv
      <3>2. at \notin Holding /\ at' \notin Holding /\ at' \in Early \cup Outside
        BY <3>1, <1>5 DEF MonitorInv
      <3>3. stepTokens' \in -1 .. 5
        BY <3>1, <2>4 DEF ExecutionOK
      <3>4. MonitorInv'
        BY <3>1, <3>2, <1>2 DEF MonitorInv
      <3> QED
        BY <3>1, <3>2, <3>3, <3>4, <2>1, <1>2, <1>4 DEF MonitorInv, ExecutionOK
    <2> QED
      BY <1>8, <2>2, <2>3, <2>4 DEF CollectCommand
  <1>9. CASE UNCHANGED userTermination /\ Pause(b)
    <2>1. /\ UNCHANGED <<state, resetting, owner, iteration, at, userTermination>>
          /\ stepTokens' = 0 /\ fullStep' \in BOOLEAN
          /\ place \in {"accepted", "resetting"}
      BY <1>9, <1>3 DEF Pause, Handling
    <2>2. handler[b].at \in {"pause", "reset"}
      BY <1>9 DEF Pause
    <2>3. MonitorInv'
      BY <2>1, <2>2, <1>2 DEF MonitorInv
    <2> QED
      BY <2>1, <2>3, <1>2, <1>4 DEF ExecutionOK
  <1>10. CASE UNCHANGED userTermination /\ Reset(b)
    <2>1. CASE handler[b].at = "resetting"
      <3>1. /\ UNCHANGED <<resetting, stepTokens, iteration, at, fullStep>>
            /\ state' = "resetting" /\ owner = NoOne
            /\ \/ owner' = b /\ place = "resetGraph"
               \/ UNCHANGED owner /\ place = "error"
        BY <2>1, <1>10, <1>3 DEF Reset, Publish, PublishThrows, Handling
      <3>2. MonitorInv'
        BY <3>1, <2>1, <1>2 DEF MonitorInv
      <3> QED
        BY <3>1, <3>2, <1>2, <1>4, <1>6, <1>10 DEF ExecutionOK
    <2>2. CASE handler[b].at = "resetGraph"
      <3>1. /\ UNCHANGED state /\ resetting' = TRUE /\ stepTokens' = 0 /\ iteration' = 0
            /\ fullStep' \in BOOLEAN /\ NotifyAll /\ owner = b /\ owner' = NoOne
            /\ place \in {"accepted", "error"}
        BY <2>2, <1>10, <1>3 DEF Reset, Handling, MonitorInv
      <3>2. at \notin Holding /\ at' \notin Holding /\ at' \in Early \cup Outside
        BY <3>1, <1>5 DEF MonitorInv
      <3>3. MonitorInv'
        BY <3>1, <3>2, <1>2 DEF MonitorInv
      <3>4. UNCHANGED userTermination
        BY <1>10
      <3> QED
        BY <3>1, <3>2, <3>3, <3>4, <1>2, <1>4, MaxIterationAssumption DEF ExecutionOK
    <2> QED
      BY <1>10, <2>1, <2>2 DEF Reset
  <1>11. CASE TerminateCommand(b)
    <2>1. UNCHANGED <<owner, iteration, fullStep>>
      BY <1>11 DEF TerminateCommand
    <2>2. CASE handler[b].at = "terminate"
      <3>1. /\ userTermination' = TRUE /\ state' = "terminating"
            /\ UNCHANGED <<resetting, stepTokens, at>>
            /\ place \in {"terminating", "error"}
        BY <2>2, <1>11, <1>3 DEF TerminateCommand, Publish, PublishThrows, Handling
      <3> QED
        BY <3>1, <2>1, <2>2, <1>2, <1>4, <1>6 DEF MonitorInv, ExecutionOK
    <2>3. CASE handler[b].at = "terminating"
      <3>1. /\ resetting' = TRUE /\ stepTokens' = 0
            /\ UNCHANGED <<state, userTermination, at>>
            /\ place = "terminateContinue"
        BY <2>3, <1>11, <1>3 DEF TerminateCommand, Handling
      <3> QED
        BY <3>1, <2>1, <2>3, <1>2, <1>4 DEF MonitorInv, ExecutionOK
    <2>4. CASE handler[b].at = "terminateContinue"
      <3>1. /\ owner = NoOne /\ stepTokens' = -1 /\ NotifyAll
            /\ UNCHANGED <<state, resetting, userTermination>>
            /\ place = "accepted"
        BY <2>4, <1>11, <1>3 DEF TerminateCommand, Infinite, Handling
      <3>2. at \notin Holding /\ at' \notin Holding /\ at' \in Early \cup Outside
        BY <3>1, <1>5 DEF MonitorInv
      <3> QED
        BY <3>1, <3>2, <2>1, <1>2, <1>4 DEF MonitorInv, ExecutionOK
    <2> QED
      BY <1>11, <2>2, <2>3, <2>4 DEF TerminateCommand
  <1>12. -1 \in -1 .. 5 /\ 1 \in -1 .. 5
    OBVIOUS
  <1> QED
    BY <1>7, <1>8, <1>9, <1>10, <1>11, <1>12 DEF Command, Infinite

\* What is not a step of the run thread or of a command leaves the execution.
LEMMA OtherSteps ==
  ASSUME TypesOK, ExecutionOK, Next
  PROVE  \/ RunThreadStep
         \/ \E b \in Browsers : Command(b)
         \/ /\ UNCHANGED <<executionVars, owner, runVars, fullStep>>
            /\ \A c \in Browsers :
                 \/ handler'[c].at = handler[c].at
                 \/ handler[c].at = "idle" /\ handler'[c].at \in Commands
                 \/ handler[c].at \in {"accepted", "error"} /\ handler'[c].at = "idle"
  <1> USE DEF TypesOK
  <1>1. ASSUME NEW b \in Browsers, BrowserStep(b) \/ UserStep(b) \/ ConnectionStep(b)
        PROVE  /\ UNCHANGED <<executionVars, owner, runVars, fullStep>>
               /\ \A c \in Browsers : handler'[c].at = handler[c].at
    <2>1. UNCHANGED <<executionVars, owner, runVars, fullStep>>
          /\ (Orphan(b) \/ UNCHANGED handler)
      BY <1>1 DEF BrowserStep, UserStep, ConnectionStep, serverVars, requestVars
    <2> QED
      BY <2>1, OrphanKeepsPlaces
  <1>2. ASSUME NEW b \in Browsers, Accept(b)
        PROVE  /\ UNCHANGED <<executionVars, owner, runVars, fullStep>>
               /\ \A c \in Browsers :
                    \/ handler'[c].at = handler[c].at
                    \/ handler[c].at = "idle" /\ handler'[c].at \in Commands
    BY <1>2 DEF Accept, RequestsOK
  <1>3. ASSUME NEW b \in Browsers, Answer(b)
        PROVE  /\ UNCHANGED <<executionVars, owner, runVars, fullStep>>
               /\ \A c \in Browsers :
                    \/ handler'[c].at = handler[c].at
                    \/ handler[c].at \in {"accepted", "error"} /\ handler'[c].at = "idle"
    BY <1>3 DEF Answer, RequestsOK, Idle
  <1>4. ASSUME NEW b \in Browsers, ServeState(b)
        PROVE  UNCHANGED <<executionVars, owner, runVars, fullStep, handler>>
    BY <1>4 DEF ServeState, StateRequestStep, FetchState, SendState
  <1> QED
    BY <1>1, <1>2, <1>3, <1>4 DEF Next, RunStep, ServeCommand, CommandStep

LEMMA ExecutionStep ==
  ASSUME TypesOK, ExecutionOK, MonitorInv, Next
  PROVE  ExecutionOK' /\ MonitorInv'
  <1> USE DEF TypesOK
  <1>1. CASE RunThreadStep
    BY <1>1, RunThreadExecution
  <1>2. CASE \E b \in Browsers : Command(b)
    BY <1>2, CommandExecution
  <1>3. ASSUME UNCHANGED <<executionVars, owner, runVars, fullStep>>,
               \A c \in Browsers :
                 \/ handler'[c].at = handler[c].at
                 \/ handler[c].at = "idle" /\ handler'[c].at \in Commands
                 \/ handler[c].at \in {"accepted", "error"} /\ handler'[c].at = "idle"
        PROVE  ExecutionOK' /\ MonitorInv'
    <2>1. \A c \in Browsers : \/ handler'[c].at = handler[c].at
                              \/ /\ handler[c].at \notin {"collectMore", "resetGraph"}
                                 /\ handler'[c].at \notin {"collectMore", "resetGraph"}
      BY <1>3 DEF Commands
    <2>2. ExecutionOK'
      BY <1>3, <2>1 DEF executionVars, runVars, ExecutionOK
    <2>3. MonitorInv'
      BY <1>3, <2>1 DEF executionVars, runVars, MonitorInv
    <2> QED
      BY <2>2, <2>3
  <1> QED
    BY <1>1, <1>2, <1>3, OtherSteps

-------------------------------------------------------------------------------
(* The connections. *)

\* A browser whose connection the server holds open is connected, and has
\* opened its consumers once.
LEMMA ConnectedStep ==
  ASSUME TypesOK, ExecutionOK, ConnectedInv, Next
  PROVE  ConnectedInv'
  <1> USE DEF TypesOK, ConnectionsOK, ClientOK, OpenedOncePerConnection, ConnectedInv
  <1>1. ASSUME UNCHANGED clientVars, link' \subseteq link
        PROVE  ConnectedInv'
    BY <1>1 DEF clientVars, socketVars
  <1>2. CASE RunStep
    <2>1. link' \subseteq link
      BY <1>2, RunThreadConnections DEF RunStep, connectionVars, Shutdown
    <2> QED
      BY <1>1, <1>2, <2>1 DEF RunStep
  <1>3. ASSUME NEW b \in Browsers, ServeCommand(b) \/ ServeState(b) \/ ConnectionStep(b)
        PROVE  ConnectedInv'
    <2>1. UNCHANGED link \/ link' = link \ {b}
      BY <1>3 DEF ServeCommand, CommandStep, Accept, Command, Answer, ServeState, StateRequestStep,
                  FetchState, SendState, ConnectionStep, Cut, Lose, Remove
    <2>2. UNCHANGED clientVars
      BY <1>3 DEF ServeCommand, ServeState, ConnectionStep
    <2> QED
      BY <1>1, <2>1, <2>2
  <1>4. ASSUME NEW b \in Browsers, ClientStep(b)
        PROVE  ConnectedInv'
    <2>1. UNCHANGED link
      BY <1>4 DEF ClientStep, ConnectFails, Retry, OnClose, Recreate, RetryState, connectionVars
    <2>2. CASE ConnectFails(b)
      BY <2>1, <2>2 DEF ConnectFails
    <2>3. CASE Retry(b)
      BY <2>1, <2>3 DEF Retry, Connect
    <2>4. CASE OnClose(b)
      BY <2>1, <2>4 DEF OnClose, CloseConsumers
    <2>5. CASE Recreate(b)
      BY <2>1, <2>5 DEF Recreate, Connect
    <2>6. CASE RetryState(b)
      BY <2>1, <2>6 DEF RetryState, socketVars
    <2> QED
      BY <1>4, <2>2, <2>3, <2>4, <2>5, <2>6 DEF ClientStep
  <1>5. ASSUME NEW b \in Browsers, Open(b)
        PROVE  ConnectedInv'
    BY <1>5 DEF Open
  <1>6. ASSUME NEW b \in Browsers, Receive(b)
        PROVE  ConnectedInv'
    <2>1. /\ UNCHANGED <<reconnectAttempt, opened>>
          /\ \/ UNCHANGED <<socket, link>>
             \/ socket' = [socket EXCEPT ![b] = "closing"] /\ link' = link \ {b}
          /\ socket[b] = "open"
      BY <1>6 DEF Receive, OnMessage, OnControls, OnOther, OnUndetermined, OnState
    <2> QED
      BY <2>1
  <1>7. ASSUME NEW b \in Browsers, UserStep(b)
        PROVE  ConnectedInv'
    BY <1>7 DEF UserStep, Click, socketVars
  <1> QED
    BY <1>2, <1>3, <1>4, <1>5, <1>6, <1>7 DEF Next, BrowserStep

-------------------------------------------------------------------------------
(* The monitor loses no wake-up. *)

LEMMA NoSleepingStep ==
  ASSUME TypesOK, ExecutionOK, NoSleepingWithTokens, Next
  PROVE  NoSleepingWithTokens'
  <1> USE DEF TypesOK
  <1>1. CASE RunThreadStep
    <2>1. NextPhase => at' \notin {"waiting", "holding"}
      BY DEF NextPhase
    <2>2. CASE WaitBeforeStep \/ WaitWhenDone
      BY <2>1, <2>2 DEF WaitBeforeStep, WaitWhenDone, WaitAs, Fail, NoSleepingWithTokens
    <2>3. CASE PerformStep \/ Operate \/ AggregateConditions
      BY <2>1, <2>3 DEF PerformStep, Operate, Signal, CheckBreakConditions, Collect,
                        CheckGlobalCondition, AggregateConditions, Fail, NoSleepingWithTokens
    <2>4. CASE StartUp \/ EnterRun \/ Loop \/ Reenter \/ UseToken \/ TimeOut \/ Shutdown
      BY <2>4 DEF StartUp, EnterRun, Loop, Reenter, UseToken, TimeOut, Shutdown,
                  NoSleepingWithTokens
    <2> QED
      BY <1>1, <2>2, <2>3, <2>4 DEF RunThreadStep
  <1>2. ASSUME NEW b \in Browsers, Command(b)
        PROVE  NoSleepingWithTokens'
    <2>1. PICK place \in Handling : GoOn(b, place)
      BY <1>2, CommandGoesOn
    <2>2. /\ handler'[b].at = place
          /\ \A c \in Browsers \ {b} : handler'[c] = handler[c]
      BY <2>1, GoOnTo
    <2>3. \A next \in Handling : GoOn(b, next) => next = place
      BY <2>2, GoOnTo
    <2>4. NotifyAll => at' \notin {"waiting", "holding"}
      BY DEF NotifyAll
    <2>5. CASE GiveTokens(b, "step", 1) \/ GiveTokens(b, "continue", Infinite)
      BY <2>4, <2>5 DEF GiveTokens, NoSleepingWithTokens
    <2>6. CASE CollectCommand(b)
      <3>1. CASE handler[b].at = "collect" /\ state \in Paused
        <4>1. place = "collectMore"
          BY <3>1, <2>3, <2>6 DEF CollectCommand, Handling
        <4> QED
          BY <4>1, <2>2 DEF NoSleepingWithTokens
      <3>2. CASE handler[b].at = "collect" /\ state \notin Paused
        BY <3>2, <2>2, <2>6 DEF CollectCommand, NoSleepingWithTokens
      <3>3. CASE handler[b].at = "collectMore"
        BY <3>3, <2>4, <2>6 DEF CollectCommand, NoSleepingWithTokens
      <3> QED
        BY <2>6, <3>1, <3>2, <3>3 DEF CollectCommand
    <2>7. CASE Pause(b)
      BY <2>2, <2>7 DEF Pause, NoSleepingWithTokens
    <2>8. CASE Reset(b)
      BY <2>2, <2>4, <2>8 DEF Reset, NoSleepingWithTokens
    <2>9. CASE TerminateCommand(b)
      <3>1. CASE handler[b].at = "terminate"
        BY <3>1, <2>2, <2>9 DEF TerminateCommand, NoSleepingWithTokens
      <3>2. CASE handler[b].at = "terminating"
        <4>1. place = "terminateContinue"
          BY <3>2, <2>3, <2>9 DEF TerminateCommand, Handling
        <4> QED
          BY <4>1, <2>2 DEF NoSleepingWithTokens
      <3>3. CASE handler[b].at = "terminateContinue"
        BY <3>3, <2>4, <2>9 DEF TerminateCommand, NoSleepingWithTokens
      <3> QED
        BY <2>9, <3>1, <3>2, <3>3 DEF TerminateCommand
    <2> QED
      BY <1>2, <2>5, <2>6, <2>7, <2>8, <2>9 DEF Command
  <1>3. ASSUME UNCHANGED <<executionVars, owner, runVars, fullStep>>,
               \A c \in Browsers :
                 \/ handler'[c].at = handler[c].at
                 \/ handler[c].at = "idle" /\ handler'[c].at \in Commands
                 \/ handler[c].at \in {"accepted", "error"} /\ handler'[c].at = "idle"
        PROVE  NoSleepingWithTokens'
    BY <1>3 DEF executionVars, runVars, NoSleepingWithTokens
  <1> QED
    BY <1>1, <1>2, <1>3, OtherSteps

-------------------------------------------------------------------------------
(* The way of a command. *)

\* All that matters of a browser is as it was.
SameCommand(b) ==
  /\ toServer'[b] = toServer[b] /\ toClient'[b] = toClient[b]
  /\ handler'[b].at = handler[b].at
  /\ pendingCommand'[b] = pendingCommand[b] /\ enabled'[b] = enabled[b]

\* Nothing but a command to the server, its answer, and a click matter.
LEMMA QueuesOfCommands ==
  ASSUME TypesOK, NEW b \in Browsers
  PROVE  /\ toServer'[b] = Append(toServer[b], "state") =>
              \A i : Requested(b, i)' <=> Requested(b, i)
         /\ toServer'[b] = << >> => \A i : ~ Requested(b, i)'
         /\ toClient'[b] = << >> => \A i : ~ Answered(b, i)'
         /\ \A m \in Messages : toClient'[b] = Append(toClient[b], m) =>
              IF m.provider = "controls"
              THEN \A i : Answered(b, i)' <=> Answered(b, i) \/ i = Len(toClient[b]) + 1
              ELSE \A i : Answered(b, i)' <=> Answered(b, i)
  <1> USE DEF TypesOK, ConnectionsOK
  <1>1. ASSUME toServer'[b] = Append(toServer[b], "state"), NEW i
        PROVE  Requested(b, i)' <=> Requested(b, i)
    <2>1. toServer[b] \in Seq(Requests) /\ "state" \in Requests /\ "state" \notin Commands
      BY DEF Requests, Commands
    <2> QED
      BY <1>1, <2>1, QueueAppend DEF Requested
  <1>2. ASSUME toServer'[b] = << >>, NEW i
        PROVE  ~ Requested(b, i)'
    BY <1>2, QueueEmpty DEF Requested
  <1>3. ASSUME toClient'[b] = << >>, NEW i
        PROVE  ~ Answered(b, i)'
    BY <1>3, QueueEmpty DEF Answered
  <1>4. ASSUME NEW m \in Messages, toClient'[b] = Append(toClient[b], m), NEW i
        PROVE  Answered(b, i)' <=> \/ Answered(b, i)
                                   \/ i = Len(toClient[b]) + 1 /\ m.provider = "controls"
    <2>1. toClient[b] \in Seq(Messages)
      OBVIOUS
    <2> QED
      BY <1>4, <2>1, QueueAppend DEF Answered
  <1> QED
    BY <1>1, <1>2, <1>3, <1>4

\* And one less.
LEMMA QueuesTaken ==
  ASSUME TypesOK, NEW b \in Browsers
  PROVE  /\ toServer[b] # << >> /\ toServer'[b] = Tail(toServer[b]) =>
              \A i : Requested(b, i)' => i \in Nat \ {0} /\ Requested(b, i + 1)
         /\ toClient[b] # << >> /\ toClient'[b] = Tail(toClient[b]) =>
              \A i : Answered(b, i)' => i \in Nat \ {0} /\ Answered(b, i + 1)
  <1> USE DEF TypesOK, ConnectionsOK
  <1>1. ASSUME toServer[b] # << >>, toServer'[b] = Tail(toServer[b]), NEW i, Requested(b, i)'
        PROVE  i \in Nat \ {0} /\ Requested(b, i + 1)
    <2>1. toServer[b] \in Seq(Requests)
      OBVIOUS
    <2>2. /\ Len(toServer[b]) \in Nat \ {0}
          /\ DOMAIN toServer[b] = 1 .. Len(toServer[b])
          /\ DOMAIN toServer'[b] = 1 .. Len(toServer[b]) - 1
          /\ \A k \in DOMAIN toServer'[b] : toServer'[b][k] = toServer[b][k + 1]
      BY <1>1, <2>1, QueueTail
    <2> QED
      BY <1>1, <2>2 DEF Requested
  <1>2. ASSUME toClient[b] # << >>, toClient'[b] = Tail(toClient[b]), NEW i, Answered(b, i)'
        PROVE  i \in Nat \ {0} /\ Answered(b, i + 1)
    <2>1. toClient[b] \in Seq(Messages)
      OBVIOUS
    <2>2. /\ Len(toClient[b]) \in Nat \ {0}
          /\ DOMAIN toClient[b] = 1 .. Len(toClient[b])
          /\ DOMAIN toClient'[b] = 1 .. Len(toClient[b]) - 1
          /\ \A k \in DOMAIN toClient'[b] : toClient'[b][k] = toClient[b][k + 1]
      BY <1>2, <2>1, QueueTail
    <2> QED
      BY <1>2, <2>2 DEF Answered
  <1> QED
    BY <1>1, <1>2

\* Requests and answers that vanish or move up, buttons that are blocked.
LEMMA CommandInvKept ==
  ASSUME NEW b \in Browsers, CommandInvOf(b),
         \/ \A i : Requested(b, i)' => Requested(b, i)
         \/ \A i : Requested(b, i)' => i \in Nat \ {0} /\ Requested(b, i + 1),
         \/ \A i : Answered(b, i)' => Answered(b, i)
         \/ \A i : Answered(b, i)' => i \in Nat \ {0} /\ Answered(b, i + 1),
         Handled(b)' => Handled(b),
         pendingCommand'[b] = pendingCommand[b],
         pendingCommand[b] => enabled'[b] \in {enabled[b], {}}
  PROVE  CommandInvOf(b)'
  <1>1. \A i, j : Requested(b, i)' /\ Requested(b, j)' => i = j
    BY DEF CommandInvOf
  <1>2. \A i, j : Answered(b, i)' /\ Answered(b, j)' => i = j
    BY DEF CommandInvOf
  <1>3. (\E i : Requested(b, i)') => \E i : Requested(b, i)
    OBVIOUS
  <1>4. (\E i : Answered(b, i)') => \E i : Answered(b, i)
    OBVIOUS
  <1>5. \A i, j : ~ (Requested(b, i)' /\ Answered(b, j)')
    BY <1>3, <1>4 DEF CommandInvOf
  <1>6. \A i : Handled(b)' => ~ Requested(b, i)' /\ ~ Answered(b, i)'
    BY <1>3, <1>4 DEF CommandInvOf
  <1>7. \A i : Requested(b, i)' \/ Answered(b, i)' \/ Handled(b)' => pendingCommand'[b]
    BY <1>3, <1>4 DEF CommandInvOf
  <1>8. pendingCommand'[b] => enabled'[b] = {}
    BY DEF CommandInvOf
  <1> QED
    BY <1>1, <1>2, <1>5, <1>6, <1>7, <1>8 DEF CommandInvOf

LEMMA CommandInvSame ==
  ASSUME NEW b \in Browsers, CommandInvOf(b), SameCommand(b)
  PROVE  CommandInvOf(b)'
  <1>1. /\ \A i : Requested(b, i)' <=> Requested(b, i)
        /\ \A i : Answered(b, i)' <=> Answered(b, i)
        /\ Handled(b)' <=> Handled(b)
    BY DEF SameCommand, Requested, Answered, Handled
  <1> QED
    BY <1>1, CommandInvKept DEF SameCommand

\* A state that is told is no answer.
LEMMA CommandInvTold ==
  ASSUME TypesOK, CommandInv, NEW b \in Browsers,
         UNCHANGED <<pendingCommand, enabled>>, Handled(b)' => Handled(b),
         toServer'[b] = toServer[b],
         UNCHANGED toClient \/ TellsState
  PROVE  CommandInvOf(b)'
  <1>1. CommandInvOf(b)
    BY DEF CommandInv
  <1>2. \A i : Requested(b, i)' <=> Requested(b, i)
    BY DEF Requested
  <1>3. toClient'[b] = toClient[b] => \A i : Answered(b, i)' <=> Answered(b, i)
    BY DEF Answered
  <1>4. CASE TellsState
    <2>1. PICK s \in States, t \in -1 .. 5 :
            toClient'[b] \in {toClient[b], Append(toClient[b], StateMessage(s, t))}
      BY <1>4 DEF TellsState
    <2>2. StateMessage(s, t) \in Messages /\ StateMessage(s, t).provider # "controls"
      BY StateIsTold DEF Messages
    <2>3. \A i : Answered(b, i)' <=> Answered(b, i)
      BY <1>3, <2>1, <2>2, QueuesOfCommands
    <2> QED
      BY <1>1, <1>2, <2>3, CommandInvKept
  <1> QED
    BY <1>1, <1>2, <1>3, <1>4, CommandInvKept

\* What a browser does with a message.
LEMMA CommandInvReceive ==
  ASSUME TypesOK, CommandInv, NEW b \in Browsers, Receive(b),
         \A c \in Browsers : handler'[c].at = handler[c].at
  PROVE  CommandInv'
  <1> USE DEF TypesOK, ConnectionsOK, ClientOK
  <1> DEFINE m == Head(toClient[b])
  <1>0. \A c \in Browsers : CommandInvOf(c)
    BY DEF CommandInv
  <1>1. /\ toClient[b] # << >>
        /\ toClient'[b] \in {<< >>, Tail(toClient[b])}
        /\ \A c \in Browsers \ {b} : toClient'[c] = toClient[c]
    BY DEF Receive
  <1>2. Handled(b)' <=> Handled(b)
    BY DEF Handled
  <1>3. \/ \A i : Answered(b, i)' => Answered(b, i)
        \/ \A i : Answered(b, i)' => i \in Nat \ {0} /\ Answered(b, i + 1)
    BY <1>1, QueuesOfCommands, QueuesTaken
  <1>4. UNCHANGED toServer => \A i : Requested(b, i)' <=> Requested(b, i)
    BY DEF Requested
  <1>5. m \in Messages /\ Answered(b, 1) <=> m.provider = "controls"
    <2>1. toClient[b] \in Seq(Messages)
      OBVIOUS
    <2> QED
      BY <1>1, <2>1, QueueTail DEF Answered
  <1>6. CASE m.provider = "controls" /\ OnControls(b)
    <2>1. \A i : ~ Answered(b, i)'
      <3> SUFFICES ASSUME NEW i, Answered(b, i)'
                   PROVE  FALSE
        OBVIOUS
      <3>1. i \in Nat \ {0} /\ Answered(b, i + 1)
        BY <1>1, QueuesOfCommands, QueuesTaken
      <3>2. i + 1 = 1
        BY <3>1, <1>0, <1>5, <1>6 DEF CommandInvOf
      <3> QED
        BY <3>1, <3>2
    <2>2. \A i : ~ Requested(b, i)'
      BY <1>0, <1>4, <1>5, <1>6 DEF OnControls, CommandInvOf
    <2>3. ~ Handled(b)'
      BY <1>0, <1>2, <1>5, <1>6 DEF CommandInvOf
    <2>4. ~ pendingCommand'[b]
      BY <1>6 DEF OnControls
    <2>5. CommandInvOf(b)'
      BY <2>1, <2>2, <2>3, <2>4 DEF CommandInvOf
    <2>6. \A c \in Browsers \ {b} : SameCommand(c)
      BY <1>1, <1>6 DEF OnControls, SameCommand
    <2> QED
      BY <1>0, <2>5, <2>6, CommandInvSame DEF CommandInv
  <1>7. CASE OnOther \/ OnUndetermined(b)
    <2>1. UNCHANGED <<toServer, pendingCommand, enabled>>
      BY <1>7 DEF OnOther, OnUndetermined, stateModuleVars
    <2>2. CommandInvOf(b)'
      BY <1>0, <1>2, <1>3, <1>4, <2>1, CommandInvKept
    <2>3. \A c \in Browsers \ {b} : SameCommand(c)
      BY <1>1, <2>1 DEF SameCommand
    <2> QED
      BY <1>0, <2>2, <2>3, CommandInvSame DEF CommandInv
  <1>8. CASE OnState(b, m.state, m.steps)
    <2>1. /\ UNCHANGED pendingCommand
          /\ enabled' = [enabled EXCEPT ![b] = ButtonsFor(b, m.state, m.steps)]
          /\ \/ UNCHANGED toServer
             \/ toServer' = [toServer EXCEPT ![b] = << >>]
             \/ Order(b, "state")
      BY <1>8 DEF OnState
    <2>2. /\ toServer'[b] \in {toServer[b], << >>, Append(toServer[b], "state")}
          /\ \A c \in Browsers \ {b} : toServer'[c] = toServer[c]
      <3>1. Order(b, "state") => /\ toServer'[b] \in {toServer[b], Append(toServer[b], "state")}
                                 /\ \A c \in Browsers \ {b} : toServer'[c] = toServer[c]
        BY OrderQueues DEF Requests
      <3> QED
        BY <2>1, <3>1
    <2>3. \A i : Requested(b, i)' => Requested(b, i)
      <3>1. toServer'[b] = toServer[b] => \A i : Requested(b, i)' <=> Requested(b, i)
        BY DEF Requested
      <3> QED
        BY <2>2, <3>1, QueuesOfCommands
    <2>4. pendingCommand[b] => enabled'[b] \in {enabled[b], {}}
      BY <2>1 DEF ButtonsFor, EnabledButtons
    <2>5. CommandInvOf(b)'
      BY <1>0, <1>2, <1>3, <2>1, <2>3, <2>4, CommandInvKept
    <2>6. \A c \in Browsers \ {b} : SameCommand(c)
      BY <1>1, <2>1, <2>2 DEF SameCommand
    <2> QED
      BY <1>0, <2>5, <2>6, CommandInvSame DEF CommandInv
  <1> QED
    BY <1>6, <1>7, <1>8 DEF Receive, OnMessage

\* What else happens in a browser.
LEMMA CommandInvBrowser ==
  ASSUME TypesOK, CommandInv, NEW b \in Browsers, UNCHANGED handler,
         ClientStep(b) \/ Open(b) \/ \E control \in Commands : Click(b, control)
  PROVE  CommandInv'
  <1> USE DEF TypesOK, ConnectionsOK, ClientOK
  <1>0. \A c \in Browsers : CommandInvOf(c)
    BY DEF CommandInv
  <1>1. /\ \A c \in Browsers : Handled(c)' <=> Handled(c)
        /\ \A c \in Browsers : toServer'[c] = toServer[c] =>
             \A i : Requested(c, i)' <=> Requested(c, i)
        /\ \A c \in Browsers : toClient'[c] = toClient[c] =>
             \A i : Answered(c, i)' <=> Answered(c, i)
    BY DEF Handled, Requested, Answered
  <1>2. ASSUME ClientStep(b) \/ Open(b)
        PROVE  CommandInv'
    <2>1. /\ UNCHANGED <<toClient, pendingCommand>>
          /\ UNCHANGED enabled \/ enabled' = [enabled EXCEPT ![b] = {}]
          /\ UNCHANGED toServer \/ Order(b, "state")
      BY <1>2 DEF ClientStep, Open, ConnectFails, Retry, OnClose, CloseConsumers, Recreate,
                  RetryState, stateModuleVars, connectionVars
    <2>2. /\ toServer'[b] \in {toServer[b], Append(toServer[b], "state")}
          /\ \A c \in Browsers \ {b} : toServer'[c] = toServer[c]
      <3>1. Order(b, "state") => /\ toServer'[b] \in {toServer[b], Append(toServer[b], "state")}
                                 /\ \A c \in Browsers \ {b} : toServer'[c] = toServer[c]
        BY OrderQueues DEF Requests
      <3> QED
        BY <2>1, <3>1
    <2>3. \A i : Requested(b, i)' => Requested(b, i)
      BY <1>1, <2>2, QueuesOfCommands
    <2>4. CommandInvOf(b)'
      BY <1>0, <1>1, <2>1, <2>3, CommandInvKept
    <2>5. \A c \in Browsers \ {b} : SameCommand(c)
      BY <2>1, <2>2 DEF SameCommand
    <2> QED
      BY <1>0, <2>4, <2>5, CommandInvSame DEF CommandInv
  <1>3. ASSUME NEW control \in Commands, Click(b, control)
        PROVE  CommandInv'
    <2>1. /\ enabled[b] # {} /\ Order(b, control) /\ UNCHANGED toClient
          /\ pendingCommand' = [pendingCommand EXCEPT ![b] = TRUE]
          /\ enabled' = [enabled EXCEPT ![b] = {}]
      BY <1>3 DEF Click
    <2>2. /\ toServer'[b] \in {toServer[b], Append(toServer[b], control)}
          /\ \A c \in Browsers \ {b} : toServer'[c] = toServer[c]
      BY <2>1, OrderQueues DEF Requests
    <2>3. ~ Handled(b) /\ \A i : ~ Requested(b, i) /\ ~ Answered(b, i)
      BY <1>0, <2>1 DEF CommandInvOf
    <2>4. \A i, j : Requested(b, i)' /\ Requested(b, j)' => i = j
      <3>1. CASE toServer'[b] = toServer[b]
        BY <1>1, <2>3, <3>1
      <3>2. CASE toServer'[b] = Append(toServer[b], control)
        <4>1. toServer[b] \in Seq(Requests) /\ control \in Requests
          BY DEF Requests
        <4>2. \A i : Requested(b, i)' => i = Len(toServer[b]) + 1
          BY <2>3, <3>2, <4>1, QueueAppend DEF Requested
        <4> QED
          BY <4>2
      <3> QED
        BY <2>2, <3>1, <3>2
    <2>5. CommandInvOf(b)'
      BY <1>1, <2>1, <2>3, <2>4 DEF CommandInvOf
    <2>6. \A c \in Browsers \ {b} : SameCommand(c)
      BY <2>1, <2>2 DEF SameCommand
    <2> QED
      BY <1>0, <2>5, <2>6, CommandInvSame DEF CommandInv
  <1> QED
    BY <1>2, <1>3

\* What the server does with a request.
LEMMA CommandInvServer ==
  ASSUME TypesOK, ExecutionOK, CommandInv, NEW b \in Browsers,
         Accept(b) \/ Answer(b) \/ FetchState(b) \/ SendState(b),
         UNCHANGED clientVars
  PROVE  CommandInv'
  <1> USE DEF TypesOK, ConnectionsOK, ClientOK, clientVars, stateModuleVars
  <1>0. \A c \in Browsers : CommandInvOf(c)
    BY DEF CommandInv
  <1>1. /\ \A c \in Browsers : handler'[c].at = handler[c].at => (Handled(c)' <=> Handled(c))
        /\ \A c \in Browsers : toServer'[c] = toServer[c] =>
             \A i : Requested(c, i)' <=> Requested(c, i)
        /\ \A c \in Browsers : toClient'[c] = toClient[c] =>
             \A i : Answered(c, i)' <=> Answered(c, i)
    BY DEF Handled, Requested, Answered
  <1>2. toServer[b] \in Seq(Requests) /\ toClient[b] \in Seq(Messages)
    OBVIOUS
  <1>3. CASE Accept(b)
    <2>1. /\ toServer[b] # << >> /\ toServer'[b] = Tail(toServer[b]) /\ ~ Handled(b)
          /\ UNCHANGED toClient
          /\ \A c \in Browsers \ {b} : toServer'[c] = toServer[c] /\ handler'[c] = handler[c]
      BY <1>3 DEF Accept, RequestsOK, Handled
    <2>2. Requested(b, 1)
      BY <1>2, <1>3, QueueTail DEF Accept, Requested
    <2>3. \A i : ~ Requested(b, i)'
      <3> SUFFICES ASSUME NEW i, Requested(b, i)'
                   PROVE  FALSE
        OBVIOUS
      <3>1. i \in Nat \ {0} /\ Requested(b, i + 1)
        BY <2>1, QueuesTaken
      <3>2. i + 1 = 1
        BY <3>1, <1>0, <2>2 DEF CommandInvOf
      <3> QED
        BY <3>1, <3>2
    <2>4. CommandInvOf(b)'
      BY <1>0, <1>1, <2>1, <2>2, <2>3 DEF CommandInvOf
    <2>5. \A c \in Browsers \ {b} : SameCommand(c)
      BY <2>1 DEF SameCommand
    <2> QED
      BY <1>0, <2>4, <2>5, CommandInvSame DEF CommandInv
  <1>4. CASE Answer(b)
    <2> DEFINE m == [provider |-> IF handler[b].at = "accepted" THEN "controls" ELSE "error"]
    <2>1. /\ Handled(b) /\ ~ Handled(b)' /\ UNCHANGED toServer
          /\ \A c \in Browsers \ {b} : handler'[c] = handler[c]
      BY <1>4 DEF Answer, RequestsOK, Handled, Idle
    <2>2. m \in Messages
      BY DEF Messages
    <2>3. /\ toClient'[b] \in {toClient[b], Append(toClient[b], m)}
          /\ \A c \in Browsers \ {b} : toClient'[c] = toClient[c]
      <3> HIDE DEF m
      <3>1. UNCHANGED toClient \/ Reply(b, m)
        BY <1>4 DEF Answer, m
      <3> QED
        BY <2>2, <3>1, ReplyQueues
    <2>4. ~ \E i : Requested(b, i) \/ Answered(b, i)
      BY <1>0, <2>1 DEF CommandInvOf
    <2>5. \A i : Answered(b, i)' => i = Len(toClient[b]) + 1
      <3> HIDE DEF m
      <3> QED
        BY <1>1, <2>2, <2>3, <2>4, QueuesOfCommands
    <2>6. CommandInvOf(b)'
      BY <1>0, <1>1, <2>1, <2>4, <2>5 DEF CommandInvOf
    <2>7. \A c \in Browsers \ {b} : SameCommand(c)
      BY <2>1, <2>3 DEF SameCommand
    <2> QED
      BY <1>0, <2>6, <2>7, CommandInvSame DEF CommandInv
  <1>5. CASE FetchState(b)
    <2>1. /\ toServer[b] # << >> /\ toServer'[b] = Tail(toServer[b])
          /\ UNCHANGED <<toClient, handler>>
          /\ \A c \in Browsers \ {b} : toServer'[c] = toServer[c]
      BY <1>5 DEF FetchState
    <2>2. CommandInvOf(b)'
      BY <1>0, <1>1, <2>1, QueuesTaken, CommandInvKept
    <2>3. \A c \in Browsers \ {b} : SameCommand(c)
      BY <2>1 DEF SameCommand
    <2> QED
      BY <1>0, <2>2, <2>3, CommandInvSame DEF CommandInv
  <1>6. CASE SendState(b)
    <2>1. fetched[b] \in StateMessages
      BY <1>6 DEF SendState, RequestsOK
    <2>2. fetched[b] \in Messages /\ fetched[b].provider # "controls"
      BY <2>1, MessageKinds DEF Messages
    <2>3. /\ toClient'[b] \in {toClient[b], Append(toClient[b], fetched[b])}
          /\ \A c \in Browsers \ {b} : toClient'[c] = toClient[c]
          /\ UNCHANGED <<toServer, handler>>
      BY <1>6, <2>2, ReplyQueues DEF SendState
    <2>4. \A i : Answered(b, i)' => Answered(b, i)
      BY <1>1, <2>2, <2>3, QueuesOfCommands
    <2>5. CommandInvOf(b)'
      BY <1>0, <1>1, <2>3, <2>4, CommandInvKept
    <2>6. \A c \in Browsers \ {b} : SameCommand(c)
      BY <2>3 DEF SameCommand
    <2> QED
      BY <1>0, <2>5, <2>6, CommandInvSame DEF CommandInv
  <1> QED
    BY <1>3, <1>4, <1>5, <1>6

LEMMA CommandInvStep ==
  ASSUME TypesOK, ExecutionOK, CommandInv, Next
  PROVE  CommandInv'
  <1> USE DEF TypesOK, ConnectionsOK, ClientOK, clientVars, serverVars, requestVars,
              connectionVars, stateModuleVars
  <1>0. \A c \in Browsers : CommandInvOf(c)
    BY DEF CommandInv
  <1>1. ASSUME UNCHANGED <<pendingCommand, enabled>>,
               \A c \in Browsers : handler'[c].at = handler[c].at,
               \A c \in Browsers : \/ SameCommand(c)
                                   \/ toServer'[c] = << >> /\ toClient'[c] = << >>
        PROVE  CommandInv'
    <2> SUFFICES ASSUME NEW c \in Browsers
                 PROVE  CommandInvOf(c)'
      BY DEF CommandInv
    <2>1. CASE toServer'[c] = << >> /\ toClient'[c] = << >>
      <3>1. /\ \A i : Requested(c, i)' => Requested(c, i)
            /\ \A i : Answered(c, i)' => Answered(c, i)
        BY <2>1, QueuesOfCommands
      <3>2. Handled(c)' => Handled(c)
        BY <1>1 DEF Handled
      <3> QED
        BY <1>0, <1>1, <3>1, <3>2, CommandInvKept
    <2> QED
      BY <1>0, <1>1, <2>1, CommandInvSame
  <1>2. CASE RunStep
    <2>1. CASE Shutdown
      BY <1>1, <1>2, <2>1 DEF RunStep, Shutdown, RequestsOK
    <2>2. CASE UNCHANGED <<toServer, handler>> /\ (UNCHANGED toClient \/ TellsState)
      <3>1. \A c \in Browsers : Handled(c)' => Handled(c)
        BY <2>2 DEF Handled
      <3> QED
        BY <1>2, <2>2, <3>1, CommandInvTold DEF RunStep, CommandInv
    <2> QED
      BY <1>2, <2>1, <2>2, RunThreadConnections DEF RunStep
  <1>3. ASSUME NEW b \in Browsers, BrowserStep(b) \/ UserStep(b)
        PROVE  CommandInv'
    <2>1. CASE Receive(b) /\ (Orphan(b) \/ UNCHANGED requestVars)
      <3>1. \A c \in Browsers : handler'[c].at = handler[c].at
        BY <2>1, OrphanKeepsPlaces
      <3> QED
        BY <2>1, <3>1, CommandInvReceive
    <2>2. CASE UNCHANGED serverVars
               /\ (ClientStep(b) \/ Open(b) \/ \E control \in Commands : Click(b, control))
      BY <2>2, CommandInvBrowser
    <2> QED
      BY <1>3, <2>1, <2>2 DEF BrowserStep, UserStep
  <1>4. ASSUME NEW b \in Browsers, ConnectionStep(b)
        PROVE  CommandInv'
    <2>1. CASE Cut(b) /\ Orphan(b) /\ UNCHANGED clientVars
      <3>1. \A c \in Browsers : handler'[c].at = handler[c].at
        BY <2>1, OrphanKeepsPlaces
      <3>2. \A c \in Browsers : \/ SameCommand(c)
                                \/ toServer'[c] = << >> /\ toClient'[c] = << >>
        BY <2>1, <3>1 DEF Cut, Lose, SameCommand
      <3> QED
        BY <1>1, <2>1, <3>1, <3>2
    <2>2. CASE Remove(b) /\ UNCHANGED <<serverVars, clientVars>>
      <3>1. \A c \in Browsers : SameCommand(c)
        BY <2>2 DEF Remove, SameCommand
      <3> QED
        BY <1>1, <2>2, <3>1 DEF SameCommand
    <2> QED
      BY <1>4, <2>1, <2>2 DEF ConnectionStep
  <1>5. ASSUME NEW b \in Browsers, ServeCommand(b) \/ ServeState(b)
        PROVE  CommandInv'
    <2>1. CASE Command(b) /\ UNCHANGED clientVars
      <3>1. PICK place \in Handling : GoOn(b, place)
        BY <2>1, CommandGoesOn
      <3>2. handler[b].at # "idle" /\ UNCHANGED toServer /\ (UNCHANGED toClient \/ TellsState)
        BY <2>1, CommandGoesOn
      <3>3. \A c \in Browsers : Handled(c)' => Handled(c)
        BY <3>1, <3>2, GoOnTo DEF Handled
      <3> QED
        BY <2>1, <3>2, <3>3, CommandInvTold DEF CommandInv
    <2> QED
      BY <1>5, <2>1, CommandInvServer DEF ServeCommand, CommandStep, ServeState, StateRequestStep
  <1> QED
    BY <1>2, <1>3, <1>4, <1>5 DEF Next

LEMMA OneCommand == TypesOK /\ CommandInv => OneCommandAtATime
  <1> SUFFICES ASSUME TypesOK, CommandInv, NEW b \in Browsers
               PROVE  /\ \A c, d \in Outstanding(b) : c = d
                      /\ enabled[b] # {} => Outstanding(b) = {}
    BY DEF OneCommandAtATime
  <1>1. CommandInvOf(b)
    BY DEF CommandInv
  <1>2. \A c \in Outstanding(b) : \/ \E i : c = <<"request", i>> /\ Requested(b, i)
                                  \/ c = <<"handler", 0>> /\ Handled(b)
                                  \/ \E i : c = <<"answer", i>> /\ Answered(b, i)
    BY DEF Outstanding, Requested, Handled, Answered
  <1>3. \A c, d \in Outstanding(b) : c = d
    BY <1>1, <1>2 DEF CommandInvOf
  <1>4. enabled[b] # {} => Outstanding(b) = {}
    BY <1>1, <1>2 DEF CommandInvOf
  <1> QED
    BY <1>3, <1>4

-------------------------------------------------------------------------------
(* Before there is a computation, and after the user has terminated it. *)

LEMMA EarlySteps ==
  ASSUME ExecutionOK, MonitorInv, Next, at' \in Early
  PROVE  at \in Early
  <1>1. NotifyAll => at \in Early
    BY DEF NotifyAll, Early
  <1>2. NextPhase => at' \notin Early
    BY DEF NextPhase, Early
  <1>3. CASE RunThreadStep
    <2>1. CASE WaitBeforeStep \/ WaitWhenDone \/ PerformStep
      BY <1>2, <2>1 DEF WaitBeforeStep, WaitWhenDone, WaitAs, PerformStep, Fail, Early
    <2>2. CASE Operate \/ AggregateConditions
      BY <1>2, <2>2 DEF Operate, Signal, CheckBreakConditions, Collect, CheckGlobalCondition,
                        AggregateConditions, Fail, Early
    <2>3. CASE StartUp \/ EnterRun \/ Loop \/ Reenter \/ UseToken \/ TimeOut \/ Shutdown
      BY <2>3 DEF StartUp, EnterRun, Loop, Reenter, UseToken, TimeOut, Shutdown, Early
    <2> QED
      BY <1>3, <2>1, <2>2, <2>3 DEF RunThreadStep
  <1>4. ASSUME NEW b \in Browsers, Command(b)
        PROVE  at \in Early
    <2>1. UNCHANGED at \/ NotifyAll
      BY <1>4 DEF Command, GiveTokens, CollectCommand, Pause, Reset, TerminateCommand
    <2> QED
      BY <1>1, <2>1
  <1>5. CASE UNCHANGED at
    BY <1>5
  <1>6. ASSUME NEW b \in Browsers,
               \/ BrowserStep(b) \/ UserStep(b) \/ ConnectionStep(b) \/ ServeState(b)
               \/ Accept(b) \/ Answer(b)
        PROVE  UNCHANGED at
    BY <1>6 DEF BrowserStep, UserStep, ConnectionStep, ServeState, StateRequestStep, FetchState,
                SendState, Accept, Answer, serverVars, runVars
  <1> QED
    BY <1>3, <1>4, <1>5, <1>6 DEF Next, RunStep, ServeCommand, CommandStep

EarlyOf(b) ==
  /\ enabled[b] = {} /\ handler[b].at = "idle"
  /\ toServer[b] \in Seq({"state"})
  /\ toClient[b] \in Seq(EarlyMessages)
  /\ fetched[b] \in EarlyMessages \cup {None}

\* Nobody can give a command before the run thread has entered the monitor.
LEMMA EarlyStep ==
  ASSUME TypesOK, ExecutionOK, MonitorInv, EarlyInv, Next
  PROVE  EarlyInv'
  <1> USE DEF TypesOK
  <1> SUFFICES ASSUME at' \in Early
               PROVE  EarlyInv'
    BY DEF EarlyInv
  <1>0. /\ at \in Early
        /\ state = "initExecution" /\ stepTokens = 0 /\ ~ resetting /\ ~ userTermination
        /\ \A b \in Browsers : EarlyOf(b)
    BY EarlySteps DEF EarlyInv, EarlyOf
  <1>1. ASSUME UNCHANGED executionVars, \A b \in Browsers : EarlyOf(b)'
        PROVE  EarlyInv'
    BY <1>0, <1>1 DEF executionVars, EarlyInv, EarlyOf
  <1>2. << >> \in Seq({"state"}) /\ << >> \in Seq(EarlyMessages)
    BY QueueEmpty
  <1>3. ASSUME NEW b \in Browsers, Order(b, "state")
        PROVE  \A c \in Browsers : toServer'[c] \in Seq({"state"})
    <2>1. toServer[b] \in Seq({"state"}) /\ "state" \in {"state"}
      BY <1>0 DEF EarlyOf
    <2>2. Append(toServer[b], "state") \in Seq({"state"})
      BY <2>1, QueueAppend
    <2>3. "state" \in Requests
      BY DEF Requests
    <2> QED
      BY <1>0, <1>3, <2>2, <2>3, OrderQueues DEF EarlyOf
  <1>4. CASE RunStep
    <2>1. StartUp \/ EnterRun
      BY <1>0, <1>4 DEF RunStep, RunThreadStep, Loop, WaitBeforeStep, WaitWhenDone, WaitAs, Reenter,
                        PerformStep, UseToken, Operate, AggregateConditions, TimeOut, Shutdown,
                        Early
    <2>2. UNCHANGED <<executionVars, connectionVars, requestVars, clientVars>>
      BY <1>4, <2>1 DEF RunStep, StartUp, EnterRun
    <2> QED
      BY <1>0, <1>1, <2>2
      DEF EarlyOf, connectionVars, requestVars, clientVars, stateModuleVars
  <1>5. ASSUME NEW b \in Browsers, ClientStep(b) \/ Open(b), UNCHANGED serverVars
        PROVE  EarlyInv'
    <2>1. /\ UNCHANGED toClient
          /\ UNCHANGED enabled \/ enabled' = [enabled EXCEPT ![b] = {}]
          /\ UNCHANGED toServer \/ Order(b, "state")
      BY <1>5 DEF ClientStep, Open, ConnectFails, Retry, OnClose, CloseConsumers, Recreate,
                  RetryState, stateModuleVars, connectionVars
    <2>2. \A c \in Browsers : toServer'[c] \in Seq({"state"})
      BY <1>0, <1>3, <2>1 DEF EarlyOf
    <2> QED
      BY <1>0, <1>1, <1>5, <2>1, <2>2 DEF EarlyOf, serverVars, requestVars, ClientOK
  <1>6. ASSUME NEW b \in Browsers, Receive(b), Orphan(b) \/ UNCHANGED requestVars,
               UNCHANGED executionVars
        PROVE  EarlyInv'
    <2> DEFINE m == Head(toClient[b])
    <2>1. /\ m \in EarlyMessages /\ Tail(toClient[b]) \in Seq(EarlyMessages)
      BY <1>0, <1>6, QueueTail DEF EarlyOf, Receive
    <2>2. m.provider = "state" /\ m.state \in {"undetermined", "initExecution", "mode"}
      BY <2>1 DEF EarlyMessages, StateMessage
    <2>3. UNCHANGED <<enabled, toServer>>
      BY <1>6, <2>2 DEF Receive, OnMessage, OnUndetermined, OnOther, NotInteractive, stateModuleVars
    <2>4. \A c \in Browsers : toClient'[c] \in Seq(EarlyMessages)
      BY <1>0, <1>2, <1>6, <2>1 DEF Receive, EarlyOf, ConnectionsOK
    <2>5. \A c \in Browsers : /\ handler'[c].at = handler[c].at
                              /\ fetched'[c] \in {fetched[c], None}
      BY <1>6, OrphanKeepsPlaces DEF requestVars
    <2> QED
      BY <1>0, <1>1, <1>6, <2>3, <2>4, <2>5 DEF EarlyOf
  <1>7. ASSUME NEW b \in Browsers, NEW control \in Commands, Click(b, control)
        PROVE  FALSE
    BY <1>0, <1>7 DEF Click, EarlyOf
  <1>8. ASSUME NEW b \in Browsers, ConnectionStep(b)
        PROVE  EarlyInv'
    <2>1. UNCHANGED <<executionVars, enabled>>
      BY <1>8 DEF ConnectionStep, serverVars, clientVars, stateModuleVars
    <2>2. \A c \in Browsers : /\ handler'[c].at = handler[c].at
                              /\ fetched'[c] \in {fetched[c], None}
      BY <1>8, OrphanKeepsPlaces DEF ConnectionStep, serverVars, requestVars
    <2>3. \A c \in Browsers : /\ toServer'[c] \in {toServer[c], << >>}
                              /\ toClient'[c] \in {toClient[c], << >>}
      BY <1>8 DEF ConnectionStep, Cut, Lose, Remove, ConnectionsOK
    <2> QED
      BY <1>0, <1>1, <1>2, <2>1, <2>2, <2>3 DEF EarlyOf
  <1>9. ASSUME NEW b \in Browsers, ServeCommand(b)
        PROVE  FALSE
    <2>1. CASE Accept(b)
      <3>1. Head(toServer[b]) \in {"state"}
        BY <1>0, <2>1, QueueTail DEF Accept, EarlyOf
      <3> QED
        BY <2>1, <3>1 DEF Accept, Commands
    <2> QED
      BY <1>0, <1>9, <2>1, CommandGoesOn DEF ServeCommand, CommandStep, Answer, EarlyOf
  <1>10. ASSUME NEW b \in Browsers, ServeState(b)
         PROVE  EarlyInv'
    <2>1. UNCHANGED <<executionVars, enabled, handler>>
      BY <1>10 DEF ServeState, StateRequestStep, FetchState, SendState, clientVars, stateModuleVars
    <2>2. CASE FetchState(b)
      <3>1. Tail(toServer[b]) \in Seq({"state"})
        BY <1>0, <2>2, QueueTail DEF FetchState, EarlyOf
      <3>2. StateFetched \in EarlyMessages
        BY <1>0, FetchedMessages
      <3> QED
        BY <1>0, <1>1, <2>1, <2>2, <3>1, <3>2
        DEF FetchState, EarlyOf, ConnectionsOK, RequestsOK
    <2>3. CASE SendState(b)
      <3>1. fetched[b] \in EarlyMessages
        BY <1>0, <2>3 DEF SendState, EarlyOf
      <3>2. Append(toClient[b], fetched[b]) \in Seq(EarlyMessages)
        BY <1>0, <3>1, QueueAppend DEF EarlyOf
      <3>3. \A c \in Browsers : toClient'[c] \in Seq(EarlyMessages)
        BY <1>0, <2>3, <3>2 DEF SendState, Reply, EarlyOf, ConnectionsOK
      <3> QED
        BY <1>0, <1>1, <2>1, <2>3, <3>3 DEF SendState, EarlyOf, RequestsOK
    <2> QED
      BY <1>10, <2>2, <2>3 DEF ServeState, StateRequestStep
  <1> QED
    BY <1>4, <1>5, <1>6, <1>7, <1>8, <1>9, <1>10 DEF Next, BrowserStep, UserStep

\* A command after a termination finds the execution terminated.
LEMMA TerminationStep ==
  ASSUME TypesOK, ExecutionOK, MonitorInv, EarlyInv, TerminationInv, Next
  PROVE  TerminationInv'
  <1> USE DEF TypesOK
  <1>1. CASE RunThreadStep
    <2>1. UNCHANGED userTermination /\ \A c \in Browsers : handler'[c].at = handler[c].at
      BY <1>1, RunThreadConnections
      DEF RunThreadStep, StartUp, EnterRun, Loop, WaitBeforeStep, WaitWhenDone, WaitAs, Reenter,
          PerformStep, UseToken, Operate, AggregateConditions, TimeOut, Shutdown,
          executionVars, requestVars, RequestsOK
    <2>2. NextPhase => ~ (at' = "loop" /\ resetting')
      BY DEF NextPhase
    <2>3. at' = "loop" /\ resetting' => userTermination'
      <3>1. CASE EnterRun
        BY <3>1 DEF EnterRun, EarlyInv, Early, executionVars
      <3>2. CASE WaitBeforeStep \/ WaitWhenDone \/ PerformStep
        BY <2>2, <3>2 DEF WaitBeforeStep, WaitWhenDone, WaitAs, PerformStep, Fail
      <3>3. CASE Operate \/ AggregateConditions
        BY <2>2, <3>3 DEF Operate, Signal, CheckBreakConditions, Collect, CheckGlobalCondition,
                          AggregateConditions, Fail
      <3>4. CASE StartUp \/ Loop \/ Reenter \/ UseToken \/ TimeOut \/ Shutdown
        BY <3>4 DEF StartUp, Loop, Reenter, UseToken, TimeOut, Shutdown
      <3> QED
        BY <1>1, <3>1, <3>2, <3>3, <3>4 DEF RunThreadStep
    <2> QED
      BY <2>1, <2>3 DEF TerminationInv
  <1>2. ASSUME NEW b \in Browsers, Command(b)
        PROVE  TerminationInv'
    <2>1. PICK place \in Handling : GoOn(b, place)
      BY <1>2, CommandGoesOn
    <2>2. /\ handler'[b].at = place
          /\ \A c \in Browsers \ {b} : handler'[c] = handler[c]
      BY <2>1, GoOnTo
    <2>3. \A next \in Handling : GoOn(b, next) => next = place
      BY <2>2, GoOnTo
    <2>4. (UNCHANGED at \/ NotifyAll) /\ at' = "loop" => at = "loop"
      BY DEF NotifyAll
    <2>5. UNCHANGED at \/ NotifyAll
      BY <1>2 DEF Command, GiveTokens, CollectCommand, Pause, Reset, TerminateCommand
    <2>6. CASE TerminateCommand(b)
      <3>1. userTermination => userTermination'
        BY <2>6 DEF TerminateCommand
      <3>2. CASE handler[b].at = "terminate"
        BY <3>2, <2>6, <2>2 DEF TerminateCommand, TerminationInv
      <3>3. CASE handler[b].at \in {"terminating", "terminateContinue"}
        BY <3>1, <3>3, <2>2 DEF TerminationInv
      <3> QED
        BY <2>6, <3>2, <3>3 DEF TerminateCommand
    <2>7. CASE UNCHANGED userTermination
               /\ (\/ GiveTokens(b, "step", 1) \/ GiveTokens(b, "continue", Infinite)
                   \/ CollectCommand(b) \/ Pause(b) \/ Reset(b))
      <3>1. place \notin {"terminating", "terminateContinue"}
        BY <2>3, <2>7 DEF GiveTokens, CollectCommand, Pause, Reset, Handling
      <3>2. UNCHANGED resetting \/ owner = b
        BY <2>7 DEF GiveTokens, CollectCommand, Pause, Reset, MonitorInv
      <3>3. owner = b => at # "loop"
        BY ThreadsAssumption DEF MonitorInv, Holding
      <3> QED
        BY <2>2, <2>4, <2>5, <2>7, <3>1, <3>2, <3>3 DEF TerminationInv
    <2> QED
      BY <1>2, <2>6, <2>7 DEF Command
  <1>3. ASSUME UNCHANGED <<executionVars, owner, runVars, fullStep>>,
               \A c \in Browsers :
                 \/ handler'[c].at = handler[c].at
                 \/ handler[c].at = "idle" /\ handler'[c].at \in Commands
                 \/ handler[c].at \in {"accepted", "error"} /\ handler'[c].at = "idle"
        PROVE  TerminationInv'
    BY <1>3 DEF executionVars, runVars, TerminationInv, Commands
  <1> QED
    BY <1>1, <1>2, <1>3, OtherSteps

-------------------------------------------------------------------------------
(* The iterations. *)

Stays == UNCHANGED Course!vars

LEMMA NextPhaseCourse ==
  ASSUME phase \in Phases, resetting \in BOOLEAN, at \in {"hold", "perform", "operate", "aggregate"},
         NextPhase, UNCHANGED <<iteration, userTermination>>
  PROVE  Course!Next \/ Stays
  <1>1. CASE resetting
    BY <1>1 DEF NextPhase, Stays, Course!vars
  <1>2. CASE ~ resetting
    <2>1. CASE phase < 4 \/ (phase = 4 /\ ShouldCheckGlobalCondition)
      BY <1>2, <2>1 DEF NextPhase, Phases, Course!Next, Course!Step
    <2>2. CASE ~ (phase < 4 \/ (phase = 4 /\ ShouldCheckGlobalCondition))
      <3>1. phase \in {4, 5}
        BY <2>2 DEF Phases
      <3> QED
        BY <1>2, <2>2, <3>1 DEF NextPhase, Course!Next, Course!Step
    <2> QED
      BY <2>1, <2>2
  <1> QED
    BY <1>1, <1>2

LEMMA RunThreadCourse ==
  ASSUME ExecutionOK, EarlyInv, TerminationInv, RunThreadStep
  PROVE  Course!Next \/ Stays
  <1> USE DEF executionVars, ExecutionOK
  <1>1. CASE StartUp
    BY <1>1 DEF StartUp, Stays, Course!vars
  <1>2. CASE EnterRun
    BY <1>2 DEF EnterRun, Stays, Course!vars
  <1>3. CASE Loop
    <2>1. CASE userTermination
      BY <1>3, <2>1 DEF Loop, Stays, Course!vars
    <2>2. CASE ~ userTermination
      BY <1>3, <2>2 DEF Loop, TerminationInv, Course!Next, Course!Begin
    <2> QED
      BY <2>1, <2>2
  <1>4. CASE WaitBeforeStep
    BY <1>4 DEF WaitBeforeStep, WaitAs, Fail, Stays, Course!vars
  <1>5. CASE WaitWhenDone
    <2>1. CASE stepTokens = 0 /\ ~ resetting
      BY <1>5, <2>1 DEF WaitWhenDone, WaitAs, Fail, Stays, Course!vars
    <2>2. CASE ~ (stepTokens = 0 /\ ~ resetting)
      BY <1>5, <2>2, NextPhaseCourse DEF WaitWhenDone, WaitAs
    <2> QED
      BY <2>1, <2>2
  <1>6. CASE Reenter
    BY <1>6 DEF Reenter, Stays, Course!vars
  <1>7. CASE PerformStep
    <2>1. CASE resetting
      BY <1>7, <2>1, NextPhaseCourse DEF PerformStep
    <2>2. CASE ~ resetting
      BY <1>7, <2>2 DEF PerformStep, Fail, Stays, Course!vars
    <2> QED
      BY <2>1, <2>2
  <1>8. CASE UseToken
    BY <1>8 DEF UseToken, Stays, Course!vars
  <1>9. CASE Operate
    <2>1. at = "operate" /\ UNCHANGED <<iteration, userTermination>>
      BY <1>9 DEF Operate
    <2>2. \/ NextPhase
          \/ at' \in {"hold", "aggregate", "unanswered"} /\ UNCHANGED <<phase, resetting>>
      BY <1>9 DEF Operate, Signal, CheckBreakConditions, Collect, CheckGlobalCondition
    <2>3. CASE NextPhase
      BY <2>1, <2>3, NextPhaseCourse
    <2>4. CASE at' \in {"hold", "aggregate", "unanswered"} /\ UNCHANGED <<phase, resetting>>
      BY <2>1, <2>4 DEF Stays, Course!vars
    <2> QED
      BY <2>2, <2>3, <2>4
  <1>10. CASE AggregateConditions
    <2>1. at = "aggregate" /\ UNCHANGED <<iteration, userTermination>>
      BY <1>10 DEF AggregateConditions
    <2>2. \/ NextPhase
          \/ at' \in {"unanswered", "failed"} /\ UNCHANGED <<phase, resetting>>
      BY <1>10 DEF AggregateConditions, Fail
    <2>3. CASE NextPhase
      BY <2>1, <2>3, NextPhaseCourse
    <2>4. CASE at' \in {"unanswered", "failed"} /\ UNCHANGED <<phase, resetting>>
      BY <2>1, <2>4 DEF Stays, Course!vars
    <2> QED
      BY <2>2, <2>3, <2>4
  <1>11. CASE TimeOut
    BY <1>11 DEF TimeOut, Stays, Course!vars
  <1>12. CASE Shutdown
    BY <1>12 DEF Shutdown, Stays, Course!vars
  <1> QED
    BY <1>1, <1>2, <1>3, <1>4, <1>5, <1>6, <1>7, <1>8, <1>9, <1>10, <1>11, <1>12
    DEF RunThreadStep

LEMMA CommandCourse ==
  ASSUME ConnectionsOK, RequestsOK, ExecutionOK, TerminationInv, NEW b \in Browsers, Command(b)
  PROVE  Course!Next \/ Stays
  <1>1. UNCHANGED phase
    BY DEF Command
  <1>2. UNCHANGED at \/ NotifyAll
    BY DEF Command, GiveTokens, CollectCommand, Pause, Reset, TerminateCommand
  <1>3. ASSUME UNCHANGED <<iteration, userTermination, resetting>>
        PROVE  Stays
    BY <1>1, <1>2, <1>3 DEF NotifyAll, Stays, Course!vars
  <1>4. CASE UNCHANGED userTermination
             /\ (\/ GiveTokens(b, "step", 1) \/ GiveTokens(b, "continue", Infinite)
                 \/ CollectCommand(b) \/ Pause(b))
    BY <1>3, <1>4 DEF GiveTokens, CollectCommand, Pause
  <1>5. CASE UNCHANGED userTermination /\ Reset(b)
    <2>1. CASE handler[b].at = "resetting"
      BY <1>3, <1>5, <2>1 DEF Reset
    <2>2. CASE handler[b].at = "resetGraph"
      BY <1>5, <2>2 DEF Reset, Course!Next, Course!Reset
    <2> QED
      BY <1>5, <2>1, <2>2 DEF Reset
  <1>6. CASE TerminateCommand(b)
    <2>1. CASE handler[b].at = "terminate"
      BY <1>1, <1>6, <2>1 DEF TerminateCommand, Course!Next, Course!Terminate
    <2>2. CASE handler[b].at = "terminating"
      BY <1>6, <2>2 DEF TerminateCommand, TerminationInv, Course!Next, Course!Abandon
    <2>3. CASE handler[b].at = "terminateContinue"
      BY <1>3, <1>6, <2>3 DEF TerminateCommand
    <2> QED
      BY <1>6, <2>1, <2>2, <2>3 DEF TerminateCommand
  <1> QED
    BY <1>4, <1>5, <1>6 DEF Command

LEMMA CourseStep ==
  ASSUME TypesOK, ExecutionOK, EarlyInv, TerminationInv, Next
  PROVE  [Course!Next]_(Course!vars)
  <1>1. UNCHANGED <<executionVars, owner, runVars, fullStep>> => Stays
    BY DEF executionVars, runVars, Stays, Course!vars
  <1> QED
    BY <1>1, OtherSteps, RunThreadCourse, CommandCourse DEF TypesOK, Stays

-------------------------------------------------------------------------------
(* How often a browser asks for the state again. *)

LEMMA UnknownMessages ==
  ASSUME NEW m \in Messages
  PROVE  m.provider = "state" /\ m.state = "undetermined" <=> m = StateMessage("undetermined", 0)
  <1>1. \A s \in States : s # "undetermined"
    BY DEF States, Paused, PausedBefore, Performing, Final, Phases
  <1> QED
    BY <1>1 DEF Messages, StateMessages, EarlyMessages, StateMessage

LEMMA UnknownFinite ==
  ASSUME NEW q \in Seq(Messages)
  PROVE  IsFiniteSet(Unknown(q)) /\ Cardinality(Unknown(q)) \in Nat
  <1>1. Unknown(q) \in SUBSET (1 .. Len(q)) /\ Len(q) \in Nat
    BY LenProperties DEF Unknown
  <1>2. IsFiniteSet(Unknown(q))
    <2>1. IsFiniteSet(1 .. Len(q))
      BY <1>1, FS_Interval
    <2> QED
      BY <1>1, <2>1, FS_Subset
  <1> QED
    BY <1>2, FS_CardinalityType

LEMMA UnknownEmpty == Cardinality(Unknown(<< >>)) = 0
  <1>1. Unknown(<< >>) = {}
    BY QueueEmpty DEF Unknown
  <1> QED
    BY <1>1, FS_EmptySet

LEMMA UnknownAppend ==
  ASSUME NEW q \in Seq(Messages), NEW m \in Messages
  PROVE  Cardinality(Unknown(Append(q, m)))
           = Cardinality(Unknown(q)) + IF m = StateMessage("undetermined", 0) THEN 1 ELSE 0
  <1>1. /\ Len(q) \in Nat /\ DOMAIN q = 1 .. Len(q)
        /\ DOMAIN Append(q, m) = 1 .. Len(q) + 1
        /\ \A i \in DOMAIN q : Append(q, m)[i] = q[i]
        /\ Append(q, m)[Len(q) + 1] = m
    BY QueueAppend
  <1>2. IsFiniteSet(Unknown(q)) /\ Cardinality(Unknown(q)) \in Nat
    BY UnknownFinite
  <1>3. CASE m = StateMessage("undetermined", 0)
    <2>1. Unknown(Append(q, m)) = Unknown(q) \cup {Len(q) + 1}
      BY <1>1, <1>3, UnknownMessages DEF Unknown
    <2>2. Len(q) + 1 \notin Unknown(q)
      BY <1>1 DEF Unknown
    <2> QED
      BY <1>2, <1>3, <2>1, <2>2, FS_AddElement
  <1>4. CASE m # StateMessage("undetermined", 0)
    <2>1. Unknown(Append(q, m)) = Unknown(q)
      BY <1>1, <1>4, UnknownMessages DEF Unknown
    <2> QED
      BY <1>2, <1>4, <2>1
  <1> QED
    BY <1>3, <1>4

LEMMA UnknownTail ==
  ASSUME NEW q \in Seq(Messages), q # << >>
  PROVE  Cardinality(Unknown(Tail(q))) <=
           Cardinality(Unknown(q)) - IF Head(q) = StateMessage("undetermined", 0) THEN 1 ELSE 0
  <1>1. /\ Head(q) \in Messages /\ Head(q) = q[1] /\ Len(q) \in Nat \ {0}
        /\ DOMAIN q = 1 .. Len(q)
        /\ DOMAIN Tail(q) = 1 .. Len(q) - 1
        /\ \A i \in DOMAIN Tail(q) : Tail(q)[i] = q[i + 1]
        /\ Tail(q) \in Seq(Messages)
    BY QueueTail
  <1>2. /\ IsFiniteSet(Unknown(q)) /\ Cardinality(Unknown(q)) \in Nat
        /\ Cardinality(Unknown(Tail(q))) \in Nat
    BY <1>1, UnknownFinite
  <1> DEFINE rest == Unknown(q) \ {1}
             up == [i \in Unknown(Tail(q)) |-> i + 1]
  <1>3. IsFiniteSet(rest) /\ Cardinality(rest) = Cardinality(Unknown(q)) - IF 1 \in Unknown(q) THEN 1 ELSE 0
    BY <1>2, FS_RemoveElement
  <1>4. up \in Injection(Unknown(Tail(q)), rest)
    BY <1>1 DEF Injection, IsInjective, Unknown
  <1>5. Cardinality(Unknown(Tail(q))) <= Cardinality(rest)
    <2> HIDE DEF up, rest
    <2> QED
      BY <1>3, <1>4, FS_Injection
  <1>6. 1 \in Unknown(q) <=> Head(q) = StateMessage("undetermined", 0)
    BY <1>1, UnknownMessages DEF Unknown
  <1> HIDE DEF rest
  <1>7. CASE Head(q) = StateMessage("undetermined", 0)
    BY <1>2, <1>3, <1>5, <1>6, <1>7
  <1>8. CASE Head(q) # StateMessage("undetermined", 0)
    BY <1>2, <1>3, <1>5, <1>6, <1>8
  <1> QED
    BY <1>7, <1>8

LEMMA ToldTypes ==
  ASSUME TypesOK, NEW b \in Browsers
  PROVE  Told(b) \in Nat /\ Due(b) \in Nat /\ Due(b) >= Told(b)
  <1>1. Cardinality(Unknown(toClient[b])) \in Nat
    BY UnknownFinite DEF TypesOK, ConnectionsOK
  <1>2. Len(toServer[b]) \in Nat
    BY LenProperties DEF TypesOK, ConnectionsOK
  <1>3. Told(b) \in Nat
    BY <1>1 DEF Told, UnknownFetched, TypesOK, ClientOK
  <1> QED
    BY <1>2, <1>3 DEF Due

LEMMA ToldTypesNext ==
  ASSUME TypesOK', NEW b \in Browsers
  PROVE  Told(b)' \in Nat /\ Due(b)' \in Nat /\ Due(b)' >= Told(b)'
  <1>1. Cardinality(Unknown(toClient'[b])) \in Nat
    BY UnknownFinite DEF TypesOK, ConnectionsOK
  <1>2. Len(toServer'[b]) \in Nat
    BY LenProperties DEF TypesOK, ConnectionsOK
  <1>3. Told(b)' \in Nat
    BY <1>1 DEF Told, UnknownFetched, TypesOK, ClientOK
  <1> QED
    BY <1>2, <1>3 DEF Due

\* A step adds to what is told of an unknown state, and to what will be, only
\* with a new connection, and a connection is lost only with a cut; later a
\* step adds nothing.
Grows(b) ==
  /\ at \in Early =>
       \/ Due(b)' <= Due(b) /\ UNCHANGED cuts /\ (b \in link => b \in link')
       \/ Due(b)' <= Due(b) + 1 /\ UNCHANGED cuts /\ b \notin link /\ b \in link'
       \/ Due(b)' <= Due(b) /\ cuts' = cuts + 1 /\ (b \in link \/ b \notin link')
  /\ at \notin Early => Told(b)' <= Told(b)

LEMMA RetryBound ==
  ASSUME TypesOK, TypesOK', ExecutionOK, MonitorInv, RetryInv, Next,
         \A b \in Browsers : Grows(b)
  PROVE  RetryInv'
  <1> SUFFICES ASSUME NEW b \in Browsers
               PROVE  RetryInvOf(b)'
    BY DEF RetryInv
  <1>1. Told(b) \in Nat /\ Due(b) \in Nat /\ cuts \in Nat
    BY ToldTypes, MaxCutsAssumption DEF TypesOK, ConnectionsOK
  <1>2. /\ Told(b)' \in Nat /\ Due(b)' \in Nat /\ Due(b)' >= Told(b)'
        /\ cuts' \in Nat /\ cuts' <= MAX_CUTS
    BY ToldTypesNext, MaxCutsAssumption DEF TypesOK, ConnectionsOK
  <1>3. at' \in Early => at \in Early
    BY EarlySteps
  <1>4. CASE at \in Early
    <2>1. Due(b) <= cuts + 1 /\ (b \notin link => Due(b) <= cuts)
      BY <1>4 DEF RetryInv, RetryInvOf
    <2>2. \/ Due(b)' <= Due(b) /\ UNCHANGED cuts /\ (b \in link => b \in link')
          \/ Due(b)' <= Due(b) + 1 /\ UNCHANGED cuts /\ b \notin link /\ b \in link'
          \/ Due(b)' <= Due(b) /\ cuts' = cuts + 1 /\ (b \in link \/ b \notin link')
      BY <1>4 DEF Grows
    <2>3. Due(b)' <= cuts' + 1 /\ (b \notin link' => Due(b)' <= cuts')
      BY <1>1, <1>2, <2>1, <2>2
    <2> QED
      BY <1>2, <2>3, MaxCutsAssumption DEF RetryInvOf
  <1>5. CASE at \notin Early
    <2>1. Told(b)' <= Told(b) /\ Told(b) <= MAX_CUTS + 1
      BY <1>5 DEF Grows, RetryInv, RetryInvOf
    <2> QED
      BY <1>1, <1>2, <1>3, <1>5, <2>1, MaxCutsAssumption DEF RetryInvOf
  <1> QED
    BY <1>4, <1>5

\* Messages that say something, or are gone.
LEMMA UnknownNoMore ==
  ASSUME TypesOK, NEW b \in Browsers,
         \/ toClient'[b] \in {toClient[b], << >>}
         \/ toClient[b] # << >> /\ toClient'[b] = Tail(toClient[b])
         \/ \E m \in Messages : /\ m # StateMessage("undetermined", 0)
                                /\ toClient'[b] = Append(toClient[b], m)
  PROVE  Cardinality(Unknown(toClient'[b])) <= Cardinality(Unknown(toClient[b]))
  <1>1. toClient[b] \in Seq(Messages)
    BY DEF TypesOK, ConnectionsOK
  <1>2. Cardinality(Unknown(toClient[b])) \in Nat
    BY <1>1, UnknownFinite
  <1>3. CASE toClient'[b] \in {toClient[b], << >>}
    BY <1>2, <1>3, UnknownEmpty
  <1>4. CASE toClient[b] # << >> /\ toClient'[b] = Tail(toClient[b])
    <2>1. Cardinality(Unknown(Tail(toClient[b]))) \in Nat
      BY <1>1, <1>4, QueueTail, UnknownFinite
    <2> QED
      BY <1>1, <1>2, <1>4, <2>1, UnknownTail
  <1>5. ASSUME NEW m \in Messages, m # StateMessage("undetermined", 0),
               toClient'[b] = Append(toClient[b], m)
        PROVE  Cardinality(Unknown(toClient'[b])) <= Cardinality(Unknown(toClient[b]))
    BY <1>1, <1>2, <1>5, UnknownAppend
  <1> QED
    BY <1>3, <1>4, <1>5

LEMMA ToldParts ==
  ASSUME TypesOK, TypesOK', NEW b \in Browsers
  PROVE  /\ Told(b) = retries[b] + Cardinality(Unknown(toClient[b])) + UnknownFetched(b)
         /\ Told(b)' = retries'[b] + Cardinality(Unknown(toClient'[b])) + UnknownFetched(b)'
         /\ retries[b] \in Nat /\ retries'[b] \in Nat
         /\ Cardinality(Unknown(toClient[b])) \in Nat
         /\ Cardinality(Unknown(toClient'[b])) \in Nat
         /\ UnknownFetched(b) \in {0, 1} /\ UnknownFetched(b)' \in {0, 1}
         /\ Due(b) = Told(b) + Len(toServer[b]) /\ Due(b)' = Told(b)' + Len(toServer'[b])
         /\ Len(toServer[b]) \in Nat /\ Len(toServer'[b]) \in Nat
  <1>1. toClient[b] \in Seq(Messages) /\ toClient'[b] \in Seq(Messages)
    BY DEF TypesOK, ConnectionsOK
  <1>2. /\ Cardinality(Unknown(toClient[b])) \in Nat
        /\ Cardinality(Unknown(toClient'[b])) \in Nat
    BY <1>1, UnknownFinite
  <1>3. Len(toServer[b]) \in Nat /\ Len(toServer'[b]) \in Nat
    BY LenProperties DEF TypesOK, ConnectionsOK
  <1>4. UnknownFetched(b) \in {0, 1} /\ UnknownFetched(b)' \in {0, 1}
    BY DEF UnknownFetched
  <1>5. retries[b] \in Nat /\ retries'[b] \in Nat
    BY DEF TypesOK, ClientOK
  <1>6. /\ Due(b) = Told(b) + Len(toServer[b])
        /\ Due(b)' = Told(b)' + Len(toServer'[b])
    BY DEF Due
  <1>7. /\ Told(b) = retries[b] + Cardinality(Unknown(toClient[b])) + UnknownFetched(b)
        /\ Told(b)' = retries'[b] + Cardinality(Unknown(toClient'[b])) + UnknownFetched(b)'
    BY DEF Told
  <1> QED
    BY <1>2, <1>3, <1>4, <1>5, <1>6, <1>7

\* Nothing is told of an unknown state.
LEMMA ToldNoMore ==
  ASSUME TypesOK, TypesOK', NEW b \in Browsers,
         retries'[b] <= retries[b],
         fetched'[b] = StateMessage("undetermined", 0) => fetched[b] = fetched'[b],
         Cardinality(Unknown(toClient'[b])) <= Cardinality(Unknown(toClient[b]))
  PROVE  Told(b)' <= Told(b)
  <1>1. UnknownFetched(b)' <= UnknownFetched(b)
    BY DEF UnknownFetched
  <1>2. /\ Told(b) = retries[b] + Cardinality(Unknown(toClient[b])) + UnknownFetched(b)
        /\ Told(b)' = retries'[b] + Cardinality(Unknown(toClient'[b])) + UnknownFetched(b)'
        /\ retries[b] \in Nat /\ retries'[b] \in Nat
        /\ Cardinality(Unknown(toClient[b])) \in Nat
        /\ Cardinality(Unknown(toClient'[b])) \in Nat
        /\ UnknownFetched(b) \in {0, 1} /\ UnknownFetched(b)' \in {0, 1}
    BY ToldParts
  <1> QED
    BY <1>1, <1>2

LEMMA GrowsNot ==
  ASSUME TypesOK, TypesOK', NEW b \in Browsers,
         retries'[b] <= retries[b],
         fetched'[b] = StateMessage("undetermined", 0) => fetched[b] = fetched'[b],
         Cardinality(Unknown(toClient'[b])) <= Cardinality(Unknown(toClient[b])),
         \/ at \notin Early
         \/ /\ Len(toServer'[b]) <= Len(toServer[b])
            /\ \/ UNCHANGED cuts /\ (b \in link => b \in link')
               \/ cuts' = cuts + 1 /\ (b \in link \/ b \notin link')
  PROVE  Grows(b)
  <1>1. Told(b)' <= Told(b)
    BY ToldNoMore
  <1>2. /\ Due(b) = Told(b) + Len(toServer[b]) /\ Due(b)' = Told(b)' + Len(toServer'[b])
        /\ Len(toServer[b]) \in Nat /\ Len(toServer'[b]) \in Nat
    BY ToldParts
  <1>3. Told(b) \in Nat /\ Told(b)' \in Nat
    BY ToldTypes, ToldTypesNext
  <1>4. CASE at \notin Early
    BY <1>1, <1>4 DEF Grows
  <1>5. CASE Len(toServer'[b]) <= Len(toServer[b])
             /\ (\/ UNCHANGED cuts /\ (b \in link => b \in link')
                 \/ cuts' = cuts + 1 /\ (b \in link \/ b \notin link'))
    <2>1. Due(b)' <= Due(b)
      BY <1>1, <1>2, <1>3, <1>5
    <2> QED
      BY <1>1, <1>5, <2>1 DEF Grows
  <1> QED
    BY <1>4, <1>5

\* A browser of which nothing changes.
SameTold(b) ==
  /\ retries'[b] = retries[b] /\ fetched'[b] = fetched[b] /\ toClient'[b] = toClient[b]
  /\ toServer'[b] = toServer[b]

LEMMA GrowsSame ==
  ASSUME TypesOK, TypesOK', NEW b \in Browsers, SameTold(b),
         \/ UNCHANGED cuts /\ (b \in link => b \in link')
         \/ cuts' = cuts + 1 /\ (b \in link \/ b \notin link')
         \/ at \notin Early
  PROVE  Grows(b)
  <1>1. retries[b] \in Nat /\ toClient[b] \in Seq(Messages) /\ Len(toServer[b]) \in Nat
    BY LenProperties DEF TypesOK, ClientOK, ConnectionsOK
  <1>2. Cardinality(Unknown(toClient'[b])) <= Cardinality(Unknown(toClient[b]))
    BY UnknownNoMore DEF SameTold
  <1> QED
    BY <1>1, <1>2, GrowsNot DEF SameTold

\* The run thread and the commands tell known states only.
LEMMA GrowsTold ==
  ASSUME TypesOK, TypesOK', NEW b \in Browsers,
         UNCHANGED <<link, toServer, cuts, fetched, retries>>, UNCHANGED toClient \/ TellsState
  PROVE  Grows(b)
  <1>1. retries[b] \in Nat /\ toClient[b] \in Seq(Messages) /\ Len(toServer[b]) \in Nat
    BY LenProperties DEF TypesOK, ClientOK, ConnectionsOK
  <1>2. CASE UNCHANGED toClient
    BY <1>2, GrowsSame DEF SameTold
  <1>3. CASE TellsState
    <2>1. PICK s \in States, t \in -1 .. 5 :
            toClient'[b] \in {toClient[b], Append(toClient[b], StateMessage(s, t))}
      BY <1>3 DEF TellsState
    <2>2. StateMessage(s, t) \in Messages
          /\ StateMessage(s, t) # StateMessage("undetermined", 0)
      BY StateIsTold DEF Messages, StateMessage
    <2>3. Cardinality(Unknown(toClient'[b])) <= Cardinality(Unknown(toClient[b]))
      <3> DEFINE m == StateMessage(s, t)
      <3>1. m \in Messages /\ m # StateMessage("undetermined", 0)
            /\ toClient'[b] \in {toClient[b], Append(toClient[b], m)}
        BY <2>1, <2>2
      <3> HIDE DEF m
      <3> QED
        BY <3>1, UnknownNoMore
    <2> QED
      BY <1>1, <2>3, GrowsNot
  <1> QED
    BY <1>2, <1>3

\* A browser takes a message: it may be the one it waited for.
LEMMA GrowsReceive ==
  ASSUME TypesOK, TypesOK', EarlyInv, NEW b \in Browsers, Receive(b),
         Orphan(b) \/ UNCHANGED requestVars
  PROVE  \A c \in Browsers : Grows(c)
  <1> DEFINE m == Head(toClient[b])
  <1>1. m \in Messages /\ toClient[b] \in Seq(Messages) /\ toClient[b] # << >>
    BY QueueTail DEF Receive, TypesOK, ConnectionsOK
  <1>2. /\ UNCHANGED cuts
        /\ toClient'[b] \in {<< >>, Tail(toClient[b])}
        /\ \A c \in Browsers \ {b} : toClient'[c] = toClient[c]
    BY DEF Receive, TypesOK, ConnectionsOK
  <1>3. \A c \in Browsers : fetched'[c] \in {fetched[c], None}
    BY OrphanKeepsPlaces DEF requestVars, TypesOK
  <1>4. None # StateMessage("undetermined", 0)
    BY DEF None, StateMessage
  <1>5. \A c \in Browsers : /\ retries[c] \in Nat /\ Len(toServer[c]) \in Nat
                            /\ fetched'[c] = StateMessage("undetermined", 0) =>
                                 fetched[c] = fetched'[c]
    BY <1>3, <1>4, LenProperties DEF TypesOK, ConnectionsOK, ClientOK
  <1>6. \A c \in Browsers :
          Cardinality(Unknown(toClient'[c])) <= Cardinality(Unknown(toClient[c]))
    BY <1>1, <1>2, UnknownNoMore
  <1>7. ASSUME UNCHANGED <<retries, toServer, link>>, NEW c \in Browsers
        PROVE  Grows(c)
    <2>1. /\ retries'[c] <= retries[c] /\ Len(toServer'[c]) <= Len(toServer[c])
          /\ UNCHANGED cuts /\ (c \in link => c \in link')
      BY <1>2, <1>5, <1>7
    <2> QED
      BY <1>5, <1>6, <2>1, GrowsNot
  <1>8. CASE OnState(b, m.state, m.steps)
             /\ m.provider = "state" /\ m.state \notin NotInteractive \cup {"undetermined"}
    <2>1. at \notin Early
      <3> SUFFICES ASSUME at \in Early
                   PROVE  FALSE
        OBVIOUS
      <3>1. toClient[b] \in Seq(EarlyMessages)
        BY DEF EarlyInv
      <3>2. m \in EarlyMessages
        BY <1>1, <3>1, QueueTail
      <3> QED
        BY <1>8, <3>2 DEF EarlyMessages, StateMessage, NotInteractive
    <2>2. \A c \in Browsers : retries'[c] <= retries[c]
      BY <1>5, <1>8 DEF OnState
    <2> QED
      BY <1>5, <1>6, <2>1, <2>2, GrowsNot
  <1>9. CASE OnUndetermined(b) /\ m.provider = "state" /\ m.state = "undetermined"
    <2>1. m = StateMessage("undetermined", 0)
      BY <1>1, <1>9, UnknownMessages
    <2>2. toClient'[b] = Tail(toClient[b]) /\ UNCHANGED <<toServer, link>>
          /\ retries'[b] = retries[b] + 1
          /\ \A c \in Browsers \ {b} : retries'[c] = retries[c]
      BY <1>9 DEF OnUndetermined, Receive, TypesOK, ConnectionsOK, ClientOK
    <2>3. Cardinality(Unknown(toClient'[b])) + 1 <= Cardinality(Unknown(toClient[b]))
      <3>1. Cardinality(Unknown(Tail(toClient[b]))) <= Cardinality(Unknown(toClient[b])) - 1
        BY <1>1, <2>1, UnknownTail
      <3>2. Cardinality(Unknown(Tail(toClient[b]))) \in Nat /\ Cardinality(Unknown(toClient[b])) \in Nat
        BY <1>1, QueueTail, UnknownFinite
      <3> QED
        BY <2>2, <3>1, <3>2
    <2>4. UnknownFetched(b)' <= UnknownFetched(b)
      BY <1>5 DEF UnknownFetched
    <2>5. Told(b)' <= Told(b) /\ Due(b)' <= Due(b)
      <3>1. /\ Told(b) = retries[b] + Cardinality(Unknown(toClient[b])) + UnknownFetched(b)
            /\ Told(b)' = retries'[b] + Cardinality(Unknown(toClient'[b])) + UnknownFetched(b)'
            /\ retries[b] \in Nat /\ retries'[b] \in Nat
            /\ Cardinality(Unknown(toClient[b])) \in Nat
            /\ Cardinality(Unknown(toClient'[b])) \in Nat
            /\ UnknownFetched(b) \in {0, 1} /\ UnknownFetched(b)' \in {0, 1}
            /\ Due(b) = Told(b) + Len(toServer[b]) /\ Due(b)' = Told(b)' + Len(toServer'[b])
            /\ Len(toServer[b]) \in Nat
        BY ToldParts
      <3>2. retries'[b] = retries[b] + 1 /\ Len(toServer'[b]) = Len(toServer[b])
        BY <2>2
      <3>3. Told(b)' <= Told(b)
        BY <2>3, <2>4, <3>1, <3>2
      <3>4. Told(b) \in Nat /\ Told(b)' \in Nat
        BY <3>1
      <3> QED
        BY <3>1, <3>2, <3>3, <3>4
    <2>6. Grows(b)
      BY <1>2, <2>2, <2>5 DEF Grows
    <2>7. ASSUME NEW c \in Browsers \ {b}
          PROVE  Grows(c)
      <3>1. /\ retries'[c] <= retries[c] /\ Len(toServer'[c]) <= Len(toServer[c])
            /\ UNCHANGED cuts /\ (c \in link => c \in link')
        BY <1>2, <1>5, <2>2
      <3> QED
        BY <1>5, <1>6, <3>1, GrowsNot
    <2> QED
      BY <2>6, <2>7
  <1>10. OnControls(b) \/ OnOther => UNCHANGED <<retries, toServer, link>>
    BY DEF OnControls, OnOther, stateModuleVars
  <1> QED
    BY <1>7, <1>8, <1>9, <1>10 DEF Receive, OnMessage

\* What is asked, and asked again.
LEMMA GrowsBrowser ==
  ASSUME TypesOK, TypesOK', EarlyInv, ConnectedInv, NEW b \in Browsers, UNCHANGED serverVars,
         ClientStep(b) \/ Open(b) \/ \E control \in Commands : Click(b, control)
  PROVE  \A c \in Browsers : Grows(c)
  <1>1. UNCHANGED <<toClient, fetched, cuts>>
    BY DEF ClientStep, Open, Click, ConnectFails, Retry, OnClose, CloseConsumers, Recreate,
           RetryState, stateModuleVars, connectionVars, serverVars, requestVars
  <1>2. \A c \in Browsers : /\ retries[c] \in Nat /\ Len(toServer[c]) \in Nat
                            /\ toServer[c] \in Seq(Requests)
    BY LenProperties DEF TypesOK, ConnectionsOK, ClientOK
  <1>3. \A c \in Browsers :
          Cardinality(Unknown(toClient'[c])) <= Cardinality(Unknown(toClient[c]))
    BY <1>1, UnknownNoMore
  <1>4. CASE ConnectFails(b) \/ Retry(b) \/ OnClose(b) \/ Recreate(b)
    <2>1. UNCHANGED <<retries, toServer, link>>
      BY <1>4 DEF ConnectFails, Retry, OnClose, CloseConsumers, Recreate, stateModuleVars,
                  connectionVars
    <2> QED
      BY <1>1, <2>1, GrowsSame DEF SameTold
  <1>5. Order(b, "state") => /\ Len(toServer'[b]) <= Len(toServer[b]) + 1
                             /\ \A c \in Browsers \ {b} : toServer'[c] = toServer[c]
    <2> SUFFICES ASSUME Order(b, "state")
                 PROVE  /\ Len(toServer'[b]) <= Len(toServer[b]) + 1
                        /\ \A c \in Browsers \ {b} : toServer'[c] = toServer[c]
      OBVIOUS
    <2>1. "state" \in Requests
      BY DEF Requests
    <2>2. /\ toServer'[b] \in {toServer[b], Append(toServer[b], "state")}
          /\ \A c \in Browsers \ {b} : toServer'[c] = toServer[c]
      BY <2>1, OrderQueues DEF TypesOK
    <2>3. Len(Append(toServer[b], "state")) = Len(toServer[b]) + 1
      BY <1>2, <2>1, QueueAppend
    <2> QED
      BY <1>2, <2>2, <2>3
  <1>6. ASSUME NEW c \in Browsers
        PROVE  /\ Told(c) = retries[c] + Cardinality(Unknown(toClient[c])) + UnknownFetched(c)
               /\ Told(c)' = retries'[c] + Cardinality(Unknown(toClient'[c])) + UnknownFetched(c)'
               /\ retries[c] \in Nat /\ retries'[c] \in Nat
               /\ Cardinality(Unknown(toClient[c])) \in Nat
               /\ Cardinality(Unknown(toClient'[c])) = Cardinality(Unknown(toClient[c]))
               /\ UnknownFetched(c) \in {0, 1} /\ UnknownFetched(c)' = UnknownFetched(c)
               /\ Due(c) = Told(c) + Len(toServer[c]) /\ Due(c)' = Told(c)' + Len(toServer'[c])
               /\ Len(toServer[c]) \in Nat /\ Len(toServer'[c]) \in Nat
               /\ Told(c) \in Nat
    BY <1>1, ToldParts, ToldTypes DEF UnknownFetched
  <1>7. CASE RetryState(b)
    <2>1. /\ retries'[b] = retries[b] - 1 /\ UNCHANGED link /\ Order(b, "state")
          /\ \A c \in Browsers \ {b} : retries'[c] = retries[c]
      BY <1>7 DEF RetryState, TypesOK, ClientOK
    <2>2. Told(b)' = Told(b) - 1
      BY <1>6, <2>1
    <2>3. Len(toServer'[b]) <= Len(toServer[b]) + 1
      BY <1>5, <2>1
    <2>4. Told(b)' <= Told(b) /\ Due(b)' <= Due(b)
      BY <1>6, <2>2, <2>3
    <2>5. Grows(b)
      BY <1>1, <2>1, <2>4 DEF Grows
    <2>6. \A c \in Browsers \ {b} : Grows(c)
      BY <1>1, <1>5, <2>1, GrowsSame DEF SameTold
    <2> QED
      BY <2>5, <2>6
  <1>8. CASE Open(b)
    <2>1. /\ UNCHANGED retries /\ link' = link \cup {b} /\ Order(b, "state")
          /\ b \notin link
      BY <1>8 DEF Open, stateModuleVars, ConnectedInv
    <2>2. Told(b)' <= Told(b) /\ Due(b)' <= Due(b) + 1
      BY <1>5, <1>6, <2>1
    <2>3. Grows(b)
      BY <1>1, <2>1, <2>2 DEF Grows
    <2>4. \A c \in Browsers \ {b} : Grows(c)
      BY <1>1, <1>5, <2>1, GrowsSame DEF SameTold
    <2> QED
      BY <2>3, <2>4
  <1>9. ASSUME NEW control \in Commands, Click(b, control), NEW c \in Browsers
        PROVE  Grows(c)
    <2>1. at \notin Early /\ UNCHANGED retries
      BY <1>9 DEF Click, EarlyInv
    <2>2. Told(c)' <= Told(c)
      BY <1>6, <2>1
    <2> QED
      BY <2>1, <2>2 DEF Grows
  <1> QED
    BY <1>4, <1>7, <1>8, <1>9 DEF ClientStep

\* What is asked is fetched once, and told once.
LEMMA GrowsServer ==
  ASSUME TypesOK, TypesOK', ExecutionOK, NEW b \in Browsers, UNCHANGED clientVars,
         Accept(b) \/ Answer(b) \/ FetchState(b) \/ SendState(b)
  PROVE  \A c \in Browsers : Grows(c)
  <1>1. UNCHANGED <<link, cuts, retries>>
    BY DEF Accept, Answer, FetchState, SendState, clientVars, stateModuleVars
  <1>2. \A c \in Browsers : /\ retries[c] \in Nat /\ Len(toServer[c]) \in Nat
                            /\ toServer[c] \in Seq(Requests) /\ toClient[c] \in Seq(Messages)
    BY LenProperties DEF TypesOK, ConnectionsOK, ClientOK
  <1>3. /\ Told(b) = retries[b] + Cardinality(Unknown(toClient[b])) + UnknownFetched(b)
        /\ Told(b)' = retries'[b] + Cardinality(Unknown(toClient'[b])) + UnknownFetched(b)'
        /\ Cardinality(Unknown(toClient[b])) \in Nat
        /\ Cardinality(Unknown(toClient'[b])) \in Nat
        /\ UnknownFetched(b) \in {0, 1} /\ UnknownFetched(b)' \in {0, 1}
        /\ Due(b) = Told(b) + Len(toServer[b]) /\ Due(b)' = Told(b)' + Len(toServer'[b])
    BY ToldParts
  <1>4. None # StateMessage("undetermined", 0)
    BY DEF None, StateMessage
  <1>5. CASE Accept(b)
    <2>1. /\ toServer'[b] = Tail(toServer[b]) /\ toServer[b] # << >>
          /\ \A c \in Browsers \ {b} : toServer'[c] = toServer[c]
          /\ UNCHANGED <<toClient, fetched>>
      BY <1>5 DEF Accept, TypesOK, ConnectionsOK
    <2>2. Len(toServer'[b]) <= Len(toServer[b])
      BY <1>2, <2>1, QueueTail
    <2>3. Cardinality(Unknown(toClient'[b])) <= Cardinality(Unknown(toClient[b]))
      BY <2>1, UnknownNoMore
    <2>4. retries'[b] <= retries[b] /\ UNCHANGED cuts /\ (b \in link => b \in link')
      BY <1>1, <1>2
    <2>5. fetched'[b] = fetched[b]
      BY <2>1
    <2>6. Grows(b)
      BY <2>2, <2>3, <2>4, <2>5, GrowsNot
    <2>7. \A c \in Browsers \ {b} : Grows(c)
      BY <1>1, <2>1, GrowsSame DEF SameTold
    <2> QED
      BY <2>6, <2>7
  <1>6. CASE Answer(b)
    <2> DEFINE m == [provider |-> IF handler[b].at = "accepted" THEN "controls" ELSE "error"]
    <2>1. m \in Messages /\ m # StateMessage("undetermined", 0)
      BY DEF Messages, StateMessage
    <2>2. UNCHANGED toClient \/ Reply(b, m)
      BY <1>6 DEF Answer
    <2> HIDE DEF m
    <2>3. /\ toClient'[b] \in {toClient[b], Append(toClient[b], m)}
          /\ \A c \in Browsers \ {b} : toClient'[c] = toClient[c]
      BY <2>1, <2>2, ReplyQueues DEF TypesOK
    <2>4. UNCHANGED <<toServer, fetched>>
      BY <1>6 DEF Answer
    <2>5. Cardinality(Unknown(toClient'[b])) <= Cardinality(Unknown(toClient[b]))
      BY <2>1, <2>3, UnknownNoMore
    <2>6. Grows(b)
      BY <1>1, <1>2, <2>4, <2>5, GrowsNot
    <2>7. \A c \in Browsers \ {b} : Grows(c)
      BY <1>1, <2>3, <2>4, GrowsSame DEF SameTold
    <2> QED
      BY <2>6, <2>7
  <1>7. CASE FetchState(b)
    <2>1. /\ toServer'[b] = Tail(toServer[b]) /\ toServer[b] # << >>
          /\ \A c \in Browsers \ {b} : toServer'[c] = toServer[c] /\ fetched'[c] = fetched[c]
          /\ fetched[b] = None /\ fetched'[b] = StateFetched
          /\ UNCHANGED toClient
      BY <1>7 DEF FetchState, TypesOK, ConnectionsOK, RequestsOK
    <2>2. Len(toServer'[b]) = Len(toServer[b]) - 1
      BY <1>2, <2>1, QueueTail
    <2>3. Len(toServer'[b]) \in Nat
      BY ToldParts
    <2>4. at \notin Early => UnknownFetched(b)' = 0
      <3> SUFFICES ASSUME at \notin Early
                   PROVE  UnknownFetched(b)' = 0
        OBVIOUS
      <3>1. StateFetched = StateMessage(state, stepTokens)
        BY DEF StateFetched, Early
      <3>2. StateFetched # StateMessage("undetermined", 0)
        BY <3>1, StateIsTold DEF ExecutionOK, StateMessage
      <3> QED
        BY <2>1, <3>2 DEF UnknownFetched
    <2>5. UnknownFetched(b) = 0
      BY <1>4, <2>1 DEF UnknownFetched
    <2>6. Told(b)' <= Told(b) + 1 /\ (at \notin Early => Told(b)' <= Told(b))
      BY <1>1, <1>2, <1>3, <2>1, <2>4, <2>5
    <2>7. Told(b) \in Nat /\ Told(b)' \in Nat
      BY ToldTypes, ToldTypesNext
    <2>8. Due(b)' <= Due(b)
      BY <1>2, <1>3, <2>2, <2>3, <2>6, <2>7
    <2>9. Grows(b)
      BY <1>1, <2>6, <2>8 DEF Grows
    <2>10. \A c \in Browsers \ {b} : Grows(c)
      BY <1>1, <2>1, GrowsSame DEF SameTold
    <2> QED
      BY <2>9, <2>10
  <1>8. CASE SendState(b)
    <2>1. fetched[b] \in Messages
      BY <1>8 DEF SendState, TypesOK, RequestsOK, Messages
    <2>2. /\ toClient'[b] \in {toClient[b], Append(toClient[b], fetched[b])}
          /\ \A c \in Browsers \ {b} : toClient'[c] = toClient[c]
      BY <1>8, <2>1, ReplyQueues DEF SendState, TypesOK
    <2>3. /\ UNCHANGED toServer /\ fetched'[b] = None
          /\ \A c \in Browsers \ {b} : fetched'[c] = fetched[c]
      BY <1>8 DEF SendState, TypesOK, RequestsOK
    <2>4. Cardinality(Unknown(toClient'[b])) <=
            Cardinality(Unknown(toClient[b])) + UnknownFetched(b)
      <3>1. CASE toClient'[b] = toClient[b]
        BY <1>3, <3>1
      <3>2. CASE toClient'[b] = Append(toClient[b], fetched[b])
        BY <1>2, <1>3, <2>1, <3>2, UnknownAppend DEF UnknownFetched
      <3> QED
        BY <2>2, <3>1, <3>2
    <2>5. UnknownFetched(b)' = 0
      BY <1>4, <2>3 DEF UnknownFetched
    <2>6. Told(b)' <= Told(b)
      BY <1>1, <1>2, <1>3, <2>4, <2>5
    <2>7. Told(b) \in Nat /\ Told(b)' \in Nat
      BY ToldTypes, ToldTypesNext
    <2>8. Due(b)' <= Due(b)
      BY <1>2, <1>3, <2>3, <2>6, <2>7
    <2>9. Grows(b)
      BY <1>1, <2>6, <2>8 DEF Grows
    <2>10. \A c \in Browsers \ {b} : Grows(c)
      BY <1>1, <2>2, <2>3, GrowsSame DEF SameTold
    <2> QED
      BY <2>9, <2>10
  <1> QED
    BY <1>5, <1>6, <1>7, <1>8

LEMMA RetryStep ==
  ASSUME TypesOK, TypesOK', ExecutionOK, MonitorInv, EarlyInv, ConnectedInv, RetryInv, Next
  PROVE  RetryInv'
  <1> SUFFICES \A c \in Browsers : Grows(c)
    BY RetryBound
  <1>1. CASE RunStep
    <2>1. UNCHANGED clientVars /\ UNCHANGED retries
      BY <1>1 DEF RunStep, clientVars, stateModuleVars
    <2>2. CASE Shutdown
      <3> SUFFICES ASSUME NEW c \in Browsers
                   PROVE  Grows(c)
        OBVIOUS
      <3>1. at \notin Early
        BY <2>2 DEF Shutdown, Early
      <3>2. toClient'[c] = << >> /\ fetched'[c] = None
        BY <2>2 DEF Shutdown
      <3>3. Cardinality(Unknown(toClient'[c])) <= Cardinality(Unknown(toClient[c]))
        BY <3>2, UnknownNoMore
      <3>4. retries'[c] <= retries[c]
        BY <2>1 DEF TypesOK, ClientOK
      <3>5. fetched'[c] # StateMessage("undetermined", 0)
        BY <3>2 DEF None, StateMessage
      <3> QED
        BY <3>1, <3>3, <3>4, <3>5, GrowsNot
    <2>3. CASE UNCHANGED <<link, toServer, cuts, fetched>> /\ (UNCHANGED toClient \/ TellsState)
      BY <2>1, <2>3, GrowsTold
    <2> QED
      BY <1>1, <2>2, <2>3, RunThreadConnections DEF RunStep, TypesOK, connectionVars, requestVars
  <1>2. ASSUME NEW b \in Browsers, BrowserStep(b) \/ UserStep(b)
        PROVE  \A c \in Browsers : Grows(c)
    <2>1. CASE Receive(b) /\ (Orphan(b) \/ UNCHANGED requestVars)
      BY <2>1, GrowsReceive
    <2>2. CASE UNCHANGED serverVars
               /\ (ClientStep(b) \/ Open(b) \/ \E control \in Commands : Click(b, control))
      BY <2>2, GrowsBrowser
    <2> QED
      BY <1>2, <2>1, <2>2 DEF BrowserStep, UserStep
  <1>3. ASSUME NEW b \in Browsers, ConnectionStep(b)
        PROVE  \A c \in Browsers : Grows(c)
    <2>1. CASE Cut(b) /\ Orphan(b) /\ UNCHANGED clientVars
      <3>1. /\ toClient'[b] = << >> /\ toServer'[b] = << >> /\ fetched'[b] = None
            /\ \A c \in Browsers \ {b} : /\ toClient'[c] = toClient[c]
                                         /\ toServer'[c] = toServer[c]
                                         /\ fetched'[c] = fetched[c]
            /\ cuts' = cuts + 1 /\ link' = link \ {b} /\ UNCHANGED retries
        BY <2>1 DEF Cut, Lose, Orphan, TypesOK, ConnectionsOK, RequestsOK, clientVars, stateModuleVars
      <3>2. Cardinality(Unknown(toClient'[b])) <= Cardinality(Unknown(toClient[b]))
        BY <3>1, UnknownNoMore
      <3>3. retries'[b] <= retries[b]
        BY <3>1 DEF TypesOK, ClientOK
      <3>4. Len(toServer'[b]) <= Len(toServer[b])
        BY <3>1, EmptySeq, LenProperties DEF TypesOK, ConnectionsOK
      <3>5. fetched'[b] # StateMessage("undetermined", 0)
        BY <3>1 DEF None, StateMessage
      <3>6. b \notin link'
        BY <3>1
      <3>7. Grows(b)
        BY <3>1, <3>2, <3>3, <3>4, <3>5, <3>6, GrowsNot
      <3>8. \A c \in Browsers \ {b} : Grows(c)
        BY <3>1, GrowsSame DEF SameTold
      <3> QED
        BY <3>7, <3>8
    <2>2. CASE Remove(b) /\ UNCHANGED <<serverVars, clientVars>>
      BY <2>2, GrowsSame DEF Remove, SameTold, serverVars, requestVars, clientVars, stateModuleVars
    <2> QED
      BY <1>3, <2>1, <2>2 DEF ConnectionStep
  <1>4. ASSUME NEW b \in Browsers, ServeCommand(b) \/ ServeState(b)
        PROVE  \A c \in Browsers : Grows(c)
    <2>1. CASE Command(b) /\ UNCHANGED clientVars
      <3>1. UNCHANGED <<link, toServer, cuts, fetched, retries>>
            /\ (UNCHANGED toClient \/ TellsState)
        BY <2>1, CommandGoesOn DEF TypesOK, clientVars, stateModuleVars
      <3> QED
        BY <3>1, GrowsTold
    <2> QED
      BY <1>4, <2>1, GrowsServer DEF ServeCommand, CommandStep, ServeState, StateRequestStep
  <1> QED
    BY <1>1, <1>2, <1>3, <1>4 DEF Next

-------------------------------------------------------------------------------
(* The invariant of the console. *)

LEMMA ConsoleStarts == Init => ConsoleInv
  <1> SUFFICES ASSUME Init
               PROVE  ConsoleInv
    OBVIOUS
  <1> USE MaxCutsAssumption, IntervalAssumption, MaxIterationAssumption, MaxClicksAssumption,
          ThreadsAssumption
  <1>1. /\ toServer = [b \in Browsers |-> << >>] /\ toClient = [b \in Browsers |-> << >>]
        /\ handler = [b \in Browsers |-> Idle] /\ fetched = [b \in Browsers |-> None]
        /\ retries = [b \in Browsers |-> 0] /\ pendingCommand = [b \in Browsers |-> FALSE]
        /\ clicks = 0 /\ lingering = {}
        /\ stepTokens = 0 /\ collectSteps = 0 /\ readTokens = 0 /\ phase = 1
        /\ resetting = FALSE /\ userTermination = FALSE /\ fullStep = FALSE /\ owner = NoOne
    BY DEF Init, ConnectionsInit, ServerInit, ServerSettled, ServerStart, ClientInit, ClientSettled
  <1>2. \/ /\ at = "starting" /\ state = "initExecution" /\ iteration = 0 /\ link = {} /\ cuts = 0
           /\ \E pages \in SUBSET Browsers : ClientInit(pages)
        \/ /\ at = "waiting" /\ state = "pausedBeforeSignal" /\ iteration = 1
           /\ link = Browsers /\ cuts = MAX_CUTS
           /\ ClientSettled
    BY DEF Init, ConnectionsInit, ServerInit, ServerSettled, ServerStart
  <1>3. << >> \in Seq(Requests) /\ << >> \in Seq(Messages) /\ << >> \in Seq({"state"})
        /\ << >> \in Seq(EarlyMessages)
    BY QueueEmpty
  <1>4. ConnectionsOK
    BY <1>1, <1>2, <1>3 DEF ConnectionsOK
  <1>5. ClientOK
    <2>1. CASE \E pages \in SUBSET Browsers : ClientInit(pages)
      BY <1>1, <2>1 DEF ClientOK, ClientInit, Sockets
    <2>2. CASE ClientSettled
      BY <1>1, <2>2 DEF ClientOK, ClientSettled, Sockets, Buttons, Commands
    <2> QED
      BY <1>2, <2>1, <2>2
  <1>6. RequestsOK
    BY <1>1 DEF RequestsOK, Idle, Handling
  <1>7. ExecutionOK
    <2>1. "initExecution" \in States /\ "pausedBeforeSignal" \in States
      BY DEF States, Paused, PausedBefore, Phases
    <2>2. at \in Early \cup Outside /\ at # "read" /\ iteration \in 0 .. MAX_ITERATION
      BY <1>2 DEF Early, Outside
    <2>3. \A b \in Browsers : handler[b].at # "collectMore"
      BY <1>1 DEF Idle
    <2>4. resetting \in BOOLEAN /\ fullStep \in BOOLEAN /\ userTermination \in BOOLEAN
      BY <1>1
    <2> QED
      BY <1>1, <1>2, <2>1, <2>2, <2>3, <2>4 DEF ExecutionOK, Phases
  <1>8. MonitorInv
    BY <1>1, <1>2 DEF MonitorInv, Holding, Idle
  <1>9. ConnectedInv
    BY <1>2 DEF ConnectedInv, OpenedOncePerConnection, ClientInit, ClientSettled
  <1>10. NoSleepingWithTokens
    BY <1>1 DEF NoSleepingWithTokens
  <1>11. CommandInv
    BY <1>1, QueueEmpty DEF CommandInv, CommandInvOf, Requested, Answered, Handled, Idle
  <1>12. EarlyInv
    <2> SUFFICES ASSUME at \in Early
                 PROVE  EarlyInv
      BY DEF EarlyInv
    <2>1. state = "initExecution" /\ \E pages \in SUBSET Browsers : ClientInit(pages)
      BY <1>2 DEF Early
    <2> QED
      BY <1>1, <1>3, <2>1 DEF EarlyInv, ClientInit, Idle
  <1>13. TerminationInv
    BY <1>1 DEF TerminationInv, Idle
  <1>14. RetryInv
    <2> SUFFICES ASSUME NEW b \in Browsers
                 PROVE  RetryInvOf(b)
      BY DEF RetryInv
    <2>1. UnknownFetched(b) = 0
      BY <1>1 DEF UnknownFetched, None, StateMessage
    <2>2. Cardinality(Unknown(toClient[b])) = 0
      BY <1>1, UnknownEmpty
    <2>3. Told(b) = 0
      BY <1>1, <2>1, <2>2 DEF Told
    <2>4. Len(toServer[b]) = 0
      BY <1>1, EmptySeq
    <2> QED
      BY <1>2, <2>3, <2>4 DEF RetryInvOf, Due
  <1> QED
    BY <1>4, <1>5, <1>6, <1>7, <1>8, <1>9, <1>10, <1>11, <1>12, <1>13, <1>14 DEF ConsoleInv

LEMMA ConsoleGoesOn == ConsoleInv /\ [Next]_vars => ConsoleInv'
  <1> SUFFICES ASSUME ConsoleInv, [Next]_vars
               PROVE  ConsoleInv'
    OBVIOUS
  <1>1. TypesOK
    BY DEF ConsoleInv, TypesOK
  <1>2. CASE Next
    <2>1. TypesOK'
      BY <1>1, <1>2, TypesStep DEF ConsoleInv
    <2>2. ExecutionOK' /\ MonitorInv'
      BY <1>1, <1>2, ExecutionStep DEF ConsoleInv
    <2>3. ConnectedInv'
      BY <1>1, <1>2, ConnectedStep DEF ConsoleInv
    <2>4. NoSleepingWithTokens'
      BY <1>1, <1>2, NoSleepingStep DEF ConsoleInv
    <2>5. CommandInv'
      BY <1>1, <1>2, CommandInvStep DEF ConsoleInv
    <2>6. EarlyInv'
      BY <1>1, <1>2, EarlyStep DEF ConsoleInv
    <2>7. TerminationInv'
      BY <1>1, <1>2, TerminationStep DEF ConsoleInv
    <2>8. RetryInv'
      BY <1>1, <1>2, <2>1, RetryStep DEF ConsoleInv
    <2> QED
      BY <2>1, <2>2, <2>3, <2>4, <2>5, <2>6, <2>7, <2>8 DEF ConsoleInv, TypesOK
  <1>3. CASE UNCHANGED vars
    <2>1. UNCHANGED <<connectionVars, executionVars, owner, runVars, requestVars, fullStep,
                      socketVars, stateModuleVars, clicks>>
      BY <1>3 DEF vars, serverVars, clientVars
    <2>2. ConnectionsOK'
      BY <2>1 DEF connectionVars, ConsoleInv, ConnectionsOK
    <2>3. ClientOK'
      BY <2>1 DEF socketVars, stateModuleVars, ConsoleInv, ClientOK
    <2>4. RequestsOK'
      BY <2>1 DEF requestVars, ConsoleInv, RequestsOK
    <2>5. ExecutionOK'
      BY <2>1 DEF executionVars, runVars, requestVars, ConsoleInv, ExecutionOK
    <2>6. MonitorInv'
      BY <2>1 DEF runVars, requestVars, ConsoleInv, MonitorInv
    <2>7. ConnectedInv'
      BY <2>1 DEF connectionVars, socketVars, ConsoleInv, ConnectedInv, OpenedOncePerConnection
    <2>8. NoSleepingWithTokens'
      BY <2>1 DEF executionVars, runVars, requestVars, ConsoleInv, NoSleepingWithTokens
    <2>9. CommandInv'
      BY <2>1 DEF connectionVars, requestVars, stateModuleVars, ConsoleInv,
                  CommandInv, CommandInvOf, Requested, Answered, Handled
    <2>10. EarlyInv'
      BY <2>1 DEF connectionVars, executionVars, runVars, requestVars, stateModuleVars,
                  ConsoleInv, EarlyInv
    <2>11. TerminationInv'
      BY <2>1 DEF executionVars, runVars, requestVars, ConsoleInv, TerminationInv
    <2>12. RetryInv'
      <3>1. UNCHANGED <<at, cuts, link, retries, toClient, toServer, fetched>>
        BY <2>1 DEF connectionVars, runVars, requestVars, stateModuleVars
      <3>2. ASSUME NEW b \in Browsers
            PROVE  Told(b)' = Told(b) /\ Due(b)' = Due(b)
        BY <3>1 DEF Told, Due, UnknownFetched, Unknown
      <3>3. ASSUME NEW b \in Browsers
            PROVE  RetryInvOf(b)'
        <4>1. RetryInvOf(b)
          BY DEF ConsoleInv, RetryInv
        <4> QED BY <3>1, <3>2, <4>1 DEF RetryInvOf
      <3> QED BY <3>3 DEF RetryInv
    <2> QED
      BY <2>2, <2>3, <2>4, <2>5, <2>6, <2>7, <2>8, <2>9, <2>10, <2>11, <2>12 DEF ConsoleInv
  <1> QED
    BY <1>2, <1>3

\* Messages, timers, commands, broken connections and the run thread keep the
\* invariant from which the following results are read.
THEOREM ConsoleInvariant == Spec => []ConsoleInv
  BY ConsoleStarts, ConsoleGoesOn, PTL DEF Spec

\* All variables stay in their ranges: no interleaving of pause, terminate and
\* the decrement of performStep makes stepTokens fall below -1, and a browser
\* sets at most one timer for an undetermined state per connection it had.
THEOREM ConsoleTypes == Spec => []TypeOK
  <1>1. ConsoleInv => TypeOK
    <2> SUFFICES ASSUME ConsoleInv
                 PROVE  TypeOK
      OBVIOUS
    <2>1. ConnectionsOK /\ ClientOK /\ RequestsOK /\ ExecutionOK /\ MonitorInv /\ TypesOK
      BY DEF ConsoleInv, TypesOK
    <2>2. ASSUME NEW b \in Browsers
          PROVE  retries[b] \in 0 .. MAX_CUTS + 1
      <3>1. /\ Told(b) \in Nat /\ Due(b) \in Nat /\ Due(b) >= Told(b)
            /\ cuts \in Nat /\ cuts <= MAX_CUTS
        BY <2>1, ToldTypes, MaxCutsAssumption DEF ConnectionsOK
      <3>2. RetryInvOf(b)
        BY DEF ConsoleInv, RetryInv
      <3>3. Told(b) <= MAX_CUTS + 1
        BY <3>1, <3>2, MaxCutsAssumption DEF RetryInvOf
      <3>4. /\ Cardinality(Unknown(toClient[b])) \in Nat /\ UnknownFetched(b) \in {0, 1}
            /\ retries[b] \in Nat
        BY <2>1, UnknownFinite DEF ConnectionsOK, ClientOK, UnknownFetched
      <3>5. retries[b] <= Told(b)
        BY <3>4 DEF Told
      <3> QED
        BY <3>1, <3>3, <3>4, <3>5, MaxCutsAssumption
    <2> QED
      BY <2>1, <2>2 DEF TypeOK, ConnectionsOK, ClientOK, ExecutionOK, MonitorInv
  <1> QED
    BY <1>1, ConsoleInvariant, PTL

\* However connections are made, lost, closed and made again, the modules of
\* the page are opened once with each of them and closed once.
THEOREM ConsoleOpensOnce == Spec => []OpenedOncePerConnection
  <1>1. ConsoleInv => OpenedOncePerConnection
    BY DEF ConsoleInv, ConnectedInv
  <1> QED
    BY <1>1, ConsoleInvariant, PTL

\* For any number of browsers: the run thread never sleeps on with tokens to
\* use or a reset to do unless the thread that will notify it is on its way.
THEOREM ConsoleNoLostWakeup == Spec => []NoSleepingWithTokens
  <1>1. ConsoleInv => NoSleepingWithTokens
    BY DEF ConsoleInv
  <1> QED
    BY <1>1, ConsoleInvariant, PTL

\* A browser has one command on its way at most, also if connections are lost
\* with a command under way or in the hands of the server.
THEOREM ConsoleOneCommand == Spec => []OneCommandAtATime
  <1>1. ConsoleInv => OneCommandAtATime
    BY OneCommand DEF ConsoleInv, TypesOK
  <1> QED
    BY <1>1, ConsoleInvariant, PTL

\* Every step of the server is a step of the abstract execution of Iterations
\* or leaves it: no command skips or repeats a step of an iteration.
THEOREM ConsoleFollowsIterations == Spec => FollowsIterations
  <1>1. ConsoleInv /\ [Next]_vars => [Course!Next]_(Course!vars)
    <2> SUFFICES ASSUME ConsoleInv, [Next]_vars
                 PROVE  [Course!Next]_(Course!vars)
      OBVIOUS
    <2>1. CASE Next
      BY <2>1, CourseStep DEF ConsoleInv, TypesOK
    <2>2. CASE UNCHANGED vars
      BY <2>2 DEF vars, serverVars, executionVars, runVars, Course!vars
    <2> QED
      BY <2>1, <2>2
  <1> QED
    BY <1>1, ConsoleInvariant, PTL DEF Spec, FollowsIterations

\* An execution that has just started is an initial state of Iterations.
THEOREM ConsoleStartsCourse == ServerInit => Course!Init
  BY DEF ServerInit, ServerStart, Course!Init


-------------------------------------------------------------------------------
(***************************************************************************)
(* Break conditions of one browser (BreakConditions, whose state is given  *)
(* by the variables below and those of ConditionHistory).  With two        *)
(* browsers the properties do not hold.                                    *)
(***************************************************************************)

CONSTANTS MAX_CONDITIONS, MAX_ORDERS

VARIABLES
  conditionCounter, conditionsReached, conditionHandler, conditionOrders, conditionLists, asked,
  checkerAt, checkerPhase, checkerTokens, checked

Break == INSTANCE BreakConditions WITH
  handler <- conditionHandler, toServer <- conditionOrders, toClient <- conditionLists,
  at <- checkerAt, phase <- checkerPhase, stepTokens <- checkerTokens

BreakAssumptions == Break!MaxConditionsAssumption /\ Break!MaxOrdersAssumption

\* What is read of a map was put there by an addCondition, under that id.
KnownMap(map) == \A i \in DOMAIN map : <<i, map[i]>> \in given

\* The condition that has the id may be deleted.
Removable(id) == \E x \in given : x[1] = id /\ x[2] \in deleted

GoodOrders ==
  {o \in [action : {"add"}, condition : Break!Condition] \cup [action : {"remove"}, id : Nat]
           \cup [action : {"list"}] :
     o.action = "remove" => Removable(o.id)}

GoodLines ==
  {l \in [id : Nat, condition : Break!Condition, reached : BOOLEAN] :
     <<l.id, l.condition>> \in given /\ (l.reached => l.condition \in fired)}

\* Ids are never used again, so one that is read later still means the same.
GivenInv ==
  /\ conditionCounter \in Nat /\ asked \in Nat
  /\ given \subseteq (1 .. conditionCounter) \X Break!Condition
  /\ \A x, y \in given : x[1] = y[1] => x[2] = y[2]
  /\ \A x \in given : x[1] \in DOMAIN conditions \/ x[2] \in deleted
  /\ KnownMap(conditions) /\ KnownMap(checked)
  /\ \A i \in conditionsReached : \E x \in given : x[1] = i /\ x[2] \in fired

Counted == {"add", "adding", "entering"}

\* What the server's thread has read is still so: there is no other thread.
HandlerInv(h) ==
  /\ h.at \in {"count", "counted"} \cup Counted => h.condition \in Break!Condition
  /\ h.at = "counted" => h.read = conditionCounter
  /\ h.at \in Counted => conditionCounter # 0 /\ \A x \in given : x[1] # conditionCounter
  /\ h.at \in {"adding", "entering", "removing"} => h.read = conditions
  /\ h.at = "entering" => h.id = conditionCounter
  /\ h.at \in {"remove", "removing"} => Removable(h.id)
  /\ h.at = "listing" => KnownMap(h.read)

BreakInv(b) ==
  /\ DOMAIN conditionHandler = Browsers /\ DOMAIN conditionOrders = Browsers
  /\ DOMAIN conditionLists = Browsers /\ DOMAIN shown = Browsers
  /\ GivenInv
  /\ HandlerInv(conditionHandler[b])
  /\ conditionOrders[b] \in Seq(GoodOrders)
  /\ conditionLists[b] \in Seq(SUBSET GoodLines)
  /\ shown[b] \subseteq GoodLines

LEMMA SeqMonotone ==
  ASSUME NEW S, NEW T, S \subseteq T, NEW s \in Seq(S)
  PROVE  s \in Seq(T)
  OBVIOUS

\* What is known stays known.
LEMMA HistoryGrows ==
  ASSUME given \subseteq given', deleted \subseteq deleted', fired \subseteq fired'
  PROVE  /\ \A id : Removable(id) => Removable(id)'
         /\ \A map : KnownMap(map) => \A i \in DOMAIN map : <<i, map[i]>> \in given'
         /\ GoodOrders \subseteq GoodOrders' /\ GoodLines \subseteq GoodLines'
  <1>1. \A id : Removable(id) => Removable(id)'
    BY DEF Removable
  <1>2. \A map : KnownMap(map) => \A i \in DOMAIN map : <<i, map[i]>> \in given'
    BY DEF KnownMap
  <1>3. GoodOrders \subseteq GoodOrders'
    BY <1>1 DEF GoodOrders, Break!Condition
  <1>4. GoodLines \subseteq GoodLines'
    BY DEF GoodLines, Break!Condition
  <1> QED BY <1>1, <1>2, <1>3, <1>4

LEMMA ListsGrow ==
  ASSUME NEW b, BreakInv(b),
         given \subseteq given', deleted \subseteq deleted', fired \subseteq fired'
  PROVE  /\ conditionOrders[b] \in Seq(GoodOrders') /\ conditionLists[b] \in Seq(SUBSET GoodLines')
         /\ shown[b] \subseteq GoodLines'
  <1>1. GoodOrders \subseteq GoodOrders' /\ GoodLines \subseteq GoodLines'
    BY HistoryGrows
  <1>2. SUBSET GoodLines \subseteq SUBSET (GoodLines')
    BY <1>1
  <1> QED BY <1>1, <1>2, SeqMonotone DEF BreakInv

LEMMA BreakInit ==
  ASSUME NEW b, Browsers = {b}, Break!Init
  PROVE  BreakInv(b)
  <1>1. GivenInv
    BY DEF GivenInv, Break!Init, Break!NoConditions, KnownMap
  <1>2. HandlerInv(conditionHandler[b])
    BY DEF Break!Init, Break!Idle, HandlerInv, Counted
  <1> QED BY <1>1, <1>2 DEF BreakInv, Break!Init

\* An order of the browser is under way.
LEMMA BreakOrder ==
  ASSUME NEW b, Browsers = {b}, BreakInv(b), NEW o, Break!Order(b, o), o \in GoodOrders',
         given' = given, deleted \subseteq deleted', fired' = fired
  PROVE  DOMAIN conditionOrders' = Browsers /\ conditionOrders'[b] \in Seq(GoodOrders')
  <1>1. conditionOrders[b] \in Seq(GoodOrders')
    BY ListsGrow
  <1>2. conditionOrders' = [conditionOrders EXCEPT ![b] = Append(conditionOrders[b], o)]
        /\ DOMAIN conditionOrders = Browsers
    BY DEF Break!Order, BreakInv
  <1>3. conditionOrders'[b] = Append(conditionOrders[b], o)
    BY <1>2
  <1> QED BY <1>1, <1>2, <1>3

LEMMA BreakBrowser ==
  ASSUME BreakAssumptions, NEW b, Browsers = {b}, BreakInv(b), Break!BrowserStep(b)
  PROVE  BreakInv(b)'
  <1>1. /\ UNCHANGED <<conditionCounter, conditions, conditionsReached, conditionHandler>>
        /\ UNCHANGED <<checked, given, fired>>
    BY DEF Break!BrowserStep, Break!serverVars, Break!runVars
  <1>2. deleted \subseteq deleted' /\ asked' \in Nat
    <2>1. deleted' = deleted \/ \E condition : deleted' = deleted \cup {condition}
      BY DEF Break!BrowserStep, Break!AddCondition, Break!DeleteCondition, Break!OrderList,
             Break!OnMessage
    <2>2. asked' = asked \/ asked' = asked + 1
      BY DEF Break!BrowserStep, Break!AddCondition, Break!DeleteCondition, Break!OrderList,
             Break!OnMessage, Break!clientVars
    <2> QED BY <2>1, <2>2 DEF BreakInv, GivenInv
  <1>3. GivenInv'
    BY <1>1, <1>2 DEF BreakInv, GivenInv, KnownMap
  <1>4. HandlerInv(conditionHandler[b])'
    <2>1. \A id : Removable(id) => Removable(id)'
      BY <1>1, <1>2, HistoryGrows
    <2> QED BY <1>1, <2>1 DEF BreakInv, HandlerInv, KnownMap
  <1>5. /\ conditionOrders[b] \in Seq(GoodOrders') /\ conditionLists[b] \in Seq(SUBSET GoodLines')
        /\ shown[b] \subseteq GoodLines'
    BY <1>1, <1>2, ListsGrow
  <1>6. CASE Break!AddCondition(b)
    <2>1. PICK w \in Break!Checks :
            Break!Order(b, [action |-> "add", condition |-> [nth |-> asked + 1, when |-> w]])
      BY <1>6 DEF Break!AddCondition
    <2>2. [nth |-> asked + 1, when |-> w] \in Break!Condition
      BY <1>6 DEF Break!AddCondition, Break!Condition, BreakInv, GivenInv, BreakAssumptions,
                  Break!MaxConditionsAssumption
    <2>3. [action |-> "add", condition |-> [nth |-> asked + 1, when |-> w]] \in GoodOrders'
      BY <2>2 DEF GoodOrders, Break!Condition
    <2>4. DOMAIN conditionOrders' = Browsers /\ conditionOrders'[b] \in Seq(GoodOrders')
      BY <1>1, <1>2, <2>1, <2>3, BreakOrder
    <2> QED BY <1>1, <1>3, <1>4, <1>5, <1>6, <2>4 DEF BreakInv, Break!AddCondition
  <1>7. CASE Break!DeleteCondition(b)
    <2>1. PICK line \in shown[b] : Break!Order(b, [action |-> "remove", id |-> line.id])
                                   /\ deleted' = deleted \cup {line.condition}
      BY <1>7 DEF Break!DeleteCondition
    <2>2. line.id \in Nat /\ <<line.id, line.condition>> \in given
      BY DEF BreakInv, GoodLines
    <2>3. Removable(line.id)'
      BY <1>1, <2>1, <2>2 DEF Removable
    <2>4. [action |-> "remove", id |-> line.id] \in GoodOrders'
      BY <2>2, <2>3 DEF GoodOrders
    <2>5. DOMAIN conditionOrders' = Browsers /\ conditionOrders'[b] \in Seq(GoodOrders')
      BY <1>1, <1>2, <2>1, <2>4, BreakOrder
    <2> QED BY <1>1, <1>3, <1>4, <1>5, <1>7, <2>5 DEF BreakInv, Break!DeleteCondition
  <1>8. CASE Break!OrderList(b)
    <2>1. [action |-> "list"] \in GoodOrders'
      BY DEF GoodOrders
    <2>2. DOMAIN conditionOrders' = Browsers /\ conditionOrders'[b] \in Seq(GoodOrders')
      BY <1>1, <1>2, <1>8, <2>1, BreakOrder DEF Break!OrderList
    <2> QED BY <1>1, <1>3, <1>4, <1>5, <1>8, <2>2 DEF BreakInv, Break!OrderList, Break!clientVars
  <1>9. CASE Break!OnMessage(b)
    <2>1. Head(conditionLists[b]) \in SUBSET GoodLines' /\ Tail(conditionLists[b]) \in Seq(SUBSET GoodLines')
      BY <1>5, <1>9 DEF Break!OnMessage
    <2>2. /\ shown' = [shown EXCEPT ![b] = Head(conditionLists[b])]
          /\ conditionLists' = [conditionLists EXCEPT ![b] = Tail(conditionLists[b])]
          /\ DOMAIN shown = Browsers /\ DOMAIN conditionLists = Browsers
          /\ UNCHANGED conditionOrders
      BY <1>9 DEF Break!OnMessage, BreakInv
    <2>3. /\ DOMAIN shown' = Browsers /\ DOMAIN conditionLists' = Browsers
          /\ shown'[b] = Head(conditionLists[b]) /\ conditionLists'[b] = Tail(conditionLists[b])
      BY <2>2
    <2> QED BY <1>1, <1>3, <1>4, <1>5, <2>1, <2>2, <2>3 DEF BreakInv
  <1> QED BY <1>6, <1>7, <1>8, <1>9 DEF Break!BrowserStep

\* A step of the server's thread that leaves the maps alone.
LEMMA BreakThread ==
  ASSUME NEW b, Browsers = {b}, BreakInv(b), NEW h,
         conditionHandler' = [conditionHandler EXCEPT ![b] = h],
         UNCHANGED <<shown, asked, checked, deleted, fired, given, conditions, conditionsReached>>,
         \/ conditionCounter' = conditionCounter
         \/ conditionCounter' = conditionCounter + 1,
         HandlerInv(h)',
         DOMAIN conditionOrders' = Browsers, conditionOrders'[b] \in Seq(GoodOrders),
         DOMAIN conditionLists' = Browsers, conditionLists'[b] \in Seq(SUBSET GoodLines)
  PROVE  BreakInv(b)'
  <1>1. DOMAIN conditionHandler' = Browsers /\ conditionHandler'[b] = h
    BY DEF BreakInv
  <1>2. conditionCounter \in Nat /\ conditionCounter' \in Nat
        /\ 1 .. conditionCounter \subseteq 1 .. conditionCounter'
    BY DEF BreakInv, GivenInv
  <1>3. GivenInv'
    BY <1>2 DEF BreakInv, GivenInv, KnownMap
  <1>4. GoodOrders' = GoodOrders /\ GoodLines' = GoodLines
    BY DEF GoodOrders, GoodLines, Removable
  <1> QED BY <1>1, <1>3, <1>4 DEF BreakInv

LEMMA BreakFetch ==
  ASSUME NEW b, Browsers = {b}, BreakInv(b), Break!Fetch(b),
         UNCHANGED <<shown, asked, checked, deleted, fired>>
  PROVE  BreakInv(b)'
  <1> DEFINE o == Head(conditionOrders[b])
  <1>1. /\ UNCHANGED <<conditionCounter, conditions, conditionsReached, conditionLists, given>>
        /\ conditionOrders[b] # << >>
        /\ conditionOrders' = [conditionOrders EXCEPT ![b] = Tail(conditionOrders[b])]
    BY DEF Break!Fetch, Break!serverVars
  <1>2. conditionOrders[b] \in Seq(GoodOrders) /\ DOMAIN conditionOrders = Browsers
        /\ conditionLists[b] \in Seq(SUBSET GoodLines) /\ DOMAIN conditionLists = Browsers
    BY DEF BreakInv
  <1>3. o \in GoodOrders /\ Tail(conditionOrders[b]) \in Seq(GoodOrders)
    BY <1>1, <1>2
  <1>4. DOMAIN conditionOrders' = Browsers /\ conditionOrders'[b] \in Seq(GoodOrders)
    BY <1>1, <1>2, <1>3
  <1>5. PICK h : /\ conditionHandler' = [conditionHandler EXCEPT ![b] = h]
                 /\ \/ o.action = "add" /\ h = [at |-> "count", condition |-> o.condition]
                    \/ o.action = "remove" /\ h = [at |-> "remove", id |-> o.id]
                    \/ h \in {[at |-> "list"], Break!Idle}
    BY DEF Break!Fetch, Break!GoOn
  <1>6. /\ o.action = "add" => o.condition \in Break!Condition
        /\ o.action = "remove" => Removable(o.id)
    BY <1>3 DEF GoodOrders
  <1>7. HandlerInv(h)
    <2> HIDE DEF o
    <2> QED BY <1>5, <1>6 DEF HandlerInv, Counted, Break!Idle
  <1>8. HandlerInv(h)'
    BY <1>1, <1>7 DEF HandlerInv, Removable, KnownMap
  <1> QED BY <1>1, <1>2, <1>4, <1>5, <1>8, BreakThread

LEMMA BreakIncrement ==
  ASSUME NEW b, Browsers = {b}, BreakInv(b), Break!Increment(b),
         UNCHANGED <<shown, asked, checked, deleted, fired>>
  PROVE  BreakInv(b)'
  <1>1. UNCHANGED <<conditions, conditionsReached, conditionOrders, conditionLists, given>>
    BY DEF Break!Increment
  <1>2. /\ DOMAIN conditionOrders' = Browsers /\ conditionOrders'[b] \in Seq(GoodOrders)
        /\ DOMAIN conditionLists' = Browsers /\ conditionLists'[b] \in Seq(SUBSET GoodLines)
    BY <1>1 DEF BreakInv
  <1>3. HandlerInv(conditionHandler[b])
    BY DEF BreakInv
  <1>4. CASE conditionHandler[b].at = "count"
    <2>1. PICK h : /\ h = [at |-> "counted", condition |-> conditionHandler[b].condition,
                           read |-> conditionCounter]
                   /\ conditionHandler' = [conditionHandler EXCEPT ![b] = h]
                   /\ UNCHANGED conditionCounter
      BY <1>4 DEF Break!Increment, Break!GoOn
    <2>2. conditionHandler[b].condition \in Break!Condition
      BY <1>3, <1>4 DEF HandlerInv
    <2>3. HandlerInv(h)'
      BY <2>1, <2>2 DEF HandlerInv, Counted, Break!Condition
    <2> QED BY <1>1, <1>2, <2>1, <2>3, BreakThread
  <1>5. CASE conditionHandler[b].at = "counted"
    <2>1. PICK h : /\ h = [at |-> "add", condition |-> conditionHandler[b].condition]
                   /\ conditionHandler' = [conditionHandler EXCEPT ![b] = h]
                   /\ conditionCounter' = conditionCounter + 1
      BY <1>3, <1>5 DEF Break!Increment, Break!GoOn, HandlerInv
    <2>2. conditionHandler[b].condition \in Break!Condition
      BY <1>3, <1>5 DEF HandlerInv
    <2>3. conditionCounter' # 0 /\ \A x \in given' : x[1] # conditionCounter'
      <3>1. conditionCounter \in Nat /\ \A x \in given : x[1] \in 1 .. conditionCounter
        BY DEF BreakInv, GivenInv
      <3> QED BY <1>1, <2>1, <3>1
    <2>4. HandlerInv(h)'
      BY <2>1, <2>2, <2>3 DEF HandlerInv, Counted, Break!Condition
    <2> QED BY <1>1, <1>2, <2>1, <2>4, BreakThread
  <1> QED BY <1>4, <1>5 DEF Break!Increment

LEMMA BreakEnter ==
  ASSUME NEW b, Browsers = {b}, BreakInv(b), Break!Enter(b),
         UNCHANGED <<shown, asked, checked, deleted, fired>>
  PROVE  BreakInv(b)'
  <1>1. UNCHANGED <<conditionCounter, conditionsReached, conditionOrders, conditionLists>>
    BY DEF Break!Enter
  <1>2. /\ DOMAIN conditionOrders' = Browsers /\ conditionOrders'[b] \in Seq(GoodOrders)
        /\ DOMAIN conditionLists' = Browsers /\ conditionLists'[b] \in Seq(SUBSET GoodLines)
    BY <1>1 DEF BreakInv
  <1>3. HandlerInv(conditionHandler[b])
    BY DEF BreakInv
  <1>4. CASE conditionHandler[b].at = "add"
    <2>1. PICK h : /\ h = [at |-> "adding", condition |-> conditionHandler[b].condition,
                           read |-> conditions]
                   /\ conditionHandler' = [conditionHandler EXCEPT ![b] = h]
                   /\ UNCHANGED <<conditions, given>>
      BY <1>4 DEF Break!Enter, Break!GoOn
    <2>2. /\ conditionHandler[b].condition \in Break!Condition
          /\ conditionCounter # 0 /\ \A x \in given : x[1] # conditionCounter
      BY <1>3, <1>4 DEF HandlerInv, Counted
    <2>3. HandlerInv(h)'
      BY <1>1, <2>1, <2>2 DEF HandlerInv, Counted, Break!Condition
    <2> QED BY <1>1, <1>2, <2>1, <2>3, BreakThread
  <1>5. CASE conditionHandler[b].at = "adding"
    <2>1. PICK h : /\ h = [at |-> "entering", condition |-> conditionHandler[b].condition,
                           read |-> conditionHandler[b].read, id |-> conditionCounter]
                   /\ conditionHandler' = [conditionHandler EXCEPT ![b] = h]
                   /\ UNCHANGED <<conditions, given>>
      BY <1>5 DEF Break!Enter, Break!GoOn
    <2>2. /\ conditionHandler[b].condition \in Break!Condition
          /\ conditionHandler[b].read = conditions
          /\ conditionCounter # 0 /\ \A x \in given : x[1] # conditionCounter
      BY <1>3, <1>5 DEF HandlerInv, Counted
    <2>3. HandlerInv(h)'
      BY <1>1, <2>1, <2>2 DEF HandlerInv, Counted, Break!Condition
    <2> QED BY <1>1, <1>2, <2>1, <2>3, BreakThread
  <1>6. CASE conditionHandler[b].at = "entering"
    <2> DEFINE c == conditionHandler[b].condition
               id == conditionCounter
    <2>1. /\ conditionHandler[b].condition \in Break!Condition
          /\ conditionHandler[b].read = conditions /\ conditionHandler[b].id = id
          /\ id # 0 /\ \A x \in given : x[1] # id
      BY <1>3, <1>6 DEF HandlerInv, Counted
    <2>2. /\ conditionHandler' = [conditionHandler EXCEPT ![b] = [at |-> "list"]]
          /\ conditions' = Break!Extend(conditions, id, c)
          /\ given' = given \cup {<<id, c>>}
      BY <1>6, <2>1 DEF Break!Enter, Break!GoOn
    <2>3. id \in Nat /\ id \in 1 .. id
      BY <2>1 DEF BreakInv, GivenInv
    <2>4. id \notin DOMAIN conditions
      BY <2>1 DEF BreakInv, GivenInv, KnownMap
    <2>5. /\ DOMAIN conditions' = DOMAIN conditions \cup {id} /\ conditions'[id] = c
          /\ \A i \in DOMAIN conditions : conditions'[i] = conditions[i]
      BY <2>2, <2>4 DEF Break!Extend
    <2>6. KnownMap(conditions)'
      BY <2>2, <2>5 DEF BreakInv, GivenInv, KnownMap
    <2>7. given' \subseteq (1 .. conditionCounter) \X Break!Condition
      BY <2>1, <2>2, <2>3 DEF BreakInv, GivenInv
    <2>8. \A x, y \in given' : x[1] = y[1] => x[2] = y[2]
      BY <2>1, <2>2 DEF BreakInv, GivenInv
    <2>9. \A x \in given' : x[1] \in DOMAIN conditions' \/ x[2] \in deleted
      BY <2>2, <2>5 DEF BreakInv, GivenInv
    <2>10. given \subseteq given'
      BY <2>2
    <2>11. \A i \in conditionsReached : \E x \in given' : x[1] = i /\ x[2] \in fired
      BY <2>10 DEF BreakInv, GivenInv
    <2>12. KnownMap(checked)'
      BY <2>10 DEF BreakInv, GivenInv, KnownMap
    <2>13. GivenInv'
      BY <1>1, <2>3, <2>6, <2>7, <2>8, <2>9, <2>11, <2>12 DEF BreakInv, GivenInv, Break!Condition
    <2>14. DOMAIN conditionHandler' = Browsers /\ conditionHandler'[b] = [at |-> "list"]
      BY <2>2 DEF BreakInv
    <2>15. HandlerInv(conditionHandler[b])'
      BY <2>14 DEF HandlerInv, Counted
    <2>16. /\ conditionOrders[b] \in Seq(GoodOrders')
           /\ conditionLists[b] \in Seq(SUBSET GoodLines') /\ shown[b] \subseteq GoodLines'
      BY <2>10, ListsGrow
    <2> QED BY <1>1, <2>13, <2>14, <2>15, <2>16 DEF BreakInv
  <1> QED BY <1>4, <1>5, <1>6 DEF Break!Enter

LEMMA BreakRemove ==
  ASSUME NEW b, Browsers = {b}, BreakInv(b), Break!RemoveCondition(b),
         UNCHANGED <<shown, asked, checked, deleted, fired>>
  PROVE  BreakInv(b)'
  <1>1. UNCHANGED <<conditionCounter, conditionsReached, conditionOrders, conditionLists, given>>
    BY DEF Break!RemoveCondition
  <1>2. /\ DOMAIN conditionOrders' = Browsers /\ conditionOrders'[b] \in Seq(GoodOrders)
        /\ DOMAIN conditionLists' = Browsers /\ conditionLists'[b] \in Seq(SUBSET GoodLines)
    BY <1>1 DEF BreakInv
  <1>3. HandlerInv(conditionHandler[b])
    BY DEF BreakInv
  <1>4. CASE conditionHandler[b].at = "remove"
    <2>1. PICK h : /\ h = [at |-> "removing", id |-> conditionHandler[b].id, read |-> conditions]
                   /\ conditionHandler' = [conditionHandler EXCEPT ![b] = h]
                   /\ UNCHANGED conditions
      BY <1>4 DEF Break!RemoveCondition, Break!GoOn
    <2>2. Removable(conditionHandler[b].id)
      BY <1>3, <1>4 DEF HandlerInv
    <2>3. HandlerInv(h)'
      BY <1>1, <2>1, <2>2 DEF HandlerInv, Counted, Removable
    <2> QED BY <1>1, <1>2, <2>1, <2>3, BreakThread
  <1>5. CASE conditionHandler[b].at = "removing"
    <2> DEFINE id == conditionHandler[b].id
    <2>1. conditionHandler[b].read = conditions /\ Removable(id)
      BY <1>3, <1>5 DEF HandlerInv
    <2>2. /\ conditionHandler' = [conditionHandler EXCEPT ![b] = [at |-> "list"]]
          /\ conditions' = [i \in DOMAIN conditions \cap (DOMAIN conditions \ {id}) |-> conditions[i]]
      BY <1>5, <2>1 DEF Break!RemoveCondition, Break!GoOn, Break!Restrict
    <2>3. /\ DOMAIN conditions' = DOMAIN conditions \ {id}
          /\ \A i \in DOMAIN conditions \ {id} : conditions'[i] = conditions[i]
      BY <2>2
    <2>4. KnownMap(conditions)'
      BY <1>1, <2>3 DEF BreakInv, GivenInv, KnownMap
    <2>5. \A x \in given : x[1] \in DOMAIN conditions' \/ x[2] \in deleted
      BY <2>1, <2>3 DEF BreakInv, GivenInv, Removable
    <2>6. GivenInv'
      BY <1>1, <2>4, <2>5 DEF BreakInv, GivenInv, KnownMap
    <2>7. DOMAIN conditionHandler' = Browsers /\ conditionHandler'[b] = [at |-> "list"]
      BY <2>2 DEF BreakInv
    <2>8. HandlerInv(conditionHandler[b])'
      BY <2>7 DEF HandlerInv, Counted
    <2>9. /\ conditionOrders[b] \in Seq(GoodOrders')
          /\ conditionLists[b] \in Seq(SUBSET GoodLines') /\ shown[b] \subseteq GoodLines'
      BY <1>1, ListsGrow
    <2> QED BY <1>1, <2>6, <2>7, <2>8, <2>9 DEF BreakInv
  <1> QED BY <1>4, <1>5 DEF Break!RemoveCondition

\* The reply tells of conditions as they are, or were when the map was read,
\* and of the ids reached by then.
LEMMA BreakFetchConditions ==
  ASSUME NEW b, Browsers = {b}, BreakInv(b), Break!FetchConditions(b),
         UNCHANGED <<shown, asked, checked, deleted, fired>>
  PROVE  BreakInv(b)'
  <1>1. UNCHANGED <<conditionCounter, conditions, conditionsReached, conditionOrders, given>>
    BY DEF Break!FetchConditions, Break!serverVars
  <1>2. DOMAIN conditionOrders' = Browsers /\ conditionOrders'[b] \in Seq(GoodOrders)
    BY <1>1 DEF BreakInv
  <1>3. HandlerInv(conditionHandler[b])
    BY DEF BreakInv
  <1>4. CASE conditionHandler[b].at = "list"
    <2>1. PICK h : /\ h = [at |-> "listing", read |-> conditions]
                   /\ conditionHandler' = [conditionHandler EXCEPT ![b] = h]
                   /\ UNCHANGED conditionLists
      BY <1>4 DEF Break!FetchConditions, Break!GoOn
    <2>2. HandlerInv(h)'
      BY <1>1, <2>1 DEF HandlerInv, Counted, BreakInv, GivenInv, KnownMap
    <2> QED BY <1>1, <1>2, <2>1, <2>2, BreakThread DEF BreakInv
  <1>5. CASE conditionHandler[b].at = "listing"
    <2> DEFINE read == conditionHandler[b].read
               lines == Break!Lines(read, conditionsReached)
    <2>1. KnownMap(read)
      BY <1>3, <1>5 DEF HandlerInv
    <2>2. /\ conditionHandler' = [conditionHandler EXCEPT ![b] = [at |-> "idle"]]
          /\ conditionLists' = [conditionLists EXCEPT ![b] = Append(conditionLists[b], lines)]
      BY <1>5 DEF Break!FetchConditions, Break!GoOn, Break!Idle
    <2>3. lines \subseteq GoodLines
      <3> SUFFICES ASSUME NEW i \in DOMAIN read
                   PROVE  [id |-> i, condition |-> read[i], reached |-> i \in conditionsReached]
                            \in GoodLines
        BY DEF Break!Lines
      <3>1. <<i, read[i]>> \in given
        BY <2>1 DEF KnownMap
      <3>2. i \in Nat /\ read[i] \in Break!Condition
        BY <3>1 DEF BreakInv, GivenInv
      <3>3. i \in conditionsReached => read[i] \in fired
        BY <3>1 DEF BreakInv, GivenInv
      <3> HIDE DEF read
      <3>4. CASE i \in conditionsReached
        <4>1. [id |-> i, condition |-> read[i], reached |-> TRUE] \in GoodLines
          BY <3>1, <3>2, <3>3, <3>4 DEF GoodLines
        <4>2. (i \in conditionsReached) = TRUE
          BY <3>4
        <4> QED BY <4>1, <4>2
      <3>5. CASE i \notin conditionsReached
        <4>1. [id |-> i, condition |-> read[i], reached |-> FALSE] \in GoodLines
          BY <3>1, <3>2, <3>5 DEF GoodLines
        <4>2. (i \in conditionsReached) = FALSE
          BY <3>5
        <4> QED BY <4>1, <4>2
      <3> QED BY <3>4, <3>5
    <2>4. /\ DOMAIN conditionLists' = Browsers
          /\ conditionLists'[b] = Append(conditionLists[b], lines)
          /\ conditionLists[b] \in Seq(SUBSET GoodLines)
      BY <2>2 DEF BreakInv
    <2>5. conditionLists'[b] \in Seq(SUBSET GoodLines)
      <3> HIDE DEF lines
      <3> QED BY <2>3, <2>4
    <2>6. HandlerInv([at |-> "idle"])'
      BY DEF HandlerInv, Counted
    <2> QED BY <1>1, <1>2, <2>2, <2>4, <2>5, <2>6, BreakThread
  <1> QED BY <1>4, <1>5 DEF Break!FetchConditions

LEMMA BreakRun ==
  ASSUME NEW b, Browsers = {b}, BreakInv(b), Break!RunStep
  PROVE  BreakInv(b)'
  <1>1. /\ UNCHANGED <<conditionCounter, conditions, conditionHandler, conditionOrders>>
        /\ UNCHANGED <<conditionLists, shown, asked, given, deleted>>
    BY DEF Break!RunStep, Break!clientVars
  <1>2. fired \subseteq fired'
    BY DEF Break!RunStep, Break!Perform, Break!StartCheck, Break!FinishCheck, Break!FailCheck,
           Break!Continue, Break!Pause, Break!Reset
  <1>3. KnownMap(checked')
    <2>1. checked' \in {checked, conditions, Break!NoConditions}
      BY DEF Break!RunStep, Break!Perform, Break!StartCheck, Break!FinishCheck, Break!FailCheck,
             Break!Continue, Break!Pause, Break!Reset
    <2> QED BY <2>1 DEF BreakInv, GivenInv, KnownMap, Break!NoConditions
  <1>4. \A i \in conditionsReached' : \E x \in given : x[1] = i /\ x[2] \in fired'
    <2>1. CASE Break!FinishCheck
      <3>1. PICK met \in SUBSET DOMAIN checked :
              conditionsReached' = met /\ fired' = fired \cup {checked[i] : i \in met}
        BY <2>1 DEF Break!FinishCheck
      <3>2. \A i \in met : <<i, checked[i]>> \in given /\ checked[i] \in fired'
        BY <3>1 DEF BreakInv, GivenInv, KnownMap
      <3>3. \A i \in met : \E x \in given : x[1] = i /\ x[2] \in fired'
        BY <3>2
      <3> QED BY <3>1, <3>3
    <2>2. CASE \/ Break!Perform \/ Break!StartCheck \/ Break!FailCheck \/ Break!Continue
               \/ Break!Pause \/ Break!Reset
      <3>1. conditionsReached' = conditionsReached \/ conditionsReached' = {}
        BY <2>2 DEF Break!Perform, Break!StartCheck, Break!FailCheck, Break!Continue, Break!Pause,
                    Break!Reset
      <3> QED BY <1>2, <3>1 DEF BreakInv, GivenInv
    <2> QED BY <2>1, <2>2 DEF Break!RunStep
  <1>5. GivenInv'
    BY <1>1, <1>3, <1>4 DEF BreakInv, GivenInv, KnownMap
  <1>6. HandlerInv(conditionHandler[b])'
    BY <1>1 DEF BreakInv, HandlerInv, Removable, KnownMap
  <1>7. /\ conditionOrders[b] \in Seq(GoodOrders')
        /\ conditionLists[b] \in Seq(SUBSET GoodLines') /\ shown[b] \subseteq GoodLines'
    BY <1>1, <1>2, ListsGrow
  <1> QED BY <1>1, <1>5, <1>6, <1>7 DEF BreakInv

LEMMA BreakStep ==
  ASSUME BreakAssumptions, NEW b, Browsers = {b}, BreakInv(b), [Break!Next]_(Break!vars)
  PROVE  BreakInv(b)'
  <1>1. CASE Break!BrowserStep(b)
    BY <1>1, BreakBrowser
  <1>2. CASE Break!ServerStep(b)
    <2>1. UNCHANGED <<shown, asked, checked, deleted, fired>>
      BY <1>2 DEF Break!ServerStep, Break!clientVars, Break!runVars
    <2> QED BY <1>2, <2>1, BreakFetch, BreakIncrement, BreakEnter, BreakRemove, BreakFetchConditions
            DEF Break!ServerStep
  <1>3. CASE Break!RunStep
    BY <1>3, BreakRun
  <1>4. CASE UNCHANGED Break!vars
    <2>1. /\ UNCHANGED <<conditionCounter, conditions, conditionsReached, conditionHandler>>
          /\ UNCHANGED <<conditionOrders, conditionLists, shown, asked, checked, given, deleted, fired>>
      BY <1>4 DEF Break!vars, Break!serverVars, Break!clientVars, Break!runVars
    <2>2. HandlerInv(conditionHandler[b])' /\ GivenInv'
      BY <2>1 DEF BreakInv, HandlerInv, GivenInv, Removable, KnownMap
    <2>3. /\ conditionOrders[b] \in Seq(GoodOrders')
          /\ conditionLists[b] \in Seq(SUBSET GoodLines') /\ shown[b] \subseteq GoodLines'
      BY <2>1, ListsGrow
    <2> QED BY <2>1, <2>2, <2>3 DEF BreakInv
  <1> QED BY <1>1, <1>2, <1>3, <1>4 DEF Break!Next

\* A condition of the only browser is there until its deletion has been ordered.
THEOREM ConditionsNothingLost ==
  ASSUME BreakAssumptions, NEW b, Browsers = {b}
  PROVE  Break!Spec => []NothingLost
  <1>1. BreakInv(b) => NothingLost
    BY DEF BreakInv, GivenInv, KnownMap, NothingLost
  <1>2. Break!Init => BreakInv(b)
    BY BreakInit
  <1>3. BreakInv(b) /\ [Break!Next]_(Break!vars) => BreakInv(b)'
    BY BreakStep
  <1> QED BY <1>1, <1>2, <1>3, PTL DEF Break!Spec

\* With one browser a line is highlighted only for a condition that was met.
THEOREM ConditionsHighlighted ==
  ASSUME BreakAssumptions, NEW b, Browsers = {b}
  PROVE  Break!Spec => []HighlightedWasMet
  <1>1. BreakInv(b) => HighlightedWasMet
    BY DEF BreakInv, GoodLines, HighlightedWasMet
  <1>2. Break!Init => BreakInv(b)
    BY BreakInit
  <1>3. BreakInv(b) /\ [Break!Next]_(Break!vars) => BreakInv(b)'
    BY BreakStep
  <1> QED BY <1>1, <1>2, <1>3, PTL DEF Break!Spec

\* With one browser ids are unique, as the comment at addCondition says.
THEOREM ConditionsUniqueIds ==
  ASSUME BreakAssumptions, NEW b, Browsers = {b}
  PROVE  Break!Spec => []UniqueIds
  <1>1. BreakInv(b) => UniqueIds
    BY DEF BreakInv, GivenInv, UniqueIds
  <1>2. Break!Init => BreakInv(b)
    BY BreakInit
  <1>3. BreakInv(b) /\ [Break!Next]_(Break!vars) => BreakInv(b)'
    BY BreakStep
  <1> QED BY <1>1, <1>2, <1>3, PTL DEF Break!Spec
===============================================================================
