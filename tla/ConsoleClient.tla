------------------------------ MODULE ConsoleClient ------------------------------
(***************************************************************************)
(* The console in a browser: the ReconnectingWebSocket, the handlers that  *)
(* main.js hangs on it, the orders of main.js and the State module with    *)
(* the control buttons.  Of the other modules (graph, charts, ...) only    *)
(* that they are opened and closed with the connection.                    *)
(***************************************************************************)
EXTENDS ConsoleConnections, Integers

CONSTANT MAX_CLICKS   \* bound on the clicks of all users together

ASSUME MaxClicksAssumption == MAX_CLICKS \in Nat

VARIABLES
  socket,            \* "connecting", "open", "closing", "retrying" (a timer will
                     \* connect again) or "closed"
  reconnectAttempt,  \* of the connection that is being set up
  recreate,          \* the timer of terminate that calls createWebSocket is set
  opened,            \* how often the consumers were opened and not closed
  pendingCommand,
  enabled,           \* the buttons that are not blocked
  retries,           \* the timers of onmessage for an undetermined state
  clicks

socketVars == <<socket, reconnectAttempt, recreate, opened>>
stateModuleVars == <<pendingCommand, enabled, retries>>
clientVars == <<socketVars, stateModuleVars, clicks>>

Buttons == {"step", "collect", "continue", "pause", "reset", "terminate"}
PausedStates == {"pausedBeforeSignal", "pausedBeforeChecksAfterSignal", "pausedBeforeCollect",
                 "pausedBeforeChecksAfterCollect", "pausedBeforeGlobalChecks"}
DoneStates == {"converged", "globalConditionReached"}
NotInteractive == {"mode", "initExecution"}

\* The page is shown in the browsers `shown': all modules are enabled, the HTML
\* has blocked buttons, and the web socket is created (connect(url) takes the
\* url for its parameter reconnectAttempt).
ClientInit(shown) ==
  /\ socket = [b \in Browsers |-> IF b \in shown THEN "connecting" ELSE "closed"]
  /\ reconnectAttempt = [b \in Browsers |-> TRUE]
  /\ recreate = [b \in Browsers |-> FALSE]
  /\ opened = [b \in Browsers |-> 0]
  /\ pendingCommand = [b \in Browsers |-> FALSE]
  /\ enabled = [b \in Browsers |-> {}]
  /\ retries = [b \in Browsers |-> 0]
  /\ clicks = 0

\* Later: connected, with the buttons of a paused computation.
ClientSettled ==
  /\ socket = [b \in Browsers |-> "open"]
  /\ reconnectAttempt = [b \in Browsers |-> FALSE]
  /\ recreate = [b \in Browsers |-> FALSE]
  /\ opened = [b \in Browsers |-> 1]
  /\ pendingCommand = [b \in Browsers |-> FALSE]
  /\ enabled = [b \in Browsers |-> Buttons \ {"pause"}]
  /\ retries = [b \in Browsers |-> 0]
  /\ clicks = 0

-------------------------------------------------------------------------------
(* The connection. *)

Connect(b, attempt) ==
  /\ socket' = [socket EXCEPT ![b] = "connecting"]
  /\ reconnectAttempt' = [reconnectAttempt EXCEPT ![b] = attempt]

\* scc.order without delay: what is sent on a socket that is not connected is
\* lost (send throws and order catches, or the browser drops it).
Order(b, request) ==
  toServer' = IF socket'[b] = "open" /\ b \in link'
              THEN [toServer EXCEPT ![b] = Append(@, request)]
              ELSE toServer

\* The server accepts; every consumer is opened and State orders the state.
Open(b) ==
  /\ socket[b] = "connecting"
  /\ socket' = [socket EXCEPT ![b] = "open"]
  /\ reconnectAttempt' = [reconnectAttempt EXCEPT ![b] = FALSE]
  /\ opened' = [opened EXCEPT ![b] = @ + 1]
  /\ link' = link \cup {b}
  /\ Order(b, "state")
  /\ UNCHANGED <<recreate, stateModuleVars, clicks, lingering, toClient, cuts>>

\* Faulty variant of ConnectFails: every failed attempt is announced.
ConnectFailsAnnounced(b) ==
  /\ socket[b] = "connecting"
  /\ socket' = [socket EXCEPT ![b] = "retrying"]
  /\ opened' = [opened EXCEPT ![b] = @ - 1]
  /\ UNCHANGED <<reconnectAttempt, recreate, stateModuleVars, clicks, connectionVars>>

\* The attempt fails, or takes longer than timeoutInterval: of a first
\* connection that is never opened, nobody is told.
ConnectFails(b) ==
  /\ socket[b] = "connecting"
  /\ socket' = [socket EXCEPT ![b] = "retrying"]
  /\ IF reconnectAttempt[b]
     THEN UNCHANGED opened
     ELSE opened' = [opened EXCEPT ![b] = @ - 1]
  /\ UNCHANGED <<reconnectAttempt, recreate, stateModuleVars, clicks, connectionVars>>

Retry(b) ==
  /\ socket[b] = "retrying"
  /\ Connect(b, TRUE)
  /\ UNCHANGED <<recreate, opened, stateModuleVars, clicks, connectionVars>>

\* onclose of main.js closes the consumers; State blocks its buttons and
\* leaves pendingCommand as it is.
CloseConsumers(b) ==
  /\ opened' = [opened EXCEPT ![b] = @ - 1]
  /\ enabled' = [enabled EXCEPT ![b] = {}]
  /\ UNCHANGED <<pendingCommand, retries>>

\* The browser notices that its connection is gone.
OnClose(b) ==
  /\ socket[b] \in {"open", "closing"}
  /\ b \notin link
  /\ socket' = [socket EXCEPT ![b] = IF @ = "open" THEN "retrying" ELSE "closed"]
  /\ CloseConsumers(b)
  /\ UNCHANGED <<reconnectAttempt, recreate, clicks, connectionVars>>

\* createWebSocket again, ten seconds after terminate.
Recreate(b) ==
  /\ recreate[b]
  /\ socket[b] = "closed"
  /\ recreate' = [recreate EXCEPT ![b] = FALSE]
  /\ Connect(b, TRUE)
  /\ UNCHANGED <<opened, stateModuleVars, clicks, connectionVars>>

-------------------------------------------------------------------------------
(* What the user and the timers do. *)

\* A click on a button that is not blocked.
Click(b, control) ==
  /\ clicks < MAX_CLICKS
  /\ control \in enabled[b]
  /\ clicks' = clicks + 1
  /\ pendingCommand' = [pendingCommand EXCEPT ![b] = TRUE]
  /\ enabled' = [enabled EXCEPT ![b] = {}]
  /\ UNCHANGED <<socketVars, retries, link>>
  /\ Order(b, control)
  /\ UNCHANGED <<lingering, toClient, cuts>>

\* The timer of an undetermined state; nothing cancels it.
RetryState(b) ==
  /\ retries[b] > 0
  /\ retries' = [retries EXCEPT ![b] = @ - 1]
  /\ UNCHANGED <<socketVars, pendingCommand, enabled, clicks, link>>
  /\ Order(b, "state")
  /\ UNCHANGED <<lingering, toClient, cuts>>

-------------------------------------------------------------------------------
(* State.onmessage. *)

\* Faulty variant of EnabledButtons: pendingCommand is not looked at.
EnabledButtonsAlways(b, buttons) == buttons

\* enabledButtons: none while a command is pending on the server.
EnabledButtons(b, buttons) == IF pendingCommand[b] THEN enabled[b] ELSE buttons

\* The buttons that a state offers, or those that are enabled already.
ButtonsFor(b, s, steps) ==
  CASE steps = -1 /\ s \notin DoneStates -> EnabledButtons(b, {"pause", "terminate"})
    [] s \in PausedStates /\ steps # -1 ->
         EnabledButtons(b, {"reset", "step", "collect", "continue", "terminate"})
    [] s \in {"signalling", "collecting"} /\ steps = 0 -> EnabledButtons(b, {"terminate"})
    [] s \in DoneStates -> EnabledButtons(b, {"reset", "terminate"})
    [] s = "resetting" /\ steps = 0 -> {}
    [] OTHER -> enabled[b]

OnControls(b) ==
  /\ pendingCommand' = [pendingCommand EXCEPT ![b] = FALSE]
  /\ UNCHANGED <<enabled, retries, socket, recreate, link, lingering, toServer>>

\* resetting: all is set up anew; terminating: the socket is closed, and a
\* timer will create another.
OnState(b, s, steps) ==
  /\ enabled' = [enabled EXCEPT ![b] = ButtonsFor(b, s, steps)]
  /\ IF s = "terminating" /\ steps = 0
     THEN /\ socket' = [socket EXCEPT ![b] = "closing"]
          /\ recreate' = [recreate EXCEPT ![b] = TRUE]
          /\ link' = link \ {b}
          /\ lingering' = lingering \cup {b}
          /\ toServer' = [toServer EXCEPT ![b] = <<>>]
     ELSE /\ UNCHANGED <<socket, recreate, link, lingering>>
          /\ IF s = "resetting" /\ steps = 0 THEN Order(b, "state") ELSE UNCHANGED toServer
  /\ UNCHANGED <<pendingCommand, retries>>

OnUndetermined(b) ==
  /\ retries' = [retries EXCEPT ![b] = @ + 1]
  /\ UNCHANGED <<pendingCommand, enabled, socket, recreate, link, lingering, toServer>>

\* An error is shown; a mode that is not interactive, and an execution that
\* does not run yet, offer no buttons.
OnOther == UNCHANGED <<stateModuleVars, socket, recreate, link, lingering, toServer>>

OnMessage(b, m) ==
  \/ m.provider = "controls" /\ OnControls(b)
  \/ m.provider = "error" /\ OnOther
  \/ /\ m.provider = "state"
     /\ \/ m.state = "undetermined" /\ OnUndetermined(b)
        \/ m.state \in NotInteractive /\ OnOther
        \/ m.state \notin NotInteractive \cup {"undetermined"} /\ OnState(b, m.state, m.steps)

Receive(b) ==
  /\ socket[b] = "open"
  /\ toClient[b] # <<>>
  /\ OnMessage(b, Head(toClient[b]))
  /\ toClient' = [toClient EXCEPT ![b] = IF socket'[b] = "closing" THEN <<>> ELSE Tail(@)]
  /\ UNCHANGED <<reconnectAttempt, opened, clicks, cuts>>

ClientStep(b) ==
  ConnectFails(b) \/ Retry(b) \/ OnClose(b) \/ Recreate(b) \/ RetryState(b)
===============================================================================
