------------------------------- MODULE WebConsole -------------------------------
(***************************************************************************)
(* The complete console: browsers, their connections, the server and the   *)
(* interactive execution that they control.                                *)
(***************************************************************************)
EXTENDS InteractiveExecution, ConsoleClient

vars == <<connectionVars, serverVars, clientVars>>

\* The server starts and one of the browsers shows the page; or all of them
\* have connected, seen the computation paused, and stay connected.
Init ==
  \/ ConnectionsInit({}, 0) /\ ServerInit /\ \E b \in Browsers : ClientInit({b})
  \/ ConnectionsInit(Browsers, MAX_CUTS) /\ ServerSettled /\ ClientSettled

Reachable == at \notin {"ended", "stopped"}

\* A browser acts by itself; the server is there until it has been stopped.
BrowserStep(b) ==
  \/ ClientStep(b) /\ UNCHANGED serverVars
  \/ Open(b) /\ Reachable /\ UNCHANGED serverVars
  \/ /\ Receive(b)
     /\ IF socket'[b] = "closing" THEN Orphan(b) ELSE UNCHANGED requestVars
     /\ UNCHANGED <<executionVars, owner, runVars, fullStep>>

UserStep(b) == \E control \in Commands : Click(b, control) /\ UNCHANGED serverVars

ConnectionStep(b) ==
  \/ /\ Cut(b) /\ Orphan(b)
     /\ UNCHANGED <<executionVars, owner, runVars, fullStep, clientVars>>
  \/ Remove(b) /\ UNCHANGED <<serverVars, clientVars>>

ServeCommand(b) == CommandStep(b) /\ UNCHANGED clientVars
ServeState(b) == StateRequestStep(b) /\ UNCHANGED clientVars

RunStep == RunThreadStep /\ UNCHANGED clientVars

Next ==
  \/ RunStep
  \/ \E b \in Browsers : BrowserStep(b) \/ UserStep(b) \/ ConnectionStep(b)
                       \/ ServeCommand(b) \/ ServeState(b)

\* Threads run, timers fire and messages arrive; what a user does and when a
\* connection breaks is left open.
Fairness ==
  /\ WF_vars(RunStep)
  /\ \A b \in Browsers :
       /\ WF_vars(ServeCommand(b))
       /\ WF_vars(ServeState(b))
       /\ WF_vars(BrowserStep(b))
       /\ WF_vars(Remove(b) /\ UNCHANGED <<serverVars, clientVars>>)

Spec == Init /\ [][Next]_vars /\ Fairness

-------------------------------------------------------------------------------

TypeOK ==
  /\ link \subseteq Browsers /\ lingering \subseteq Browsers /\ cuts \in 0 .. MAX_CUTS
  /\ stepTokens \in -1 .. 5
  /\ iteration \in 0 .. MAX_ITERATION
  /\ collectSteps \in 0 .. INTERVAL
  /\ {resetting, fullStep, userTermination} \subseteq BOOLEAN
  /\ owner \in Browsers \cup {NoOne, RunThread}
  /\ phase \in Phases /\ readTokens \in 0 .. 5
  /\ \A b \in Browsers :
       /\ opened[b] \in Int
       /\ enabled[b] \subseteq Commands
       /\ retries[b] \in 0 .. MAX_CUTS + 1
       /\ {pendingCommand[b], recreate[b], reconnectAttempt[b]} \subseteq BOOLEAN
  /\ clicks \in 0 .. MAX_CLICKS

\* The monitor of InteractiveExecution loses no wake-up: the run thread sleeps
\* with stepTokens to use, or in spite of a reset, only while a thread that has
\* changed them without the monitor is on its way to notify it.
NoSleepingWithTokens ==
  at \in {"waiting", "holding"} /\ (stepTokens # 0 \/ resetting) =>
    \E b \in Browsers : handler[b].at \in {"collectMore", "terminateContinue"}

\* A browser never has two commands on their way, however messages, timers,
\* broadcasts and lost connections interleave: the server is not asked to do
\* something on the sight of a state that the previous command is changing.
Outstanding(b) ==
  {<<"request", i>> : i \in {i \in DOMAIN toServer[b] : toServer[b][i] \in Commands}}
  \cup {<<"handler", i>> : i \in {i \in {0} : handler[b].at # "idle"}}
  \cup {<<"answer", i>> : i \in {i \in DOMAIN toClient[b] : toClient[b][i].provider = "controls"}}
OneCommandAtATime ==
  \A b \in Browsers :
    /\ \A c, d \in Outstanding(b) : c = d
    /\ enabled[b] # {} => Outstanding(b) = {}

\* InteractiveExecution.collect, "Complete the current iteration and pause
\* before the next signal step": if nothing else gave or took tokens since.
CollectCompletesIteration ==
  at = "waiting" /\ owner = NoOne /\ fullStep /\ stepTokens = 0 /\ ~ resetting =>
    PausedBefore[phase] = "pausedBeforeSignal"

\* The execution implements the abstract one: no command of any browser makes
\* it skip or repeat a step of an iteration, and a reset never comes before
\* there is something to reset.
Course ==
  INSTANCE Iterations WITH
    next <- IF resetting \/ at \notin {"check", "hold", "waiting", "holding", "woken",
                                       "wokenHolding", "perform", "test", "read", "write",
                                       "operate", "aggregate", "unanswered", "failed",
                                       "timedOut"}
            THEN 0 ELSE phase,
    over <- userTermination
FollowsIterations == [][Course!Next]_(Course!vars)

\* A terminate command that got past the notification of the clients ends the
\* execution, unless its thread fails: at a broadcast over a connection that is
\* not open, or in a check whose worker has died, after the proxy's time-out.
\* It does not iterate for good, nor does it wait for good: for tokens, or for
\* terminate's continue, which needs the monitor that a check may hold meanwhile.
TerminateEnds ==
  (\E b \in Browsers : handler[b].at = "terminating") ~>
    at \in {"stopped", "failed", "timedOut"}

\* The consumers are opened once per connection and closed once: a connection
\* that fails, is lost, is closed by terminate or by the server never leaves
\* two canvases behind, nor closes one that belongs to a newer connection.
OpenedOncePerConnection ==
  \A b \in Browsers : opened[b] = IF socket[b] \in {"open", "closing"} THEN 1 ELSE 0

===============================================================================
