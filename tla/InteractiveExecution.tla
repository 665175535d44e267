-------------------------- MODULE InteractiveExecution --------------------------
(***************************************************************************)
(* DefaultGraph.InteractiveExecution and the requests that reach it        *)
(* through the console server.  The calling thread of execute performs the *)
(* steps of an iteration and holds the monitor `lock' all the time but     *)
(* while it waits for stepTokens.  The threads of the web socket server    *)
(* run the commands of the browsers; step, collect, continue and reset     *)
(* take the monitor, pause and the first half of terminate do not.         *)
(***************************************************************************)
EXTENDS ConsoleConnections, Integers

CONSTANTS
  INTERVAL,      \* globalCheckInterval; 0: no global termination detection
  MAX_ITERATION, \* iteration is counted up to this bound
  NoOne          \* nobody holds the monitor

ASSUME IntervalAssumption == INTERVAL \in Nat
ASSUME MaxIterationAssumption == MAX_ITERATION \in Nat \ {0}

VARIABLES
  state, stepTokens, iteration, resetting, userTermination,
  collectSteps,  \* stats.collectSteps, modulo INTERVAL
  owner,         \* of the monitor
  at,            \* of the run thread: where it is
  phase,         \* of the run thread: which of the five steps of an iteration
  readTokens,    \* of the run thread: stepTokens as read by `stepTokens -= 1'
  handler,       \* per browser: its command, as far as the server has come with it
  fetched,       \* per browser: the state that was fetched for it and not yet sent
  fullStep       \* history: stepTokens are those that a collect has given

executionVars == <<state, stepTokens, iteration, resetting, userTermination,
                   collectSteps>>
runVars == <<at, phase, readTokens>>
requestVars == <<handler, fetched>>
serverVars == <<executionVars, owner, runVars, requestVars, fullStep>>

Infinite == -1
RunThread == "run"

\* Threads are told apart.
ASSUME ThreadsAssumption == RunThread \notin Browsers /\ NoOne \notin Browsers \cup {RunThread}

Commands == {"step", "collect", "continue", "pause", "reset", "terminate"}

Phases == 1 .. 5
Signalling == 1   Collecting == 3   GlobalChecks == 5
PausedBefore == <<"pausedBeforeSignal", "pausedBeforeChecksAfterSignal", "pausedBeforeCollect",
                  "pausedBeforeChecksAfterCollect", "pausedBeforeGlobalChecks">>
Performing == <<"signalling", "checksAfterSignal", "collecting", "checksAfterCollect",
                "globalChecks">>
Paused == {PausedBefore[p] : p \in Phases}

\* The state in which the run thread stays once a collect step has converged
\* or the global condition is met.
Final(p) == IF p = Collecting THEN "converged" ELSE "globalConditionReached"

Idle == [at |-> "idle", orphan |-> FALSE]
None == [provider |-> "none"]

\* StateDataProvider.fetch.
StateMessage(s, tokens) == [provider |-> "state", state |-> s, steps |-> tokens]
StateFetched ==
  CASE at = "starting" -> StateMessage("undetermined", 0)
    [] at = "configured" -> [provider |-> "state", state |-> "mode"]
    [] OTHER -> StateMessage(state, stepTokens)

ServerStart(where, s, i) ==
  /\ at = where /\ state = s /\ iteration = i
  /\ stepTokens = 0 /\ collectSteps = 0
  /\ resetting = FALSE /\ userTermination = FALSE
  /\ owner = NoOne
  /\ phase = 1 /\ readTokens = 0
  /\ handler = [b \in Browsers |-> Idle]
  /\ fetched = [b \in Browsers |-> None]
  /\ fullStep = FALSE

\* The console is up before there is an execution; later, the execution waits
\* before the first step.
ServerInit == ServerStart("starting", "initExecution", 0)
ServerSettled == ServerStart("waiting", "pausedBeforeSignal", 1)

-------------------------------------------------------------------------------
(* The run thread. *)

ShouldCheckGlobalCondition == INTERVAL > 0 /\ collectSteps = 0

\* setState: the state, and the message that informs all clients of it.  If
\* that throws in the run thread, run is left and the monitor with it.
Publish(s, tokens) == state' = s /\ Broadcast(StateMessage(s, tokens))
PublishThrows(s, tokens) == state' = s /\ BroadcastThrows(StateMessage(s, tokens))
Fail == at' = "failed" /\ owner' = NoOne

\* execute makes the configuration known, then the execution, which takes a
\* snapshot of the graph before it runs.
StartUp ==
  /\ \/ at = "starting" /\ at' = "configured"
     \/ at = "configured" /\ at' = "constructed"
  /\ UNCHANGED <<executionVars, owner, phase, readTokens, connectionVars, requestVars, fullStep>>

EnterRun ==
  /\ at = "constructed"
  /\ owner = NoOne
  /\ owner' = RunThread
  /\ at' = "loop"
  /\ UNCHANGED <<executionVars, phase, readTokens, connectionVars, requestVars, fullStep>>

\* The head of the loop; leaving it leaves the monitor.
Loop ==
  /\ at = "loop"
  /\ IF userTermination
     THEN at' = "ended" /\ owner' = NoOne /\ UNCHANGED <<iteration, phase>>
     ELSE /\ iteration' = IF iteration < MAX_ITERATION THEN iteration + 1 ELSE iteration
          /\ phase' = 1
          /\ at' = "check"
          /\ UNCHANGED owner
  /\ UNCHANGED <<state, stepTokens, resetting, userTermination, collectSteps,
                 readTokens, connectionVars, requestVars, fullStep>>

\* Faulty variant of NextPhase: `resetting = false' is left out.
NextPhaseStillResetting ==
  IF phase < 4 \/ (phase = 4 /\ ShouldCheckGlobalCondition)
  THEN at' = "check" /\ phase' = phase + 1 /\ UNCHANGED resetting
  ELSE at' = "loop" /\ UNCHANGED <<phase, resetting>>

\* What follows the current step: the next one, or the end of the iteration.
NextPhase ==
  IF phase < 4 \/ (phase = 4 /\ ShouldCheckGlobalCondition)
  THEN at' = "check" /\ phase' = phase + 1 /\ UNCHANGED resetting
  ELSE at' = "loop" /\ resetting' = FALSE /\ UNCHANGED phase

\* waitAs, with `name' the state to wait in: "check" before a step, "hold"
\* after the computation is done.
WaitAs(here, waiting, name, Then) ==
  /\ at = here
  /\ IF stepTokens = 0 /\ ~ resetting
     THEN /\ \/ Publish(name, stepTokens) /\ at' = waiting /\ owner' = NoOne
             \/ PublishThrows(name, stepTokens) /\ Fail
          /\ UNCHANGED <<phase, resetting>>
     ELSE Then /\ UNCHANGED <<state, toClient, owner>>
  /\ UNCHANGED <<stepTokens, iteration, userTermination, collectSteps, readTokens,
                 link, lingering, toServer, cuts, requestVars, fullStep>>

WaitBeforeStep ==
  WaitAs("check", "waiting", PausedBefore[phase], at' = "perform" /\ UNCHANGED <<phase, resetting>>)
WaitWhenDone == WaitAs("hold", "holding", Final(phase), NextPhase)

\* The monitor after a notifyAll.
Reenter ==
  /\ at \in {"woken", "wokenHolding"}
  /\ owner = NoOne
  /\ owner' = RunThread
  /\ at' = IF at = "woken" THEN "check" ELSE "hold"
  /\ UNCHANGED <<executionVars, phase, readTokens, connectionVars, requestVars, fullStep>>

\* performStep: the test and the state,
PerformStep ==
  /\ at = "perform"
  /\ IF resetting
     THEN NextPhase /\ UNCHANGED <<state, toClient, owner>>
     ELSE /\ \/ Publish(Performing[phase], stepTokens) /\ at' = "test" /\ UNCHANGED owner
             \/ PublishThrows(Performing[phase], stepTokens) /\ Fail
          /\ UNCHANGED <<phase, resetting>>
  /\ UNCHANGED <<stepTokens, iteration, userTermination, collectSteps, readTokens,
                 link, lingering, toServer, cuts, requestVars, fullStep>>

\* Faulty variant of UseToken: the infinite token is used up as well.
UseTokenUnchecked ==
  /\ \/ at \in {"test", "read"} /\ readTokens' = stepTokens /\ at' = "write" /\ UNCHANGED stepTokens
     \/ at = "write" /\ stepTokens' = readTokens - 1 /\ readTokens' = 0 /\ at' = "operate"
  /\ UNCHANGED <<state, iteration, resetting, userTermination, collectSteps, owner,
                 phase, connectionVars, requestVars, fullStep>>

\* `if (stepTokens > 0) { stepTokens -= 1 }', while pause writes 0 without the monitor,
UseToken ==
  /\ \/ /\ at = "test"
        /\ at' = IF stepTokens > 0 THEN "read" ELSE "operate"
        /\ UNCHANGED <<stepTokens, readTokens>>
     \/ /\ at = "read"
        /\ readTokens' = stepTokens
        /\ at' = "write"
        /\ UNCHANGED stepTokens
     \/ /\ at = "write"
        /\ stepTokens' = readTokens - 1
        /\ readTokens' = 0
        /\ at' = "operate"
  /\ UNCHANGED <<state, iteration, resetting, userTermination, collectSteps, owner,
                 phase, connectionVars, requestVars, fullStep>>

\* and the step itself.
Signal ==
  /\ phase = Signalling
  /\ NextPhase
  /\ UNCHANGED <<state, stepTokens, collectSteps, owner, toClient, fullStep>>

\* checkBreakConditions reads the state again for the aggregator, after
\* terminate may have written it without the monitor.  Of a state that is not
\* one of the checks a worker can make nothing once it comes to the vertex of a
\* condition: it dies, and does not answer.
CheckBreakConditions ==
  /\ phase \in {2, 4}
  /\ IF state = Performing[phase]
     THEN at' = "aggregate" /\ UNCHANGED <<phase, resetting>>
     ELSE \/ NextPhase
          \/ at' = "unanswered" /\ UNCHANGED <<phase, resetting>>
  /\ UNCHANGED <<state, stepTokens, collectSteps, owner, toClient, fullStep>>

Collect ==
  /\ phase = Collecting
  /\ collectSteps' = IF INTERVAL = 0 THEN 0 ELSE (collectSteps + 1) % INTERVAL
  /\ \/ NextPhase /\ UNCHANGED stepTokens
     \/ stepTokens' = 0 /\ at' = "hold" /\ UNCHANGED <<phase, resetting>>
  /\ UNCHANGED <<state, owner, toClient, fullStep>>

CheckGlobalCondition ==
  /\ phase = GlobalChecks
  /\ \/ NextPhase /\ UNCHANGED stepTokens
     \/ stepTokens' = 0 /\ at' = "hold" /\ UNCHANGED <<phase, resetting>>
  /\ UNCHANGED <<state, collectSteps, owner, toClient, fullStep>>

Operate ==
  /\ at = "operate"
  /\ Signal \/ CheckBreakConditions \/ Collect \/ CheckGlobalCondition
  /\ UNCHANGED <<iteration, userTermination, readTokens, link, lingering, toServer, cuts,
                 requestVars>>

\* aggregateAll: whether a condition is reached depends on the graph.  After
\* collecting, the state of a vertex may also be no number, of which a worker dies.
AggregateConditions ==
  /\ at = "aggregate"
  /\ \/ NextPhase /\ UNCHANGED <<state, stepTokens, owner, toClient, fullStep>>
     \/ /\ stepTokens' = 0
        /\ fullStep' = FALSE
        /\ \/ Publish("pausing", 0) /\ NextPhase /\ UNCHANGED owner
           \/ PublishThrows("pausing", 0) /\ Fail /\ UNCHANGED <<phase, resetting>>
     \/ /\ phase = 4
        /\ at' = "unanswered"
        /\ UNCHANGED <<state, stepTokens, phase, resetting, owner, toClient, fullStep>>
  /\ UNCHANGED <<iteration, userTermination, collectSteps, readTokens, link, lingering,
                 toServer, cuts, requestVars>>

\* The proxy of a worker waits two hours for an answer, then it throws; run is
\* left, and the monitor, which nobody else has had in the meantime.
TimeOut ==
  /\ at = "unanswered"
  /\ at' = "timedOut"
  /\ owner' = NoOne
  /\ UNCHANGED <<executionVars, phase, readTokens, connectionVars, requestVars, fullStep>>

\* After run, execute stops the server, and with it all connections.
Shutdown ==
  /\ at = "ended"
  /\ at' = "stopped"
  /\ link' = {} /\ lingering' = {}
  /\ toServer' = [b \in Browsers |-> <<>>] /\ toClient' = [b \in Browsers |-> <<>>]
  /\ handler' = [b \in Browsers |-> [handler[b] EXCEPT !.orphan = handler[b].at # "idle"]]
  /\ fetched' = [b \in Browsers |-> None]
  /\ UNCHANGED <<executionVars, owner, phase, readTokens, cuts, fullStep>>

RunThreadStep ==
  \/ StartUp \/ EnterRun \/ Loop \/ WaitBeforeStep \/ WaitWhenDone \/ Reenter
  \/ PerformStep \/ UseToken \/ Operate \/ AggregateConditions \/ TimeOut \/ Shutdown

-------------------------------------------------------------------------------
(* The commands, on the threads of the web socket server. *)

GoOn(b, next) == handler' = [handler EXCEPT ![b].at = next]

\* Faulty variant of NotifyAll: a computation that is done is not woken.
NotifyAllPaused == at' = IF at = "waiting" THEN "woken" ELSE at

NotifyAll ==
  at' = CASE at = "waiting" -> "woken"
          [] at = "holding" -> "wokenHolding"
          [] OTHER -> at

\* The tokens that complete an iteration; elsewhere a MatchError.
TokensToCollect(s) == 5 - CHOOSE p \in Phases : PausedBefore[p] = s

\* onMessage takes up a command.
Accept(b) ==
  /\ handler[b].at = "idle"
  /\ fetched[b] = None
  /\ toServer[b] # <<>> /\ Head(toServer[b]) \in Commands
  /\ handler' = [handler EXCEPT ![b] = [at |-> Head(toServer[b]), orphan |-> FALSE]]
  /\ toServer' = [toServer EXCEPT ![b] = Tail(@)]
  /\ UNCHANGED <<executionVars, owner, runVars, link, lingering, toClient, cuts, fetched,
                 fullStep>>

\* step and continue.
GiveTokens(b, command, tokens) ==
  /\ handler[b].at = command
  /\ owner = NoOne
  /\ stepTokens' = tokens
  /\ fullStep' = FALSE
  /\ NotifyAll
  /\ GoOn(b, "accepted")
  /\ UNCHANGED <<state, resetting, owner, toClient, iteration>>

\* collect: the assignment, which no state but the paused ones has, and the
\* token for a global check.
CollectCommand(b) ==
  /\ \/ /\ handler[b].at = "collect"
        /\ owner = NoOne
        /\ IF state \in Paused
           THEN /\ stepTokens' = TokensToCollect(state)
                /\ owner' = b
                /\ fullStep' = TRUE
                /\ GoOn(b, "collectMore")
           ELSE GoOn(b, "error") /\ UNCHANGED <<stepTokens, owner, fullStep>>
        /\ UNCHANGED at
     \/ /\ handler[b].at = "collectMore"
        /\ stepTokens' = IF ShouldCheckGlobalCondition THEN stepTokens + 1 ELSE stepTokens
        /\ NotifyAll
        /\ owner' = NoOne
        /\ GoOn(b, "accepted")
        /\ UNCHANGED fullStep
  /\ UNCHANGED <<state, resetting, toClient, iteration>>

\* pause, also the first thing that reset does.
Pause(b) ==
  /\ handler[b].at \in {"pause", "reset"}
  /\ stepTokens' = 0
  /\ fullStep' = FALSE
  /\ GoOn(b, IF handler[b].at = "pause" THEN "accepted" ELSE "resetting")
  /\ UNCHANGED <<state, resetting, owner, toClient, iteration, at>>

\* reset, inside the monitor: the state is published first.  A worker that has
\* died does not reset its vertices: that throws, when all else has been set.
Reset(b) ==
  /\ \/ /\ handler[b].at = "resetting"
        /\ owner = NoOne
        /\ \/ Publish("resetting", stepTokens) /\ owner' = b /\ GoOn(b, "resetGraph")
           \/ PublishThrows("resetting", stepTokens) /\ UNCHANGED owner /\ GoOn(b, "error")
        /\ UNCHANGED <<resetting, stepTokens, iteration, at, fullStep>>
     \/ /\ handler[b].at = "resetGraph"
        /\ resetting' = TRUE
        /\ stepTokens' = 0
        /\ iteration' = 0
        /\ fullStep' = FALSE
        /\ NotifyAll
        /\ owner' = NoOne
        /\ GoOn(b, IF at = "timedOut" THEN "error" ELSE "accepted")
        /\ UNCHANGED <<state, toClient>>

\* Faulty variant of TerminateCommand: the steps that are left are not skipped.
TerminateCommandInFull(b) ==
  /\ \/ /\ handler[b].at = "terminate"
        /\ userTermination' = TRUE
        /\ \/ Publish("terminating", stepTokens) /\ GoOn(b, "terminating")
           \/ PublishThrows("terminating", stepTokens) /\ GoOn(b, "error")
        /\ UNCHANGED <<resetting, stepTokens, at>>
     \/ /\ handler[b].at = "terminating"
        /\ stepTokens' = 0
        /\ GoOn(b, "terminateContinue")
        /\ UNCHANGED <<state, resetting, userTermination, toClient, at>>
     \/ /\ handler[b].at = "terminateContinue"
        /\ owner = NoOne
        /\ stepTokens' = Infinite
        /\ NotifyAll
        /\ GoOn(b, "accepted")
        /\ UNCHANGED <<state, resetting, userTermination, toClient>>
  /\ UNCHANGED <<owner, iteration, fullStep>>

\* terminate; its last step is a continue.
TerminateCommand(b) ==
  /\ \/ /\ handler[b].at = "terminate"
        /\ userTermination' = TRUE
        /\ \/ Publish("terminating", stepTokens) /\ GoOn(b, "terminating")
           \/ PublishThrows("terminating", stepTokens) /\ GoOn(b, "error")
        /\ UNCHANGED <<resetting, stepTokens, at>>
     \/ /\ handler[b].at = "terminating"
        /\ resetting' = TRUE
        /\ stepTokens' = 0
        /\ GoOn(b, "terminateContinue")
        /\ UNCHANGED <<state, userTermination, toClient, at>>
     \/ /\ handler[b].at = "terminateContinue"
        /\ owner = NoOne
        /\ stepTokens' = Infinite
        /\ NotifyAll
        /\ GoOn(b, "accepted")
        /\ UNCHANGED <<state, resetting, userTermination, toClient>>
  /\ UNCHANGED <<owner, iteration, fullStep>>

\* The answer to a command: accepted, or an error.
Answer(b) ==
  /\ handler[b].at \in {"accepted", "error"}
  /\ IF handler[b].orphan
     THEN UNCHANGED toClient
     ELSE Reply(b, [provider |-> IF handler[b].at = "accepted" THEN "controls" ELSE "error"])
  /\ handler' = [handler EXCEPT ![b] = Idle]
  /\ UNCHANGED <<executionVars, owner, runVars, link, lingering, toServer, cuts, fetched,
                 fullStep>>

\* A request for the state is fetched at one time and sent at another.
FetchState(b) ==
  /\ handler[b].at = "idle" \/ handler[b].orphan
  /\ fetched[b] = None
  /\ toServer[b] # <<>> /\ Head(toServer[b]) = "state"
  /\ fetched' = [fetched EXCEPT ![b] = StateFetched]
  /\ toServer' = [toServer EXCEPT ![b] = Tail(@)]
  /\ UNCHANGED <<executionVars, owner, runVars, link, lingering, toClient, cuts, handler,
                 fullStep>>

SendState(b) ==
  /\ fetched[b] # None
  /\ Reply(b, fetched[b])
  /\ fetched' = [fetched EXCEPT ![b] = None]
  /\ UNCHANGED <<executionVars, owner, runVars, link, lingering, toServer, cuts, handler,
                 fullStep>>

Command(b) ==
  /\ \/ /\ \/ GiveTokens(b, "step", 1) \/ GiveTokens(b, "continue", Infinite)
           \/ CollectCommand(b) \/ Pause(b) \/ Reset(b)
        /\ UNCHANGED userTermination
     \/ TerminateCommand(b)
  /\ UNCHANGED <<collectSteps, phase, readTokens, link, lingering, toServer, cuts, fetched>>

CommandStep(b) == Accept(b) \/ Command(b) \/ Answer(b)
StateRequestStep(b) == FetchState(b) \/ SendState(b)

\* What the loss of a connection means to the requests that came over it.
Orphan(b) ==
  /\ handler' = [handler EXCEPT ![b].orphan = handler[b].at # "idle"]
  /\ fetched' = [fetched EXCEPT ![b] = None]
===============================================================================
