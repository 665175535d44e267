----------------------------- MODULE IdleDetection -----------------------------
(***************************************************************************)
(* How DefaultGraph.awaitIdle learns that the workers have nothing left to *)
(* do: the workers (AkkaWorker), the two detectors of the node actor, the  *)
(* coordinator and the driving thread, as GraphBuilder configures them for *)
(* DynDCO (one local node, eager idle detection, no throttling, no stats   *)
(* reporting interval).                                                    *)
(*                                                                         *)
(* A worker counts what it sends to each worker and to the coordinator     *)
(* (replies), and what it receives.  Its status carries the counts and an  *)
(* idle flag, travels through the node actor, which holds back what cannot *)
(* lead to a detection, and reaches the coordinator, which answers         *)
(* awaitIdle when its latest statuses are all idle and the counts match.   *)
(***************************************************************************)
EXTENDS Integers, Sequences, FiniteSetsExt

CONSTANTS
  Workers,
  NoStatus,      \* null
  Program,       \* what the driving thread calls, one after the other
  MAX_SIGNALS    \* bound on the signals of a run: the vertices converge

Requests == {"initializeIdleDetection", "signalStep", "collectStep",
             "startComputation", "pauseComputation"}

ASSUME WorkersAssumption == IsFiniteSet(Workers)
ASSUME ProgramAssumption == Program \in Seq(Requests \cup {"addVertex", "awaitIdle"})
ASSUME MaxSignalsAssumption == MAX_SIGNALS \in Nat

VARIABLES
  \* per worker
  isIdle, isPaused, operationsScheduled, allWorkDoneWhenContinueSent,
  isIdleDetectionEnabled,
  toCollect,     \* its toCollect set is not empty
  toSignal,      \* its toSignal set is not empty
  flushed,       \* messageBusFlushed
  sent,          \* sent[w][u]: messages from w to u counted by w
  replies,       \* messagesSentToCoordinator
  counted,       \* counters.messagesReceived
  signals,       \* signals in its mailbox
  calls,         \* messages of the driver in its mailbox
  budget,        \* signals that the vertices will still send
  \* node actor
  statuses,      \* statuses[w]: from worker w, not yet handled
  onNode,        \* WorkersOnNodeIdleDetector.workerStatus
  forwarded,     \* workerStatusAlreadyForwarded
  nodeReported,  \* WorkersOnNodeIdleDetector.allIdleReported
  selfMessages,  \* BulkStatus and IdleReportRequested, from the node to itself
  mostRecent,    \* allMostRecentWorkerStats
  unreported,    \* unreportedWorkerStats
  pending,       \* reportRequestedPending
  superseded,    \* statusReceivedSinceIdleReportRequested
  treeReported,  \* BinaryTreeIdleDetector.allIdleReported
  \* coordinator
  reports,       \* BulkStatus messages to the coordinator
  workerStatus,
  onIdle,        \* awaitIdle: "none", "asked" (the OnIdle message is under way),
                 \* "registered" (in onIdleList) or "answered"
  \* driving thread
  position,      \* in Program
  waiting,       \* workers whose reply to the request has not arrived
  replied,       \* replies under way
  callsSent,     \* messagesSentToWorkers of the coordinator's message bus
  callsAnswered  \* messagesReceived of the same bus

workVars == <<isPaused, toCollect, toSignal, flushed>>
countVars == <<sent, replies, counted>>
stateVars == <<isIdle, operationsScheduled, allWorkDoneWhenContinueSent,
               isIdleDetectionEnabled>>
workerVars == <<workVars, countVars, stateVars, signals, calls, budget>>
nodeVars == <<onNode, forwarded, nodeReported, selfMessages, mostRecent, unreported,
              pending, superseded, treeReported>>
coordinatorVars == <<workerStatus, onIdle>>
driverVars == <<position, waiting, replied, callsSent, callsAnswered>>
vars == <<workerVars, statuses, nodeVars, reports, coordinatorVars, driverVars>>

Status == [idle : BOOLEAN, sent : [Workers -> Nat], replies : Nat, counted : Nat]
Statuses == [Workers -> Status \cup {NoStatus}]
ASSUME NoStatusAssumption == NoStatus \notin Status
None == [w \in Workers |-> NoStatus]
StatusesOf(bulk) == {bulk[w] : w \in Workers} \ {NoStatus}

\* An idle worker that has handled "initializeIdleDetection" and "addVertex".
LoadedStatus ==
  [idle |-> TRUE, sent |-> [u \in Workers |-> 0], replies |-> 1, counted |-> 2]

\* The graph is empty, or it is loaded and the idle workers' statuses have all
\* reached the coordinator.
Start(loaded) ==
  LET known == [w \in Workers |-> IF loaded THEN LoadedStatus ELSE NoStatus]
      handled == IF loaded THEN 2 ELSE 0
      answered == IF loaded THEN 1 ELSE 0
  IN  /\ isIdle = [w \in Workers |-> TRUE]
      /\ isPaused = [w \in Workers |-> TRUE]
      /\ operationsScheduled = [w \in Workers |-> FALSE]
      /\ allWorkDoneWhenContinueSent = [w \in Workers |-> loaded]
      /\ isIdleDetectionEnabled = [w \in Workers |-> loaded]
      /\ toCollect = [w \in Workers |-> FALSE]
      /\ toSignal = [w \in Workers |-> loaded]
      /\ flushed = [w \in Workers |-> ~ loaded]
      /\ sent = [w \in Workers |-> [u \in Workers |-> 0]]
      /\ replies = [w \in Workers |-> answered]
      /\ counted = [w \in Workers |-> handled]
      /\ signals = [w \in Workers |-> 0]
      /\ calls = [w \in Workers |-> <<>>]
      /\ budget = MAX_SIGNALS
      /\ statuses = [w \in Workers |-> <<>>]
      /\ onNode = known /\ mostRecent = known /\ workerStatus = known
      /\ forwarded = IF loaded THEN Workers ELSE {}
      /\ nodeReported = loaded
      /\ selfMessages = <<>>
      /\ unreported = None
      /\ pending = FALSE
      /\ superseded = FALSE
      /\ treeReported = loaded
      /\ reports = <<>>
      /\ onIdle = "none"
      /\ waiting = {}
      /\ replied = {}
      /\ callsSent = [w \in Workers |-> handled]
      /\ callsAnswered = answered * Cardinality(Workers)

Init == Start(FALSE) /\ position = 1
LoadedInit == Start(TRUE) /\ position = 1

-------------------------------------------------------------------------------
\* AkkaWorker and WorkerImplementation.

\* isAllWorkDone, after the step (a paused worker has no pending modifications).
AllWorkDone(w) ==
  isPaused'[w] \/ (~ toCollect'[w] /\ ~ toSignal'[w] /\ flushed'[w])

\* getWorkerStatusForNode.
StatusNow(w, idle) ==
  [idle |-> idle, sent |-> sent'[w], replies |-> replies'[w], counted |-> counted'[w]]

\* setIdle tells the node of every turn to idle, and of the turn to busy.
Announcement(w, idle) ==
  IF isIdleDetectionEnabled'[w] /\ (idle \/ isIdle[w])
  THEN <<StatusNow(w, idle)>> ELSE <<>>

Announce(w, messages) == statuses' = [statuses EXCEPT ![w] = @ \o messages]

\* scheduleOperations, behind what the handler itself has announced.
ScheduleOperations(w, announced) ==
  /\ Announce(w, announced \o Announcement(w, FALSE))
  /\ isIdle' = [isIdle EXCEPT ![w] = FALSE]
  /\ allWorkDoneWhenContinueSent' = [allWorkDoneWhenContinueSent EXCEPT ![w] = AllWorkDone(w)]
  /\ operationsScheduled' = [operationsScheduled EXCEPT ![w] = TRUE]

ScheduleUnlessScheduled(w, announced) ==
  IF operationsScheduled[w]
  THEN /\ Announce(w, announced)
       /\ UNCHANGED <<isIdle, allWorkDoneWhenContinueSent, operationsScheduled>>
  ELSE ScheduleOperations(w, announced)

\* The vertices of w signal some vertices: sendToWorker counts, then tells.
SendSignals(w) ==
  \E targets \in SUBSET Workers :
    /\ Cardinality(targets) <= budget
    /\ sent' = [sent EXCEPT ![w] = [u \in Workers |-> @[u] + IF u \in targets THEN 1 ELSE 0]]
    /\ signals' = [u \in Workers |-> signals[u] + IF u \in targets THEN 1 ELSE 0]
    /\ budget' = budget - Cardinality(targets)

\* receive, SignalMessageWithSourceId (or a bulk of them).
ReceiveSignal(w) ==
  /\ signals[w] > 0
  /\ signals' = [signals EXCEPT ![w] = @ - 1]
  /\ counted' = [counted EXCEPT ![w] = @ + 1]
  /\ toCollect' = [toCollect EXCEPT ![w] = TRUE]
  /\ flushed' = [flushed EXCEPT ![w] = FALSE]
  /\ UNCHANGED <<isPaused, toSignal, sent, replies, isIdleDetectionEnabled, calls, budget>>
  /\ ScheduleUnlessScheduled(w, <<>>)
  /\ UNCHANGED <<nodeVars, reports, coordinatorVars, driverVars>>

\* receive, AddVertex: no reply.
AddVertex(w) ==
  /\ toSignal' = [toSignal EXCEPT ![w] = TRUE]
  /\ flushed' = [flushed EXCEPT ![w] = FALSE]
  /\ UNCHANGED <<isPaused, toCollect, sent, replies, isIdleDetectionEnabled, signals, budget,
                 replied>>
  /\ ScheduleUnlessScheduled(w, <<>>)

\* receive, Request: the command, the reply, then scheduleOperations.
Reply(w) ==
  /\ replies' = [replies EXCEPT ![w] = @ + 1]
  /\ replied' = replied \cup {w}

InitializeIdleDetection(w) ==
  /\ isIdleDetectionEnabled' = [isIdleDetectionEnabled EXCEPT ![w] = TRUE]
  /\ UNCHANGED <<workVars, sent, signals, budget>>
  /\ Reply(w)
  /\ ScheduleUnlessScheduled(w,
       <<[StatusNow(w, isIdle[w]) EXCEPT !.replies = replies[w]]>>)

SignalStep(w) ==
  /\ IF toSignal[w] THEN SendSignals(w) ELSE UNCHANGED <<sent, signals, budget>>
  /\ toSignal' = [toSignal EXCEPT ![w] = FALSE]
  /\ flushed' = [flushed EXCEPT ![w] = TRUE]
  /\ UNCHANGED <<isPaused, toCollect, isIdleDetectionEnabled>>
  /\ Reply(w)
  /\ ScheduleUnlessScheduled(w, <<>>)

\* Any of the collected vertices may want to signal.
CollectStep(w) ==
  /\ toCollect' = [toCollect EXCEPT ![w] = FALSE]
  /\ \E wants \in (IF toCollect[w] THEN BOOLEAN ELSE {FALSE}) :
       toSignal' = [toSignal EXCEPT ![w] = @ \/ wants]
  /\ UNCHANGED <<isPaused, flushed, sent, isIdleDetectionEnabled, signals, budget>>
  /\ Reply(w)
  /\ ScheduleUnlessScheduled(w, <<>>)

SetPaused(w, paused) ==
  /\ isPaused' = [isPaused EXCEPT ![w] = paused]
  /\ UNCHANGED <<toCollect, toSignal, flushed, sent, isIdleDetectionEnabled, signals, budget>>
  /\ Reply(w)
  /\ ScheduleUnlessScheduled(w, <<>>)

ReceiveCall(w) ==
  /\ calls[w] # <<>>
  /\ calls' = [calls EXCEPT ![w] = Tail(@)]
  /\ counted' = [counted EXCEPT ![w] = @ + 1]
  /\ LET call == Head(calls[w])
     IN  \/ call = "addVertex" /\ AddVertex(w)
         \/ call = "initializeIdleDetection" /\ InitializeIdleDetection(w)
         \/ call = "signalStep" /\ SignalStep(w)
         \/ call = "collectStep" /\ CollectStep(w)
         \/ call = "startComputation" /\ SetPaused(w, FALSE)
         \/ call = "pauseComputation" /\ SetPaused(w, TRUE)
  /\ UNCHANGED <<nodeVars, reports, coordinatorVars, position, waiting, callsSent,
                 callsAnswered>>

\* receive, ScheduleOperations, with nothing else in the mailbox: idle ...
BecomeIdle(w) ==
  /\ allWorkDoneWhenContinueSent[w]
  /\ UNCHANGED <<workVars, countVars, isIdleDetectionEnabled, allWorkDoneWhenContinueSent,
                 signals, budget>>
  /\ AllWorkDone(w)
  /\ Announce(w, Announcement(w, TRUE))
  /\ isIdle' = [isIdle EXCEPT ![w] = TRUE]
  /\ operationsScheduled' = [operationsScheduled EXCEPT ![w] = FALSE]

\* ... or executeOperations unless paused, flush, and another round.
ExecuteOperations(w) ==
  /\ \/ ~ allWorkDoneWhenContinueSent[w]
     \/ ~ isPaused[w] /\ (toCollect[w] \/ toSignal[w] \/ ~ flushed[w])
  /\ IF isPaused[w] \/ ~ (toCollect[w] \/ toSignal[w])
     THEN UNCHANGED <<toCollect, toSignal, sent, signals, budget>>
     ELSE /\ toCollect' = [toCollect EXCEPT ![w] = FALSE]
          /\ toSignal' = [toSignal EXCEPT ![w] = FALSE]
          /\ SendSignals(w)
  /\ flushed' = [flushed EXCEPT ![w] = TRUE]
  /\ UNCHANGED <<isPaused, replies, counted, isIdleDetectionEnabled>>
  /\ ScheduleOperations(w, <<>>)

Operate(w) ==
  /\ operationsScheduled[w]
  /\ signals[w] = 0 /\ calls[w] = <<>>
  /\ BecomeIdle(w) \/ ExecuteOperations(w)
  /\ UNCHANGED <<calls, nodeVars, reports, coordinatorVars, driverVars>>

\* receive, ScheduleOperations, with messages behind it or handled more than a
\* millisecond after it was scheduled.
PutOff(w) ==
  /\ operationsScheduled[w]
  /\ UNCHANGED <<workVars, countVars, isIdleDetectionEnabled, signals, calls, budget>>
  /\ ScheduleOperations(w, <<>>)
  /\ UNCHANGED <<nodeVars, reports, coordinatorVars, driverVars>>

-------------------------------------------------------------------------------
\* The node actor.

NodeIsIdle == \A w \in Workers : onNode'[w] # NoStatus /\ onNode'[w].idle

\* receivedWorkerStatus.
ReceiveStatus(w) ==
  /\ statuses[w] # <<>>
  /\ statuses' = [statuses EXCEPT ![w] = Tail(@)]
  /\ onNode' = [onNode EXCEPT ![w] = Head(statuses[w])]
  /\ IF NodeIsIdle \/ nodeReported
     THEN /\ selfMessages' = Append(selfMessages,
               [type |-> "BulkStatus",
                fromWorkers |-> [u \in Workers |->
                  IF u \in forwarded \ {w} THEN NoStatus ELSE onNode'[u]]])
          /\ forwarded' = Workers
          /\ nodeReported' = NodeIsIdle
     ELSE /\ forwarded' = forwarded \ {w}
          /\ UNCHANGED <<selfMessages, nodeReported>>
  /\ UNCHANGED <<mostRecent, unreported, pending, superseded, treeReported>>
  /\ UNCHANGED <<workerVars, reports, coordinatorVars, driverVars>>

\* computeAllIdleAndRequestReportIfNecessary, with the messages that precede
\* its own.
RequestReport(messages) ==
  LET allNewIdle == \A s \in StatusesOf(unreported') : s.idle
      allIdle == \A w \in Workers : mostRecent'[w] # NoStatus /\ mostRecent'[w].idle
  IN  IF treeReported \/ (allNewIdle /\ allIdle)
      THEN /\ pending' = TRUE
           /\ selfMessages' = Append(messages,
                [type |-> "IdleReportRequested", allIdle |-> allNewIdle])
      ELSE /\ pending' = FALSE
           /\ selfMessages' = messages

\* Faulty variant of ReceiveBulkStatus: a report is requested although one is.
ReceiveBulkStatusUnguarded(bulk) ==
  LET Newest(old) ==
        [w \in Workers |-> IF bulk[w] # NoStatus THEN bulk[w] ELSE old[w]]
  IN  /\ mostRecent' = Newest(mostRecent)
      /\ unreported' = Newest(unreported)
      /\ RequestReport(Tail(selfMessages))
      /\ UNCHANGED <<superseded, treeReported, reports>>

\* receivedBulkStatus.
ReceiveBulkStatus(bulk) ==
  LET Newest(old) ==
        [w \in Workers |-> IF bulk[w] # NoStatus THEN bulk[w] ELSE old[w]]
  IN  /\ mostRecent' = Newest(mostRecent)
      /\ unreported' = Newest(unreported)
      /\ IF pending
         THEN /\ superseded' = TRUE
              /\ selfMessages' = Tail(selfMessages)
              /\ UNCHANGED pending
         ELSE /\ RequestReport(Tail(selfMessages))
              /\ UNCHANGED superseded
      /\ UNCHANGED <<treeReported, reports>>

\* Faulty variant of ReportToParent: statusReceivedSinceIdleReportRequested is
\* not reset when it leads to another request.
ReportToParentUnreset(allIdle) ==
  /\ UNCHANGED <<mostRecent, superseded>>
  /\ IF superseded
     THEN /\ UNCHANGED <<unreported, treeReported, reports>>
          /\ RequestReport(Tail(selfMessages))
     ELSE /\ pending' = FALSE
          /\ selfMessages' = Tail(selfMessages)
          /\ IF allIdle
             THEN /\ reports' = Append(reports, unreported)
                  /\ unreported' = None
                  /\ treeReported' = TRUE
             ELSE UNCHANGED <<reports, unreported, treeReported>>

\* reportToParent on the root: the coordinator hears of idleness only.
ReportToParent(allIdle) ==
  /\ superseded' = FALSE
  /\ UNCHANGED mostRecent
  /\ IF superseded
     THEN /\ UNCHANGED <<unreported, treeReported, reports>>
          /\ RequestReport(Tail(selfMessages))
     ELSE /\ pending' = FALSE
          /\ selfMessages' = Tail(selfMessages)
          /\ IF allIdle
             THEN /\ reports' = Append(reports, unreported)
                  /\ unreported' = None
                  /\ treeReported' = TRUE
             ELSE UNCHANGED <<reports, unreported, treeReported>>

ReceiveSelfMessage ==
  /\ selfMessages # <<>>
  /\ LET m == Head(selfMessages)
     IN  \/ m.type = "BulkStatus" /\ ReceiveBulkStatus(m.fromWorkers)
         \/ m.type = "IdleReportRequested" /\ ReportToParent(m.allIdle)
  /\ UNCHANGED <<onNode, forwarded, nodeReported>>
  /\ UNCHANGED <<workerVars, statuses, coordinatorVars, driverVars>>

-------------------------------------------------------------------------------
\* DefaultCoordinator.

Known == \A w \in Workers : workerStatus'[w] # NoStatus

\* Faulty variant of AllSentMessagesReceived: one total over all recipients,
\* getGlobalInboxSize = 0.
GlobalInboxEmpty ==
  callsAnswered + SumFunction([w \in Workers |-> workerStatus'[w].counted])
    = SumFunction([w \in Workers |->
        callsSent[w] + workerStatus'[w].replies + SumFunction(workerStatus'[w].sent)])

\* allSentMessagesReceived: computeMessagingStats adds what the workers and the
\* coordinator's own bus have sent to each recipient.
AllSentMessagesReceived ==
  /\ \A w \in Workers :
       workerStatus'[w].counted
         = callsSent[w] + SumFunction([u \in Workers |-> workerStatus'[u].sent[w]])
  /\ callsAnswered = SumFunction([u \in Workers |-> workerStatus'[u].replies])

CoordinatorIsIdle ==
  /\ Known
  /\ \A w \in Workers : workerStatus'[w].idle
  /\ AllSentMessagesReceived

\* receive, BulkStatus.
ReceiveReport ==
  /\ reports # <<>>
  /\ reports' = Tail(reports)
  /\ workerStatus' = [w \in Workers |->
       IF Head(reports)[w] # NoStatus THEN Head(reports)[w] ELSE workerStatus[w]]
  /\ onIdle' = IF onIdle = "registered" /\ CoordinatorIsIdle THEN "answered" ELSE onIdle
  /\ UNCHANGED <<workerVars, statuses, nodeVars, driverVars>>

\* receive, OnIdle.
ReceiveOnIdle ==
  /\ onIdle = "asked"
  /\ UNCHANGED workerStatus
  /\ onIdle' = IF CoordinatorIsIdle THEN "answered" ELSE "registered"
  /\ UNCHANGED <<workerVars, statuses, nodeVars, reports, driverVars>>

-------------------------------------------------------------------------------
\* The driving thread.

Call == Program[position]
Running == position \in DOMAIN Program

\* Faulty variant of IssueCall: the thread does not wait for the replies.
IssueCallUnanswered ==
  /\ Running
  /\ Call # "awaitIdle"
  /\ calls' = [w \in Workers |-> Append(calls[w], Call)]
  /\ callsSent' = [w \in Workers |-> callsSent[w] + 1]
  /\ IF Call \in Requests
     THEN waiting' = Workers /\ UNCHANGED position
     ELSE position' = position + 1 /\ UNCHANGED waiting
  /\ UNCHANGED <<replied, callsAnswered>>

\* graph.addVertex tells; the proxies of workerApi ask, one future per worker.
IssueCall ==
  /\ Running
  /\ Call # "awaitIdle"
  /\ waiting = {}
  /\ calls' = [w \in Workers |-> Append(calls[w], Call)]
  /\ callsSent' = [w \in Workers |-> callsSent[w] + 1]
  /\ IF Call \in Requests
     THEN waiting' = Workers /\ UNCHANGED position
     ELSE position' = position + 1 /\ UNCHANGED waiting
  /\ UNCHANGED <<replied, callsAnswered>>

\* A reply arrives; the call returns with the last one.
ReceiveReply(w) ==
  /\ w \in replied
  /\ replied' = replied \ {w}
  /\ callsAnswered' = callsAnswered + 1
  /\ waiting' = waiting \ {w}
  /\ position' = IF waiting = {w} THEN position + 1 ELSE position
  /\ UNCHANGED <<calls, callsSent>>

\* awaitIdle asks the coordinator, and returns on its answer.
AskForIdle ==
  /\ Running
  /\ Call = "awaitIdle"
  /\ onIdle = "none"
  /\ onIdle' = "asked"
  /\ UNCHANGED <<driverVars, calls>>

AwaitIdleReturns ==
  /\ onIdle = "answered"
  /\ onIdle' = "none"
  /\ position' = position + 1
  /\ UNCHANGED <<waiting, replied, callsSent, callsAnswered, calls>>

Drive ==
  /\ \/ IssueCall /\ UNCHANGED onIdle
     \/ (\E w \in Workers : ReceiveReply(w)) /\ UNCHANGED onIdle
     \/ AskForIdle
     \/ AwaitIdleReturns
  /\ UNCHANGED <<workVars, countVars, stateVars, signals, budget, statuses, nodeVars, reports,
                 workerStatus>>

\* The program has run; the actors may have handled everything.
Stopped == ~ Running /\ UNCHANGED vars

Next ==
  \/ \E w \in Workers :
       ReceiveSignal(w) \/ ReceiveCall(w) \/ Operate(w) \/ PutOff(w) \/ ReceiveStatus(w)
  \/ ReceiveSelfMessage
  \/ ReceiveReport
  \/ ReceiveOnIdle
  \/ Drive
  \/ Stopped

\* Actors handle their messages, the thread runs, and a worker does not put
\* its operations off forever.
Fairness ==
  /\ \A w \in Workers :
       /\ WF_vars(ReceiveSignal(w))
       /\ WF_vars(ReceiveCall(w))
       /\ WF_vars(Operate(w))
       /\ WF_vars(ReceiveStatus(w))
  /\ WF_vars(ReceiveSelfMessage)
  /\ WF_vars(ReceiveReport)
  /\ WF_vars(ReceiveOnIdle)
  /\ WF_vars(Drive)

Spec == Init /\ [][Next]_vars /\ Fairness
LoadedSpec == LoadedInit /\ [][Next]_vars /\ Fairness

-------------------------------------------------------------------------------

TypeOK ==
  /\ \A w \in Workers :
       /\ {isIdle[w], isPaused[w], operationsScheduled[w], allWorkDoneWhenContinueSent[w],
           isIdleDetectionEnabled[w], toCollect[w], toSignal[w], flushed[w]} \subseteq BOOLEAN
       /\ sent[w] \in [Workers -> 0 .. MAX_SIGNALS]
       /\ signals[w] \in 0 .. MAX_SIGNALS
       /\ counted[w] \in Nat /\ replies[w] \in 0 .. Len(Program) + 1
       /\ statuses[w] \in Seq(Status)
       /\ calls[w] \in Seq(Requests \cup {"addVertex"})
  /\ onNode \in Statuses /\ mostRecent \in Statuses /\ unreported \in Statuses
  /\ workerStatus \in Statuses
  /\ reports \in Seq(Statuses)
  /\ forwarded \subseteq Workers
  /\ {nodeReported, pending, superseded, treeReported} \subseteq BOOLEAN
  /\ onIdle \in {"none", "asked", "registered", "answered"}
  /\ position \in 1 .. Len(Program) + 1
  /\ waiting \subseteq Workers /\ replied \subseteq waiting
  /\ callsSent \in [Workers -> 0 .. Len(Program) + 2] /\ callsAnswered \in Nat
  /\ budget \in 0 .. MAX_SIGNALS

\* Nothing is under way between the workers, and no worker has work that it
\* would do by itself.
AllQuiet ==
  \A w \in Workers :
    /\ signals[w] = 0 /\ calls[w] = <<>>
    /\ isPaused[w] \/ (~ toCollect[w] /\ ~ toSignal[w])

\* awaitIdle never returns early: not on statuses from before the last request,
\* not on idle flags that were true at different moments while signals went
\* back and forth, not on counts that only balance by chance.
NoFalseIdle == onIdle = "answered" => AllQuiet

\* awaitIdle always returns: the node actor holds nothing back that the
\* coordinator needs, whatever it has reported before.
AwaitIdleReturnsEventually == onIdle = "asked" ~> onIdle = "none"

\* The assertions of BinaryTreeIdleDetector: a report is never requested, nor
\* delivered, with nothing to report; and a request is out exactly as long as
\* reportRequestedPending says so.
DetectorAssertions ==
  /\ pending <=> \E i \in 1 .. Len(selfMessages) : selfMessages[i].type = "IdleReportRequested"
  /\ pending => StatusesOf(unreported) # {}
  /\ \A i \in 1 .. Len(selfMessages) :
       selfMessages[i].type = "BulkStatus" => StatusesOf(selfMessages[i].fromWorkers) # {}
===============================================================================
