----------------------------- MODULE SignalCollect -----------------------------
(***************************************************************************)
(* One execution of a Signal/Collect graph, as DynDCO runs it:             *)
(* ExecutionMode.Synchronous or ExecutionMode.OptimizedAsynchronous, no    *)
(* step or time limit, default schedulers and stores.  The vertex          *)
(* program, i.e. what collect computes, is the instantiating module's.     *)
(*                                                                         *)
(* A worker is an actor on a thread of its own that handles one message    *)
(* at a time.  Delivering a signal only overwrites the entry of its source *)
(* in mostRecentSignalMap and marks the target, and the worker looks at    *)
(* neither before its mailbox is empty (ScheduleOperations, or a step      *)
(* request behind the signals), so `mailbox' keeps the last undelivered    *)
(* signal of each edge and delivery happens when the worker next looks.    *)
(***************************************************************************)
EXTENDS Integers

CONSTANTS
  Nodes,         \* the vertices of the graph
  Workers,
  WorkerOf,      \* the vertex-to-worker mapping by id hash
  NoSignal,      \* nothing (yet) along an edge
  ExecutionModes \* the modes in which the graph may be executed

ASSUME WorkerAssumption == WorkerOf \in [Nodes -> Workers]
ASSUME ExecutionModesAssumption == ExecutionModes \subseteq {"Synchronous", "OptimizedAsynchronous"}

VARIABLES
  executionMode,
  edges,         \* outgoing edges as <<source, target>> pairs
  mailbox,       \* per edge: last signal sent and not yet delivered
  received,      \* per edge: mostRecentSignalMap entry of the target
  toCollect,     \* vertices to collect in the batch or step under way
  toSignal,      \* vertices to signal in the next signal step
  phase,         \* what DefaultGraph.execute is waiting for
  stepping       \* workers still to carry out the requested signal step

engineVars ==
  <<executionMode, edges, mailbox, received, toCollect, toSignal, phase, stepping>>

Links == Nodes \X Nodes
Synchronous == executionMode = "Synchronous"

VerticesOf(w) == {v \in Nodes : WorkerOf[v] = w}

EngineTypeOK(Message) ==
  /\ executionMode \in ExecutionModes
  /\ edges \subseteq Links
  /\ mailbox \in [Links -> Message \cup {NoSignal}]
  /\ received \in [Links -> Message \cup {NoSignal}]
  /\ toCollect \subseteq Nodes
  /\ toSignal \subseteq Nodes
  /\ phase \in {"signalling", "collecting", "computing", "done"}
  /\ stepping \subseteq Workers

\* addVertex puts every vertex in toSignal: none has converged yet.
EngineInit ==
  /\ executionMode \in ExecutionModes
  /\ mailbox = [l \in Links |-> NoSignal]
  /\ received = [l \in Links |-> NoSignal]
  /\ toCollect = {}
  /\ toSignal = Nodes
  /\ phase = "signalling"
  /\ stepping = Workers

-------------------------------------------------------------------------------

\* executeSignalOperation of the vertices in S: one signal per outgoing edge.
Sent(S, state) ==
  [l \in Links |-> IF l \in edges /\ l[1] \in S THEN state[l[1]] ELSE mailbox[l]]

Arrived(S) == {l \in Links : l[2] \in S /\ mailbox[l] # NoSignal}

\* The signals waiting for the vertices in S reach mostRecentSignalMap, and
\* their targets (scoreCollect is 1 from the first signal on) are to collect.
Deliver(S) ==
  /\ received' = [l \in Links |-> IF l \in Arrived(S) THEN mailbox[l] ELSE received[l]]
  /\ mailbox' = [l \in Links |-> IF l \in Arrived(S) THEN NoSignal ELSE mailbox[l]]
  /\ toCollect' = toCollect \cup {l[2] : l \in Arrived(S)}

\* workerApi.signalStep on worker w.
SignalStep(w, state) ==
  /\ phase = "signalling"
  /\ w \in stepping
  /\ mailbox' = Sent(toSignal \cap VerticesOf(w), state)
  /\ toSignal' = toSignal \ VerticesOf(w)
  /\ stepping' = stepping \ {w}
  /\ UNCHANGED <<executionMode, edges, received, toCollect, phase>>

\* All workers have answered: collectStep, or startComputation.
SignalStepDone ==
  /\ phase = "signalling"
  /\ stepping = {}
  /\ phase' = IF Synchronous THEN "collecting" ELSE "computing"
  /\ Deliver(Nodes)
  /\ UNCHANGED <<executionMode, edges, toSignal, stepping>>

\* ScheduleOperations with an empty mailbox on an unpaused worker: the next
\* batch is everything that signals have marked.
BeginBatch(w) ==
  /\ phase = "computing"
  /\ toCollect \cap VerticesOf(w) = {}
  /\ Arrived(VerticesOf(w)) # {}
  /\ Deliver(VerticesOf(w))
  /\ UNCHANGED <<executionMode, edges, toSignal, phase, stepping>>

\* The worker of v takes v out of its batch (in hash order, hence any order).
MayCollect(v) ==
  /\ phase \in {"collecting", "computing"}
  /\ v \in toCollect

\* Faulty variant of Finish: a vertex that is to signal replaces those already waiting.
FinishForgetting(v, state, score) ==
  /\ toCollect' = toCollect \ {v}
  /\ mailbox' = IF score > 0 /\ ~ Synchronous THEN Sent({v}, state) ELSE mailbox
  /\ toSignal' = IF score > 0 /\ Synchronous THEN {v} ELSE toSignal
  /\ UNCHANGED <<executionMode, edges, received, phase, stepping>>

\* Faulty variant of Finish: the vertex is not taken out of the batch.
FinishKeeping(v, state, score) ==
  /\ toCollect' = toCollect
  /\ mailbox' = IF score > 0 /\ ~ Synchronous THEN Sent({v}, state) ELSE mailbox
  /\ toSignal' = IF score > 0 /\ Synchronous THEN toSignal \cup {v} ELSE toSignal
  /\ UNCHANGED <<executionMode, edges, received, phase, stepping>>

\* After collect: scoreSignal decides between signalling and silence; at once
\* in asynchronous mode, in the next signal step in synchronous mode.
Finish(v, state, score) ==
  /\ toCollect' = toCollect \ {v}
  /\ mailbox' = IF score > 0 /\ ~ Synchronous THEN Sent({v}, state) ELSE mailbox
  /\ toSignal' = IF score > 0 /\ Synchronous THEN toSignal \cup {v} ELSE toSignal
  /\ UNCHANGED <<executionMode, edges, received, phase, stepping>>

\* collectStep has returned on every worker: stop when no vertex signals.
CollectStepDone ==
  /\ phase = "collecting"
  /\ toCollect = {}
  /\ IF toSignal = {}
     THEN /\ phase' = "done"
          /\ UNCHANGED stepping
     ELSE /\ phase' = "signalling"
          /\ stepping' = Workers
  /\ UNCHANGED <<executionMode, edges, mailbox, received, toCollect, toSignal>>

\* Faulty variant of Quiescent: idle workers are enough, whatever is still under way.
QuiescentWorkers == toCollect = {}

Quiescent == toCollect = {} /\ Arrived(Nodes) = {}

\* awaitIdle returns: every worker is idle and no message is under way.
BecomeIdle ==
  /\ phase = "computing"
  /\ Quiescent
  /\ phase' = "done"
  /\ UNCHANGED <<executionMode, edges, mailbox, received, toCollect, toSignal, stepping>>
===============================================================================
