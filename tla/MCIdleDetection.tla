---------------------------- MODULE MCIdleDetection ----------------------------
(***************************************************************************)
(* What the driving thread calls: while the graph is loaded, and in the    *)
(* two execution modes that DynDCO uses.                                   *)
(***************************************************************************)
EXTENDS IdleDetection, Sequences, TLC

LoadingProgram == <<"initializeIdleDetection", "addVertex", "awaitIdle">>

\* optimizedAsynchronousExecution, from its first startComputation on.
AsynchronousProgram == <<"startComputation", "awaitIdle", "pauseComputation">>

\* synchronousExecution: a round, and the signal step of the next one.
SynchronousProgram ==
  <<"signalStep", "awaitIdle", "collectStep", "signalStep", "awaitIdle">>

\* One execution after the other on the same graph, as the tests drive it.
BothPrograms == AsynchronousProgram \o SynchronousProgram

Symmetry == Permutations(Workers)
===============================================================================
