----------------------------- MODULE MCDynamicMGM -----------------------------
(* Two agents in one meeting; or one of them in another meeting as well. *)
EXTENDS DynamicMGM

MCAgents == {1, 2}
MCMeetings == {1, 2}
MCVertices == {<<1, 1>>, <<2, 1>>, <<1, 2>>}
OneMeeting == {1}
PairVertices == {<<1, 1>>, <<2, 1>>}
MCRank == [m \in Meetings |-> m]
MCWorkers == {1, 2}
MCWorkerOf == [v \in Vertices |-> IF v = <<1, 1>> THEN 1 ELSE 2]
OneWorker == {1}
OneWorkerOf == [v \in Vertices |-> 1]

MCProblems ==
  {[preference |-> [v \in Vertices |-> IF v = <<2, 1>> THEN 2 ELSE 1],
    blocked |-> [a \in Agents |-> {}]]}

AllModes == {"changeConstraints", "changeVariables", "changeVariablesOnce"}
===============================================================================
