-------------------------------- MODULE MCDPOP --------------------------------
(***************************************************************************)
(* Small problems for DPOP, in every tree: any vertex may be the leader.   *)
(***************************************************************************)
EXTENDS DPOP

MCAgents == {1, 2}
MCMeetings == {1, 2, 3}
MCRank == [m \in MCMeetings |-> m]
MCWorkers == {1, 2}

\* Agent 1 meets agent 2, and has another meeting on its own: the leader shares
\* a meeting with a child, an agent with a child, or nothing.
CornerVertices == {<<1, 1>>, <<2, 1>>, <<1, 2>>}
CornerWorkerOf == [v \in CornerVertices |-> IF v = <<1, 1>> THEN 1 ELSE 2]

CornerProblem(p11, p21, p12, b1) ==
  [preference |-> [v \in CornerVertices |->
     CASE v = <<1, 1>> -> p11 [] v = <<2, 1>> -> p21 [] v = <<1, 2>> -> p12],
   blocked |-> [a \in MCAgents |-> IF a = 1 THEN b1 ELSE {}]]

\* An agent that wants both its meetings at one slot; participants that want
\* different slots.
CornerProblems == {CornerProblem(1, 1, 1, {2}), CornerProblem(1, 2, 2, {})}

\* An agent with three meetings that nobody else attends.
FanVertices == {1} \X MCMeetings
FanWorkerOf == [v \in FanVertices |-> IF v[2] = 2 THEN 1 ELSE 2]
FanProblems ==
  {[preference |-> [v \in FanVertices |-> IF v[2] = 2 THEN 2 ELSE 1],
    blocked |-> [a \in MCAgents |-> {}]]}
===============================================================================
