-------------------------------- MODULE MCMGM --------------------------------
(***************************************************************************)
(* A small graph for MGM.  A vertex shares a meeting map with one vertex   *)
(* and an agent map with another, and the workers of the engine mix the    *)
(* participations of agents and meetings, so that every map is shared      *)
(* between threads.                                                        *)
(***************************************************************************)
EXTENDS MGM

\* Two agents that meet twice.
SquareAgents == {1, 2}
SquareMeetings == {1, 2}
SquareVertices == SquareAgents \X SquareMeetings

SquareProblem(p11, p12, p21, p22, b1, b2) ==
  [preference |-> [v \in SquareVertices |->
     CASE v = <<1, 1>> -> p11 [] v = <<1, 2>> -> p12
       [] v = <<2, 1>> -> p21 [] v = <<2, 2>> -> p22],
   blocked |-> [a \in SquareAgents |-> IF a = 1 THEN b1 ELSE b2]]

\* Agreeing preferences; crossed ones; an agent that wants both its meetings
\* at one slot and cannot take another.
SquareProblems ==
  {SquareProblem(1, 2, 1, 2, {}, {}),
   SquareProblem(1, 2, 2, 1, {}, {}),
   SquareProblem(1, 1, 1, 2, {2}, {})}

MCRank == [m \in SquareMeetings |-> m]
MCWorkers == {1, 2}
SquareWorkerOf == [v \in SquareVertices |-> IF v[1] = v[2] THEN 1 ELSE 2]
===============================================================================
