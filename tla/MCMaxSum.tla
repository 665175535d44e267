-------------------------------- MODULE MCMaxSum --------------------------------
(***************************************************************************)
(* A small problem for MaxSum: two agents meet, agreed or not at first.    *)
(* Each has a variable and a function; each worker runs a variable and the *)
(* function of the other.                                                  *)
(***************************************************************************)
EXTENDS MaxSum

MCAgents == {1, 2}
MCMeetings == {1}
MCRank == [m \in MCMeetings |-> m]
MCWorkers == {1, 2}

PairVertices == {<<1, 1>>, <<2, 1>>}
PairNodes == PairVertices \cup {<<1, 1, "f">>, <<2, 1, "f">>}
PairWorkerOf == [n \in PairNodes |-> IF n \in {<<1, 1>>, <<2, 1, "f">>} THEN 1 ELSE 2]
PairProblems ==
  {[preference |-> [v \in PairVertices |-> IF v = <<2, 1>> THEN s ELSE 1],
    blocked |-> [a \in MCAgents |-> {}]] : s \in {1, 2}}
===============================================================================
