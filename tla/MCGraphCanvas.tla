----------------------------- MODULE MCGraphCanvas -----------------------------
(***************************************************************************)
(* A graph of three vertices for the canvas.                               *)
(***************************************************************************)
EXTENDS GraphCanvas

MCVertexIds == {"a", "b", "c"}
MCTargets == [v \in MCVertexIds |-> CASE v = "a" -> {"b"} [] v = "b" -> {"a", "c"} [] v = "c" -> {}]
MCLimits == {1, 2}
===============================================================================
