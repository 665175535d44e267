------------------------------- MODULE Iterations -------------------------------
(***************************************************************************)
(* What the user of an interactive execution is promised: iterations are   *)
(* counted from one, their five steps come in order, a reset starts over   *)
(* from nothing, and after terminate no iteration begins.  The fifth step  *)
(* is not part of every iteration.                                         *)
(***************************************************************************)
EXTENDS Naturals

CONSTANT MAX_ITERATION   \* iterations are counted up to this bound

VARIABLES
  iteration,  \* the current or last one
  next,       \* the step that comes next, 0 between two iterations
  over        \* the user has terminated the execution

vars == <<iteration, next, over>>

Init == iteration = 0 /\ next = 0 /\ over = FALSE

Begin ==
  /\ next = 0 /\ ~ over
  /\ iteration' = IF iteration < MAX_ITERATION THEN iteration + 1 ELSE iteration
  /\ next' = 1
  /\ UNCHANGED over

Step ==
  /\ next # 0
  /\ next' \in CASE next < 4 -> {next + 1} [] next = 4 -> {5, 0} [] next = 5 -> {0}
  /\ UNCHANGED <<iteration, over>>

Reset == iteration' = 0 /\ next' = 0 /\ UNCHANGED over

Terminate == over' = TRUE /\ UNCHANGED <<iteration, next>>

\* The steps that are left are skipped.
Abandon == over /\ next' = 0 /\ UNCHANGED <<iteration, over>>

Next == Begin \/ Step \/ Reset \/ Terminate \/ Abandon

Spec == Init /\ [][Next]_vars
===============================================================================
