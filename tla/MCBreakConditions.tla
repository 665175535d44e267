--------------------------- MODULE MCBreakConditions ---------------------------
(* One browser, or two. *)
EXTENDS BreakConditions
===============================================================================
