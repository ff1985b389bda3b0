----------------------------- MODULE MCBreakpoints -----------------------------
(* Breakpoints on a small instance. *)
EXTENDS Breakpoints
=============================================================================
