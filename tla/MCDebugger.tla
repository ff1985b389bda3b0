----------------------------- MODULE MCDebugger -----------------------------
(* Debugger on a small instance. *)
EXTENDS Debugger, TLC

Symmetry == Permutations(Handles) \cup Permutations(Callers \ {Monitor})
=============================================================================
