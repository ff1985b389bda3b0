------------------------------ MODULE MCJtagDap ------------------------------
(* JtagDap on a small instance. *)
EXTENDS JtagDap
=============================================================================
