------------------------------ MODULE MCTimer ------------------------------
(* The instance of Timer for TLC. *)
EXTENDS Timer
=============================================================================
