------------------------------- MODULE MCNet -------------------------------
(* The instance of Net for TLC, with the priorities of the threads. *)
EXTENDS Net

CONSTANTS erx, etx, uip, idle

ThreadPriority == (erx :> 1) @@ (etx :> 1) @@ (uip :> 0) @@ (idle :> 2)
=============================================================================
