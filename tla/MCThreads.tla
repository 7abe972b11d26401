----------------------------- MODULE MCThreads -----------------------------
(* Instances of Threads for TLC. *)
EXTENDS Threads

CONSTANTS t1, t2, idle

\* One urgent thread and one of the idle thread's priority.
TwoPriority == (t1 :> 0) @@ (t2 :> 1) @@ (idle :> 1)
=============================================================================
