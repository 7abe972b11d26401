------------------------------ MODULE MCEvent ------------------------------
(* Instances of Event for TLC. *)
EXTENDS Event

CONSTANTS t1, t2, t3, idle

ThreePriority == (t1 :> 1) @@ (t2 :> 1) @@ (t3 :> 0) @@ (idle :> 2)

\* All flags and consume, some flag and consume, one flag and leave it set.
ThreeRequests ==
  {[set |-> {1, 2}, and |-> TRUE, clear |-> TRUE],
   [set |-> {1, 2}, and |-> FALSE, clear |-> TRUE],
   [set |-> {1}, and |-> FALSE, clear |-> FALSE]}
=============================================================================
