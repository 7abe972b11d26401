------------------------------ MODULE MCSerial ------------------------------
(* The instance of Serial for TLC. *)
EXTENDS Serial

CONSTANTS w1, w2, idle

WriterPriority == (w1 :> 0) @@ (w2 :> 0) @@ (idle :> 1)
=============================================================================
