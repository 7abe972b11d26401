---------------------------- MODULE CountingSem ----------------------------
(***************************************************************************)
(* What a semaphore promises: permits that are posted and acquired, and    *)
(* none acquired that was not there.                                       *)
(***************************************************************************)
EXTENDS Integers

CONSTANTS InitValue, ResetValue   \* initial permits, values a reset may set

VARIABLE avail

Init    == avail = InitValue
Post    == avail' = avail + 1
Acquire == avail > 0 /\ avail' = avail - 1

\* A reset keeps at most the permits already handed to a waiting thread.
Reset   == \E v \in ResetValue, g \in 0 .. avail : avail' = v + g

Next == Post \/ Acquire \/ Reset
Spec == Init /\ [][Next]_avail
=============================================================================
