----------------------------- MODULE MailQueue -----------------------------
(***************************************************************************)
(* What a mailbox and a message queue promise: a first-in first-out queue  *)
(* of bounded length, the message queue's with urgent messages, which go   *)
(* to the front.                                                           *)
(***************************************************************************)
EXTENDS Sequences, Integers

CONSTANTS
  Mail, Size,   \* the mails, the capacity
  Urgent,       \* the mails that go to the front
  Resets        \* whether the queue may be reset

VARIABLE queue

Init  == queue = <<>>
Put   == Len(queue) < Size /\ \E m \in Mail \ Urgent : queue' = Append(queue, m)
Push  == Len(queue) < Size /\ \E m \in Urgent : queue' = <<m>> \o queue
Get   == queue # <<>> /\ queue' = Tail(queue)
Reset == Resets /\ queue' = <<>>

Next == Put \/ Push \/ Get \/ Reset
Spec == Init /\ [][Next]_queue
=============================================================================
