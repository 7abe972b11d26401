------------------------------ MODULE MCQueues ------------------------------
(* The threads of one system use a mailbox or a message queue: the instances *)
(* of Mailbox and MessageQueue for TLC.  Two threads use every kind of call  *)
(* on "mailbox" and on "mq".  On "crowd", a mailbox whose mails are all the  *)
(* same, three do, so that one may overtake another which was woken.         *)
EXTENDS Mailbox, MessageQueue

CONSTANTS t1, t2, t3, idle

VARIABLE object

ClientPriority == (t1 :> 1) @@ (t2 :> 0) @@ (t3 :> 1) @@ (idle :> 2)

QInit ==
  /\ object \in {"mailbox", "crowd", "mq"} /\ Init /\ MqInit
  /\ object # "mailbox" => \A t \in Thread : value[t] = 1
  /\ object # "mq" => \A t \in Thread : message[t] = 1

\* The third thread is started on "crowd" only.
TwoClients == sys'.stat[t3] = "INIT"

MailboxNext ==
  /\ object = "mailbox" /\ Next /\ TwoClients
  /\ UNCHANGED <<mq, slot, message, limit, object>>
CrowdNext ==
  /\ object = "crowd" /\ Next
  /\ \A t \in Thread : value'[t] = 1
  /\ \A i \in DOMAIN mb.pool : mb'.pool[i] = 1
  /\ UNCHANGED <<mq, slot, message, limit, object>>
QueueNext == object = "mq" /\ MqNext /\ TwoClients /\ UNCHANGED <<mb, value, time, object>>

QNext == MailboxNext \/ CrowdNext \/ QueueNext

qvars == <<vars, mqVars, object>>

\* FairSpec of Mailbox; what is checked of the message queue needs no fairness.
QSpec ==
  /\ QInit /\ [][QNext]_qvars
  /\ WF_qvars(object # "mq" /\ Clock /\ UNCHANGED <<object, mq, slot, message, limit>>)
  /\ \A c \in Thread : SF_qvars(object # "mq" /\ Continue(c)
                                /\ UNCHANGED <<object, mq, slot, message, limit>>)
=============================================================================
