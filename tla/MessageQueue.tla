---------------------------- MODULE MessageQueue ----------------------------
(***************************************************************************)
(* One message queue of src/src/ipc.c: message slots linked into a queue   *)
(* and into a free list.  Messages are copied with interrupts enabled, so  *)
(* sending and receiving each take two critical sections, between which the*)
(* slot belongs to the caller.  Places in a call:                          *)
(*   fill, ufill  rt_mq_send, rt_mq_urgent have a slot, link it next       *)
(*   recv         blocked in rt_mq_recv, rt_schedule() is next             *)
(*   rback        rt_schedule() returned, thread->error is next            *)
(*   copy         rt_mq_recv has a message, frees its slot next            *)
(*   give         a thread was woken, rt_schedule() is next                *)
(***************************************************************************)
EXTENDS Processor

CONSTANTS
  Message,   \* the messages
  MaxMsgs,   \* mq->max_msgs
  MqFlag,    \* RT_IPC_FLAG_FIFO or RT_IPC_FLAG_PRIO
  MqTime,    \* kinds of timeout the receivers use
  Urgent     \* the messages sent by rt_mq_urgent, the others by rt_mq_send

ASSUME MessageQueueAssumption ==
  /\ MaxMsgs \in Nat \ {0} /\ MqFlag \in {"FIFO", "PRIO"} /\ Message # {}
  /\ MqTime \subseteq {"none", "timed", "forever"}
  /\ "recv" \in WaitList /\ Urgent \subseteq Message

VARIABLES
  mq,       \* msg_queue_head, _tail and _free, entry; next and data of each slot
  slot,     \* the slot that each thread's call holds, Null if none
  message,  \* the message of each thread's last send
  limit     \* what is left of the timeout of each thread's last receive
mqVars == <<sys, pc, mq, slot, message, limit>>

Slot == 1 .. MaxMsgs
Null == 0
Link == Slot \cup {Null}

PoolTypeOK ==
  /\ mq \in [head : Link, tail : Link, free : Link, entry : 0 .. MaxMsgs,
             next : [Slot -> Link], data : [Slot -> Message]]
  /\ slot \in [Thread -> Link]

MqTypeOK ==
  /\ sys \in KernelState
  /\ pc \in [Thread -> {"run", "fill", "ufill", "recv", "rback", "copy", "give"}]
  /\ PoolTypeOK /\ message \in [Thread -> Message]
  /\ limit \in [Thread -> {"none", "timed", "forever"}]

\* rt_mq_init links the slots from the last to the first.
MqInit ==
  /\ sys = KernelInit /\ pc = [t \in Thread |-> "run"]
  /\ \E m \in Message :
       /\ mq = [head |-> Null, tail |-> Null, free |-> MaxMsgs, entry |-> 0,
                next |-> [s \in Slot |-> s - 1], data |-> [s \in Slot |-> m]]
       /\ message = [t \in Thread |-> m]
  /\ slot = [t \in Thread |-> Null] /\ limit = [t \in Thread |-> "none"]

-----------------------------------------------------------------------------
(* The list operations, each in one critical section *)

Claimed(q) == [q EXCEPT !.free = q.next[q.free]]

Freed(q, s) == [q EXCEPT !.next[s] = q.free, !.free = s]

\* Fault: the message is linked before the ones that wait.
LinkLastAtHead(q, s, v) ==
  [q EXCEPT !.next[s] = q.head, !.data[s] = v, !.head = s,
            !.tail = IF @ = Null THEN s ELSE @, !.entry = @ + 1]

LinkLast(q, s, v) ==
  [q EXCEPT !.next = IF q.tail # Null THEN [@ EXCEPT ![s] = Null, ![q.tail] = s]
                                      ELSE [@ EXCEPT ![s] = Null],
            !.data[s] = v, !.tail = s,
            !.head = IF @ = Null THEN s ELSE @, !.entry = @ + 1]

LinkFirst(q, s, v) ==
  [q EXCEPT !.next[s] = q.head, !.data[s] = v, !.head = s,
            !.tail = IF @ = Null THEN s ELSE @, !.entry = @ + 1]

\* Fault: the tail keeps pointing to a slot that was taken.
UnlinkKeepsTail(q) == [q EXCEPT !.head = q.next[q.head], !.entry = @ - 1]

Unlinked(q) ==
  [q EXCEPT !.head = q.next[q.head], !.tail = IF @ = q.head THEN Null ELSE @]

UnlinkFirst(q) == [Unlinked(q) EXCEPT !.entry = @ - 1]

\* One turn of the loop of the reset, which ends with the queue.
Cleared(q) == IF q.head = Null THEN q ELSE Freed(Unlinked(q), q.head)

Emptied(q) ==
  LET after[i \in 0 .. MaxMsgs] == IF i = 0 THEN q ELSE Cleared(after[i - 1])
  IN [after[MaxMsgs] EXCEPT !.entry = 0]

-----------------------------------------------------------------------------
\* Without a free slot both calls return -RT_EFULL and change nothing.
Claim(c, v, l) ==
  /\ Running(c) /\ mq.free # Null
  /\ mq' = Claimed(mq)
  /\ slot' = [slot EXCEPT ![c] = mq.free]
  /\ message' = [message EXCEPT ![c] = v]
  /\ Goto(c, l)
  /\ UNCHANGED <<sys, limit>>

rt_mq_send(c, v)   == v \notin Urgent /\ Claim(c, v, "fill")
rt_mq_urgent(c, v) == v \in Urgent /\ Claim(c, v, "ufill")

\* Fault: nobody is woken.
SendSilently(c) ==
  /\ At(c, "fill") \/ At(c, "ufill")
  /\ mq' = IF pc[c] = "fill" THEN LinkLast(mq, slot[c], message[c])
                             ELSE LinkFirst(mq, slot[c], message[c])
  /\ slot' = [slot EXCEPT ![c] = Null]
  /\ Goto(c, "run")
  /\ UNCHANGED <<sys, message, limit>>

\* The copy and the second critical section of both.
SendLink(c) ==
  /\ At(c, "fill") \/ At(c, "ufill")
  /\ mq' = IF pc[c] = "fill" THEN LinkLast(mq, slot[c], message[c])
                             ELSE LinkFirst(mq, slot[c], message[c])
  /\ slot' = [slot EXCEPT ![c] = Null]
  /\ IF sys.wait["recv"] # <<>> THEN sys' = rt_ipc_list_resume(sys, "recv") /\ Goto(c, "give")
                                ELSE sys' = sys /\ Goto(c, "run")
  /\ UNCHANGED <<message, limit>>

\* rt_mq_send in a handler, from which no thread step separates its parts.
MqFromInterrupt(v) ==
  /\ sys.cur # NoThread /\ mq.free # Null
  /\ mq' = LinkLast(Claimed(mq), mq.free, v)
  /\ sys' = IF sys.wait["recv"] # <<>> THEN rt_schedule(rt_ipc_list_resume(sys, "recv"))
                                       ELSE sys
  /\ UNCHANGED <<pc, slot, message, limit>>

GetMessage(c) ==
  /\ mq.entry > 0
  /\ mq' = UnlinkFirst(mq)
  /\ slot' = [slot EXCEPT ![c] = mq.head]
  /\ Goto(c, "copy")
  /\ UNCHANGED <<sys, message, limit>>

MqRefuse(c, e) ==
  /\ mq.entry = 0
  /\ sys' = SetError(sys, c, e)
  /\ Goto(c, "run")
  /\ UNCHANGED <<mq, slot, message, limit>>

MqBlock(c, tm) ==
  /\ mq.entry = 0
  /\ sys' = WaitOn(sys, "recv", c, MqFlag, tm)
  /\ limit' = [limit EXCEPT ![c] = tm]
  /\ Goto(c, "recv")
  /\ UNCHANGED <<mq, slot, message>>

rt_mq_recv(c, tm) ==
  /\ Running(c)
  /\ \/ GetMessage(c)
     \/ tm = "none" /\ MqRefuse(c, sys.error[c])
     \/ tm # "none" /\ MqBlock(c, tm)

\* The timeout left after a wait: one that was bounded may be used up.
MqLeft(c) == IF limit[c] = "timed" THEN {"timed", "none"} ELSE {limit[c]}

\* The loop of rt_mq_recv after rt_schedule().
MqRecvAgain(c) ==
  /\ At(c, "rback")
  /\ \/ /\ sys.error[c] # "EOK"
        /\ Goto(c, "run")
        /\ UNCHANGED <<sys, mq, slot, message, limit>>
     \/ /\ sys.error[c] = "EOK"
        /\ \/ GetMessage(c)
           \/ \E tm \in MqLeft(c) : \/ tm = "none" /\ MqRefuse(c, "ETIMEOUT")
                                    \/ tm # "none" /\ MqBlock(c, tm)

\* The copy out of the slot, and its return to the free list.
RecvFree(c) ==
  /\ At(c, "copy")
  /\ mq' = Freed(mq, slot[c])
  /\ slot' = [slot EXCEPT ![c] = Null]
  /\ Goto(c, "run")
  /\ UNCHANGED <<sys, message, limit>>

\* RT_IPC_CMD_RESET: every queued message goes to the free list.
rt_mq_control(c) ==
  /\ Running(c)
  /\ sys' = ResumeAll(sys, "recv")
  /\ mq' = Emptied(mq)
  /\ Goto(c, "give")
  /\ UNCHANGED <<slot, message, limit>>

MqSchedule(c) ==
  /\ Schedule(c, "recv", "rback") \/ Schedule(c, "give", "run")
  /\ UNCHANGED <<mq, slot, message, limit>>

MqCall(c) ==
  \/ \E v \in Message : rt_mq_send(c, v) \/ rt_mq_urgent(c, v)
  \/ \E tm \in MqTime : rt_mq_recv(c, tm)
  \/ SendLink(c) \/ MqRecvAgain(c) \/ RecvFree(c)
  \/ rt_mq_control(c) \/ MqSchedule(c)

MqNext ==
  \/ (Boot \/ Tick) /\ UNCHANGED <<mq, slot, message, limit>>
  \/ \E v \in Message \ Urgent : MqFromInterrupt(v)
  \/ \E c \in Thread \ {Idle} : MqCall(c)

MqSpec == MqInit /\ [][MqNext]_mqVars

-----------------------------------------------------------------------------
(* Properties *)

\* The slots of the list that starts at h, in order; a list that does not end
\* within MaxMsgs slots is cut there.
Chain(h) ==
  LET walk[n \in 0 .. MaxMsgs] ==
        IF n = 0 THEN h
        ELSE IF walk[n - 1] = Null THEN Null ELSE mq.next[walk[n - 1]]
      long == Cardinality({n \in 0 .. MaxMsgs : walk[n] # Null})
  IN [n \in 1 .. long |-> walk[n - 1]]

Held == {t \in Thread : slot[t] # Null}

\* The pool never leaks or shares a slot: the queue from head to tail, the
\* free list and the slots that callers of rt_mq_send, rt_mq_urgent and
\* rt_mq_recv hold between their two critical sections divide the slots among
\* them, and entry counts the queue.
SlotsDivided ==
  LET queue == Chain(mq.head)
      free  == Chain(mq.free)
  IN /\ PoolTypeOK
     /\ Len(queue) = mq.entry
     /\ mq.tail = IF queue = <<>> THEN Null ELSE queue[Len(queue)]
     /\ Len(queue) + Len(free) + Cardinality(Held) = MaxMsgs
     /\ ToSet(queue) \cup ToSet(free) \cup {slot[t] : t \in Held} = Slot

\* The queue of slots behaves as a bounded first-in first-out queue in the
\* order of the second critical sections of rt_mq_send, the messages of
\* rt_mq_urgent going to the front; nothing is lost or repeated, whatever
\* happens while messages are copied.
Contents == LET queue == Chain(mq.head) IN [i \in 1 .. Len(queue) |-> mq.data[queue[i]]]
MessageList == INSTANCE MailQueue WITH queue <- Contents, Mail <- Message, Size <- MaxMsgs,
                                       Resets <- TRUE
DeliversInOrder == MessageList!Spec

\* No lost wake-up: while a thread waits in rt_mq_recv there are no more
\* messages than woken receivers on their way to fetch them, whoever overtakes
\* them.
NoLostMessage ==
  sys.wait["recv"] # <<>> =>
    mq.entry <= Cardinality({t \in Thread : /\ pc[t] \in {"recv", "rback"}
                                            /\ sys.stat[t] = "READY"
                                            /\ sys.error[t] = "EOK"})
=============================================================================
