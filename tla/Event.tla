------------------------------- MODULE Event -------------------------------
(***************************************************************************)
(* One event object of src/src/ipc.c: a set of flags, and threads that wait*)
(* for all or some of the flags they name.  Places in a call:              *)
(*   recv  blocked in rt_event_recv, rt_schedule() is next                 *)
(*   back  rt_schedule() returned in rt_event_recv, thread->error is next  *)
(*   give  threads were woken, rt_schedule() is next                       *)
(***************************************************************************)
EXTENDS Processor

CONSTANTS
  Bit,        \* the flags in use
  EventFlag,  \* RT_IPC_FLAG_FIFO or RT_IPC_FLAG_PRIO
  EventTime,  \* kinds of timeout the threads use
  Request     \* the flags and options that the threads ask for

ASSUME EventAssumption ==
  /\ EventFlag \in {"FIFO", "PRIO"} /\ EventTime \subseteq {"none", "timed", "forever"}
  /\ "event" \in WaitList
  /\ Request \subseteq [set : (SUBSET Bit) \ {{}}, and : BOOLEAN, clear : BOOLEAN]

VARIABLES
  set,    \* event->set
  info,   \* event_set and event_info of each thread
  asked   \* the flags that each blocked thread asked for
eventVars == <<sys, pc, set, info, asked>>

Flags == (SUBSET Bit) \ {{}}   \* a set of 0 is refused at once

EventTypeOK ==
  /\ sys \in KernelState
  /\ pc \in [Thread -> {"run", "recv", "back", "give"}]
  /\ set \in SUBSET Bit
  /\ info \in [Thread -> [set : SUBSET Bit, and : BOOLEAN, clear : BOOLEAN]]
  /\ asked \in [Thread -> SUBSET Bit]

EventInit ==
  /\ sys = KernelInit /\ pc = [t \in Thread |-> "run"]
  /\ set = {}
  /\ info = [t \in Thread |-> [set |-> {}, and |-> FALSE, clear |-> FALSE]]
  /\ asked = [t \in Thread |-> {}]

-----------------------------------------------------------------------------
\* Fault: one of the flags is enough, whatever the option.
AnyFlag(r, have) == r.set \cap have # {}

Satisfied(r, have) == IF r.and THEN r.set \subseteq have ELSE r.set \cap have # {}

\* Fault: a woken thread does not consume its flags.
OfferWithoutClear(e, t) ==
  LET i == e.info[t] IN
  IF ~Satisfied(i, e.set) THEN e
  ELSE [k |-> rt_thread_resume(e.k, t), set |-> e.set,
        info |-> [e.info EXCEPT ![t].set = @ \cap e.set]]

\* One turn of the loop of rt_event_send: the waiting thread t is woken if
\* the flags satisfy it, and may consume them.
Offer(e, t) ==
  LET i == e.info[t]
      got == i.set \cap e.set
  IN IF ~Satisfied(i, e.set) THEN e
     ELSE [k |-> rt_thread_resume(e.k, t),
           set |-> IF i.clear THEN e.set \ got ELSE e.set,
           info |-> [e.info EXCEPT ![t].set = got]]

\* Fault: only the first waiter is looked at.
SendToFirst(s) ==
  LET e == [k |-> sys, set |-> set \cup s, info |-> info]
  IN IF sys.wait["event"] = <<>> THEN e ELSE Offer(e, Head(sys.wait["event"]))

\* The body of rt_event_send, with interrupts disabled: the waiting threads in
\* turn, and those that are woken leave the list.
Sent(s) ==
  LET q == sys.wait["event"]
      after[i \in 0 .. Len(q)] ==
        IF i = 0 THEN [k |-> sys, set |-> set \cup s, info |-> info]
                 ELSE Offer(after[i - 1], q[i])
  IN after[Len(q)]

NeedSchedule(s) == Sent(s).k.wait["event"] # sys.wait["event"]

rt_event_send(c, s) ==
  /\ Running(c)
  /\ sys' = Sent(s).k /\ set' = Sent(s).set /\ info' = Sent(s).info
  /\ Goto(c, IF NeedSchedule(s) THEN "give" ELSE "run")
  /\ UNCHANGED asked

EventFromInterrupt(s) ==
  /\ sys.cur # NoThread
  /\ sys' = IF NeedSchedule(s) THEN rt_schedule(Sent(s).k) ELSE Sent(s).k
  /\ set' = Sent(s).set /\ info' = Sent(s).info
  /\ UNCHANGED <<pc, asked>>

\* A satisfied call receives set \cap r.set at once.
rt_event_recv(c, r, tm) ==
  /\ Running(c)
  /\ \/ /\ Satisfied(r, set)
        /\ set' = IF r.clear THEN set \ r.set ELSE set
        /\ sys' = SetError(sys, c, "EOK")
        /\ UNCHANGED <<pc, info, asked>>
     \/ /\ ~Satisfied(r, set) /\ tm = "none"
        /\ sys' = SetError(sys, c, "ETIMEOUT")
        /\ UNCHANGED <<pc, set, info, asked>>
     \/ /\ ~Satisfied(r, set) /\ tm # "none"
        /\ info' = [info EXCEPT ![c] = r]
        /\ asked' = [asked EXCEPT ![c] = r.set]
        /\ sys' = WaitOn(sys, "event", c, EventFlag, tm)
        /\ Goto(c, "recv")
        /\ UNCHANGED set

\* Returns thread->error, with thread->event_set as the flags received.
RecvReturn(c) ==
  /\ At(c, "back")
  /\ Goto(c, "run")
  /\ asked' = [asked EXCEPT ![c] = {}]
  /\ UNCHANGED <<sys, set, info>>

\* RT_IPC_CMD_RESET
rt_event_control(c) ==
  /\ Running(c)
  /\ sys' = ResumeAll(sys, "event")
  /\ set' = {}
  /\ Goto(c, "give")
  /\ UNCHANGED <<info, asked>>

EventSchedule(c) ==
  /\ Schedule(c, "recv", "back") \/ Schedule(c, "give", "run")
  /\ UNCHANGED <<set, info, asked>>

EventCall(c) ==
  \/ \E s \in Flags : rt_event_send(c, s)
  \/ \E r \in Request, tm \in EventTime : rt_event_recv(c, r, tm)
  \/ RecvReturn(c) \/ rt_event_control(c) \/ EventSchedule(c)

EventNext ==
  \/ (Boot \/ Tick) /\ UNCHANGED <<set, info, asked>>
  \/ \E s \in Flags : EventFromInterrupt(s)
  \/ \E c \in Thread \ {Idle} : EventCall(c)

EventSpec == EventInit /\ [][EventNext]_eventVars

-----------------------------------------------------------------------------
(* Properties *)

\* No thread sleeps through its event: a waiting thread's condition, AND or
\* OR, is not met by the flags that are set, although earlier waiters consume
\* flags while rt_event_send walks the list it changes.
NoWaitSatisfied ==
  /\ EventTypeOK
  /\ \A t \in ToSet(sys.wait["event"]) :
       IF info[t].and THEN ~(info[t].set \subseteq set) ELSE info[t].set \cap set = {}

\* A thread that rt_event_send woke finds, whenever it comes to run, flags it
\* asked for: all of them with AND, at least one with OR.
HandedOver ==
  \A t \in Thread :
    pc[t] \in {"recv", "back"} /\ sys.stat[t] = "READY" /\ sys.error[t] = "EOK" =>
      /\ info[t].set # {} /\ info[t].set \subseteq asked[t]
      /\ info[t].and => info[t].set = asked[t]

\* The threads that leave the waiting list in a step with success, and clear.
Consumers == {t \in ToSet(sys.wait["event"]) \ ToSet(sys'.wait["event"]) :
                sys'.error[t] = "EOK" /\ info'[t].clear}

\* A flag is consumed once: of the threads that one rt_event_send wakes no two
\* with RT_EVENT_FLAG_CLEAR receive the same flag, and it is no longer set.
ConsumedOnce ==
  [][\A t \in Consumers :
       /\ info'[t].set \cap set' = {}
       /\ \A u \in Consumers \ {t} : info'[t].set \cap info'[u].set = {}]_eventVars

=============================================================================
