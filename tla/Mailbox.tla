------------------------------ MODULE Mailbox ------------------------------
(***************************************************************************)
(* One mailbox of src/src/ipc.c: a ring of mails, waiting receivers and    *)
(* waiting senders.  A thread that was woken looks at the ring again and   *)
(* may have to wait again.  Places in a call:                              *)
(*   send, recv    blocked, rt_schedule() is next                          *)
(*   sback, rback  rt_schedule() returned, thread->error is next           *)
(*   give          a thread was woken, rt_schedule() is next               *)
(***************************************************************************)
EXTENDS Processor

CONSTANTS
  Mail,      \* the values sent
  Size,      \* mb->size
  Flag,      \* RT_IPC_FLAG_FIFO or RT_IPC_FLAG_PRIO
  WaitTime   \* kinds of timeout the threads use

ASSUME MailboxAssumption ==
  /\ Size \in Nat \ {0} /\ Flag \in {"FIFO", "PRIO"} /\ Mail # {}
  /\ WaitTime \subseteq {"none", "timed", "forever"}
  /\ {"recv", "send"} \subseteq WaitList

VARIABLES
  mb,     \* msg_pool, in_offset, out_offset and entry
  value,  \* the mail of each thread's last rt_mb_send_wait
  time    \* what is left of the timeout of each thread's last call
vars == <<sys, pc, mb, value, time>>

PC == {"run", "send", "sback", "recv", "rback", "give"}

TypeOK ==
  /\ sys \in KernelState /\ pc \in [Thread -> PC]
  /\ mb \in [pool : [0 .. Size - 1 -> Mail], in : 0 .. Size - 1,
             out : 0 .. Size - 1, entry : 0 .. Size]
  /\ value \in [Thread -> Mail] /\ time \in [Thread -> {"none", "timed", "forever"}]

Init ==
  /\ sys = KernelInit /\ pc = [t \in Thread |-> "run"]
  /\ \E m \in Mail : /\ mb = [pool |-> [i \in 0 .. Size - 1 |-> m],
                              in |-> 0, out |-> 0, entry |-> 0]
                     /\ value = [t \in Thread |-> m]
  /\ time = [t \in Thread |-> "none"]

-----------------------------------------------------------------------------
Advance(i) == IF i + 1 >= Size THEN 0 ELSE i + 1

Put(v) == [mb EXCEPT !.pool[mb.in] = v, !.in = Advance(@), !.entry = @ + 1]

\* Fault: the slot is freed before it is read, so the next mail is returned.
GetSkips == [mb EXCEPT !.out = Advance(Advance(@)), !.entry = @ - 1]

Get == [mb EXCEPT !.out = Advance(@), !.entry = @ - 1]

\* Fault: nobody is woken.
WakeNobody(c, w) == sys' = sys /\ Goto(c, "run")

\* Fault: a thread is woken only when the ring stops being empty, or full.
WakeAtEdge(c, w) ==
  IF sys.wait[w] # <<>> /\ mb.entry = (IF w = "recv" THEN 0 ELSE Size)
    THEN sys' = rt_ipc_list_resume(sys, w) /\ Goto(c, "give")
    ELSE sys' = sys /\ Goto(c, "run")

\* The end of both calls: the first thread waiting for the opposite is woken.
WakeFirst(c, w) ==
  IF sys.wait[w] # <<>> THEN sys' = rt_ipc_list_resume(sys, w) /\ Goto(c, "give")
                        ELSE sys' = sys /\ Goto(c, "run")

Block(c, w, l, tm) ==
  /\ sys' = WaitOn(sys, w, c, Flag, tm)
  /\ time' = [time EXCEPT ![c] = tm]
  /\ Goto(c, l)

\* The call ends without success and leaves e in thread->error.
Refuse(c, e) ==
  /\ sys' = SetError(sys, c, e)
  /\ Goto(c, "run")
  /\ UNCHANGED <<mb, value, time>>

\* The timeout left after a wait: one that was bounded may be used up.
Left(c) == IF time[c] = "timed" THEN {"timed", "none"} ELSE {time[c]}

-----------------------------------------------------------------------------
PutMail(c, v) ==
  /\ mb.entry < Size
  /\ mb' = Put(v)
  /\ WakeFirst(c, "recv")
  /\ UNCHANGED <<value, time>>

rt_mb_send_wait(c, v, tm) ==
  /\ Running(c)
  /\ \/ PutMail(c, v)
     \/ mb.entry = Size /\ tm = "none" /\ Refuse(c, sys.error[c])
     \/ /\ mb.entry = Size /\ tm # "none"
        /\ Block(c, "send", "send", tm)
        /\ value' = [value EXCEPT ![c] = v]
        /\ UNCHANGED mb

\* The loop of rt_mb_send_wait after rt_schedule().
SendAgain(c) ==
  /\ At(c, "sback")
  /\ \/ sys.error[c] # "EOK" /\ Refuse(c, sys.error[c])
     \/ /\ sys.error[c] = "EOK"
        /\ \/ PutMail(c, value[c])
           \/ \E tm \in Left(c) :
                \/ mb.entry = Size /\ tm = "none" /\ Refuse(c, "EOK")
                \/ /\ mb.entry = Size /\ tm # "none"
                   /\ Block(c, "send", "send", tm)
                   /\ UNCHANGED <<mb, value>>

GetMail(c) ==
  /\ mb.entry > 0
  /\ mb' = Get
  /\ WakeFirst(c, "send")
  /\ UNCHANGED <<value, time>>

rt_mb_recv(c, tm) ==
  /\ Running(c)
  /\ \/ GetMail(c)
     \/ mb.entry = 0 /\ tm = "none" /\ Refuse(c, sys.error[c])
     \/ mb.entry = 0 /\ tm # "none" /\ Block(c, "recv", "recv", tm) /\ UNCHANGED <<mb, value>>

\* The loop of rt_mb_recv after rt_schedule().
RecvAgain(c) ==
  /\ At(c, "rback")
  /\ \/ sys.error[c] # "EOK" /\ Refuse(c, sys.error[c])
     \/ /\ sys.error[c] = "EOK"
        /\ \/ GetMail(c)
           \/ \E tm \in Left(c) :
                \/ mb.entry = 0 /\ tm = "none" /\ Refuse(c, "ETIMEOUT")
                \/ /\ mb.entry = 0 /\ tm # "none"
                   /\ Block(c, "recv", "recv", tm)
                   /\ UNCHANGED <<mb, value>>

\* rt_mb_send from a handler.
SendFromInterrupt(v) ==
  /\ sys.cur # NoThread /\ mb.entry < Size
  /\ mb' = Put(v)
  /\ sys' = IF sys.wait["recv"] # <<>> THEN rt_schedule(rt_ipc_list_resume(sys, "recv"))
                                       ELSE sys
  /\ UNCHANGED <<pc, value, time>>

\* RT_IPC_CMD_RESET
rt_mb_control(c) ==
  /\ Running(c)
  /\ sys' = ResumeAll(ResumeAll(sys, "recv"), "send")
  /\ mb' = [mb EXCEPT !.in = 0, !.out = 0, !.entry = 0]
  /\ Goto(c, "give")
  /\ UNCHANGED <<value, time>>

MbSchedule(c) ==
  /\ \/ Schedule(c, "send", "sback") \/ Schedule(c, "recv", "rback")
     \/ Schedule(c, "give", "run")
  /\ UNCHANGED <<mb, value, time>>

Continue(c) == SendAgain(c) \/ RecvAgain(c) \/ MbSchedule(c)

Call(c) ==
  \/ \E tm \in WaitTime : rt_mb_recv(c, tm) \/ \E v \in Mail : rt_mb_send_wait(c, v, tm)
  \/ rt_mb_control(c) \/ Continue(c)

Clock == Tick /\ UNCHANGED <<mb, value, time>>

Next ==
  \/ Boot /\ UNCHANGED <<mb, value, time>>
  \/ Clock \/ \E v \in Mail : SendFromInterrupt(v)
  \/ \E c \in Thread \ {Idle} : Call(c)

Spec == Init /\ [][Next]_vars

\* The clock ticks, and a thread inside a call that gets the processor again
\* and again goes on: a time slice is long enough for a step (strong fairness,
\* as a tick may take the processor away).  Nothing is assumed of what the
\* threads decide to call.
FairSpec == Spec /\ WF_vars(Clock) /\ \A c \in Thread : SF_vars(Continue(c))

-----------------------------------------------------------------------------
(* Properties *)

\* The ring behaves as a bounded first-in first-out queue, under preemption
\* between any two steps and across resets: no mail is lost, repeated or
\* reordered once rt_mb_send_wait accepted it.
Queue == INSTANCE MailQueue
           WITH queue <- [i \in 1 .. mb.entry |-> mb.pool[(mb.out + i - 1) % Size]],
                Urgent <- {}, Resets <- TRUE
FirstInFirstOut == Queue!Spec

\* The woken threads that have not looked at the ring again yet.
Pending(places) == {t \in Thread : /\ pc[t] \in places /\ sys.stat[t] = "READY"
                                   /\ sys.error[t] = "EOK"}

\* No lost wake-up: while a receiver waits there are no more mails than woken
\* receivers on their way to fetch them, while a sender waits no more free
\* slots than woken senders on their way to fill them, whoever overtakes them.
NoLostWakeup ==
  /\ sys.wait["recv"] # <<>> => mb.entry <= Cardinality(Pending({"recv", "rback"}))
  /\ sys.wait["send"] # <<>> => Size - mb.entry <= Cardinality(Pending({"send", "sback"}))

\* Mails do not lie there while threads wait for mail: whichever thread
\* overtakes a woken receiver, it takes the mail or a receiver fetches it, or
\* nobody waits any more.  This supposes of the threads that none computes for
\* ever outside of the kernel, as one of a higher priority would keep the
\* woken receiver from the processor.
MailFetched ==
  (\A c \in Thread \ {Idle} : []<>~Running(c)) =>
    (sys.wait["recv"] # <<>> /\ mb.entry > 0 ~> sys.wait["recv"] = <<>> \/ mb.entry = 0)
=============================================================================
