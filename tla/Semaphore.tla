----------------------------- MODULE Semaphore -----------------------------
(***************************************************************************)
(* One semaphore of src/src/ipc.c between threads and interrupt handlers.  *)
(* Places in a call:                                                       *)
(*   take  blocked in rt_sem_take, rt_schedule() is next                   *)
(*   back  rt_schedule() returned in rt_sem_take, thread->error is next    *)
(*   give  rt_sem_release has woken a thread, rt_schedule() is next        *)
(*   det   rt_ipc_list_resume_all of rt_sem_detach is about to test the    *)
(*         list, with interrupts enabled                                   *)
(*   det1  the list was not empty, the first waiter is resumed next        *)
(*   det2  the list was empty, rt_object_detach is next                    *)
(***************************************************************************)
EXTENDS Processor

CONSTANTS
  Flag,        \* RT_IPC_FLAG_FIFO or RT_IPC_FLAG_PRIO
  InitValue,   \* value given to rt_sem_init
  MaxValue,    \* bound: nobody releases a semaphore of this value
  ResetValue,  \* values given to rt_sem_control
  WaitTime,    \* kinds of timeout the threads use
  Detacher,    \* threads that may call rt_sem_detach
  DetachQuiescent \* is rt_sem_detach only called once no waiter's timer
                  \* runs, and does nobody use the semaphore meanwhile?

ASSUME SemAssumption ==
  /\ Flag \in {"FIFO", "PRIO"}
  /\ MaxValue \in Nat /\ InitValue \in 0 .. MaxValue
  /\ ResetValue \subseteq 0 .. MaxValue
  /\ WaitTime \subseteq {"none", "timed", "forever"}
  /\ "sem" \in WaitList /\ Detacher \subseteq Thread
  /\ DetachQuiescent \in BOOLEAN

VARIABLES
  value,   \* sem->value
  time,    \* the timeout argument of each thread's last rt_sem_take
  live,    \* the semaphore is initialised
  stray    \* rt_thread_resume was applied to the list head itself
vars == <<sys, pc, value, time, live, stray>>

DetPC   == {"det", "det1", "det2"}   \* inside rt_sem_detach
Waiting == ToSet(sys.wait["sem"])

\* May the semaphore be used?  With DetachQuiescent nobody does while another
\* thread is inside rt_sem_detach.
Usable == live /\ (DetachQuiescent => \A c \in Thread : pc[c] \notin DetPC)

\* Threads handed the semaphore that have not yet returned from rt_sem_take.
Granted == {t \in Thread : /\ pc[t] \in {"take", "back"} /\ sys.stat[t] = "READY"
                           /\ sys.error[t] = "EOK"}

TypeOK ==
  /\ sys \in KernelState
  /\ pc \in [Thread -> {"run", "take", "back", "give"} \cup DetPC]
  /\ value \in 0 .. MaxValue /\ live \in BOOLEAN /\ stray \in BOOLEAN
  /\ time \in [Thread -> {"none", "timed", "forever"}]

Init ==
  /\ sys = KernelInit /\ pc = [t \in Thread |-> "run"]
  /\ value = InitValue /\ live = TRUE /\ stray = FALSE
  /\ time = [t \in Thread |-> "none"]

-----------------------------------------------------------------------------
rt_sem_take(c, tm) ==
  /\ Running(c) /\ Usable
  /\ time' = [time EXCEPT ![c] = tm]
  /\ \/ /\ value > 0
        /\ value' = value - 1
        /\ UNCHANGED <<sys, pc>>
     \/ /\ value = 0 /\ tm = "none"
        /\ UNCHANGED <<sys, pc, value>>
     \/ /\ value = 0 /\ tm # "none"
        /\ sys' = WaitOn(sys, "sem", c, Flag, tm)
        /\ Goto(c, "take")
        /\ UNCHANGED value
  /\ UNCHANGED <<live, stray>>

TakeReturn(c) ==
  /\ At(c, "back")
  /\ Goto(c, "run")
  /\ UNCHANGED <<sys, value, time, live, stray>>

\* Fault: the value grows although a waiter gets the semaphore.
GiveTwice(k) ==
  [sys |-> IF k.wait["sem"] # <<>> THEN rt_ipc_list_resume(k, "sem") ELSE k,
   value |-> value + 1]

\* Fault: a waiter is not woken.
GiveSilently(k) == [sys |-> k, value |-> value + 1]

\* The body of rt_sem_release, with interrupts disabled.
Give(k) ==
  IF k.wait["sem"] # <<>>
  THEN [sys |-> rt_ipc_list_resume(k, "sem"), value |-> value]
  ELSE [sys |-> k, value |-> value + 1]

rt_sem_release(c) ==
  /\ Running(c) /\ Usable /\ value < MaxValue
  /\ sys' = Give(sys).sys /\ value' = Give(sys).value
  /\ Goto(c, IF sys.wait["sem"] # <<>> THEN "give" ELSE "run")
  /\ UNCHANGED <<time, live, stray>>

ReleaseFromInterrupt ==
  /\ sys.cur # NoThread /\ Usable /\ value < MaxValue
  /\ value' = Give(sys).value
  /\ sys' = IF sys.wait["sem"] # <<>> THEN rt_schedule(Give(sys).sys) ELSE sys
  /\ UNCHANGED <<pc, time, live, stray>>

\* RT_IPC_CMD_RESET
rt_sem_control(c, v) ==
  /\ Running(c) /\ Usable
  /\ sys' = ResumeAll(sys, "sem")
  /\ value' = v
  /\ Goto(c, "give")
  /\ UNCHANGED <<time, live, stray>>

rt_sem_detach(c) ==
  /\ Running(c) /\ Usable /\ c \in Detacher
  /\ DetachQuiescent => Waiting \cap sys.timer = {}
  /\ Goto(c, "det")
  /\ UNCHANGED <<sys, value, time, live, stray>>

\* rt_list_isempty(list)
DetachTest(c) ==
  /\ At(c, "det")
  /\ Goto(c, IF sys.wait["sem"] = <<>> THEN "det2" ELSE "det1")
  /\ UNCHANGED <<sys, value, time, live, stray>>

\* The list head taken for a thread has whatever state its memory holds.
DetachResume(c) ==
  /\ At(c, "det1")
  /\ sys' = IF sys.wait["sem"] = <<>> THEN sys
            ELSE ResumeWithError(sys, Head(sys.wait["sem"]))
  /\ stray' = (stray \/ sys.wait["sem"] = <<>>)
  /\ Goto(c, "det")
  /\ UNCHANGED <<value, time, live>>

DetachObject(c) ==
  /\ At(c, "det2")
  /\ live' = FALSE
  /\ Goto(c, "run")
  /\ UNCHANGED <<sys, value, time, stray>>

SemSchedule(c) ==
  /\ Schedule(c, "take", "back") \/ Schedule(c, "give", "run")
  /\ UNCHANGED <<value, time, live, stray>>

Call(c) ==
  \/ \E tm \in WaitTime : rt_sem_take(c, tm)
  \/ \E v \in ResetValue : rt_sem_control(c, v)
  \/ TakeReturn(c) \/ rt_sem_release(c) \/ SemSchedule(c)
  \/ rt_sem_detach(c) \/ DetachTest(c) \/ DetachResume(c) \/ DetachObject(c)

Clock == Tick /\ UNCHANGED <<value, time, live, stray>>
Continue(c) == SemSchedule(c) \/ TakeReturn(c)

Next ==
  \/ (Boot \/ Tick) /\ UNCHANGED <<value, time, live, stray>>
  \/ ReleaseFromInterrupt
  \/ \E c \in Thread \ {Idle} : Call(c)

Spec == Init /\ [][Next]_vars

\* The clock ticks, and a thread inside a call goes on when it has the
\* processor; nothing is assumed of what the threads decide to call.
FairSpec ==
  /\ Spec
  /\ WF_vars(Clock)
  /\ \A c \in Thread : WF_vars(Continue(c))

-----------------------------------------------------------------------------
(* Properties *)

\* A thread never waits while the semaphore has a permit, or once it is gone:
\* rt_sem_release hands a permit to the first waiter instead of counting it, a
\* timeout, a reset or an interrupt between the two halves of rt_sem_take never
\* separates them, and rt_sem_detach, when nothing but its caller can touch the
\* waiting list, resumes all the waiters and nothing else.
NoWaitWithPermit ==
  /\ value > 0 \/ ~live => Waiting = {}
  /\ ~stray

\* A permit is acquired once for each permit posted: a waiter that timed out
\* takes none, one that was resumed in time keeps its own whatever happens
\* before it runs again.
Counting == INSTANCE CountingSem WITH avail <- value + Cardinality(Granted)
CountsPermits == Counting!Spec

\* Only a wait with a timeout ends with RT_ETIMEOUT: the timer of an earlier
\* wait never ends a later one.
NoSpuriousTimeout ==
  \A t \in Thread : pc[t] = "back" /\ sys.error[t] = "ETIMEOUT" => time[t] = "timed"

\* With RT_IPC_FLAG_FIFO no waiter is passed over for ever: as long as the
\* semaphore keeps being released, every waiter stops waiting.
WaiterServed ==
  []<><<ReleaseFromInterrupt>>_vars =>
    \A t \in Thread : t \in Waiting ~> t \notin Waiting

=============================================================================
