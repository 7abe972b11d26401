------------------------------ MODULE Threads ------------------------------
(***************************************************************************)
(* The thread life cycle and the scheduler on one processor                *)
(* (src/src/thread.c, scheduler.c, idle.c, clock.c).  Places in a call:    *)
(*   run    outside the kernel                                             *)
(*   sched  interrupts enabled again, rt_schedule() is the next call       *)
(*   back   rt_schedule() returned inside rt_thread_sleep                  *)
(*   del1   rt_thread_delete has unlinked arg and not yet stopped its timer*)
(*   del2   rt_thread_delete has marked arg CLOSE, not yet made it defunct *)
(*          (rt_thread_detach: not yet detached it)                        *)
(***************************************************************************)
EXTENDS Processor

CONSTANTS
  Static,       \* threads set up by rt_thread_init (system objects)
  MaxNest,      \* bound on the depth of critical sections
  NewPriority   \* priorities that RT_THREAD_CTRL_CHANGE_PRIORITY sets

ASSUME ThreadsAssumption ==
  /\ Static \subseteq Thread
  /\ Idle \in Static
  /\ MaxNest \in Nat
  /\ NewPriority \subseteq Priority

VARIABLES
  arg,   \* the thread that a caller of rt_thread_delete or _detach names
  back   \* threads whose timer expired while they were being deleted (history)
vars == <<sys, pc, arg, back>>

PC    == {"run", "sched", "back", "del1", "del2"}
DelPC == {"del1", "del2"}   \* inside rt_thread_delete or rt_thread_detach

\* A thread that some caller is deleting, between its unlinking and its
\* insertion in the defunct list.
Deleting == {arg[c] : c \in {d \in Thread : pc[d] \in DelPC}}

\* t is linked through its only list node.
OnReadyList(t) == \E p \in Priority : t \in ToSet(sys.ready[p])
OnWaitList(t)  == \E w \in WaitList : t \in ToSet(sys.wait[w])

\* rt_thread_delete has marked a thread CLOSE that is on a list or freed.  Its
\* last step links or frees it once more: the lists are lists no longer, and
\* the model ends here.
Torn == \E c \in Thread : LET t == arg[c] IN
          /\ pc[c] = "del2"
          /\ OnReadyList(t) \/ OnWaitList(t) \/ t \in ToSet(sys.defunct) \/ t \in sys.gone

TypeOK ==
  /\ sys \in KernelState
  /\ pc \in [Thread -> PC]
  /\ arg \in [Thread -> Thread] /\ back \in SUBSET Thread

Init ==
  /\ sys = KernelInit
  /\ pc  = [t \in Thread |-> "run"]
  /\ arg = [t \in Thread |-> t]
  /\ back = {}

-----------------------------------------------------------------------------
(* Calls of the current thread c *)

Startup(c, t) ==
  /\ Running(c) /\ sys.stat[t] = "INIT" /\ t \notin Deleting
  /\ sys' = rt_thread_startup(sys, t)
  /\ UNCHANGED <<pc, arg, back>>

\* A new thread object in the place of one that is gone, unless a deletion
\* still names it or was left unfinished by it.
Create(c, t) ==
  /\ Running(c) /\ t \in sys.gone
  /\ t \notin Deleting /\ pc[t] \notin DelPC
  /\ sys' = rt_thread_init(sys, t)
  /\ pc' = [pc EXCEPT ![t] = "run"]
  /\ back' = back \ {t}
  /\ UNCHANGED arg

rt_thread_sleep(c) ==
  /\ Running(c) /\ sys.nest = 0
  /\ sys' = rt_timer_start(rt_thread_suspend(sys, c), c)
  /\ Goto(c, "sched")
  /\ UNCHANGED <<arg, back>>

\* The blocking half of every wait in the kernel: suspend, link into the
\* object's waiting list, start the timer if the wait is bounded.
Block(c, w, timed) ==
  LET s == SetError(sys, c, "EOK")
      r == rt_ipc_list_suspend(s, w, c, "PRIO")
  IN /\ Running(c) /\ sys.nest = 0
     /\ sys' = IF timed THEN rt_timer_start(r, c) ELSE r
     /\ Goto(c, "sched")
     /\ UNCHANGED <<arg, back>>

\* The waking half: resume the first waiter with interrupts disabled, then
\* enable them and reschedule.
Wake(c, w) ==
  /\ Running(c) /\ sys.wait[w] # <<>>
  /\ sys' = rt_ipc_list_resume(sys, w)
  /\ Goto(c, "sched")
  /\ UNCHANGED <<arg, back>>

Reschedule(c) ==
  /\ sys.cur = c /\ pc[c] = "sched"
  /\ sys' = rt_schedule(sys)
  /\ Goto(c, IF sys.stat[c] = "CLOSE" THEN "run" ELSE "back")
  /\ UNCHANGED <<arg, back>>

Return(c) ==
  /\ sys.cur = c /\ pc[c] = "back"
  /\ sys' = IF sys.error[c] = "ETIMEOUT" THEN SetError(sys, c, "EOK") ELSE sys
  /\ Goto(c, "run")
  /\ UNCHANGED <<arg, back>>

Yield(c) ==
  /\ Running(c)
  /\ sys' = rt_thread_yield(sys)
  /\ UNCHANGED <<pc, arg, back>>

SetPriority(c, t, p) ==
  /\ Running(c) /\ t # Idle
  /\ sys.stat[t] # "CLOSE" /\ (t \in Deleting => t = c)
  /\ sys' = ChangePriority(sys, t, p)
  /\ UNCHANGED <<pc, arg, back>>

EnterCritical(c) ==
  /\ Running(c) /\ sys.nest < MaxNest
  /\ sys' = rt_enter_critical(sys)
  /\ UNCHANGED <<pc, arg, back>>

ExitCritical(c) ==
  /\ Running(c)
  /\ sys' = rt_exit_critical(sys)
  /\ UNCHANGED <<pc, arg, back>>

\* A static thread without a cleanup function is detached at once, any other
\* one is left to the idle thread; rt_schedule() follows.
rt_thread_exit(c) ==
  LET r == SetStat(rt_timer_stop(rt_schedule_remove_thread(sys, c), c), c, "CLOSE")
  IN /\ Running(c) /\ sys.nest = 0
     /\ sys' = IF c \in Static THEN rt_object_detach(r, c) ELSE MakeDefunct(r, c)
     /\ Goto(c, "sched")
     /\ UNCHANGED <<arg, back>>

\* rt_thread_delete and rt_thread_detach disable interrupts for their list
\* operations only, so they are three steps: unlink; stop the timer and mark
\* CLOSE; make defunct, or detach a static thread.  Any thread may be deleted
\* at any time but one that was deleted before.
DeleteUnlink(c, t) ==
  /\ Running(c) /\ t \notin {c, Idle}
  /\ sys.stat[t] # "CLOSE" /\ t \notin Deleting
  /\ sys' = rt_schedule_remove_thread(sys, t)
  /\ Goto(c, "del1")
  /\ arg' = [arg EXCEPT ![c] = t]
  /\ UNCHANGED back

\* Fault: the timer of the deleted thread keeps running.
DeleteKeepsTimer(c) ==
  /\ sys.cur = c /\ pc[c] = "del1"
  /\ sys' = SetStat(sys, arg[c], "CLOSE")
  /\ Goto(c, "del2")
  /\ UNCHANGED <<arg, back>>

DeleteClose(c) ==
  /\ sys.cur = c /\ pc[c] = "del1"
  /\ sys' = SetStat(rt_timer_stop(sys, arg[c]), arg[c], "CLOSE")
  /\ Goto(c, "del2")
  /\ UNCHANGED <<arg, back>>

DeleteFinish(c) ==
  /\ sys.cur = c /\ pc[c] = "del2"
  /\ sys' = IF arg[c] \in Static THEN rt_object_detach(sys, arg[c])
                                ELSE MakeDefunct(sys, arg[c])
  /\ Goto(c, "run")
  /\ UNCHANGED <<arg, back>>

\* rt_thread_idle_excute: the idle thread frees the first defunct thread.
Reap ==
  /\ Running(Idle) /\ sys.defunct # <<>>
  /\ LET t == Head(sys.defunct) IN sys' = rt_object_detach(rt_list_remove(sys, t), t)
  /\ UNCHANGED <<pc, arg, back>>

-----------------------------------------------------------------------------
\* An interrupt handler that wakes the first waiter of an object.
InterruptWake(w) ==
  /\ sys.cur # NoThread /\ sys.wait[w] # <<>>
  /\ sys' = rt_schedule(rt_ipc_list_resume(sys, w))
  /\ UNCHANGED <<pc, arg, back>>

-----------------------------------------------------------------------------
Call(c) ==
  \/ rt_thread_sleep(c) \/ Reschedule(c) \/ Return(c) \/ Yield(c)
  \/ EnterCritical(c) \/ ExitCritical(c) \/ rt_thread_exit(c)
  \/ DeleteClose(c) \/ DeleteFinish(c)
  \/ \E t \in Thread : Startup(c, t) \/ Create(c, t) \/ DeleteUnlink(c, t)
  \/ \E t \in Thread, p \in NewPriority : SetPriority(c, t, p)
  \/ \E w \in WaitList : Wake(c, w) \/ \E timed \in BOOLEAN : Block(c, w, timed)

\* The timer of a thread under deletion runs until the second step stops it.
TimerInterrupt(t) ==
  /\ TimerExpires(t)
  /\ back' = IF t \in Deleting THEN back \cup {t} ELSE back
  /\ UNCHANGED arg

Interrupt ==
  \/ TickYield /\ UNCHANGED <<arg, back>>
  \/ \E t \in Thread : TimerInterrupt(t)
  \/ \E w \in WaitList : InterruptWake(w)

\* The idle thread makes no call but the clean-up of defunct threads.
Next ==
  \/ /\ ~Torn
     /\ \/ Boot /\ UNCHANGED <<arg, back>>
        \/ Reap \/ Interrupt \/ \E c \in Thread \ {Idle} : Call(c)
  \/ Torn /\ UNCHANGED vars

Spec == Init /\ [][Next]_vars

\* The clock keeps ticking and does not hit critical sections only, and a
\* thread inside a kernel call or a critical section goes on when it has the
\* processor.
Fairness ==
  /\ SF_vars(~Torn /\ TickYield /\ sys.nest = 0 /\ UNCHANGED <<arg, back>>)
  /\ \A c \in Thread : WF_vars(~Torn /\ (Reschedule(c) \/ Return(c) \/ ExitCritical(c)))

FairSpec == Spec /\ Fairness

-----------------------------------------------------------------------------
(* Properties *)

\* Threads that a deletion took off the ready lists.
Unlinked == {t \in Deleting : ~OnReadyList(t)}

\* At every instant interrupts are enabled the ready lists hold exactly the
\* READY threads, by current priority, and the bitmap that rt_schedule
\* searches agrees with them: no ready thread is invisible to the scheduler
\* and no empty list is ever picked.
ReadyQueueOK == Torn \/ ReadyListsOK(sys, Unlinked)

\* A thread waits on at most one object, only while SUSPEND, and only a
\* SUSPEND thread has a running timer, so RT_ASSERT(thread->stat ==
\* RT_THREAD_SUSPEND) of rt_thread_timeout never fails.
SuspendedOK == TypeOK /\ (Torn \/ (WaitListsOK(sys) /\ TimersOK(sys)))

\* A thread that exited or was deleted stays out of the scheduler: it is on
\* no ready or waiting list, its timer is stopped, and it runs at most the
\* rest of rt_thread_exit; once its object is gone no list refers to it.
\* rt_thread_delete says "The thread object will be removed from thread
\* queue and detached/deleted from system object management."  That fails for
\* exactly one reason: the thread's own timer expired after rt_thread_delete
\* had unlinked it and before it stopped that timer.  No wake-up, interrupt,
\* yield or exit in that window brings a thread back.
ClosedNotScheduled ==
  \A t \in Thread \ back :
    /\ sys.stat[t] = "CLOSE" =>
         /\ t \notin sys.timer /\ ~OnReadyList(t) /\ ~OnWaitList(t)
         /\ sys.cur = t => pc[t] = "sched"
    /\ t \in sys.gone => sys.stat[t] = "CLOSE" /\ t \notin ToSet(sys.defunct)
    /\ t \in Deleting => ~OnReadyList(t) /\ ~OnWaitList(t) /\ sys.cur # t

\* A context switch never happens inside a critical section, and it always
\* goes to a ready thread than which no ready thread has higher priority.
SwitchStep ==
  sys'.cur # sys.cur =>
    /\ sys'.nest = 0
    /\ sys'.stat[sys'.cur] = "READY"
    /\ \A t \in Thread \ Unlinked' :
         sys'.stat[t] = "READY" => sys'.prio[sys'.cur] <= sys'.prio[t]

SwitchToHighest == [][SwitchStep]_vars

\* Round robin: a thread that stays ready at the priority of the running
\* threads gets the processor again and again, however they yield, wake
\* others, use critical sections (as long as these end) or change the
\* priorities of other threads.
RoundRobin ==
  \A t \in Thread :
    /\ <>[](/\ sys.cur # NoThread /\ t \notin Deleting /\ ~Torn
            /\ sys.stat[t] = "READY" /\ sys.stat[sys.cur] = "READY"
            /\ sys.prio[t] = sys.prio[sys.cur])
    /\ []<>(sys.nest = 0)
    /\ <>[][\A c \in Thread, p \in NewPriority : ~SetPriority(c, t, p)]_vars
    => []<>(sys.cur = t)
=============================================================================
