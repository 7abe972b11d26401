------------------------------- MODULE Kernel -------------------------------
(***************************************************************************)
(* The kernel core every other module is built on: the ready queues of     *)
(* src/src/scheduler.c, the thread control blocks of src/src/thread.c and  *)
(* the waiting lists of src/src/ipc.c.  The kernel's globals are one       *)
(* record k, and each C function that runs with interrupts disabled is an  *)
(* operator from the record before the call to the record after it, so a   *)
(* caller is the composition of the functions it calls.                    *)
(*                                                                         *)
(* A thread is linked through its only list node, tlist, into at most one  *)
(* of: a ready list, the waiting list of an object, the defunct list.      *)
(*                                                                         *)
(* Abstracted: number_mask is the bit of current_priority (thread.c always *)
(* assigns both together), the stack and the saved context are the caller's*)
(* program counter, and a running thread timer expires at any later tick.  *)
(***************************************************************************)
EXTENDS Lists

CONSTANTS
  Thread,        \* the thread objects, the idle thread included
  Idle,          \* the idle thread (src/src/idle.c)
  PRIORITY_MAX,  \* RT_THREAD_PRIORITY_MAX
  InitPriority,  \* init_priority of each thread
  WaitList,      \* the waiting lists of the objects of the model
  NoThread       \* RT_NULL

ASSUME KernelAssumption ==
  /\ PRIORITY_MAX \in Nat \ {0}
  /\ Idle \in Thread
  /\ InitPriority \in [Thread -> 0 .. PRIORITY_MAX - 1]
  /\ NoThread \notin Thread

Priority == 0 .. PRIORITY_MAX - 1
Stat     == {"INIT", "READY", "SUSPEND", "CLOSE"}
Error    == {"EOK", "ETIMEOUT", "ERROR"}

(***************************************************************************)
(* stat, prio, error  fields of struct rt_thread                           *)
(* timer              threads whose thread_timer is activated              *)
(* ready, group       rt_thread_priority_table and the bitmap              *)
(*                    rt_thread_ready_priority_group as a set of bits      *)
(* wait, defunct      suspend_thread lists and rt_thread_defunct           *)
(* cur, nest          rt_current_thread and rt_scheduler_lock_nest         *)
(* gone               threads whose object was deleted or detached         *)
(***************************************************************************)
KernelState ==
  [stat : [Thread -> Stat], prio : [Thread -> Priority],
   error : [Thread -> Error], timer : SUBSET Thread,
   ready : [Priority -> Seq(Thread)], group : SUBSET Priority,
   wait : [WaitList -> Seq(Thread)], defunct : Seq(Thread),
   cur : Thread \cup {NoThread}, nest : Nat, gone : SUBSET Thread]

\* rt_system_scheduler_init, and every thread freshly initialised.
KernelInit ==
  [stat |-> [t \in Thread |-> "INIT"], prio |-> InitPriority,
   error |-> [t \in Thread |-> "EOK"], timer |-> {},
   ready |-> [p \in Priority |-> <<>>], group |-> {},
   wait |-> [w \in WaitList |-> <<>>], defunct |-> <<>>,
   cur |-> NoThread, nest |-> 0, gone |-> {}]

-----------------------------------------------------------------------------
(* Lists *)

\* Unlinks the node tlist from whatever list it is on; on no list, a no-op.
rt_list_remove(k, t) ==
  [k EXCEPT !.ready   = [p \in Priority |-> Unlink(k.ready[p], t)],
            !.wait    = [w \in WaitList |-> Unlink(k.wait[w], t)],
            !.defunct = Unlink(k.defunct, t)]

-----------------------------------------------------------------------------
(* Scheduler *)

\* __rt_ffs(rt_thread_ready_priority_group) - 1
HighestReady(k) == CHOOSE p \in k.group : \A q \in k.group : p <= q

\* Fault: the scheduler lock is not looked at.
ScheduleWhenLocked(k) == [k EXCEPT !.cur = Head(k.ready[HighestReady(k)])]

rt_schedule(k) ==
  IF k.nest = 0 THEN [k EXCEPT !.cur = Head(k.ready[HighestReady(k)])] ELSE k

rt_schedule_insert_thread(k, t) ==
  [k EXCEPT !.stat[t] = "READY",
            !.ready[k.prio[t]] = Append(@, t),
            !.group = @ \cup {k.prio[t]}]

\* Fault: the bitmap keeps the bit of a list that became empty.
RemoveKeepsBit(k, t) == rt_list_remove(k, t)

rt_schedule_remove_thread(k, t) ==
  LET r == rt_list_remove(k, t) IN
  IF r.ready[k.prio[t]] = <<>> THEN [r EXCEPT !.group = @ \ {k.prio[t]}] ELSE r

rt_enter_critical(k) == [k EXCEPT !.nest = @ + 1]

\* A call without a matching enter leaves the nest at zero.
rt_exit_critical(k) ==
  IF k.nest <= 1 THEN rt_schedule([k EXCEPT !.nest = 0])
                 ELSE [k EXCEPT !.nest = @ - 1]

-----------------------------------------------------------------------------
(* Threads.  rt_timer_start and rt_timer_stop of thread_timer are updates  *)
(* of the set timer.                                                       *)

SetStat(k, t, v)     == [k EXCEPT !.stat[t] = v]
SetPrio(k, t, p)     == [k EXCEPT !.prio[t] = p]
SetError(k, t, e)    == [k EXCEPT !.error[t] = e]
rt_timer_start(k, t) == [k EXCEPT !.timer = @ \cup {t}]
rt_timer_stop(k, t)  == [k EXCEPT !.timer = @ \ {t}]

rt_thread_suspend(k, t) ==
  IF k.stat[t] # "READY" THEN k
  ELSE SetStat(rt_timer_stop(rt_schedule_remove_thread(k, t), t), t, "SUSPEND")

\* Fault: the timer of the wait keeps running.
ResumeKeepsTimer(k, t) ==
  IF k.stat[t] # "SUSPEND" THEN k
  ELSE rt_schedule_insert_thread(rt_list_remove(k, t), t)

rt_thread_resume(k, t) ==
  IF k.stat[t] # "SUSPEND" THEN k
  ELSE rt_schedule_insert_thread(rt_timer_stop(rt_list_remove(k, t), t), t)

\* The timer's callback, run by rt_timer_check in the tick interrupt.
rt_thread_timeout(k, t) ==
  LET r == rt_list_remove(SetError(k, t, "ETIMEOUT"), t) IN
  rt_schedule(rt_schedule_insert_thread(r, t))

rt_thread_startup(k, t) ==
  LET s == SetStat(SetPrio(k, t, InitPriority[t]), t, "SUSPEND")
      r == rt_thread_resume(s, t)
  IN IF k.cur # NoThread THEN rt_schedule(r) ELSE r

\* Fault: the yielding thread goes back to the front of its list.
YieldToFront(k) ==
  LET c == k.cur
      p == k.prio[c]
  IN IF k.stat[c] = "READY" /\ c \in ToSet(k.ready[p]) /\ Len(k.ready[p]) > 1
     THEN rt_schedule([k EXCEPT !.ready[p] = <<c>> \o Unlink(@, c)])
     ELSE k

\* Only a thread that shares its ready list gives way.
rt_thread_yield(k) ==
  LET c == k.cur
      p == k.prio[c]
  IN IF k.stat[c] = "READY" /\ c \in ToSet(k.ready[p]) /\ Len(k.ready[p]) > 1
     THEN rt_schedule([k EXCEPT !.ready[p] = Append(Unlink(@, c), c)])
     ELSE k

\* RT_THREAD_CTRL_CHANGE_PRIORITY
ChangePriority(k, t, p) ==
  IF k.stat[t] = "READY"
  THEN rt_schedule_insert_thread(SetPrio(rt_schedule_remove_thread(k, t), t, p), t)
  ELSE SetPrio(k, t, p)

\* _rt_thread_init of an object whose memory is free.
rt_thread_init(k, t) ==
  [k EXCEPT !.stat[t] = "INIT", !.prio[t] = InitPriority[t],
            !.error[t] = "EOK", !.gone = @ \ {t}]

\* rt_list_insert_after(&rt_thread_defunct, &(thread->tlist))
MakeDefunct(k, t) == [k EXCEPT !.defunct = <<t>> \o @]

\* rt_object_detach or rt_object_delete, the thread's memory is free.
rt_object_detach(k, t) == [k EXCEPT !.gone = @ \cup {t}]

-----------------------------------------------------------------------------
(* Waiting lists *)

\* Position of t in a list ordered by priority: before the first thread of
\* strictly lower priority.
InsertByPriority(k, s, t) ==
  LET i == SelectInSeq(s, LAMBDA u : k.prio[t] < k.prio[u])
  IN LinkAt(s, i, t)

\* Fault: a new waiter goes before the others.
SuspendAtHead(k, w, t, flag) ==
  LET s == rt_thread_suspend(k, t) IN [s EXCEPT !.wait[w] = <<t>> \o @]

rt_ipc_list_suspend(k, w, t, flag) ==
  LET s == rt_thread_suspend(k, t) IN
  [s EXCEPT !.wait[w] = IF flag = "FIFO" THEN Append(@, t)
                                         ELSE InsertByPriority(s, @, t)]

rt_ipc_list_resume(k, w) == rt_thread_resume(k, Head(k.wait[w]))

\* One turn of the loop of rt_ipc_list_resume_all, with interrupts disabled.
ResumeWithError(k, t) == rt_thread_resume(SetError(k, t, "ERROR"), t)

-----------------------------------------------------------------------------
(* What the lists must look like at every instant interrupts are enabled   *)

\* The READY threads are exactly the linked ones, each once, in the list of
\* its current priority, and the bitmap tells the lists that are not empty.
\* Exempt is a set of threads unlinked ahead of a change of their state.
ReadyListsOK(k, Exempt) ==
  /\ \A p \in Priority : NoDup(k.ready[p])
  /\ \A p \in Priority : ToSet(k.ready[p])
       = {t \in Thread \ Exempt : k.stat[t] = "READY" /\ k.prio[t] = p}
  /\ k.group = {p \in Priority : k.ready[p] # <<>>}

\* A thread on a waiting list is suspended, and is on that list only.
WaitListsOK(k) ==
  /\ \A w \in WaitList : NoDup(k.wait[w])
  /\ \A w \in WaitList : \A t \in ToSet(k.wait[w]) :
       /\ k.stat[t] = "SUSPEND"
       /\ \A v \in WaitList : t \in ToSet(k.wait[v]) => v = w

\* A running thread timer belongs to a suspended thread: the assertion of
\* rt_thread_timeout (src/src/thread.c).
TimersOK(k) == \A t \in k.timer : k.stat[t] = "SUSPEND"

\* The threads left to the idle thread are closed and not yet freed.
DefunctOK(k) ==
  /\ NoDup(k.defunct)
  /\ \A t \in ToSet(k.defunct) : k.stat[t] = "CLOSE" /\ t \notin k.gone
  /\ \A t \in k.gone : k.stat[t] = "CLOSE"

\* t is linked into no list but a ready list.
Loose(k, t) ==
  /\ t \notin k.gone /\ t \notin ToSet(k.defunct)
  /\ \A w \in WaitList : t \notin ToSet(k.wait[w])

\* And it has no running timer.
Detached(k, t) == Loose(k, t) /\ t \notin k.timer

KernelOK(k, Exempt) ==
  /\ ReadyListsOK(k, Exempt) /\ WaitListsOK(k) /\ TimersOK(k) /\ DefunctOK(k)
  /\ \A t \in Exempt : Loose(k, t)
=============================================================================
