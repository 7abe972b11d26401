----------------------------- MODULE Processor -----------------------------
(***************************************************************************)
(* What every model of kernel calls shares: one processor, on which only   *)
(* the current thread takes steps, and interrupts, which may arrive between*)
(* any two of its steps, that is wherever the code has them enabled.  pc   *)
(* tells where in a kernel call each thread is ("run" outside of any).     *)
(***************************************************************************)
EXTENDS Kernel

VARIABLES sys, pc

At(c, l)   == sys.cur = c /\ pc[c] = l
Running(c) == At(c, "run")
Goto(c, l) == pc' = [pc EXCEPT ![c] = l]

-----------------------------------------------------------------------------
(* System start: threads are started before there is a current thread, the *)
(* idle thread last (startup.c), then the scheduler picks the first one.   *)

BootStartup(t) ==
  /\ sys.cur = NoThread /\ sys.stat[Idle] = "INIT"
  /\ sys.stat[t] = "INIT"
  /\ sys' = rt_thread_startup(sys, t)
  /\ UNCHANGED pc

rt_system_scheduler_start ==
  /\ sys.cur = NoThread /\ sys.stat[Idle] = "READY"
  /\ sys' = [sys EXCEPT !.cur = Head(sys.ready[HighestReady(sys)])]
  /\ UNCHANGED pc

-----------------------------------------------------------------------------
(* The tick interrupt.  cur is the interrupted thread; rt_schedule() in a  *)
(* handler takes effect when the handler returns.                          *)

\* A thread timer is taken off the timer list, then its callback runs.
TimerExpires(t) ==
  /\ sys.cur # NoThread /\ t \in sys.timer
  /\ sys' = rt_thread_timeout(rt_timer_stop(sys, t), t)
  /\ UNCHANGED pc

\* rt_tick_increase finds the time slice of the current thread used up.
TickYield ==
  /\ sys.cur # NoThread
  /\ sys' = rt_thread_yield(sys)
  /\ UNCHANGED pc

-----------------------------------------------------------------------------
(* The blocking and waking halves of the calls of src/src/ipc.c            *)

\* Fault: a negative timeout starts the timer too.
WaitAlwaysTimed(k, w, c, flag, time) ==
  rt_timer_start(rt_ipc_list_suspend(SetError(k, c, "EOK"), w, c, flag), c)

\* The current thread c leaves the processor for the waiting list w; time is
\* "forever" (a negative timeout) or "timed".
WaitOn(k, w, c, flag, time) ==
  LET r == rt_ipc_list_suspend(SetError(k, c, "EOK"), w, c, flag)
  IN IF time = "timed" THEN rt_timer_start(r, c) ELSE r

\* rt_ipc_list_resume_all called with interrupts already disabled.
ResumeAll(k, w) ==
  LET q == k.wait[w]
      after[i \in 0 .. Len(q)] ==
        IF i = 0 THEN k ELSE ResumeWithError(after[i - 1], q[i])
  IN after[Len(q)]

\* rt_schedule() as the next call of c, which goes on at l.
Schedule(c, from, l) ==
  /\ At(c, from)
  /\ sys' = rt_schedule(sys)
  /\ Goto(c, l)

-----------------------------------------------------------------------------
\* Start-up and the clock, in every model.
Boot == rt_system_scheduler_start \/ \E t \in Thread : BootStartup(t)
Tick == TickYield \/ \E t \in Thread : TimerExpires(t)
=============================================================================
