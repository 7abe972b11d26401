---------------------------- MODULE LocksProofs ----------------------------
(***************************************************************************)
(* The safety properties of Semaphore and Mutex, for any number of threads *)
(* and any priorities, and the semaphore as an implementation of           *)
(* CountingSem.                                                            *)
(***************************************************************************)
EXTENDS MCLocks, KernelProofs, FiniteSetTheorems

-----------------------------------------------------------------------------
(* The invariant of Semaphore *)

\* The current thread can run, or is about to leave the processor; before the
\* system is started no thread is inside a call.
SemCurrent ==
  /\ sys.cur # NoThread => sys.stat[sys.cur] = "READY" \/ pc[sys.cur] = "take"
  /\ sys.cur = NoThread => \A t \in Thread : pc[t] = "run"

\* A thread waits inside rt_sem_take, for EOK unless something else happens.
SemWaits == \A t \in Waiting : pc[t] \in {"take", "back"} /\ sys.error[t] = "EOK"

\* The only timers are those of timed waits.
SemTimers ==
  /\ \A t \in sys.timer : t \in Waiting /\ time[t] = "timed"
  /\ \A t \in Thread : pc[t] \in {"take", "back"} /\ sys.error[t] = "ETIMEOUT"
                         => time[t] = "timed"

\* One thread at most detaches the semaphore, which nobody uses any more.
SemDetach ==
  /\ \A c \in Thread : pc[c] \in DetPC => live /\ Waiting \cap sys.timer = {}
  /\ \A c \in Thread : pc[c] = "det1" => Waiting # {}
  /\ \A c \in Thread : pc[c] = "det2" => Waiting = {}
  /\ \A c, d \in Thread : pc[c] \in DetPC /\ pc[d] \in DetPC => c = d

SemQuiet == DetachQuiescent => SemDetach /\ NoWaitWithPermit

SemInv == TypeOK /\ Base(sys) /\ SemCurrent /\ SemWaits /\ SemTimers /\ SemQuiet

-----------------------------------------------------------------------------
(* The steps of the kernel, as far as threads, timers and lists are sets *)

\* t left its waiting list, its timer is stopped.
SemFreed(t) ==
  /\ sys'.stat = [sys.stat EXCEPT ![t] = "READY"]
  /\ sys'.timer = sys.timer \ {t} /\ Waiting' = Waiting \ {t}

\* Nothing but the current thread changed.
SemSame ==
  /\ sys'.stat = sys.stat /\ sys'.error = sys.error
  /\ sys'.timer = sys.timer /\ Waiting' = Waiting

\* The current thread can run.
CurReady == sys'.cur # NoThread => sys'.stat[sys'.cur] = "READY"

\* The facts every step starts from.
LEMMA SemFacts ==
  ASSUME SemInv
  PROVE  /\ sys \in KernelState /\ KernelOK(sys, {}) /\ Sound(sys) /\ sys.nest = 0
         /\ "sem" \in WaitList /\ Idle \in Thread /\ NoThread \notin Thread
         /\ sys.stat \in [Thread -> Stat] /\ sys.error \in [Thread -> Error]
         /\ sys.timer \subseteq Thread /\ Waiting \subseteq Thread
         /\ sys.wait["sem"] \in Seq(Thread)
         /\ sys.wait["sem"] = <<>> <=> Waiting = {}
         /\ \A t \in Waiting : sys.stat[t] = "SUSPEND"
         /\ \A t \in sys.timer : sys.stat[t] = "SUSPEND"
<1>1. Sound(sys) /\ sys.nest = 0 BY DEF SemInv, Base
<1>2. sys \in KernelState /\ KernelOK(sys, {}) BY <1>1 DEF Sound
<1>3. "sem" \in WaitList BY SemAssumption
<1>4. /\ sys.stat \in [Thread -> Stat] /\ sys.error \in [Thread -> Error]
      /\ sys.timer \subseteq Thread /\ sys.wait["sem"] \in Seq(Thread)
  BY <1>2, <1>3, KernelTypes
<1>5. Waiting \subseteq Thread /\ (sys.wait["sem"] = <<>> <=> Waiting = {})
  BY <1>4, EmptyList DEF Waiting
<1>6. \A t \in Waiting : sys.stat[t] = "SUSPEND"
  BY <1>2, <1>3 DEF Waiting, KernelOK, WaitListsOK
<1>7. \A t \in sys.timer : sys.stat[t] = "SUSPEND" BY <1>2 DEF KernelOK, TimersOK
<1> QED BY <1>1, <1>2, <1>3, <1>4, <1>5, <1>6, <1>7, KernelAssumption

\* The first waiter is resumed.
LEMMA SemResume ==
  ASSUME SemInv, Waiting # {}, NEW r, r = rt_ipc_list_resume(sys, "sem")
  PROVE  \E t \in Waiting :
           /\ Base(r) /\ r.stat = [sys.stat EXCEPT ![t] = "READY"]
           /\ r.error = sys.error /\ r.timer = sys.timer \ {t} /\ r.cur = sys.cur
           /\ ToSet(r.wait["sem"]) = Waiting \ {t}
<1>1. PICK t : t = Head(sys.wait["sem"]) OBVIOUS
<1>2. sys.wait["sem"] \in Seq(Thread) /\ sys.wait["sem"] # <<>> /\ "sem" \in WaitList
  BY SemFacts
<1>3. t \in Waiting BY <1>1, <1>2, EmptyList DEF Waiting
<1>4. t \in Thread /\ sys.stat[t] = "SUSPEND" /\ Base(sys) BY <1>3, SemFacts DEF SemInv
<1>5. r = rt_thread_resume(sys, t) BY <1>1 DEF rt_ipc_list_resume
<1>6. /\ Base(r) /\ r.stat = [sys.stat EXCEPT ![t] = "READY"]
      /\ r.error = sys.error /\ r.timer = sys.timer \ {t} /\ r.cur = sys.cur
      /\ \A w \in WaitList : ToSet(r.wait[w]) = ToSet(sys.wait[w]) \ {t}
  BY <1>4, <1>5, ResumeBase
<1> QED BY <1>2, <1>3, <1>6 DEF Waiting

-----------------------------------------------------------------------------
(* The steps of Semaphore *)

\* What a step does to the permits: nothing; a post, to a waiter or to the
\* value; an acquisition, from the value or by a thread that was handed the
\* semaphore; a reset.
SemEffect ==
  \/ value' = value /\ Granted' = Granted
  \/ value' = value /\ \E u \in Thread \ Granted : Granted' = Granted \cup {u}
  \/ value' = value + 1 /\ Granted' = Granted
  \/ value > 0 /\ value' = value - 1 /\ Granted' = Granted
  \/ value' = value /\ \E u \in Granted : Granted' = Granted \ {u}
  \/ value' \in ResetValue /\ Granted' = Granted

\* A step that leaves the threads as they are and calls no other function
\* than rt_schedule.
LEMMA SemSameOK ==
  ASSUME SemInv, Base(sys'), SemSame, CurReady,
         sys'.cur = NoThread => sys.cur = NoThread,
         UNCHANGED <<pc, value, time, live, stray>>
  PROVE  SemInv' /\ SemEffect
<1>1. TypeOK' BY DEF SemInv, TypeOK, Base, Sound
<1>2. SemCurrent' BY DEF CurReady, SemInv, SemCurrent
<1>3. SemEffect BY DEF SemSame, SemEffect, Granted
<1> QED BY <1>1, <1>2, <1>3
     DEF SemInv, SemSame, SemWaits, SemTimers, SemQuiet, SemDetach, NoWaitWithPermit

\* The scheduler starts.
LEMMA SemBootOK ==
  ASSUME SemInv, Boot, UNCHANGED <<value, time, live, stray>>
  PROVE  SemInv' /\ SemEffect
<1>1. CASE rt_system_scheduler_start
  <2>1. sys' = rt_schedule(sys) /\ pc' = pc /\ sys.cur = NoThread /\ sys.stat[Idle] = "READY"
    BY <1>1, SemFacts DEF rt_system_scheduler_start, rt_schedule
  <2>2. sys.group # {} BY <2>1, SemFacts, ReadyInGroup
  <2>3. Dispatched(sys, sys') BY <2>1, <2>2, SemFacts, DispatchEffect
  <2>4. Base(sys') /\ SemSame /\ CurReady /\ sys'.cur # NoThread
    BY <2>1, <2>3, SemFacts DEF Dispatched, Kept, Base, SemSame, CurReady, Waiting
  <2> QED BY <2>1, <2>4, SemSameOK
<1>2. ASSUME NEW t \in Thread, BootStartup(t) PROVE SemInv' /\ SemEffect
  <2>1. /\ sys' = rt_thread_startup(sys, t) /\ pc' = pc
        /\ sys.stat[t] = "INIT" /\ sys.cur = NoThread
    BY <1>2 DEF BootStartup
  <2>2. /\ Sound(sys') /\ sys'.cur = NoThread /\ sys'.nest = sys.nest
        /\ sys'.error = sys.error /\ sys'.timer = sys.timer /\ sys'.wait = sys.wait
        /\ sys'.stat = [sys.stat EXCEPT ![t] = "READY"]
    <3>1. Begun(sys, sys', t) BY <2>1, SemFacts, StartupEffect
    <3> QED BY <2>1, <3>1 DEF Begun
  <2>3. Base(sys') BY <2>2, SemFacts DEF Base
  <2>4. TypeOK' BY <2>1, <2>2 DEF SemInv, TypeOK, Sound
  <2>5. SemCurrent' BY <2>1, <2>2 DEF SemInv, SemCurrent
  <2>6. Waiting' = Waiting BY <2>2 DEF Waiting
  <2>7. pc[t] = "run" BY <2>1 DEF SemInv, SemCurrent
  <2>8. \A u \in Thread \ {t} : sys'.stat[u] = sys.stat[u] BY <2>2, SemFacts
  <2>9. Granted' = Granted BY <2>1, <2>2, <2>7, <2>8 DEF Granted
  <2>10. SemEffect BY <2>9 DEF SemEffect
  <2> QED BY <2>1, <2>2, <2>3, <2>4, <2>5, <2>6, <2>10
       DEF SemInv, SemWaits, SemTimers, SemQuiet, SemDetach, NoWaitWithPermit
<1> QED BY <1>1, <1>2 DEF Boot

\* rt_tick_increase, and a timer that expires.
LEMMA SemTickOK ==
  ASSUME SemInv, Tick, UNCHANGED <<value, time, live, stray>>
  PROVE  SemInv' /\ SemEffect
<1>1. CASE TickYield
  <2>1. sys' = rt_thread_yield(sys) /\ pc' = pc /\ sys.cur # NoThread /\ sys.cur \in Thread
    BY <1>1 DEF TickYield, SemInv, Base
  <2>2. CASE sys.stat[sys.cur] # "READY"
    <3>1. sys' = sys BY <2>1, <2>2 DEF rt_thread_yield
    <3>2. pc' = pc /\ Waiting' = Waiting BY <2>1, <3>1 DEF Waiting
    <3>3. SemEffect BY <3>1, <3>2 DEF SemEffect, Granted
    <3> QED BY <3>1, <3>2, <3>3
         DEF SemInv, TypeOK, SemCurrent, SemWaits, SemTimers, SemQuiet, SemDetach, NoWaitWithPermit
  <2>3. CASE sys.stat[sys.cur] = "READY"
    <3>1. Dispatched(sys, sys') BY <2>1, <2>3, SemFacts, YieldEffect
    <3>2. Base(sys') /\ SemSame /\ CurReady /\ sys'.cur # NoThread
      BY <2>1, <3>1, SemFacts DEF Dispatched, Kept, Base, SemSame, CurReady, Waiting, SemInv
    <3> QED BY <2>1, <3>2, SemSameOK
  <2> QED BY <2>2, <2>3
<1>2. ASSUME NEW t \in Thread, TimerExpires(t) PROVE SemInv' /\ SemEffect
  <2>1. /\ sys' = rt_thread_timeout(rt_timer_stop(sys, t), t) /\ pc' = pc
        /\ t \in sys.timer /\ sys.cur # NoThread
    BY <1>2 DEF TimerExpires
  <2>2. /\ Woken(sys, sys', t) /\ sys'.error = [sys.error EXCEPT ![t] = "ETIMEOUT"]
        /\ sys'.cur \in Thread /\ sys'.stat[sys'.cur] = "READY"
    BY <2>1, SemFacts, TimeoutEffect
  <2>3. SemFreed(t) /\ Base(sys')
    <3>1. SemFreed(t) BY <2>2, SemFacts DEF Woken, SemFreed, Waiting
    <3>2. sys.stat[Idle] = "READY" BY <2>1 DEF SemInv, Base
    <3>3. sys'.stat[Idle] = "READY" BY <2>2, <3>2, SemFacts DEF Woken
    <3>4. Base(sys') BY <2>2, <3>3, SemFacts DEF Woken, Kept, Base
    <3> QED BY <3>1, <3>4
  <2>4. SemCurrent' /\ TypeOK'
    BY <2>1, <2>2, <2>3, SemFacts DEF SemInv, TypeOK, SemCurrent, Base, Sound
  <2>5. SemWaits' BY <2>1, <2>2, <2>3, SemFacts DEF SemInv, SemWaits, SemFreed
  <2>6. SemTimers'
    BY <2>1, <2>2, <2>3, SemFacts DEF SemInv, SemTimers, SemFreed
  <2>7. DetachQuiescent => \A c \in Thread : pc[c] \notin DetPC
    BY <2>1 DEF SemInv, SemQuiet, SemDetach, SemTimers
  <2>8. SemQuiet' BY <2>1, <2>3, <2>7 DEF SemInv, SemQuiet, SemDetach, DetPC, NoWaitWithPermit, SemFreed
  <2>9. SemEffect
    <3>1. \A u \in Thread \ {t} : sys'.stat[u] = sys.stat[u] /\ sys'.error[u] = sys.error[u]
      BY <2>2, <2>3, SemFacts DEF SemFreed
    <3>2. sys.stat[t] # "READY" /\ sys'.error[t] # "EOK" BY <2>1, <2>2, SemFacts
    <3>3. Granted' = Granted BY <2>1, <3>1, <3>2 DEF Granted
    <3> QED BY <3>3 DEF SemEffect
  <2> QED BY <2>3, <2>4, <2>5, <2>6, <2>8, <2>9 DEF SemInv
<1> QED BY <1>1, <1>2 DEF Tick

\* A thread that is not about to leave the processor can run, waits nowhere
\* and has no timer.
LEMMA SemCaller ==
  ASSUME SemInv, NEW c \in Thread, sys.cur = c, pc[c] # "take"
  PROVE  /\ sys.cur # NoThread /\ sys.stat[c] = "READY" /\ sys.stat[Idle] = "READY"
         /\ c \notin Waiting /\ c \notin sys.timer
<1>1. sys.cur # NoThread /\ sys.stat[c] = "READY" BY SemFacts DEF SemInv, SemCurrent
<1>2. sys.stat[Idle] = "READY" BY <1>1 DEF SemInv, Base
<1> QED BY <1>1, <1>2, SemFacts

\* rt_sem_take.
LEMMA SemTakeOK ==
  ASSUME SemInv, NEW c \in Thread \ {Idle}, NEW tm \in WaitTime, rt_sem_take(c, tm)
  PROVE  SemInv' /\ SemEffect
<1>1. sys.cur = c /\ pc[c] = "run" /\ live /\ time' = [time EXCEPT ![c] = tm]
  BY DEF rt_sem_take, Running, At, Usable
<1>2. /\ sys.cur # NoThread /\ sys.stat[c] = "READY" /\ sys.stat[Idle] = "READY"
      /\ c \notin Waiting /\ c \notin sys.timer
  BY <1>1, SemCaller
<1>3. tm \in {"none", "timed", "forever"} /\ live' = live /\ stray' = stray
  BY SemAssumption DEF rt_sem_take
<1>4. \A t \in Waiting \cup sys.timer : t # c /\ time'[t] = time[t]
  BY <1>1, <1>2, SemFacts DEF SemInv, TypeOK
<1>5. time' \in [Thread -> {"none", "timed", "forever"}]
  BY <1>1, <1>3 DEF SemInv, TypeOK
<1>6. CASE sys' = sys /\ pc' = pc /\ (value' = value \/ (value > 0 /\ value' = value - 1))
  <2>1. TypeOK' BY <1>3, <1>5, <1>6, SemAssumption DEF SemInv, TypeOK
  <2>2. Base(sys') /\ SemCurrent' /\ SemWaits'
    BY <1>3, <1>6 DEF SemInv, SemCurrent, SemWaits, Waiting
  <2>3. SemTimers' BY <1>1, <1>4, <1>6, SemFacts DEF SemInv, SemTimers, Waiting, TypeOK
  <2>4. SemQuiet'
    BY <1>3, <1>6 DEF SemInv, TypeOK, SemQuiet, SemDetach, NoWaitWithPermit, Waiting
  <2>5. SemEffect BY <1>6 DEF SemEffect, Granted
  <2> QED BY <1>6, <2>1, <2>2, <2>3, <2>4, <2>5 DEF SemInv
<1>7. CASE /\ value = 0 /\ tm # "none" /\ value' = value
           /\ sys' = WaitOn(sys, "sem", c, Flag, tm) /\ Goto(c, "take")
  <2>1. Queued(sys, sys', "sem", c, tm) BY <1>2, <1>7, SemFacts, WaitEffect
  <2>2. /\ sys'.stat = [sys.stat EXCEPT ![c] = "SUSPEND"]
        /\ sys'.error = [sys.error EXCEPT ![c] = "EOK"]
        /\ sys'.timer = (IF tm = "timed" THEN sys.timer \cup {c} ELSE sys.timer)
        /\ Waiting' = Waiting \cup {c} /\ sys'.cur = c
    BY <1>1, <2>1, SemFacts DEF Queued, Waiting
  <2>3. Base(sys')
    <3>1. sys'.stat[Idle] = "READY" BY <1>2, <2>2, SemFacts
    <3> QED BY <1>1, <2>1, <2>2, <3>1, SemFacts DEF Queued, Base, Kept
  <2>4. pc' = [pc EXCEPT ![c] = "take"] BY <1>7 DEF Goto
  <2>5. pc'[c] = "take" /\ \A t \in Thread \ {c} : pc'[t] = pc[t]
    BY <2>4 DEF SemInv, TypeOK
  <2>6. TypeOK' BY <1>3, <1>5, <1>7, <2>3, <2>4 DEF SemInv, TypeOK, Base, Sound
  <2>7. SemCurrent' BY <1>2, <2>2, <2>5, <1>1 DEF SemCurrent
  <2>8. SemWaits' BY <2>2, <2>5, SemFacts DEF SemInv, SemWaits
  <2>9. SemTimers'
    <3>1. time'[c] = tm BY <1>1 DEF SemInv, TypeOK
    <3>2. \A t \in sys'.timer : t \in Waiting' /\ time'[t] = "timed"
      BY <1>4, <2>2, <3>1 DEF SemInv, SemTimers
    <3>3. sys'.error[c] = "EOK" /\ \A t \in Thread \ {c} : /\ sys'.error[t] = sys.error[t]
                                                          /\ time'[t] = time[t]
      BY <1>1, <2>2, SemFacts DEF SemInv, TypeOK
    <3> QED BY <2>5, <3>2, <3>3 DEF SemInv, SemTimers
  <2>10. SemQuiet'
    <3>1. DetachQuiescent => \A d \in Thread : pc[d] \notin DetPC
      BY DEF rt_sem_take, Usable
    <3>2. DetachQuiescent => \A d \in Thread : pc'[d] \notin DetPC BY <2>5, <3>1 DEF DetPC
    <3> QED BY <1>1, <1>3, <1>7, <3>2 DEF SemInv, SemQuiet, SemDetach, DetPC, NoWaitWithPermit
  <2>11. SemEffect
    <3>1. \A u \in Thread \ {c} : sys'.stat[u] = sys.stat[u] /\ sys'.error[u] = sys.error[u]
      BY <2>2, SemFacts
    <3>2. sys'.stat[c] # "READY" BY <2>2, SemFacts
    <3>3. Granted' = Granted BY <1>1, <2>5, <3>1, <3>2 DEF Granted
    <3> QED BY <1>7, <3>3 DEF SemEffect
  <2> QED BY <2>3, <2>6, <2>7, <2>8, <2>9, <2>10, <2>11 DEF SemInv
<1> QED BY <1>6, <1>7 DEF rt_sem_take, SemInv, TypeOK

-----------------------------------------------------------------------------
(* The other calls of a semaphore *)

\* What may happen to pc when c goes on at l.
LEMMA SemGoto ==
  ASSUME SemInv, NEW c \in Thread, NEW l, Goto(c, l)
  PROVE  /\ pc'[c] = l /\ \A t \in Thread \ {c} : pc'[t] = pc[t]
         /\ l \in {"run", "take", "back", "give"} \cup DetPC
              => pc' \in [Thread -> {"run", "take", "back", "give"} \cup DetPC]
BY DEF SemInv, TypeOK, Goto

\* A step that only moves the program counter of c, inside or outside of a
\* call that does not wait.
LEMMA SemMoveOK ==
  ASSUME SemInv, NEW c \in Thread, sys.cur = c, pc[c] # "take",
         NEW l \in {"run", "give"} \cup DetPC, Goto(c, l),
         UNCHANGED <<sys, value, time, stray>>,
         live' \in BOOLEAN, DetachQuiescent => SemDetach' /\ NoWaitWithPermit'
  PROVE  SemInv' /\ SemEffect
<1>1. pc'[c] = l /\ \A t \in Thread \ {c} : pc'[t] = pc[t] BY SemGoto
<1>2. TypeOK' BY SemGoto DEF SemInv, TypeOK
<1>3. /\ sys.cur # NoThread /\ sys.stat[c] = "READY" /\ c \notin Waiting /\ c \notin sys.timer
  BY SemCaller
<1>4. Waiting' = Waiting BY DEF Waiting
<1>5. SemCurrent' BY <1>3 DEF SemCurrent
<1>6. SemWaits' BY <1>1, <1>3, <1>4, SemFacts DEF SemInv, SemWaits
<1>7. SemTimers' BY <1>1, <1>4, SemFacts DEF SemInv, SemTimers, DetPC
<1>8. Granted' = Granted \ {c} BY <1>1 DEF Granted, DetPC
<1>9. SemEffect BY <1>8 DEF SemEffect
<1> QED BY <1>2, <1>5, <1>6, <1>7, <1>9 DEF SemInv, SemQuiet

\* rt_sem_take goes on after rt_schedule.
LEMMA SemReturnOK ==
  ASSUME SemInv, NEW c \in Thread, TakeReturn(c)
  PROVE  SemInv' /\ SemEffect
<1>1. sys.cur = c /\ pc[c] = "back" /\ Goto(c, "run") BY DEF TakeReturn, At
<1>2. UNCHANGED <<sys, value, time, live, stray>> BY DEF TakeReturn
<1>3. pc'[c] = "run" /\ \A t \in Thread \ {c} : pc'[t] = pc[t] BY <1>1, SemGoto
<1>4. DetachQuiescent => SemDetach' /\ NoWaitWithPermit'
  BY <1>1, <1>2, <1>3 DEF SemInv, SemQuiet, SemDetach, NoWaitWithPermit, DetPC, Waiting
<1> QED BY <1>1, <1>2, <1>4, SemMoveOK DEF SemInv, TypeOK

\* rt_sem_detach and the turns of its loop that resume nobody.
LEMMA SemDetachOK ==
  ASSUME SemInv, NEW c \in Thread, rt_sem_detach(c) \/ DetachTest(c) \/ DetachObject(c)
  PROVE  SemInv' /\ SemEffect
<1>1. CASE rt_sem_detach(c)
  <2>1. /\ sys.cur = c /\ pc[c] = "run" /\ Goto(c, "det") /\ live
        /\ UNCHANGED <<sys, value, time, live, stray>>
    BY <1>1 DEF rt_sem_detach, Running, At, Usable
  <2>2. pc'[c] = "det" /\ \A t \in Thread \ {c} : pc'[t] = pc[t] BY <2>1, SemGoto
  <2>3. DetachQuiescent => /\ Waiting \cap sys.timer = {}
                           /\ \A d \in Thread : pc[d] \notin DetPC
    BY <1>1 DEF rt_sem_detach, Usable
  <2>4. Waiting' = Waiting BY <2>1 DEF Waiting
  <2>5. DetachQuiescent => SemDetach' /\ NoWaitWithPermit'
    <3> SUFFICES ASSUME DetachQuiescent PROVE SemDetach' /\ NoWaitWithPermit' OBVIOUS
    <3>1. \A d \in Thread : pc'[d] \in DetPC => d = c BY <2>2, <2>3
    <3>2. \A d \in Thread : pc'[d] # "det1" /\ pc'[d] # "det2"
      BY <2>2, <2>3 DEF DetPC
    <3>3. SemDetach' BY <2>1, <2>3, <2>4, <3>1, <3>2 DEF SemDetach
    <3> QED BY <2>1, <2>4, <3>3 DEF SemInv, SemQuiet, NoWaitWithPermit
  <2> QED BY <2>1, <2>5, SemMoveOK DEF SemInv, TypeOK, DetPC
<1>2. CASE DetachTest(c)
  <2>1. PICK l : l = IF sys.wait["sem"] = <<>> THEN "det2" ELSE "det1" OBVIOUS
  <2>2. /\ sys.cur = c /\ pc[c] = "det" /\ Goto(c, l)
        /\ UNCHANGED <<sys, value, time, live, stray>>
    BY <1>2, <2>1 DEF DetachTest, At
  <2>3. pc'[c] = l /\ \A t \in Thread \ {c} : pc'[t] = pc[t] BY <2>2, SemGoto
  <2>4. Waiting' = Waiting BY <2>2 DEF Waiting
  <2>5. (l = "det1" /\ Waiting # {}) \/ (l = "det2" /\ Waiting = {}) BY <2>1, SemFacts
  <2>6. DetachQuiescent => SemDetach' /\ NoWaitWithPermit'
    BY <2>2, <2>3, <2>4, <2>5 DEF SemInv, SemQuiet, SemDetach, NoWaitWithPermit, DetPC
  <2> QED BY <2>2, <2>5, <2>6, SemMoveOK DEF SemInv, TypeOK, DetPC
<1>3. CASE DetachObject(c)
  <2>1. /\ sys.cur = c /\ pc[c] = "det2" /\ Goto(c, "run") /\ live' = FALSE
        /\ UNCHANGED <<sys, value, time, stray>>
    BY <1>3 DEF DetachObject, At
  <2>2. pc'[c] = "run" /\ \A t \in Thread \ {c} : pc'[t] = pc[t] BY <2>1, SemGoto
  <2>3. Waiting' = Waiting BY <2>1 DEF Waiting
  <2>4. DetachQuiescent => SemDetach' /\ NoWaitWithPermit'
    <3> SUFFICES ASSUME DetachQuiescent PROVE SemDetach' /\ NoWaitWithPermit' OBVIOUS
    <3>1. SemDetach /\ NoWaitWithPermit BY DEF SemInv, SemQuiet
    <3>2. Waiting = {} BY <2>1, <3>1 DEF SemDetach
    <3>3. \A d \in Thread : pc'[d] \notin DetPC
      BY <2>1, <2>2, <3>1 DEF SemDetach, DetPC
    <3> QED BY <2>1, <2>3, <3>1, <3>2, <3>3 DEF SemDetach, NoWaitWithPermit, DetPC
  <2> QED BY <2>1, <2>4, SemMoveOK DEF SemInv, TypeOK
<1> QED BY <1>1, <1>2, <1>3

\* One waiter is resumed; the current thread goes on, or is changed.
SemHandOver(u) ==
  /\ Base(sys') /\ sys'.stat = [sys.stat EXCEPT ![u] = "READY"]
  /\ sys'.error = sys.error /\ sys'.timer = sys.timer \ {u}
  /\ Waiting' = Waiting \ {u} /\ CurReady /\ sys'.cur # NoThread

\* A permit goes from the releasing thread to the waiter that it resumes.
LEMMA SemHandOverOK ==
  ASSUME SemInv, NEW u \in Waiting, SemHandOver(u),
         DetachQuiescent => \A d \in Thread : pc[d] \notin DetPC,
         pc' \in [Thread -> {"run", "take", "back", "give"} \cup DetPC],
         \A t \in Thread : pc'[t] = pc[t] \/ (pc[t] = "run" /\ pc'[t] = "give"),
         UNCHANGED <<value, time, live, stray>>
  PROVE  SemInv' /\ SemEffect
<1>1. TypeOK' BY DEF SemInv, TypeOK, SemHandOver, Base, Sound
<1>2. SemCurrent' BY DEF SemHandOver, CurReady, SemCurrent
<1>3. SemWaits' BY SemFacts DEF SemInv, SemWaits, SemHandOver
<1>4. SemTimers' BY SemFacts DEF SemInv, SemTimers, SemHandOver
<1>5. DetachQuiescent => \A d \in Thread : pc'[d] \notin DetPC BY DEF DetPC
<1>6. SemQuiet' BY <1>5 DEF SemInv, SemQuiet, SemDetach, NoWaitWithPermit, SemHandOver, DetPC
<1>7. SemEffect
  <2>1. /\ u \in Thread /\ sys.stat[u] = "SUSPEND" /\ sys.error[u] = "EOK"
        /\ pc[u] \in {"take", "back"}
    BY SemFacts DEF SemInv, SemWaits
  <2>2. sys'.stat[u] = "READY" /\ \A t \in Thread \ {u} : sys'.stat[t] = sys.stat[t]
    BY <2>1, SemFacts DEF SemHandOver
  <2>3. u \notin Granted BY <2>1 DEF Granted
  <2>4. Granted' = Granted \cup {u} BY <2>1, <2>2 DEF Granted, SemHandOver
  <2> QED BY <2>1, <2>3, <2>4 DEF SemEffect
<1> QED BY <1>1, <1>2, <1>3, <1>4, <1>6, <1>7 DEF SemInv, SemHandOver

\* rt_sem_release by a thread: the first waiter goes on, or the value grows.
LEMMA SemReleaseOK ==
  ASSUME SemInv, NEW c \in Thread, rt_sem_release(c)
  PROVE  SemInv' /\ SemEffect
<1>1. /\ sys.cur = c /\ pc[c] = "run" /\ live /\ value < MaxValue
      /\ UNCHANGED <<time, live, stray>>
      /\ DetachQuiescent => \A d \in Thread : pc[d] \notin DetPC
  BY DEF rt_sem_release, Running, At, Usable
<1>2. /\ sys.cur # NoThread /\ sys.stat[c] = "READY" /\ c \notin Waiting
  BY <1>1, SemCaller
<1>3. CASE sys.wait["sem"] # <<>>
  <2>1. /\ sys' = rt_ipc_list_resume(sys, "sem") /\ value' = value /\ Goto(c, "give")
    BY <1>3 DEF rt_sem_release, Give
  <2>2. Waiting # {} BY <1>3, SemFacts
  <2>3. PICK u \in Waiting :
           /\ Base(sys') /\ sys'.stat = [sys.stat EXCEPT ![u] = "READY"]
           /\ sys'.error = sys.error /\ sys'.timer = sys.timer \ {u} /\ sys'.cur = sys.cur
           /\ ToSet(sys'.wait["sem"]) = Waiting \ {u}
    BY <2>1, <2>2, SemResume
  <2>4. SemHandOver(u) BY <1>1, <1>2, <2>3, SemFacts DEF SemHandOver, CurReady, Waiting
  <2>5. pc'[c] = "give" /\ \A t \in Thread \ {c} : pc'[t] = pc[t] BY <2>1, SemGoto
  <2>6. pc' \in [Thread -> {"run", "take", "back", "give"} \cup DetPC] BY <2>1, SemGoto
  <2> QED BY <1>1, <2>1, <2>4, <2>5, <2>6, SemHandOverOK
<1>4. CASE sys.wait["sem"] = <<>>
  <2>1. sys' = sys /\ value' = value + 1 /\ Goto(c, "run")
    BY <1>4 DEF rt_sem_release, Give
  <2>2. pc' = pc BY <1>1, <2>1 DEF Goto, SemInv, TypeOK
  <2>3. Waiting' = {} BY <1>4, <2>1, SemFacts DEF Waiting
  <2>4. TypeOK' BY <1>1, <2>1, <2>2, SemAssumption DEF SemInv, TypeOK
  <2>5. SemWaits' BY <2>3 DEF SemWaits
  <2>6. SemTimers' /\ SemCurrent'
    BY <1>1, <1>4, <2>1, <2>2, <2>3, SemFacts DEF SemInv, SemTimers, SemCurrent
  <2>7. SemQuiet'
    BY <1>1, <2>1, <2>2, <2>3 DEF SemInv, SemQuiet, SemDetach, NoWaitWithPermit, DetPC
  <2>8. SemEffect BY <2>1, <2>2 DEF SemEffect, Granted
  <2> QED BY <2>1, <2>4, <2>5, <2>6, <2>7, <2>8 DEF SemInv
<1> QED BY <1>3, <1>4

\* rt_sem_release by a handler, and the schedule at its end.
LEMMA SemInterruptOK ==
  ASSUME SemInv, ReleaseFromInterrupt
  PROVE  SemInv' /\ SemEffect
<1>1. /\ sys.cur # NoThread /\ live /\ value < MaxValue
      /\ UNCHANGED <<pc, time, live, stray>>
      /\ DetachQuiescent => \A d \in Thread : pc[d] \notin DetPC
  BY DEF ReleaseFromInterrupt, Usable
<1>2. pc \in [Thread -> {"run", "take", "back", "give"} \cup DetPC] BY DEF SemInv, TypeOK
<1>3. CASE sys.wait["sem"] # <<>>
  <2>1. PICK m : m = rt_ipc_list_resume(sys, "sem") OBVIOUS
  <2>2. sys' = rt_schedule(m) /\ value' = value
    BY <1>3, <2>1 DEF ReleaseFromInterrupt, Give
  <2>3. Waiting # {} BY <1>3, SemFacts
  <2>4. PICK u \in Waiting :
           /\ Base(m) /\ m.stat = [sys.stat EXCEPT ![u] = "READY"]
           /\ m.error = sys.error /\ m.timer = sys.timer \ {u} /\ m.cur = sys.cur
           /\ ToSet(m.wait["sem"]) = Waiting \ {u}
    BY <2>1, <2>3, SemResume
  <2>5. /\ Base(sys') /\ sys'.stat = m.stat /\ sys'.error = m.error /\ sys'.timer = m.timer
        /\ sys'.wait = m.wait
        /\ sys'.cur # NoThread /\ sys'.stat[sys'.cur] = "READY"
    BY <1>1, <2>2, <2>4, DispatchBase
  <2>6. SemHandOver(u) BY <2>4, <2>5 DEF SemHandOver, CurReady, Waiting
  <2> QED BY <1>1, <1>2, <2>2, <2>6, SemHandOverOK
<1>4. CASE sys.wait["sem"] = <<>>
  <2>1. sys' = sys /\ value' = value + 1 BY <1>4 DEF ReleaseFromInterrupt, Give
  <2>2. Waiting' = {} /\ Waiting = {} BY <1>4, <2>1, SemFacts DEF Waiting
  <2>3. TypeOK' BY <1>1, <2>1, SemAssumption DEF SemInv, TypeOK
  <2>4. SemWaits' BY <2>2 DEF SemWaits
  <2>5. SemTimers' /\ SemCurrent' BY <1>1, <2>1, <2>2 DEF SemInv, SemTimers, SemCurrent
  <2>6. SemQuiet'
    BY <1>1, <2>1, <2>2 DEF SemInv, SemQuiet, SemDetach, NoWaitWithPermit, DetPC
  <2>7. SemEffect BY <1>1, <2>1 DEF SemEffect, Granted
  <2> QED BY <2>1, <2>3, <2>4, <2>5, <2>6, <2>7 DEF SemInv
<1> QED BY <1>3, <1>4

\* rt_sem_control: all the waiters are resumed.
LEMMA SemControlOK ==
  ASSUME SemInv, NEW c \in Thread, NEW v \in ResetValue, rt_sem_control(c, v)
  PROVE  SemInv' /\ SemEffect
<1>1. /\ sys.cur = c /\ pc[c] = "run" /\ live /\ value' = v
      /\ sys' = ResumeAll(sys, "sem") /\ Goto(c, "give")
      /\ UNCHANGED <<time, live, stray>>
      /\ DetachQuiescent => \A d \in Thread : pc[d] \notin DetPC
  BY DEF rt_sem_control, Running, At, Usable
<1>2. /\ sys.cur # NoThread /\ sys.stat[c] = "READY" /\ c \notin Waiting
  BY <1>1, SemCaller
<1>3. AllWoken(sys, sys', Waiting)
  BY <1>1, SemFacts, ResumeAllBase DEF SemInv, Waiting
<1>4. /\ Base(sys') /\ sys'.cur = sys.cur /\ sys'.timer = sys.timer \ Waiting
      /\ sys'.stat = [t \in Thread |-> IF t \in Waiting THEN "READY" ELSE sys.stat[t]]
      /\ sys'.error = [t \in Thread |-> IF t \in Waiting THEN "ERROR" ELSE sys.error[t]]
      /\ Waiting' = {}
  BY <1>3, SemFacts DEF AllWoken, Waiting
<1>5. /\ pc'[c] = "give" /\ \A t \in Thread \ {c} : pc'[t] = pc[t]
      /\ pc' \in [Thread -> {"run", "take", "back", "give"} \cup DetPC]
  BY <1>1, SemGoto
<1>6. TypeOK' BY <1>1, <1>4, <1>5, SemAssumption DEF SemInv, TypeOK, Base, Sound
<1>7. SemCurrent' BY <1>1, <1>2, <1>4 DEF SemCurrent
<1>8. SemWaits' BY <1>4 DEF SemWaits
<1>9. SemTimers'
  <2>1. sys'.timer = {} BY <1>4 DEF SemInv, SemTimers
  <2>2. \A t \in Thread : pc'[t] \in {"take", "back"} /\ sys'.error[t] = "ETIMEOUT"
          => pc[t] \in {"take", "back"} /\ sys.error[t] = "ETIMEOUT"
    BY <1>4, <1>5
  <2> QED BY <1>1, <2>1, <2>2 DEF SemInv, SemTimers
<1>10. SemQuiet'
  <2>1. DetachQuiescent => \A d \in Thread : pc'[d] \notin DetPC BY <1>1, <1>5 DEF DetPC
  <2> QED BY <1>1, <1>4, <2>1 DEF SemInv, SemQuiet, SemDetach, NoWaitWithPermit, DetPC
<1>11. SemEffect
  <2>1. \A t \in Waiting : sys.stat[t] # "READY" BY SemFacts
  <2>2. Granted' = Granted BY <1>1, <1>4, <1>5, <2>1 DEF Granted
  <2> QED BY <1>1, <2>2 DEF SemEffect
<1> QED BY <1>4, <1>6, <1>7, <1>8, <1>9, <1>10, <1>11 DEF SemInv

\* One turn of the loop of rt_sem_detach.
LEMMA SemDetachResumeOK ==
  ASSUME SemInv, NEW c \in Thread, DetachResume(c)
  PROVE  SemInv' /\ SemEffect
<1>1. /\ sys.cur = c /\ pc[c] = "det1" /\ Goto(c, "det") /\ UNCHANGED <<value, time, live>>
      /\ stray' = (stray \/ sys.wait["sem"] = <<>>)
  BY DEF DetachResume, At
<1>2. /\ sys.cur # NoThread /\ sys.stat[c] = "READY" /\ c \notin Waiting
  BY <1>1, SemCaller
<1>3. /\ pc'[c] = "det" /\ \A t \in Thread \ {c} : pc'[t] = pc[t]
      /\ pc' \in [Thread -> {"run", "take", "back", "give"} \cup DetPC]
  BY <1>1, SemGoto DEF DetPC
<1>4. DetachQuiescent => sys.wait["sem"] # <<>>
  BY <1>1, SemFacts DEF SemInv, SemQuiet, SemDetach
<1>5. CASE sys.wait["sem"] = <<>>
  <2>1. sys' = sys /\ ~DetachQuiescent BY <1>4, <1>5 DEF DetachResume
  <2>2. Waiting' = {} /\ Waiting = {} BY <1>5, <2>1, SemFacts DEF Waiting
  <2>3. TypeOK' BY <1>1, <1>3, <2>1 DEF SemInv, TypeOK
  <2>4. SemCurrent' BY <1>1, <1>2, <2>1 DEF SemCurrent
  <2>5. SemWaits' BY <2>2 DEF SemWaits
  <2>6. SemTimers' BY <1>1, <1>3, <2>1, <2>2, SemFacts DEF SemInv, SemTimers
  <2>7. Granted' = Granted BY <1>1, <1>3, <2>1 DEF Granted
  <2>8. SemEffect BY <1>1, <2>7 DEF SemEffect
  <2> QED BY <2>1, <2>3, <2>4, <2>5, <2>6, <2>8 DEF SemInv, SemQuiet
<1>6. CASE sys.wait["sem"] # <<>>
  <2>1. PICK u : u = Head(sys.wait["sem"]) OBVIOUS
  <2>2. sys' = ResumeWithError(sys, u) BY <1>6, <2>1 DEF DetachResume
  <2>3. sys.wait["sem"] \in Seq(Thread) BY SemFacts
  <2>4. u \in Waiting BY <1>6, <2>1, <2>3, EmptyList DEF Waiting
  <2>5. AllWoken(sys, sys, {})
    <3>1. sys.stat \in [Thread -> Stat] /\ sys.error \in [Thread -> Error] BY SemFacts
    <3> QED BY <3>1 DEF AllWoken, SemInv
  <2>6. PICK E : E = {} OBVIOUS
  <2>7. AllWoken(sys, sys', E \cup {u})
    <3>1. u \in Thread \ E /\ sys.stat[u] = "SUSPEND" /\ AllWoken(sys, sys, E) /\ Base(sys)
      BY <2>4, <2>5, <2>6, SemFacts DEF SemInv
    <3> QED BY <2>2, <3>1, AllWokenStep
  <2>8. /\ Base(sys') /\ sys'.cur = sys.cur /\ sys'.timer = sys.timer \ {u}
        /\ sys'.stat = [t \in Thread |-> IF t \in {u} THEN "READY" ELSE sys.stat[t]]
        /\ sys'.error = [t \in Thread |-> IF t \in {u} THEN "ERROR" ELSE sys.error[t]]
        /\ Waiting' = Waiting \ {u}
    BY <2>6, <2>7, SemFacts DEF AllWoken, Waiting
  <2>9. TypeOK' BY <1>1, <1>3, <2>8, SemAssumption DEF SemInv, TypeOK, Base, Sound
  <2>10. SemCurrent' BY <1>1, <1>2, <2>8 DEF SemCurrent
  <2>11. SemWaits' BY <1>2, <1>3, <2>8, SemFacts DEF SemInv, SemWaits
  <2>12. SemTimers'
    <3>1. \A t \in Thread : pc'[t] \in {"take", "back"} /\ sys'.error[t] = "ETIMEOUT"
            => pc[t] \in {"take", "back"} /\ sys.error[t] = "ETIMEOUT"
      BY <1>3, <2>8
    <3> QED BY <1>1, <2>8, <3>1 DEF SemInv, SemTimers
  <2>13. SemQuiet'
    <3> SUFFICES ASSUME DetachQuiescent PROVE SemDetach' /\ NoWaitWithPermit'
      BY DEF SemQuiet
    <3>1. SemDetach /\ NoWaitWithPermit BY DEF SemInv, SemQuiet
    <3>2. \A d \in Thread : pc'[d] \in DetPC => d = c
      BY <1>1, <1>3, <3>1 DEF SemDetach, DetPC
    <3>3. live /\ Waiting \cap sys.timer = {} BY <1>1, <3>1 DEF SemDetach, DetPC
    <3>4. SemDetach' BY <1>1, <1>3, <2>8, <3>2, <3>3 DEF SemDetach, DetPC
    <3> QED BY <1>1, <1>6, <2>8, <3>1, <3>3, <3>4 DEF NoWaitWithPermit
  <2>14. SemEffect
    <3>1. sys.stat[u] # "READY" BY <2>4, SemFacts
    <3>2. Granted' = Granted BY <1>1, <1>3, <2>8, <3>1 DEF Granted
    <3> QED BY <1>1, <3>2 DEF SemEffect
  <2> QED BY <2>8, <2>9, <2>10, <2>11, <2>12, <2>13, <2>14 DEF SemInv
<1> QED BY <1>5, <1>6

\* rt_schedule at the end of rt_sem_take and of rt_sem_release.
LEMMA SemScheduleOK ==
  ASSUME SemInv, NEW c \in Thread, SemSchedule(c)
  PROVE  SemInv' /\ SemEffect
<1>1. PICK l : /\ sys.cur = c /\ sys' = rt_schedule(sys) /\ Goto(c, l)
               /\ \/ pc[c] = "take" /\ l = "back"
                  \/ pc[c] = "give" /\ l = "run"
  BY DEF SemSchedule, Schedule, At
<1>2. UNCHANGED <<value, time, live, stray>> BY DEF SemSchedule
<1>3. sys.cur # NoThread /\ Base(sys) BY <1>1, SemFacts DEF SemInv
<1>4. /\ Base(sys') /\ sys'.stat = sys.stat /\ sys'.error = sys.error
      /\ sys'.timer = sys.timer /\ sys'.wait = sys.wait
      /\ sys'.cur # NoThread /\ sys'.stat[sys'.cur] = "READY"
  BY <1>1, <1>3, DispatchBase
<1>5. Waiting' = Waiting BY <1>4 DEF Waiting
<1>6. /\ pc'[c] = l /\ \A t \in Thread \ {c} : pc'[t] = pc[t]
      /\ pc' \in [Thread -> {"run", "take", "back", "give"} \cup DetPC]
  BY <1>1, SemGoto
<1>7. \A t \in Thread :
        /\ (pc'[t] \in {"take", "back"}) <=> (pc[t] \in {"take", "back"})
        /\ (pc'[t] \in DetPC \/ pc[t] \in DetPC) => pc'[t] = pc[t]
  BY <1>1, <1>6 DEF DetPC
<1>8. TypeOK' BY <1>2, <1>4, <1>6 DEF SemInv, TypeOK, Base, Sound
<1>9. SemCurrent' BY <1>4 DEF SemCurrent
<1>10. SemWaits' BY <1>4, <1>5, <1>7, SemFacts DEF SemInv, SemWaits
<1>11. SemTimers' BY <1>2, <1>4, <1>5, <1>7 DEF SemInv, SemTimers
<1>12. SemQuiet'
  <2>1. \A t \in Thread : pc'[t] \in DetPC <=> pc[t] \in DetPC BY <1>7
  <2>2. \A t \in Thread : /\ (pc'[t] = "det1") <=> (pc[t] = "det1")
                          /\ (pc'[t] = "det2") <=> (pc[t] = "det2")
    BY <1>7 DEF DetPC
  <2>3. SemDetach => SemDetach' BY <1>2, <1>4, <1>5, <2>1, <2>2 DEF SemDetach
  <2>4. NoWaitWithPermit => NoWaitWithPermit' BY <1>2, <1>5 DEF NoWaitWithPermit
  <2> QED BY <2>3, <2>4 DEF SemInv, SemQuiet
<1>13. Granted' = Granted BY <1>4, <1>7 DEF Granted
<1>14. SemEffect BY <1>2, <1>13 DEF SemEffect
<1> QED BY <1>4, <1>8, <1>9, <1>10, <1>11, <1>12, <1>14 DEF SemInv

-----------------------------------------------------------------------------
(* The theorems of Semaphore *)

\* Before the first call every permit is free.
LEMMA SemInitOK == Init => SemInv
<1> SUFFICES ASSUME Init PROVE SemInv OBVIOUS
<1>1. sys = KernelInit /\ pc = [t \in Thread |-> "run"] /\ time = [t \in Thread |-> "none"]
  BY DEF Init
<1>2. Base(sys) /\ sys.timer = {} /\ Waiting = {} /\ sys.cur = NoThread
  BY <1>1, KernelInitSound, SemAssumption DEF Base, Waiting
<1>3. TypeOK BY <1>1, <1>2, SemAssumption DEF Init, TypeOK, Base, Sound
<1>4. SemCurrent /\ SemWaits /\ SemTimers BY <1>1, <1>2 DEF SemCurrent, SemWaits, SemTimers
<1>5. SemQuiet BY <1>1, <1>2 DEF Init, SemQuiet, SemDetach, NoWaitWithPermit, DetPC
<1> QED BY <1>2, <1>3, <1>4, <1>5 DEF SemInv

\* Each action of Semaphore keeps SemInv and is a step of CountingSem or none.
LEMMA SemNextOK == SemInv /\ [Next]_vars => SemInv' /\ SemEffect
<1> SUFFICES ASSUME SemInv, [Next]_vars PROVE SemInv' /\ SemEffect OBVIOUS
<1>1. CASE UNCHANGED vars
  BY <1>1 DEF vars, SemEffect, Granted, SemInv, TypeOK, SemCurrent, SemWaits, SemTimers, SemQuiet, SemDetach,
              NoWaitWithPermit, Waiting
<1>2. CASE (Boot \/ Tick) /\ UNCHANGED <<value, time, live, stray>>
  BY <1>2, SemBootOK, SemTickOK
<1>3. CASE ReleaseFromInterrupt BY <1>3, SemInterruptOK
<1>4. ASSUME NEW c \in Thread \ {Idle}, Call(c) PROVE SemInv' /\ SemEffect
  BY <1>4, SemTakeOK, SemControlOK, SemReturnOK, SemReleaseOK, SemScheduleOK,
     SemDetachOK, SemDetachResumeOK DEF Call
<1> QED BY <1>1, <1>2, <1>3, <1>4 DEF Next

\* For every number of threads, all priorities and both orders of the waiting
\* list: only a wait with a timeout ends with RT_ETIMEOUT (rt_sem_take).
THEOREM TimeoutsAreAskedFor == Spec => []NoSpuriousTimeout
<1>1. SemInv => NoSpuriousTimeout BY DEF SemInv, SemTimers, NoSpuriousTimeout
<1> QED BY <1>1, SemInitOK, SemNextOK, PTL DEF Spec

\* For every number of threads, all priorities and both orders of the waiting
\* list: no thread waits in rt_sem_take while the semaphore has a permit, or
\* after rt_sem_detach, which resumes nothing but threads.
THEOREM PermitGoesToWaiter ==
  ASSUME DetachQuiescent
  PROVE  Spec => []NoWaitWithPermit
<1>1. SemInv => NoWaitWithPermit BY DEF SemInv, SemQuiet
<1> QED BY <1>1, SemInitOK, SemNextOK, PTL DEF Spec

\* A step of the semaphore posts permits, acquires them, resets them, or leaves
\* their number alone.
LEMMA SemCounts ==
  ASSUME IsFiniteSet(Thread), SemInv, SemEffect
  PROVE  [Counting!Next]_(value + Cardinality(Granted))
<1>1. value \in Nat BY SemAssumption DEF SemInv, TypeOK
<1>2. Granted \subseteq Thread BY DEF Granted
<1>3. IsFiniteSet(Granted) /\ Cardinality(Granted) \in Nat
  BY <1>2, FS_Subset, FS_CardinalityType
<1> DEFINE n == Cardinality(Granted)
<1>4. ASSUME NEW u \in Thread \ Granted, Granted' = Granted \cup {u}
      PROVE  Cardinality(Granted') = n + 1
  BY <1>3, <1>4, FS_AddElement
<1>5. ASSUME NEW u \in Granted, Granted' = Granted \ {u}
      PROVE  Cardinality(Granted') = n - 1 /\ n - 1 \in Nat
  <2>1. Cardinality(Granted \ {u}) = n - 1 BY <1>3, FS_RemoveElement
  <2>2. IsFiniteSet(Granted \ {u}) BY <1>3, FS_RemoveElement
  <2>3. Cardinality(Granted \ {u}) \in Nat BY <2>2, FS_CardinalityType
  <2> QED BY <1>5, <2>1, <2>3
<1>6. CASE value' = value /\ Granted' = Granted BY <1>6
<1>7. CASE value' = value /\ \E u \in Thread \ Granted : Granted' = Granted \cup {u}
  <2>1. PICK u \in Thread \ Granted : Granted' = Granted \cup {u} BY <1>7
  <2>2. Cardinality(Granted') = n + 1 BY <1>4, <2>1
  <2> QED BY <1>1, <1>3, <1>7, <2>2 DEF Counting!Next, Counting!Post
<1>8. CASE value' = value + 1 /\ Granted' = Granted
  BY <1>1, <1>3, <1>8 DEF Counting!Next, Counting!Post
<1>9. CASE value > 0 /\ value' = value - 1 /\ Granted' = Granted
  BY <1>1, <1>3, <1>9 DEF Counting!Next, Counting!Acquire
<1>10. CASE value' = value /\ \E u \in Granted : Granted' = Granted \ {u}
  <2>1. PICK u \in Granted : Granted' = Granted \ {u} BY <1>10
  <2>2. Cardinality(Granted') = n - 1 /\ n - 1 \in Nat BY <1>5, <2>1
  <2> QED BY <1>1, <1>3, <1>10, <2>2 DEF Counting!Next, Counting!Acquire
<1>11. CASE value' \in ResetValue /\ Granted' = Granted
  <2>1. n \in 0 .. value + n BY <1>1, <1>3
  <2>2. value' + Cardinality(Granted') = value' + n BY <1>11
  <2> QED BY <1>11, <2>1, <2>2 DEF Counting!Next, Counting!Reset
<1> QED BY <1>6, <1>7, <1>8, <1>9, <1>10, <1>11 DEF SemEffect

\* For every number of threads, all priorities and both orders of the waiting
\* list: rt_sem_take, rt_sem_release, rt_sem_control and the time-outs of
\* their waits implement the counting semaphore CountingSem.
THEOREM SemaphoreCounts ==
  ASSUME IsFiniteSet(Thread)
  PROVE  Spec => CountsPermits
<1>1. Init => Counting!Init
  <2> SUFFICES ASSUME Init PROVE Counting!Init OBVIOUS
  <2>1. Granted = {} BY DEF Init, Granted
  <2>2. Cardinality(Granted) = 0 BY <2>1, FS_EmptySet
  <2> QED BY <2>2, SemAssumption DEF Init, Counting!Init
<1>2. SemInv /\ [Next]_vars => [Counting!Next]_(value + Cardinality(Granted))
  BY SemNextOK, SemCounts
<1> QED BY <1>1, <1>2, SemInitOK, SemNextOK, PTL DEF Spec, CountsPermits, Counting!Spec

-----------------------------------------------------------------------------
(* The waiting lists as sequences, and the priorities *)

\* t is unlinked from the waiting lists, which keep their order otherwise.
LeftLists(k, r, t) ==
  r.prio = k.prio /\ \A w \in WaitList : r.wait[w] = Unlink(k.wait[w], t)

\* A resumed thread leaves every waiting list, and the others stay.
LEMMA ResumeLists ==
  ASSUME NEW k \in KernelState, NEW t, k.stat[t] = "SUSPEND", NEW r, r = rt_thread_resume(k, t)
  PROVE  LeftLists(k, r, t)
<1>1. PICK a : a = rt_timer_stop(rt_list_remove(k, t), t) OBVIOUS
<1>2. a.wait = [w \in WaitList |-> Unlink(k.wait[w], t)] /\ a.prio = k.prio
  BY <1>1 DEF rt_timer_stop, rt_list_remove, KernelState
<1>3. r.wait = a.wait /\ r.prio = a.prio
  BY <1>1 DEF rt_thread_resume, rt_schedule_insert_thread, rt_timer_stop, rt_list_remove, KernelState
<1> QED BY <1>2, <1>3 DEF LeftLists

\* So does a thread that is timed out.
LEMMA TimeoutLists ==
  ASSUME NEW k \in KernelState, NEW t, NEW r, r = rt_thread_timeout(rt_timer_stop(k, t), t)
  PROVE  LeftLists(k, r, t)
<1>1. PICK e : e = SetError(rt_timer_stop(k, t), t, "ETIMEOUT") OBVIOUS
<1>2. e = [k EXCEPT !.timer = e.timer, !.error = e.error]
  BY <1>1 DEF rt_timer_stop, SetError, KernelState
<1>3. PICK a : a = rt_list_remove(e, t) OBVIOUS
<1>4. /\ a = [e EXCEPT !.ready = a.ready, !.wait = a.wait, !.defunct = a.defunct]
      /\ a.wait = [w \in WaitList |-> Unlink(e.wait[w], t)]
  BY <1>2, <1>3 DEF rt_list_remove, KernelState
<1>5. PICK b : b = rt_schedule_insert_thread(a, t) OBVIOUS
<1>6. b = [a EXCEPT !.stat = b.stat, !.ready = b.ready, !.group = b.group]
  BY <1>2, <1>4, <1>5 DEF rt_schedule_insert_thread, KernelState
<1>7. r = rt_schedule(b) BY <1>1, <1>3, <1>5 DEF rt_thread_timeout
<1>8. r = b \/ r = [b EXCEPT !.cur = r.cur]
  BY <1>2, <1>4, <1>6, <1>7 DEF rt_schedule, KernelState
<1>9. e.wait = k.wait /\ e.prio = k.prio BY <1>2 DEF KernelState
<1>10. a.prio = e.prio BY <1>2, <1>4 DEF KernelState
<1>11. b.wait = a.wait /\ b.prio = a.prio BY <1>2, <1>4, <1>6 DEF KernelState
<1>12. r.wait = b.wait /\ r.prio = b.prio BY <1>2, <1>4, <1>6, <1>8 DEF KernelState
<1> QED BY <1>4, <1>9, <1>10, <1>11, <1>12 DEF LeftLists

\* Taking a READY thread out of the scheduler: it is on no waiting list.
LEMMA RemoveLists ==
  ASSUME NEW k, Sound(k), NEW t \in Thread, k.stat[t] = "READY",
         NEW r, r = rt_schedule_remove_thread(k, t)
  PROVE  r.wait = k.wait /\ r.prio = k.prio /\ r \in KernelState
<1>1. k \in KernelState /\ KernelOK(k, {}) BY DEF Sound
<1>2. \A w \in WaitList : t \notin ToSet(k.wait[w]) BY ReadyIsFree
<1>3. \A w \in WaitList : Unlink(k.wait[w], t) = k.wait[w] BY <1>2 DEF Unlink
<1>4. PICK a : a = rt_list_remove(k, t) OBVIOUS
<1>5. a.wait = [w \in WaitList |-> Unlink(k.wait[w], t)] /\ a.prio = k.prio
  BY <1>1, <1>4 DEF rt_list_remove, KernelState
<1>6. a.wait = k.wait
  <2>1. k.wait = [w \in WaitList |-> k.wait[w]] BY <1>1, KernelTypes
  <2> QED BY <1>3, <1>5, <2>1
<1>7. r.wait = a.wait /\ r.prio = a.prio
  BY <1>1, <1>4 DEF rt_schedule_remove_thread, rt_list_remove, KernelState
<1>8. PICK X : X = {} OBVIOUS
<1>9. /\ KernelOK(k, X) /\ t \notin k.timer /\ t \notin k.gone
      /\ t \notin ToSet(k.defunct)
  <2>1. t \notin ToSet(k.defunct) /\ t \notin k.gone BY <1>1 DEF KernelOK, DefunctOK
  <2> QED BY <1>1, <1>8, <2>1, ReadyIsFree
<1>10. r \in KernelState BY <1>1, <1>9, RemoveThreadOK
<1> QED BY <1>5, <1>6, <1>7, <1>10

\* rt_thread_control leaves the waiting lists alone.
LEMMA ChangePriorityLists ==
  ASSUME NEW k, Base(k), NEW t \in Thread, NEW p \in Priority,
         NEW r, r = ChangePriority(k, t, p)
  PROVE  /\ Base(r) /\ r.stat = k.stat /\ r.error = k.error /\ r.cur = k.cur
         /\ r.wait = k.wait /\ r.prio = [k.prio EXCEPT ![t] = p]
<1>1. k \in KernelState /\ KernelOK(k, {}) /\ Sound(k) BY DEF Base, Sound
<1>2. PICK X : X = {} OBVIOUS
<1>3. KernelOK(k, X) /\ t \in Thread \ X BY <1>1, <1>2
<1>4. /\ r \in KernelState /\ KernelOK(r, X)
      /\ r.stat = k.stat /\ r.error = k.error /\ r.timer = k.timer
      /\ r.cur = k.cur /\ r.nest = k.nest
  BY <1>1, <1>3, ChangePriorityOK
<1>5. Base(r) BY <1>2, <1>4 DEF Base, Sound
<1>6. CASE k.stat[t] # "READY"
  BY <1>1, <1>4, <1>5, <1>6 DEF ChangePriority, SetPrio, KernelState
<1>7. CASE k.stat[t] = "READY"
  <2>1. PICK a : a = rt_schedule_remove_thread(k, t) OBVIOUS
  <2>2. a.wait = k.wait /\ a.prio = k.prio /\ a \in KernelState BY <1>1, <1>7, <2>1, RemoveLists
  <2>3. PICK b : b = SetPrio(a, t, p) OBVIOUS
  <2>4. /\ b.wait = a.wait /\ b.prio = [a.prio EXCEPT ![t] = p]
        /\ b = [a EXCEPT !.prio = b.prio]
    BY <2>2, <2>3 DEF SetPrio, KernelState
  <2>5. r = rt_schedule_insert_thread(b, t) BY <1>7, <2>1, <2>3 DEF ChangePriority
  <2>6. r.wait = b.wait /\ r.prio = b.prio
    BY <2>2, <2>3, <2>5 DEF rt_schedule_insert_thread, SetPrio, KernelState
  <2> QED BY <1>4, <1>5, <2>2, <2>4, <2>6
<1> QED BY <1>6, <1>7

\* rt_thread_suspend of a READY thread leaves the waiting lists alone.
LEMMA SuspendLists ==
  ASSUME NEW k, Sound(k), NEW c \in Thread, k.stat[c] = "READY",
         NEW r, r = rt_thread_suspend(k, c)
  PROVE  r.wait = k.wait /\ r.prio = k.prio /\ r \in KernelState
<1>1. PICK a : a = rt_schedule_remove_thread(k, c) OBVIOUS
<1>2. a.wait = k.wait /\ a.prio = k.prio /\ a \in KernelState BY <1>1, RemoveLists
<1>3. r = SetStat(rt_timer_stop(a, c), c, "SUSPEND") BY <1>1 DEF rt_thread_suspend
<1>4. r.wait = a.wait /\ r.prio = a.prio BY <1>2, <1>3 DEF SetStat, rt_timer_stop, KernelState
<1>5. r \in KernelState BY SuspendEffect DEF Parked, Sound
<1> QED BY <1>2, <1>4, <1>5

\* A waiting list ordered by priority stays ordered.
LEMMA WaitLists ==
  ASSUME NEW k, Sound(k), NEW c \in Thread, k.stat[c] = "READY",
         NEW w \in WaitList, NEW flag, NEW tm,
         NEW r, r = WaitOn(k, w, c, flag, tm)
  PROVE  /\ \A v \in WaitList \ {w} : r.wait[v] = k.wait[v]
         /\ flag = "PRIO" /\ Sorted(k.wait[w], k.prio) => Sorted(r.wait[w], k.prio)
<1>1. k \in KernelState /\ KernelOK(k, {}) BY DEF Sound
<1>2. PICK e : e = SetError(k, c, "EOK") OBVIOUS
<1>3. PICK X : X = {} OBVIOUS
<1>4. KernelOK(k, X) BY <1>1, <1>3
<1>5. /\ e \in KernelState /\ KernelOK(e, X)
      /\ e.stat = k.stat /\ e.prio = k.prio /\ e.wait = k.wait
  BY <1>1, <1>2, <1>4, ErrorOK, Errors
<1>6. Sound(e) BY <1>3, <1>5 DEF Sound
<1>7. PICK s : s = rt_thread_suspend(e, c) OBVIOUS
<1>8. s.wait = k.wait /\ s.prio = k.prio /\ s \in KernelState
  BY <1>5, <1>6, <1>7, SuspendLists
<1>9. PICK q : q = IF flag = "FIFO" THEN Append(s.wait[w], c)
                                   ELSE InsertByPriority(s, s.wait[w], c)
  OBVIOUS
<1>10. PICK l : l = rt_ipc_list_suspend(e, w, c, flag) OBVIOUS
<1>11. l = [s EXCEPT !.wait[w] = q] BY <1>7, <1>9, <1>10 DEF rt_ipc_list_suspend
<1>12. s.wait \in [WaitList -> Seq(Thread)] BY <1>8, KernelTypes
<1>13. l.wait = [s.wait EXCEPT ![w] = q] /\ l = [s EXCEPT !.wait = l.wait]
  BY <1>8, <1>11 DEF KernelState
<1>14. r.wait = l.wait
  BY <1>2, <1>8, <1>10, <1>11 DEF WaitOn, rt_timer_start, KernelState
<1>15. r.wait[w] = q /\ \A v \in WaitList \ {w} : r.wait[v] = k.wait[v]
  BY <1>8, <1>12, <1>13, <1>14
<1>16. ASSUME flag = "PRIO", Sorted(k.wait[w], k.prio) PROVE Sorted(q, k.prio)
  <2>1. PICK z : z = s.wait[w] OBVIOUS
  <2>2. q = InsertByPriority(s, z, c) BY <1>9, <1>16, <2>1
  <2>3. z \in Seq(Thread) BY <1>12, <2>1
  <2>4. Sorted(z, s.prio) BY <1>8, <1>16, <2>1
  <2>5. Sorted(q, s.prio) BY <1>8, <2>2, <2>3, <2>4, InsertByPriorityList
  <2> QED BY <1>8, <2>5
<1> QED BY <1>15, <1>16

-----------------------------------------------------------------------------
(* The invariant of Mutex *)

Waiters(m)   == ToSet(sys.wait[m])
Inside(t, m) == pc[t] \in {"lock", "locked"} /\ want[t] = m

\* The current thread can run, or is about to leave the processor; before the
\* system is started no thread is inside a call.
MutexCurrent ==
  /\ sys.cur # NoThread =>
       sys.stat[sys.cur] = "READY" \/ pc[sys.cur] \in {"lock", "sleep"}
  /\ sys.cur = NoThread =>
       (\A t \in Thread : pc[t] = "run") /\ sys.prio = InitPriority

\* A thread waits for a mutex inside rt_mutex_take, and another one owns it.
MutexWaits ==
  \A m \in Mutexes : \A t \in Waiters(m) :
    /\ Inside(t, m) /\ sys.error[t] = "EOK"
    /\ mutex[m].owner # t /\ mutex[m].owner # NoThread

\* A thread inside rt_mutex_take that does not wait any more was made the owner
\* or timed out, and never both.
MutexInside ==
  \A m \in Mutexes : \A t \in Thread : Inside(t, m) =>
    /\ mine[t][m] = 0
    /\ \/ t \in Waiters(m)
       \/ sys.stat[t] = "READY" /\ sys.error[t] = "EOK" /\ mutex[m].owner = t
       \/ sys.stat[t] = "READY" /\ sys.error[t] = "ETIMEOUT" /\ mutex[m].owner # t

\* A free mutex, and one that is held: as often as its owner took it, a
\* hand-over under way included.
OwnerOK(m) ==
  /\ \A t \in Thread : ~Inside(t, m) => (mutex[m].owner = t <=> mine[t][m] > 0)
  /\ mutex[m].owner = NoThread => mutex[m] = Free
  /\ \A o \in Thread : mutex[m].owner = o =>
       /\ mutex[m].value = 0 /\ mutex[m].orig \in Priority
       /\ mutex[m].hold = IF Inside(o, m) THEN 1 ELSE mine[o][m]
MutexOwner == \A m \in Mutexes : OwnerOK(m)

Single == \A m, n \in Mutexes : m = n

\* With one mutex only its owner runs at a priority that is not its own.
MutexPriority ==
  Single => \A m \in Mutexes :
    /\ \A t \in Thread : mutex[m].owner # t => sys.prio[t] = InitPriority[t]
    /\ mutex[m].owner # NoThread => mutex[m].orig = InitPriority[mutex[m].owner]

\* With one mutex the waiters are ordered by priority, and the owner is not
\* behind the first of them.
MutexOrder ==
  Single /\ MutexFlag = "PRIO" => \A m \in Mutexes :
    /\ Sorted(sys.wait[m], sys.prio)
    /\ \A t \in Waiters(m) : sys.prio[mutex[m].owner] <= sys.prio[t]

MutexInv ==
  /\ MutexTypeOK /\ Base(sys) /\ MutexCurrent
  /\ MutexWaits /\ MutexInside /\ MutexOwner /\ MutexPriority /\ MutexOrder

-----------------------------------------------------------------------------
(* The steps of Mutex *)

\* The facts every step starts from.
LEMMA MutexFacts ==
  ASSUME MutexInv
  PROVE  /\ sys \in KernelState /\ KernelOK(sys, {}) /\ Sound(sys) /\ sys.nest = 0
         /\ Idle \in Thread /\ NoThread \notin Thread
         /\ sys.stat \in [Thread -> Stat] /\ sys.error \in [Thread -> Error]
         /\ sys.prio \in [Thread -> Priority]
         /\ \A t \in sys.timer : sys.stat[t] = "SUSPEND" /\ t \in Thread
<1>1. Sound(sys) /\ sys.nest = 0 BY DEF MutexInv, Base
<1>2. sys \in KernelState /\ KernelOK(sys, {}) BY <1>1 DEF Sound
<1>3. /\ sys.stat \in [Thread -> Stat] /\ sys.error \in [Thread -> Error]
      /\ sys.prio \in [Thread -> Priority] /\ sys.timer \subseteq Thread
  BY <1>2, KernelTypes
<1>4. \A t \in sys.timer : sys.stat[t] = "SUSPEND" BY <1>2 DEF KernelOK, TimersOK
<1> QED BY <1>1, <1>2, <1>3, <1>4, KernelAssumption

\* The waiting list of a mutex.
LEMMA MutexList ==
  ASSUME MutexInv, NEW m \in Mutexes
  PROVE  /\ m \in WaitList /\ sys.wait[m] \in Seq(Thread) /\ NoDup(sys.wait[m])
         /\ Waiters(m) \subseteq Thread
         /\ sys.wait[m] = <<>> <=> Waiters(m) = {}
         /\ \A t \in Waiters(m) : sys.stat[t] = "SUSPEND"
<1>1. m \in WaitList BY MutexAssumption
<1>2. sys \in KernelState /\ KernelOK(sys, {}) BY MutexFacts
<1>3. sys.wait[m] \in Seq(Thread) BY <1>1, <1>2, KernelTypes
<1>4. NoDup(sys.wait[m]) /\ \A t \in Waiters(m) : sys.stat[t] = "SUSPEND"
  BY <1>1, <1>2 DEF Waiters, KernelOK, WaitListsOK
<1> QED BY <1>1, <1>3, <1>4, EmptyList DEF Waiters

\* A thread that is not about to leave the processor can run and waits nowhere.
LEMMA MutexCaller ==
  ASSUME MutexInv, NEW c \in Thread, sys.cur = c, pc[c] \notin {"lock", "sleep"}
  PROVE  /\ sys.cur # NoThread /\ sys.stat[c] = "READY" /\ sys.stat[Idle] = "READY"
         /\ \A m \in Mutexes : c \notin Waiters(m)
<1>1. sys.cur # NoThread /\ sys.stat[c] = "READY" BY MutexFacts DEF MutexInv, MutexCurrent
<1>2. sys.stat[Idle] = "READY" BY <1>1 DEF MutexInv, Base
<1> QED BY <1>1, <1>2, MutexList

MutexPc == [Thread -> {"run", "lock", "locked", "unlock", "sleep"}]

\* What may happen to pc when c goes on at l.
LEMMA MutexGoto ==
  ASSUME MutexInv, NEW c \in Thread, NEW l, Goto(c, l)
  PROVE  /\ pc'[c] = l /\ \A t \in Thread \ {c} : pc'[t] = pc[t]
         /\ l \in {"run", "lock", "locked", "unlock", "sleep"} => pc' \in MutexPc
BY DEF MutexInv, MutexTypeOK, Goto, MutexPc

\* What the step did to t: nothing that matters to a thread inside
\* rt_mutex_take; or t is not inside; or its wait timed out.
Untouched(t) ==
  /\ sys'.stat[t] = sys.stat[t] /\ sys'.error[t] = sys.error[t]
  /\ \A m \in Mutexes : t \in Waiters(m)' <=> t \in Waiters(m)
TimedOut(t) ==
  /\ sys'.stat[t] = "READY" /\ sys'.error[t] = "ETIMEOUT" /\ sys.stat[t] # "READY"
  /\ \A m \in Mutexes : t \notin Waiters(m)'

\* The waiting lists lost threads, or did not change.
ListsShrink ==
  /\ sys'.prio = sys.prio
  /\ \A m \in Mutexes : /\ Waiters(m)' \subseteq Waiters(m)
                        /\ Sorted(sys.wait[m], sys.prio) => Sorted(sys'.wait[m], sys.prio)

\* A step that leaves the mutexes as they are.
LEMMA MutexKeepOK ==
  ASSUME MutexInv, UNCHANGED <<mutex, mine, want>>, Base(sys'), MutexCurrent', ListsShrink,
         pc' \in MutexPc,
         \A t \in Thread : pc'[t] \in {"lock", "locked"} <=> pc[t] \in {"lock", "locked"},
         \A t \in Thread : pc[t] \notin {"lock", "locked"} \/ Untouched(t) \/ TimedOut(t)
  PROVE  MutexInv'
<1>1. \A t \in Thread : \A m \in Mutexes : Inside(t, m)' <=> Inside(t, m) BY DEF Inside
<1>2. MutexTypeOK' BY DEF MutexInv, MutexTypeOK, Base, Sound, MutexPc
<1>3. \A m \in Mutexes : \A t \in Waiters(m)' : /\ t \in Thread /\ t \in Waiters(m)
                                              /\ Inside(t, m) /\ Untouched(t)
  BY MutexList DEF ListsShrink, TimedOut, MutexInv, MutexWaits, Inside
<1>4. MutexWaits' BY <1>1, <1>3 DEF MutexInv, MutexWaits, Untouched
<1>5. MutexInside'
  <2> SUFFICES ASSUME NEW m \in Mutexes, NEW t \in Thread, Inside(t, m)'
               PROVE  /\ mine[t][m] = 0
                      /\ \/ t \in Waiters(m)'
                         \/ /\ sys'.stat[t] = "READY" /\ sys'.error[t] = "EOK"
                            /\ mutex[m].owner = t
                         \/ /\ sys'.stat[t] = "READY" /\ sys'.error[t] = "ETIMEOUT"
                            /\ mutex[m].owner # t
    BY DEF MutexInside
  <2>1. Inside(t, m) /\ (Untouched(t) \/ TimedOut(t)) BY <1>1 DEF Inside
  <2>2. CASE Untouched(t) BY <2>1, <2>2 DEF MutexInv, MutexInside, Untouched
  <2>3. CASE TimedOut(t)
    <3>1. t \in Waiters(m) BY <2>1, <2>3 DEF MutexInv, MutexInside, TimedOut
    <3> QED BY <2>1, <2>3, <3>1 DEF MutexInv, MutexInside, MutexWaits, TimedOut
  <2> QED BY <2>1, <2>2, <2>3
<1>6. MutexOwner'
  <2>1. \A m \in Mutexes : mutex[m].owner = NoThread \/ mutex[m].owner \in Thread
    BY DEF MutexInv, MutexTypeOK
  <2> QED BY <1>1, <2>1 DEF MutexInv, MutexOwner, OwnerOK
<1>7. MutexPriority' BY DEF MutexInv, MutexPriority, ListsShrink, Single
<1>8. MutexOrder' BY DEF MutexInv, MutexOrder, ListsShrink, Single
<1> QED BY <1>2, <1>4, <1>5, <1>6, <1>7, <1>8 DEF MutexInv

\* The same, when no waiting list and no thread inside a call changed either.
LEMMA MutexSameOK ==
  ASSUME MutexInv, UNCHANGED <<mutex, mine, want>>, Base(sys'), MutexCurrent',
         sys'.prio = sys.prio, sys'.wait = sys.wait, pc' \in MutexPc,
         \A t \in Thread : pc'[t] \in {"lock", "locked"} <=> pc[t] \in {"lock", "locked"},
         \A t \in Thread : \/ pc[t] \notin {"lock", "locked"}
                           \/ sys'.stat[t] = sys.stat[t] /\ sys'.error[t] = sys.error[t]
  PROVE  MutexInv'
<1>1. \A m \in Mutexes : Waiters(m)' = Waiters(m) BY DEF Waiters
<1>2. ListsShrink BY <1>1 DEF ListsShrink
<1>3. \A t \in Thread : pc[t] \notin {"lock", "locked"} \/ Untouched(t) BY <1>1 DEF Untouched
<1> QED BY <1>2, <1>3, MutexKeepOK

\* Threads are started, then the scheduler.
LEMMA MutexBootOK ==
  ASSUME MutexInv, Boot, UNCHANGED <<mutex, mine, want>>
  PROVE  MutexInv'
<1>1. CASE rt_system_scheduler_start
  <2>1. sys' = rt_schedule(sys) /\ pc' = pc /\ sys.stat[Idle] = "READY"
    BY <1>1, MutexFacts DEF rt_system_scheduler_start, rt_schedule
  <2>2. sys.group # {} BY <2>1, MutexFacts, ReadyInGroup
  <2>3. Dispatched(sys, sys') BY <2>1, <2>2, MutexFacts, DispatchEffect
  <2>4. Base(sys') /\ MutexCurrent'
    BY <2>1, <2>3, MutexFacts DEF Dispatched, Kept, Base, MutexCurrent
  <2>5. /\ sys'.prio = sys.prio /\ sys'.wait = sys.wait
        /\ sys'.stat = sys.stat /\ sys'.error = sys.error
    BY <2>3 DEF Dispatched, Kept
  <2>6. pc' \in MutexPc BY <2>1 DEF MutexInv, MutexTypeOK, MutexPc
  <2> QED BY <2>1, <2>4, <2>5, <2>6, MutexSameOK
<1>2. ASSUME NEW t \in Thread, BootStartup(t) PROVE MutexInv'
  <2>1. /\ sys' = rt_thread_startup(sys, t) /\ pc' = pc
        /\ sys.stat[t] = "INIT" /\ sys.cur = NoThread
    BY <1>2 DEF BootStartup
  <2>2. (\A u \in Thread : pc[u] = "run") /\ sys.prio = InitPriority
    BY <2>1 DEF MutexInv, MutexCurrent
  <2>3. Begun(sys, sys', t) BY <2>1, MutexFacts, StartupEffect
  <2>4. /\ Sound(sys') /\ sys'.cur = NoThread /\ sys'.nest = sys.nest
        /\ sys'.wait = sys.wait /\ sys'.prio = [sys.prio EXCEPT ![t] = InitPriority[t]]
    BY <2>1, <2>3 DEF Begun
  <2>5. sys'.prio = sys.prio BY <2>2, <2>4, MutexFacts
  <2>6. Base(sys') BY <2>4, MutexFacts DEF Base
  <2>7. MutexCurrent' BY <2>1, <2>2, <2>4, <2>5 DEF MutexCurrent
  <2>8. pc' \in MutexPc BY <2>1 DEF MutexInv, MutexTypeOK, MutexPc
  <2> QED BY <2>1, <2>2, <2>4, <2>5, <2>6, <2>7, <2>8, MutexSameOK
<1> QED BY <1>1, <1>2 DEF Boot

\* rt_tick_increase, and a timer that expires.
LEMMA MutexTickOK ==
  ASSUME MutexInv, Tick, UNCHANGED <<mutex, mine, want>>
  PROVE  MutexInv'
<1>0. pc' = pc /\ pc' \in MutexPc
  BY DEF Tick, TickYield, TimerExpires, MutexInv, MutexTypeOK, MutexPc
<1>1. CASE TickYield
  <2>1. sys' = rt_thread_yield(sys) /\ sys.cur # NoThread /\ sys.cur \in Thread
    BY <1>1 DEF TickYield, MutexInv, Base
  <2>2. CASE sys.stat[sys.cur] # "READY"
    <3>1. sys' = sys BY <2>1, <2>2 DEF rt_thread_yield
    <3>2. Base(sys') /\ MutexCurrent' BY <1>0, <3>1 DEF MutexInv, MutexCurrent
    <3> QED BY <1>0, <3>1, <3>2, MutexSameOK
  <2>3. CASE sys.stat[sys.cur] = "READY"
    <3>1. Dispatched(sys, sys') BY <2>1, <2>3, MutexFacts, YieldEffect
    <3>2. Base(sys') /\ MutexCurrent'
      BY <2>1, <3>1, MutexFacts DEF Dispatched, Kept, Base, MutexCurrent, MutexInv
    <3>3. /\ sys'.prio = sys.prio /\ sys'.wait = sys.wait
          /\ sys'.stat = sys.stat /\ sys'.error = sys.error
      BY <3>1 DEF Dispatched, Kept
    <3> QED BY <1>0, <3>2, <3>3, MutexSameOK
  <2> QED BY <2>2, <2>3
<1>2. ASSUME NEW t \in Thread, TimerExpires(t) PROVE MutexInv'
  <2>1. /\ sys' = rt_thread_timeout(rt_timer_stop(sys, t), t)
        /\ t \in sys.timer /\ sys.cur # NoThread
    BY <1>2 DEF TimerExpires
  <2>2. /\ Woken(sys, sys', t) /\ sys'.error = [sys.error EXCEPT ![t] = "ETIMEOUT"]
        /\ sys'.cur \in Thread /\ sys'.stat[sys'.cur] = "READY"
    BY <2>1, MutexFacts, TimeoutEffect
  <2>3. /\ Sound(sys') /\ sys'.nest = sys.nest /\ sys'.prio = sys.prio
        /\ sys'.stat = [sys.stat EXCEPT ![t] = "READY"]
        /\ \A w \in WaitList : ToSet(sys'.wait[w]) = ToSet(sys.wait[w]) \ {t}
    BY <2>2 DEF Woken, Kept
  <2>4. Base(sys')
    <3>1. sys.stat[Idle] = "READY" BY <2>1 DEF MutexInv, Base
    <3>2. sys'.stat[Idle] = "READY" BY <2>3, <3>1, MutexFacts
    <3> QED BY <2>2, <2>3, <3>2, MutexFacts DEF Base
  <2>5. MutexCurrent' BY <2>2, MutexFacts DEF MutexCurrent
  <2>6. LeftLists(sys, sys', t) BY <2>1, MutexFacts, TimeoutLists
  <2>7. ASSUME NEW m \in Mutexes
        PROVE  /\ Waiters(m)' = Waiters(m) \ {t}
               /\ Sorted(sys.wait[m], sys.prio) => Sorted(sys'.wait[m], sys.prio)
    <3>1. m \in WaitList /\ sys.wait[m] \in Seq(Thread) BY MutexList
    <3>2. sys'.wait[m] = Unlink(sys.wait[m], t) BY <2>6, <3>1 DEF LeftLists
    <3>3. Waiters(m)' = Waiters(m) \ {t} BY <2>3, <3>1 DEF Waiters
    <3> QED BY <3>1, <3>2, <3>3, UnlinkSorted
  <2>8. ListsShrink BY <2>3, <2>7 DEF ListsShrink
  <2>9. \A u \in Thread \ {t} : Untouched(u) BY <2>2, <2>3, <2>7, MutexFacts DEF Untouched
  <2>10. TimedOut(t) BY <2>1, <2>2, <2>3, <2>7, MutexFacts DEF TimedOut
  <2> QED BY <1>0, <2>4, <2>5, <2>8, <2>9, <2>10, MutexKeepOK
<1> QED BY <1>1, <1>2 DEF Tick

\* rt_schedule() in the middle of a call.
LEMMA MutexScheduleOK ==
  ASSUME MutexInv, NEW c \in Thread, MutexSchedule(c)
  PROVE  MutexInv'
<1>1. PICK l : /\ sys.cur = c /\ sys' = rt_schedule(sys) /\ Goto(c, l)
               /\ \/ pc[c] = "lock" /\ l = "locked"
                  \/ pc[c] = "unlock" /\ l = "run"
                  \/ pc[c] = "sleep" /\ l = "run"
  BY DEF MutexSchedule, Schedule, At
<1>2. UNCHANGED <<mutex, mine, want>> BY DEF MutexSchedule
<1>3. sys.cur # NoThread /\ Base(sys) BY <1>1, MutexFacts DEF MutexInv
<1>4. /\ Base(sys') /\ sys'.stat = sys.stat /\ sys'.error = sys.error
      /\ sys'.wait = sys.wait /\ sys'.prio = sys.prio
      /\ sys'.cur # NoThread /\ sys'.stat[sys'.cur] = "READY"
  BY <1>1, <1>3, DispatchBase
<1>5. /\ pc'[c] = l /\ \A t \in Thread \ {c} : pc'[t] = pc[t]
      /\ pc' \in MutexPc
  BY <1>1, MutexGoto
<1>6. MutexCurrent' BY <1>4 DEF MutexCurrent
<1> QED BY <1>1, <1>2, <1>4, <1>5, <1>6, MutexSameOK

\* rt_thread_sleep.
LEMMA MutexSleepOK ==
  ASSUME MutexInv, NEW c \in Thread \ {Idle}, rt_thread_sleep(c)
  PROVE  MutexInv'
<1>1. /\ sys.cur = c /\ pc[c] = "run" /\ Goto(c, "sleep") /\ UNCHANGED <<mutex, mine, want>>
      /\ sys' = rt_timer_start(rt_thread_suspend(sys, c), c)
  BY DEF rt_thread_sleep, Running, At
<1>2. sys.cur # NoThread /\ sys.stat[c] = "READY" /\ sys.stat[Idle] = "READY"
  BY <1>1, MutexCaller
<1>3. Parked(sys, sys', c) /\ sys'.error = sys.error BY <1>1, <1>2, MutexFacts, DelayEffect
<1>4. /\ Sound(sys') /\ sys'.nest = sys.nest /\ sys'.prio = sys.prio /\ sys'.cur = c
      /\ sys'.stat = [sys.stat EXCEPT ![c] = "SUSPEND"]
  BY <1>1, <1>3 DEF Parked, Kept
<1>5. Base(sys') BY <1>2, <1>4, MutexFacts DEF Base
<1>6. sys'.wait = sys.wait
  <2>1. PICK s : s = rt_thread_suspend(sys, c) OBVIOUS
  <2>2. s.wait = sys.wait /\ s \in KernelState BY <1>2, <2>1, MutexFacts, SuspendLists
  <2>3. sys' = rt_timer_start(s, c) BY <1>1, <2>1
  <2> QED BY <2>2, <2>3 DEF rt_timer_start, KernelState
<1>7. /\ pc'[c] = "sleep" /\ \A t \in Thread \ {c} : pc'[t] = pc[t]
      /\ pc' \in MutexPc
  BY <1>1, MutexGoto
<1>8. MutexCurrent' BY <1>1, <1>2, <1>4, <1>7 DEF MutexCurrent
<1>9. \A t \in Thread : \/ pc[t] \notin {"lock", "locked"}
                        \/ sys'.stat[t] = sys.stat[t] /\ sys'.error[t] = sys.error[t]
  BY <1>1, <1>3, <1>4, MutexFacts
<1> QED BY <1>1, <1>4, <1>5, <1>6, <1>7, <1>8, <1>9, MutexSameOK

\* The error of a thread is set.
LEMMA ErrorBase ==
  ASSUME NEW k, Base(k), NEW c \in Thread, NEW e \in Error, NEW r, r = SetError(k, c, e)
  PROVE  /\ Base(r) /\ r.stat = k.stat /\ r.prio = k.prio /\ r.wait = k.wait
         /\ r.cur = k.cur /\ r.error = [k.error EXCEPT ![c] = e]
<1>1. k \in KernelState /\ KernelOK(k, {}) BY DEF Base, Sound
<1>2. PICK X : X = {} OBVIOUS
<1>3. KernelOK(k, X) BY <1>1, <1>2
<1>4. /\ r \in KernelState /\ KernelOK(r, X)
      /\ r.stat = k.stat /\ r.prio = k.prio /\ r.timer = k.timer
      /\ r.cur = k.cur /\ r.nest = k.nest /\ r.gone = k.gone /\ r.wait = k.wait
  BY <1>1, <1>3, ErrorOK
<1>5. r.error = [k.error EXCEPT ![c] = e] BY <1>1 DEF SetError, KernelState
<1> QED BY <1>2, <1>4, <1>5 DEF Base, Sound

\* A call that fails: rt_mutex_take without waiting, rt_mutex_release by a
\* thread that is not the owner.
LEMMA MutexRefuseOK ==
  ASSUME MutexInv, NEW c \in Thread, NEW e \in Error, sys.cur = c, pc[c] = "run",
         sys' = SetError(sys, c, e), UNCHANGED <<pc, mutex, mine, want>>
  PROVE  MutexInv'
<1>1. Base(sys) BY DEF MutexInv
<1>2. /\ Base(sys') /\ sys'.stat = sys.stat /\ sys'.prio = sys.prio /\ sys'.wait = sys.wait
      /\ sys'.cur = sys.cur /\ sys'.error = [sys.error EXCEPT ![c] = e]
  BY <1>1, ErrorBase
<1>3. MutexCurrent' BY <1>2 DEF MutexInv, MutexCurrent
<1>4. pc' \in MutexPc BY DEF MutexInv, MutexTypeOK, MutexPc
<1>5. \A t \in Thread : \/ pc[t] \notin {"lock", "locked"}
                        \/ sys'.stat[t] = sys.stat[t] /\ sys'.error[t] = sys.error[t]
  BY <1>2, MutexFacts
<1> QED BY <1>2, <1>3, <1>4, <1>5, MutexSameOK

\* The caller c, owner of m before or not, is its owner h times; whose priority
\* is remembered does not change while it is the owner.
SelfOwned(c, m, h) ==
  [value |-> 0, owner |-> c, hold |-> h,
   orig |-> IF mutex[m].owner = c THEN mutex[m].orig ELSE sys.prio[c]]

\* A take of a free mutex and a nested take or release change only its owner
\* and its hold.
LEMMA MutexSelfOK ==
  ASSUME MutexInv, NEW c \in Thread, NEW m \in Mutexes, NEW h \in 1 .. MaxHold,
         sys.cur = c, pc[c] = "run", UNCHANGED <<pc, want>>,
         Base(sys'), sys'.stat = sys.stat, sys'.prio = sys.prio, sys'.wait = sys.wait,
         sys'.cur = sys.cur, \A t \in Thread \ {c} : sys'.error[t] = sys.error[t],
         mutex[m].owner \in {c, NoThread},
         mutex' = [mutex EXCEPT ![m] = SelfOwned(c, m, h)],
         mine' = [mine EXCEPT ![c][m] = h]
  PROVE  MutexInv'
<1>1. \A t \in Thread, n \in Mutexes : Inside(t, n)' <=> Inside(t, n) BY DEF Inside
<1>2. \A n \in Mutexes : ~Inside(c, n) BY DEF Inside
<1>3. \A n \in Mutexes : Waiters(n)' = Waiters(n) /\ Waiters(n) \subseteq Thread /\ c \notin Waiters(n)
  BY MutexList, MutexCaller DEF Waiters
<1>4. sys.prio[c] \in Priority /\ c # NoThread BY MutexFacts
<1>5. SelfOwned(c, m, h).orig \in Priority
  BY <1>4 DEF SelfOwned, MutexInv, MutexOwner, OwnerOK
<1>6. PICK x : x = SelfOwned(c, m, h) OBVIOUS
<1>7. /\ x.value = 0 /\ x.owner = c /\ x.hold = h /\ x.orig \in Priority
      /\ x.orig = IF mutex[m].owner = c THEN mutex[m].orig ELSE sys.prio[c]
      /\ x \in [value : {0, 1}, owner : Thread \cup {NoThread},
                orig : Priority \cup {NoPriority}, hold : 0 .. MaxHold]
  BY <1>5, <1>6, MutexAssumption DEF SelfOwned
<1>8. /\ mutex'[m] = x /\ \A n \in Mutexes \ {m} : mutex'[n] = mutex[n]
      /\ mutex' \in [Mutexes -> [value : {0, 1}, owner : Thread \cup {NoThread},
                                 orig : Priority \cup {NoPriority}, hold : 0 .. MaxHold]]
  BY <1>6, <1>7 DEF MutexInv, MutexTypeOK
<1>9. /\ mine'[c][m] = h /\ h > 0
      /\ \A t \in Thread, n \in Mutexes : <<t, n>> # <<c, m>> => mine'[t][n] = mine[t][n]
      /\ mine' \in [Thread -> [Mutexes -> 0 .. MaxHold]]
  BY MutexAssumption DEF MutexInv, MutexTypeOK
<1>10. MutexTypeOK' BY <1>8, <1>9 DEF MutexInv, MutexTypeOK, Base, Sound
<1>11. MutexCurrent' BY DEF MutexInv, MutexCurrent
<1>12. MutexWaits'
  BY <1>1, <1>2, <1>3, <1>4, <1>7, <1>8 DEF MutexInv, MutexWaits
<1>13. MutexInside'
  <2> SUFFICES ASSUME NEW n \in Mutexes, NEW t \in Thread, Inside(t, n)'
               PROVE  /\ mine'[t][n] = 0
                      /\ \/ t \in Waiters(n)'
                         \/ /\ sys'.stat[t] = "READY" /\ sys'.error[t] = "EOK"
                            /\ mutex'[n].owner = t
                         \/ /\ sys'.stat[t] = "READY" /\ sys'.error[t] = "ETIMEOUT"
                            /\ mutex'[n].owner # t
    BY DEF MutexInside
  <2>1. Inside(t, n) /\ t # c BY <1>1, <1>2
  <2>2. /\ mine'[t][n] = mine[t][n] /\ sys'.stat[t] = sys.stat[t]
        /\ sys'.error[t] = sys.error[t] /\ Waiters(n)' = Waiters(n)
    BY <1>3, <1>9, <2>1
  <2>3. mutex'[n].owner = t <=> mutex[n].owner = t
    BY <1>7, <1>8, <2>1, MutexFacts
  <2> QED BY <2>1, <2>2, <2>3 DEF MutexInv, MutexInside
<1>14. MutexOwner'
  <2>1. ASSUME NEW n \in Mutexes, n # m PROVE OwnerOK(n)'
    <3>1. mutex'[n] = mutex[n] /\ \A t \in Thread : mine'[t][n] = mine[t][n]
      BY <1>8, <1>9, <2>1
    <3>2. OwnerOK(n) BY DEF MutexInv, MutexOwner
    <3> QED BY <1>1, <3>1, <3>2 DEF OwnerOK
  <2>2. OwnerOK(m)'
    <3>1. \A t \in Thread \ {c} : /\ mine'[t][m] = mine[t][m]
                                  /\ mutex[m].owner # t /\ mutex'[m].owner # t
      BY <1>4, <1>7, <1>8, <1>9, MutexFacts
    <3>2. OwnerOK(m) BY DEF MutexInv, MutexOwner
    <3>3. \A t \in Thread : ~Inside(t, m)' => (mutex'[m].owner = t <=> mine'[t][m] > 0)
      BY <1>1, <1>7, <1>8, <1>9, <3>1, <3>2 DEF OwnerOK
    <3>4. mutex'[m].owner = c /\ ~Inside(c, m)' /\ mutex'[m].hold = mine'[c][m]
      BY <1>1, <1>2, <1>7, <1>8, <1>9
    <3>5. mutex'[m].owner # NoThread /\ mutex'[m].value = 0 /\ mutex'[m].orig \in Priority
      BY <1>4, <1>7, <1>8
    <3> QED BY <3>3, <3>4, <3>5 DEF OwnerOK
  <2> QED BY <2>1, <2>2 DEF MutexOwner
<1>15. MutexPriority'
  <2> SUFFICES ASSUME Single, NEW n \in Mutexes
               PROVE  /\ \A t \in Thread : mutex'[n].owner # t => sys'.prio[t] = InitPriority[t]
                      /\ mutex'[n].owner # NoThread =>
                           mutex'[n].orig = InitPriority[mutex'[n].owner]
    BY DEF MutexPriority
  <2>1. n = m BY DEF Single
  <2>2. /\ \A t \in Thread : mutex[m].owner # t => sys.prio[t] = InitPriority[t]
        /\ mutex[m].owner # NoThread => mutex[m].orig = InitPriority[mutex[m].owner]
    BY DEF MutexInv, MutexPriority
  <2>3. x.orig = InitPriority[c] BY <1>4, <1>7, <2>2
  <2>4. \A t \in Thread \ {c} : sys'.prio[t] = InitPriority[t] BY <2>2, MutexFacts
  <2> QED BY <1>7, <1>8, <2>1, <2>3, <2>4
<1>16. MutexOrder'
  <2> SUFFICES ASSUME Single, MutexFlag = "PRIO", NEW n \in Mutexes
               PROVE  /\ Sorted(sys'.wait[n], sys'.prio)
                      /\ \A t \in Waiters(n)' : sys'.prio[mutex'[n].owner] <= sys'.prio[t]
    BY DEF MutexOrder
  <2>1. n = m BY DEF Single
  <2>2. /\ Sorted(sys.wait[m], sys.prio)
        /\ \A t \in Waiters(m) : sys.prio[mutex[m].owner] <= sys.prio[t]
    BY DEF MutexInv, MutexOrder
  <2>3. Waiters(m) # {} => mutex[m].owner = c BY DEF MutexInv, MutexWaits
  <2> QED BY <1>3, <1>7, <1>8, <2>1, <2>2, <2>3
<1> QED BY <1>10, <1>11, <1>12, <1>13, <1>14, <1>15, <1>16 DEF MutexInv

\* hold is 8 bits wide.
LEMMA Byte ==
  ASSUME NEW n \in 0 .. MaxHold
  PROVE  n % 256 = n
<1>1. n \in 0 .. 255 BY MutexAssumption
<1> QED BY <1>1

\* rt_mutex_take of a mutex that is free or the caller's own.
LEMMA MutexTakeOK ==
  ASSUME MutexInv, NEW c \in Thread, NEW m \in Mutexes, Running(c), Take(c, m)
  PROVE  MutexInv'
<1>1. sys.cur = c /\ pc[c] = "run" /\ UNCHANGED <<pc, want>> BY DEF Running, At, Take
<1>2. Base(sys) /\ sys' = SetError(sys, c, "EOK") BY DEF MutexInv, Take
<1>3. /\ Base(sys') /\ sys'.stat = sys.stat /\ sys'.prio = sys.prio /\ sys'.wait = sys.wait
      /\ sys'.cur = sys.cur /\ sys'.error = [sys.error EXCEPT ![c] = "EOK"]
  BY <1>2, ErrorBase, Errors
<1>4. \A t \in Thread \ {c} : sys'.error[t] = sys.error[t] BY <1>3, MutexFacts
<1>5. /\ mutex[m] \in [value : {0, 1}, owner : Thread \cup {NoThread},
                       orig : Priority \cup {NoPriority}, hold : 0 .. MaxHold]
      /\ mutex \in [Mutexes -> [value : {0, 1}, owner : Thread \cup {NoThread},
                       orig : Priority \cup {NoPriority}, hold : 0 .. MaxHold]]
      /\ mine[c][m] \in 0 .. MaxHold /\ mine[c] \in [Mutexes -> 0 .. MaxHold]
      /\ mine \in [Thread -> [Mutexes -> 0 .. MaxHold]]
  BY DEF MutexInv, MutexTypeOK
<1>6. OwnerOK(m) /\ ~Inside(c, m) BY <1>1 DEF MutexInv, MutexOwner, Inside
<1>7. PICK h : h = mine[c][m] + 1 OBVIOUS
<1>8. mine' = [mine EXCEPT ![c][m] = h] BY <1>5, <1>7 DEF Take
<1>9. CASE mutex[m].owner = c
  <2>1. mutex[m].value = 0 /\ mutex[m].hold = mine[c][m] BY <1>6, <1>9 DEF OwnerOK
  <2>2. mine[c][m] < MaxHold /\ mutex' = [mutex EXCEPT ![m].hold = (@ + 1) % 256]
    BY <1>9 DEF Take
  <2>3. h \in 1 .. MaxHold /\ h \in 0 .. MaxHold
    <3>1. MaxHold \in Nat BY MutexAssumption
    <3> QED BY <1>5, <1>7, <2>2, <3>1
  <2>4. mutex[m].hold + 1 = h BY <1>7, <2>1
  <2>5. (mutex[m].hold + 1) % 256 = h BY <2>3, <2>4, Byte
  <2>6. SelfOwned(c, m, h) = [mutex[m] EXCEPT !.hold = h]
    BY <1>5, <1>9, <2>1 DEF SelfOwned
  <2>7. mutex' = [mutex EXCEPT ![m] = SelfOwned(c, m, h)] BY <1>5, <2>2, <2>5, <2>6
  <2> QED BY <1>1, <1>3, <1>4, <1>8, <1>9, <2>3, <2>7, MutexSelfOK
<1>10. CASE mutex[m].owner # c
  <2>1. /\ mutex[m].value > 0
        /\ mutex' = [mutex EXCEPT ![m] = [TakenBy(m, c) EXCEPT !.value = @ - 1]]
    BY <1>10 DEF Take
  <2>2. mutex[m].owner = NoThread /\ mutex[m] = Free /\ mine[c][m] = 0
    BY <1>5, <1>6, <1>10, <2>1 DEF OwnerOK
  <2>3. h = 1 /\ h \in 1 .. MaxHold BY <1>7, <2>2, MutexAssumption
  <2>4. [TakenBy(m, c) EXCEPT !.value = @ - 1] = SelfOwned(c, m, h)
    <3>1. (0 + 1) % 256 = 1 OBVIOUS
    <3>2. TakenBy(m, c) = [value |-> 1, owner |-> c, orig |-> sys.prio[c], hold |-> (0 + 1) % 256]
      BY <2>2 DEF TakenBy, Free
    <3>3. TakenBy(m, c) = [value |-> 1, owner |-> c, orig |-> sys.prio[c], hold |-> 1]
      BY <3>1, <3>2
    <3> QED BY <1>10, <2>3, <3>3 DEF SelfOwned
  <2> QED BY <1>1, <1>3, <1>4, <1>8, <2>1, <2>2, <2>3, <2>4, MutexSelfOK
<1> QED BY <1>9, <1>10

\* rt_mutex_release of a mutex taken more than once.
LEMMA MutexInnerOK ==
  ASSUME MutexInv, NEW c \in Thread, NEW m \in Mutexes, Running(c), ReleaseInner(c, m)
  PROVE  MutexInv'
<1>1. /\ sys.cur = c /\ pc[c] = "run" /\ UNCHANGED <<sys, pc, want>> /\ mutex[m].owner = c
      /\ mutex' = [mutex EXCEPT ![m].hold = (@ - 1) % 256] /\ (mutex[m].hold - 1) % 256 # 0
  BY DEF Running, At, ReleaseInner
<1>2. /\ mutex[m] \in [value : {0, 1}, owner : Thread \cup {NoThread},
                       orig : Priority \cup {NoPriority}, hold : 0 .. MaxHold]
      /\ mutex \in [Mutexes -> [value : {0, 1}, owner : Thread \cup {NoThread},
                       orig : Priority \cup {NoPriority}, hold : 0 .. MaxHold]]
      /\ mine[c][m] \in 0 .. MaxHold /\ mine[c] \in [Mutexes -> 0 .. MaxHold]
      /\ mine \in [Thread -> [Mutexes -> 0 .. MaxHold]]
  BY DEF MutexInv, MutexTypeOK
<1>3. OwnerOK(m) /\ ~Inside(c, m) BY <1>1 DEF MutexInv, MutexOwner, Inside
<1>4. PICK h : h = mine[c][m] - 1 OBVIOUS
<1>5. mine' = [mine EXCEPT ![c][m] = h] BY <1>2, <1>4 DEF ReleaseInner
<1>6. mutex[m].value = 0 /\ mutex[m].hold = mine[c][m] /\ mine[c][m] > 0
  BY <1>1, <1>3 DEF OwnerOK
<1>7. h \in 1 .. MaxHold /\ (mutex[m].hold - 1) % 256 = h
  <2>0. MaxHold \in Nat BY MutexAssumption
  <2>1. h \in 0 .. MaxHold /\ mutex[m].hold - 1 = h BY <1>2, <1>4, <1>6, <2>0
  <2>2. h % 256 = h BY <2>1, Byte
  <2> QED BY <1>1, <2>1, <2>2
<1>8. SelfOwned(c, m, h) = [mutex[m] EXCEPT !.hold = h]
  BY <1>1, <1>2, <1>6 DEF SelfOwned
<1>9. mutex' = [mutex EXCEPT ![m] = SelfOwned(c, m, h)] BY <1>1, <1>2, <1>7, <1>8
<1>10. Base(sys') BY <1>1 DEF MutexInv
<1> QED BY <1>1, <1>5, <1>7, <1>9, <1>10, MutexSelfOK

\* rt_mutex_take returns after a wait.
LEMMA MutexReturnOK ==
  ASSUME MutexInv, NEW c \in Thread, LockReturn(c)
  PROVE  MutexInv'
<1>1. sys.cur = c /\ pc[c] = "locked" /\ Goto(c, "run") /\ UNCHANGED <<sys, mutex, want>>
  BY DEF LockReturn, At
<1>2. PICK m \in Mutexes : m = want[c] BY DEF MutexInv, MutexTypeOK
<1>3. Inside(c, m) /\ \A n \in Mutexes : Inside(c, n) => n = m BY <1>1, <1>2 DEF Inside
<1>4. \A n \in Mutexes : c \notin Waiters(n) BY <1>1, MutexCaller
<1>5. /\ mine[c][m] = 0
      /\ \/ sys.error[c] = "EOK" /\ mutex[m].owner = c
         \/ sys.error[c] = "ETIMEOUT" /\ mutex[m].owner # c
  BY <1>3, <1>4 DEF MutexInv, MutexInside
<1>6. PICK h : h = IF sys.error[c] = "EOK" THEN 1 ELSE 0 OBVIOUS
<1>7. mine \in [Thread -> [Mutexes -> 0 .. MaxHold]] BY DEF MutexInv, MutexTypeOK
<1>8. /\ mine'[c][m] = h /\ mine' \in [Thread -> [Mutexes -> 0 .. MaxHold]]
      /\ \A t \in Thread, n \in Mutexes : t # c \/ n # m => mine'[t][n] = mine[t][n]
  <2>1. CASE sys.error[c] = "EOK"
    <3>1. mine' = [mine EXCEPT ![c][m] = @ + 1] BY <1>2, <2>1 DEF LockReturn
    <3> QED BY <1>5, <1>6, <1>7, <2>1, <3>1, MutexAssumption
  <2>2. CASE sys.error[c] # "EOK"
    <3>1. mine' = mine BY <2>2 DEF LockReturn
    <3> QED BY <1>5, <1>6, <1>7, <2>2, <3>1
  <2> QED BY <2>1, <2>2
<1>9. /\ pc'[c] = "run" /\ \A t \in Thread \ {c} : pc'[t] = pc[t]
      /\ pc' \in MutexPc
  BY <1>1, MutexGoto
<1>10. \A t \in Thread, n \in Mutexes : Inside(t, n)' <=> Inside(t, n) /\ t # c
  BY <1>1, <1>9 DEF Inside
<1>11. \A n \in Mutexes : Waiters(n)' = Waiters(n) /\ Waiters(n) \subseteq Thread
  BY <1>1, MutexList DEF Waiters
<1>12. MutexTypeOK' BY <1>1, <1>8, <1>9 DEF MutexInv, MutexTypeOK, MutexPc
<1>13. MutexCurrent'
  BY <1>1, <1>9, MutexCaller, MutexFacts DEF MutexInv, MutexCurrent
<1>14. MutexWaits' BY <1>1, <1>4, <1>10, <1>11 DEF MutexInv, MutexWaits
<1>15. MutexInside' BY <1>1, <1>8, <1>10, <1>11 DEF MutexInv, MutexInside
<1>16. MutexOwner'
  <2>1. ASSUME NEW n \in Mutexes, n # m PROVE OwnerOK(n)'
    <3>1. OwnerOK(n) BY DEF MutexInv, MutexOwner
    <3>2. \A t \in Thread : mine'[t][n] = mine[t][n] /\ (Inside(t, n)' <=> Inside(t, n))
      BY <1>3, <1>8, <1>10, <2>1
    <3> QED BY <1>1, <3>1, <3>2 DEF OwnerOK
  <2>2. OwnerOK(m)'
    <3>1. OwnerOK(m) BY DEF MutexInv, MutexOwner
    <3>2. \A t \in Thread \ {c} : mine'[t][m] = mine[t][m] /\ (Inside(t, m)' <=> Inside(t, m))
      BY <1>8, <1>10
    <3>3. ~Inside(c, m)' /\ (mutex[m].owner = c <=> mine'[c][m] > 0)
      BY <1>5, <1>6, <1>8, <1>10
    <3>4. mutex[m].owner = c => mutex[m].hold = 1 /\ mine'[c][m] = 1
      BY <1>3, <1>5, <1>6, <1>8, <3>1 DEF OwnerOK
    <3> QED BY <1>1, <3>1, <3>2, <3>3, <3>4 DEF OwnerOK
  <2> QED BY <2>1, <2>2 DEF MutexOwner
<1>17. MutexPriority' BY <1>1 DEF MutexInv, MutexPriority, Single
<1>18. MutexOrder' BY <1>1, <1>11 DEF MutexInv, MutexOrder, Single
<1>19. Base(sys') BY <1>1 DEF MutexInv
<1> QED BY <1>12, <1>13, <1>14, <1>15, <1>16, <1>17, <1>18, <1>19 DEF MutexInv

\* The owner of a busy mutex.
LEMMA BusyOwner ==
  ASSUME MutexInv, NEW c \in Thread, NEW m \in Mutexes, Busy(c, m), ~Inside(c, m)
  PROVE  mutex[m].owner \in Thread /\ mutex[m].owner # c /\ mine[c][m] = 0
<1>1. /\ mutex[m].owner \in Thread \cup {NoThread} /\ mutex[m].value = 0
      /\ mutex[m].owner # c /\ mine[c][m] \in 0 .. MaxHold
  BY DEF MutexInv, MutexTypeOK, Busy
<1>2. OwnerOK(m) BY DEF MutexInv, MutexOwner
<1>3. mutex[m].owner # NoThread BY <1>1, <1>2 DEF OwnerOK, Free
<1>4. ~(mine[c][m] > 0) BY <1>1, <1>2 DEF OwnerOK
<1> QED BY <1>1, <1>3, <1>4

\* The owner o runs at the priority of c at least; nothing else changed.
Raised(k, i, o, c) ==
  /\ Base(i) /\ i.stat = k.stat /\ i.error = k.error /\ i.cur = k.cur /\ i.wait = k.wait
  /\ \A t \in Thread \ {o} : i.prio[t] = k.prio[t]
  /\ i.prio[o] <= k.prio[c] /\ i.prio[o] <= k.prio[o]

\* The owner runs at the higher of its own priority and that of the taker.
LEMMA InheritOK ==
  ASSUME NEW k, Base(k), NEW o \in Thread, NEW c \in Thread, NEW i, i = Inherit(k, o, c)
  PROVE  Raised(k, i, o, c)
<1>1. /\ k.prio \in [Thread -> Priority] /\ k.prio[c] \in Priority
      /\ k.prio[o] \in Int /\ k.prio[c] \in Int
  BY KernelTypes DEF Base, Sound, Priority
<1>2. CASE k.prio[c] < k.prio[o]
  <2>1. PICK p \in Priority : p = k.prio[c] BY <1>1
  <2>2. i = ChangePriority(k, o, p) BY <1>2, <2>1 DEF Inherit
  <2>3. /\ Base(i) /\ i.stat = k.stat /\ i.error = k.error /\ i.cur = k.cur
        /\ i.wait = k.wait /\ i.prio = [k.prio EXCEPT ![o] = p]
    BY <2>2, ChangePriorityLists
  <2>4. i.prio[o] = p /\ \A t \in Thread \ {o} : i.prio[t] = k.prio[t] BY <1>1, <2>3
  <2>5. i.prio[o] <= k.prio[c] /\ i.prio[o] <= k.prio[o] BY <1>1, <1>2, <2>1, <2>4
  <2> QED BY <2>3, <2>4, <2>5 DEF Raised
<1>3. CASE ~(k.prio[c] < k.prio[o])
  <2>1. i = k BY <1>3 DEF Inherit
  <2>2. i.prio[o] <= k.prio[c] /\ i.prio[o] <= k.prio[o] BY <1>1, <1>3, <2>1
  <2> QED BY <2>1, <2>2 DEF Raised
<1> QED BY <1>2, <1>3

\* c waits for m; the owner's priority rose to the one of c, if it was lower.
MutexWaited(c, m, o) ==
  /\ Base(sys') /\ sys'.cur = c /\ sys'.stat = [sys.stat EXCEPT ![c] = "SUSPEND"]
  /\ sys'.error = [sys.error EXCEPT ![c] = "EOK"]
  /\ \A n \in Mutexes : Waiters(n)' = Waiters(n) \cup (IF n = m THEN {c} ELSE {})
  /\ \A t \in Thread \ {o} : sys'.prio[t] = sys.prio[t]
  /\ sys'.prio[o] <= sys.prio[c] /\ sys'.prio[o] <= sys.prio[o]
  /\ MutexFlag = "PRIO" /\ Sorted(sys.wait[m], sys.prio) => Sorted(sys'.wait[m], sys'.prio)

\* rt_mutex_take of a mutex that another thread owns: the caller waits.
LEMMA TakeWaitEffect ==
  ASSUME MutexInv, NEW c \in Thread \ {Idle}, NEW m \in Mutexes, NEW tm,
         Running(c), TakeWait(c, m, tm)
  PROVE  MutexWaited(c, m, mutex[m].owner)
<1>1. PICK o : o = mutex[m].owner OBVIOUS
<1>2. sys.cur = c /\ pc[c] = "run" BY DEF Running, At
<1>3. o \in Thread /\ o # c BY <1>1, <1>2, BusyOwner DEF TakeWait, Inside
<1>4. sys.cur # NoThread /\ sys.stat[c] = "READY" /\ sys.stat[Idle] = "READY"
  BY <1>2, MutexCaller
<1>5. PICK e : e = SetError(sys, c, "EOK") OBVIOUS
<1>6. /\ Base(e) /\ e.stat = sys.stat /\ e.prio = sys.prio /\ e.wait = sys.wait
      /\ e.cur = sys.cur /\ e.error = [sys.error EXCEPT ![c] = "EOK"]
  <2>1. Base(sys) BY DEF MutexInv
  <2> QED BY <1>5, <2>1, ErrorBase, Errors
<1>7. PICK i : i = Inherit(e, o, c) OBVIOUS
<1>8. Raised(e, i, o, c) BY <1>3, <1>6, <1>7, InheritOK
<1>9. /\ Base(i) /\ i.stat = sys.stat /\ i.cur = c /\ i.wait = sys.wait
      /\ i.error = [sys.error EXCEPT ![c] = "EOK"]
      /\ \A t \in Thread \ {o} : i.prio[t] = sys.prio[t]
      /\ i.prio[o] <= sys.prio[c] /\ i.prio[o] <= sys.prio[o]
  BY <1>2, <1>6, <1>8 DEF Raised
<1>10. sys' = WaitOn(i, m, c, MutexFlag, tm) BY <1>1, <1>5, <1>7 DEF TakeWait
<1>11. Sound(i) /\ i.nest = 0 /\ i.stat[c] = "READY" /\ m \in WaitList
  BY <1>4, <1>9, MutexList DEF Base
<1>12. Queued(i, sys', m, c, tm) BY <1>10, <1>11, WaitEffect
<1>13. /\ Sound(sys') /\ sys'.nest = 0 /\ sys'.prio = i.prio /\ sys'.cur = c
       /\ sys'.stat = [i.stat EXCEPT ![c] = "SUSPEND"]
       /\ sys'.error = [i.error EXCEPT ![c] = "EOK"]
       /\ \A v \in WaitList :
            ToSet(sys'.wait[v]) = ToSet(i.wait[v]) \cup (IF v = m THEN {c} ELSE {})
  BY <1>9, <1>11, <1>12 DEF Queued, Kept
<1>14. sys'.stat = [sys.stat EXCEPT ![c] = "SUSPEND"]
       /\ sys'.error = [sys.error EXCEPT ![c] = "EOK"]
  <2>1. [[sys.error EXCEPT ![c] = "EOK"] EXCEPT ![c] = "EOK"] = [sys.error EXCEPT ![c] = "EOK"]
    BY MutexFacts
  <2> QED BY <1>9, <1>13, <2>1
<1>15. Base(sys')
  <2>1. sys'.stat[Idle] = "READY" BY <1>4, <1>14, MutexFacts
  <2> QED BY <1>13, <2>1 DEF Base
<1>16. \A n \in Mutexes : Waiters(n)' = Waiters(n) \cup (IF n = m THEN {c} ELSE {})
  BY <1>9, <1>13, MutexList DEF Waiters
<1>17. ASSUME MutexFlag = "PRIO", Sorted(sys.wait[m], sys.prio)
       PROVE  Sorted(sys'.wait[m], sys'.prio)
  <2>1. sys.wait[m] \in Seq(Thread) BY MutexList
  <2>2. \A u \in ToSet(sys.wait[m]) : u \in Thread /\ u # o
    BY <1>1, MutexList DEF MutexInv, MutexWaits, Waiters
  <2>3. \A u \in ToSet(sys.wait[m]) : i.prio[u] = sys.prio[u] BY <1>9, <2>2
  <2>4. Sorted(i.wait[m], i.prio) BY <1>9, <1>17, <2>1, <2>3, SameKeysSorted
  <2>5. Sorted(sys'.wait[m], i.prio) BY <1>10, <1>11, <1>17, <2>4, WaitLists
  <2> QED BY <1>13, <2>5
<1> QED BY <1>1, <1>9, <1>13, <1>14, <1>15, <1>16, <1>17 DEF MutexWaited

\* rt_mutex_take of a mutex that another thread owns.
LEMMA MutexTakeWaitOK ==
  ASSUME MutexInv, NEW c \in Thread \ {Idle}, NEW m \in Mutexes, NEW tm,
         Running(c), TakeWait(c, m, tm)
  PROVE  MutexInv'
<1>1. /\ sys.cur = c /\ pc[c] = "run" /\ Goto(c, "lock")
      /\ want' = [want EXCEPT ![c] = m] /\ UNCHANGED <<mutex, mine>>
  BY DEF Running, At, TakeWait
<1>2. PICK o : o = mutex[m].owner OBVIOUS
<1>3. o \in Thread /\ o # c /\ mine[c][m] = 0
  BY <1>1, <1>2, BusyOwner DEF TakeWait, Inside
<1>4. MutexWaited(c, m, o) BY <1>2, TakeWaitEffect
<1>5. /\ Base(sys') /\ sys'.cur = c /\ sys'.stat = [sys.stat EXCEPT ![c] = "SUSPEND"]
      /\ sys'.error = [sys.error EXCEPT ![c] = "EOK"]
      /\ \A n \in Mutexes : Waiters(n)' = Waiters(n) \cup (IF n = m THEN {c} ELSE {})
      /\ \A t \in Thread \ {o} : sys'.prio[t] = sys.prio[t]
      /\ sys'.prio[o] <= sys.prio[c] /\ sys'.prio[o] <= sys.prio[o]
      /\ MutexFlag = "PRIO" /\ Sorted(sys.wait[m], sys.prio) => Sorted(sys'.wait[m], sys'.prio)
  BY <1>4 DEF MutexWaited
<1>6. /\ sys'.error[c] = "EOK"
      /\ \A t \in Thread \ {c} : sys'.stat[t] = sys.stat[t] /\ sys'.error[t] = sys.error[t]
  BY <1>5, MutexFacts
<1>7. /\ pc'[c] = "lock" /\ \A t \in Thread \ {c} : pc'[t] = pc[t]
      /\ pc' \in MutexPc
  BY <1>1, MutexGoto
<1>8. /\ want'[c] = m /\ \A t \in Thread \ {c} : want'[t] = want[t]
      /\ want' \in [Thread -> Mutexes]
  BY <1>1 DEF MutexInv, MutexTypeOK
<1>9. /\ \A n \in Mutexes : ~Inside(c, n) /\ (Inside(c, n)' <=> n = m)
      /\ \A t \in Thread \ {c}, n \in Mutexes : Inside(t, n)' <=> Inside(t, n)
  BY <1>1, <1>7, <1>8 DEF Inside
<1>10. \A n \in Mutexes : Waiters(n) \subseteq Thread /\ c \notin Waiters(n)
  BY <1>1, MutexList, MutexCaller
<1>11. MutexTypeOK' BY <1>1, <1>5, <1>7, <1>8 DEF MutexInv, MutexTypeOK, MutexPc, Base, Sound
<1>12. MutexCurrent' BY <1>5, <1>7, MutexFacts DEF MutexCurrent
<1>13. MutexWaits'
  <2> SUFFICES ASSUME NEW n \in Mutexes, NEW t \in Waiters(n)'
               PROVE  /\ Inside(t, n)' /\ sys'.error[t] = "EOK"
                      /\ mutex[n].owner # t /\ mutex[n].owner # NoThread
    BY <1>1 DEF MutexWaits
  <2>1. CASE t = c
    <3>1. n = m BY <1>5, <1>10, <2>1
    <3> QED BY <1>2, <1>3, <1>6, <1>9, <2>1, <3>1, MutexFacts
  <2>2. CASE t # c
    <3>1. t \in Waiters(n) /\ t \in Thread BY <1>5, <1>10, <2>2
    <3> QED BY <1>6, <1>9, <2>2, <3>1 DEF MutexInv, MutexWaits
  <2> QED BY <2>1, <2>2
<1>14. MutexInside'
  <2> SUFFICES ASSUME NEW n \in Mutexes, NEW t \in Thread, Inside(t, n)'
               PROVE  /\ mine[t][n] = 0
                      /\ \/ t \in Waiters(n)'
                         \/ /\ sys'.stat[t] = "READY" /\ sys'.error[t] = "EOK"
                            /\ mutex[n].owner = t
                         \/ /\ sys'.stat[t] = "READY" /\ sys'.error[t] = "ETIMEOUT"
                            /\ mutex[n].owner # t
    BY <1>1 DEF MutexInside
  <2>1. CASE t = c BY <1>3, <1>5, <1>9, <2>1
  <2>2. CASE t # c
    <3>1. Inside(t, n) /\ sys'.stat[t] = sys.stat[t] /\ sys'.error[t] = sys.error[t]
      BY <1>6, <1>9, <2>2
    <3>2. t \in Waiters(n) => t \in Waiters(n)' BY <1>5
    <3> QED BY <3>1, <3>2 DEF MutexInv, MutexInside
  <2> QED BY <2>1, <2>2
<1>15. MutexOwner'
  <2> SUFFICES ASSUME NEW n \in Mutexes PROVE OwnerOK(n)' BY DEF MutexOwner
  <2>1. OwnerOK(n) BY DEF MutexInv, MutexOwner
  <2>2. CASE n # m
    <3>1. \A t \in Thread : Inside(t, n)' <=> Inside(t, n) BY <1>9, <2>2
    <3> QED BY <1>1, <2>1, <3>1 DEF OwnerOK
  <2>3. CASE n = m
    <3>1. \A t \in Thread \ {c} : Inside(t, n)' <=> Inside(t, n) BY <1>9
    <3>2. mutex[n].owner # c /\ Inside(c, n)' BY <1>2, <1>3, <1>9, <2>3
    <3> QED BY <1>1, <2>1, <3>1, <3>2 DEF OwnerOK
  <2> QED BY <2>2, <2>3
<1>16. MutexPriority'
  <2> SUFFICES ASSUME Single
               PROVE  \A n \in Mutexes :
                        /\ \A t \in Thread : mutex[n].owner # t => sys'.prio[t] = InitPriority[t]
                        /\ mutex[n].owner # NoThread =>
                             mutex[n].orig = InitPriority[mutex[n].owner]
    BY <1>1 DEF MutexPriority
  <2> SUFFICES ASSUME NEW n \in Mutexes
               PROVE  /\ \A t \in Thread : mutex[n].owner # t => sys'.prio[t] = InitPriority[t]
                      /\ mutex[n].owner # NoThread =>
                           mutex[n].orig = InitPriority[mutex[n].owner]
    OBVIOUS
  <2>1. n = m BY DEF Single
  <2> QED BY <1>2, <1>5, <2>1 DEF MutexInv, MutexPriority
<1>17. MutexOrder'
  <2> SUFFICES ASSUME Single, MutexFlag = "PRIO", NEW n \in Mutexes
               PROVE  /\ Sorted(sys'.wait[n], sys'.prio)
                      /\ \A t \in Waiters(n)' : sys'.prio[mutex[n].owner] <= sys'.prio[t]
    BY <1>1 DEF MutexOrder, Single
  <2>1. n = m BY DEF Single
  <2>2. /\ Sorted(sys.wait[m], sys.prio)
        /\ \A t \in Waiters(m) : sys.prio[o] <= sys.prio[t]
    BY <1>2 DEF MutexInv, MutexOrder
  <2>3. Sorted(sys'.wait[m], sys'.prio) BY <1>5, <2>2
  <2>4. sys'.prio \in [Thread -> Priority] BY <1>5, KernelTypes DEF Base, Sound
  <2>5. \A t \in Thread : sys.prio[t] \in Int /\ sys'.prio[t] \in Int
    BY <2>4, MutexFacts DEF Priority
  <2>6. ASSUME NEW t \in Waiters(m)' PROVE sys'.prio[o] <= sys'.prio[t]
    <3>1. CASE t = c BY <1>3, <1>5, <2>5, <3>1
    <3>2. CASE t # c
      <4>1. t \in Waiters(m) /\ t \in Thread /\ t # o
        BY <1>2, <1>5, <1>10, <3>2 DEF MutexInv, MutexWaits
      <4>2. sys.prio[o] <= sys.prio[t] /\ sys'.prio[t] = sys.prio[t] BY <1>5, <2>2, <4>1
      <4> QED BY <1>3, <1>5, <2>5, <4>1, <4>2
    <3> QED BY <3>1, <3>2
  <2> QED BY <1>2, <2>1, <2>3, <2>6
<1> QED BY <1>5, <1>11, <1>12, <1>13, <1>14, <1>15, <1>16, <1>17 DEF MutexInv

\* The owner of a mutex outside of any call.
LEMMA HoldingCaller ==
  ASSUME MutexInv, NEW c \in Thread, NEW m \in Mutexes, Running(c), mutex[m].owner = c
  PROVE  /\ sys.cur = c /\ pc[c] = "run" /\ \A n \in Mutexes : ~Inside(c, n)
         /\ mutex[m].value = 0 /\ mutex[m].orig \in Priority
         /\ mutex[m].hold = mine[c][m] /\ mine[c][m] \in 1 .. MaxHold
<1>1. sys.cur = c /\ pc[c] = "run" BY DEF Running, At
<1>2. \A n \in Mutexes : ~Inside(c, n) BY <1>1 DEF Inside
<1>3. OwnerOK(m) BY DEF MutexInv, MutexOwner
<1>4. /\ mutex[m].value = 0 /\ mutex[m].orig \in Priority /\ mutex[m].hold = mine[c][m]
      /\ mine[c][m] > 0
  BY <1>2, <1>3 DEF OwnerOK
<1>5. mine[c][m] \in 0 .. MaxHold /\ MaxHold \in Nat
  BY MutexAssumption DEF MutexInv, MutexTypeOK
<1> QED BY <1>1, <1>2, <1>4, <1>5

\* Only the priority of c is not what it was: the one it had before it became
\* the owner of m.
GivenBack(k, c, m) ==
  /\ Base(k) /\ k.stat = sys.stat /\ k.error = sys.error /\ k.cur = sys.cur
  /\ k.wait = sys.wait /\ k.prio = [sys.prio EXCEPT ![c] = mutex[m].orig]

\* The last release gives the owner back the priority it had before.
LEMMA RestoredOK ==
  ASSUME MutexInv, NEW c \in Thread, NEW m \in Mutexes, mutex[m].orig \in Priority,
         NEW k, k = Restored(c, m)
  PROVE  GivenBack(k, c, m)
<1>1. Base(sys) BY DEF MutexInv
<1>2. PICK p \in Priority : p = mutex[m].orig OBVIOUS
<1>3. CASE mutex[m].orig # sys.prio[c]
  <2>1. k = ChangePriority(sys, c, p) BY <1>2, <1>3 DEF Restored
  <2>2. /\ Base(k) /\ k.stat = sys.stat /\ k.error = sys.error /\ k.cur = sys.cur
        /\ k.wait = sys.wait /\ k.prio = [sys.prio EXCEPT ![c] = p]
    BY <1>1, <2>1, ChangePriorityLists
  <2> QED BY <1>2, <2>2 DEF GivenBack
<1>4. CASE mutex[m].orig = sys.prio[c]
  <2>1. k = sys BY <1>4 DEF Restored
  <2>2. k.prio = [sys.prio EXCEPT ![c] = mutex[m].orig] BY <1>4, <2>1, MutexFacts
  <2> QED BY <1>1, <2>1, <2>2 DEF GivenBack
<1> QED BY <1>3, <1>4

\* What the last release of m by c does to the counts.
LastRelease(c, m) ==
  /\ mine'[c][m] = 0 /\ mine' \in [Thread -> [Mutexes -> 0 .. MaxHold]]
  /\ \A t \in Thread, n \in Mutexes : t # c \/ n # m => mine'[t][n] = mine[t][n]

\* The hold reaches zero only in the hands of the owner.
LEMMA LastReleaseOK ==
  ASSUME MutexInv, NEW c \in Thread, NEW m \in Mutexes, Running(c), ReleaseOuter(c, m)
  PROVE  LastRelease(c, m) /\ mutex[m].hold = 1 /\ mutex[m].owner = c
<1>1. mutex[m].owner = c /\ (mutex[m].hold - 1) % 256 = 0
      /\ mine' = [mine EXCEPT ![c][m] = @ - 1]
  BY DEF ReleaseOuter
<1>2. mutex[m].hold = mine[c][m] /\ mine[c][m] \in 1 .. MaxHold BY <1>1, HoldingCaller
<1>3. PICK h : h = mine[c][m] - 1 OBVIOUS
<1>4. MaxHold \in Nat BY MutexAssumption
<1>5. h \in 0 .. MaxHold BY <1>2, <1>3, <1>4
<1>6. h % 256 = 0 BY <1>1, <1>2, <1>3
<1>7. h = 0 BY <1>5, <1>6, Byte
<1>8. mine \in [Thread -> [Mutexes -> 0 .. MaxHold]] BY DEF MutexInv, MutexTypeOK
<1>9. 0 \in 0 .. MaxHold BY <1>4
<1>10. mine' = [mine EXCEPT ![c][m] = 0] BY <1>1, <1>3, <1>7
<1>11. LastRelease(c, m) BY <1>8, <1>9, <1>10 DEF LastRelease
<1>12. mutex[m].hold = 1 BY <1>2, <1>3, <1>7
<1> QED BY <1>1, <1>11, <1>12

\* The last rt_mutex_release when nobody waits.
LEMMA MutexFreeOK ==
  ASSUME MutexInv, NEW c \in Thread, NEW m \in Mutexes, Running(c), ReleaseOuter(c, m),
         sys.wait[m] = <<>>
  PROVE  MutexInv'
<1>1. /\ mutex' = [mutex EXCEPT ![m] = [Free EXCEPT !.value = mutex[m].value + 1]]
      /\ sys' = Restored(c, m) /\ UNCHANGED <<pc, want>>
  BY DEF ReleaseOuter
<1>2. LastRelease(c, m) /\ mutex[m].owner = c BY LastReleaseOK
<1>3. /\ sys.cur = c /\ pc[c] = "run" /\ \A n \in Mutexes : ~Inside(c, n)
      /\ mutex[m].value = 0 /\ mutex[m].orig \in Priority
  BY <1>2, HoldingCaller
<1>4. GivenBack(sys', c, m) BY <1>1, <1>3, RestoredOK
<1>5. /\ Base(sys') /\ sys'.stat = sys.stat /\ sys'.error = sys.error /\ sys'.cur = sys.cur
      /\ sys'.wait = sys.wait /\ sys'.prio[c] = mutex[m].orig
      /\ \A t \in Thread \ {c} : sys'.prio[t] = sys.prio[t]
  BY <1>4, MutexFacts DEF GivenBack
<1>6. [Free EXCEPT !.value = mutex[m].value + 1] = Free
  <2>1. mutex[m].value + 1 = 1 BY <1>3
  <2>2. [Free EXCEPT !.value = 1] = Free BY DEF Free
  <2> QED BY <2>1, <2>2
<1>7. /\ mutex'[m] = Free /\ \A n \in Mutexes \ {m} : mutex'[n] = mutex[n]
      /\ mutex' \in [Mutexes -> [value : {0, 1}, owner : Thread \cup {NoThread},
                                 orig : Priority \cup {NoPriority}, hold : 0 .. MaxHold]]
  <2>1. Free \in [value : {0, 1}, owner : Thread \cup {NoThread},
                  orig : Priority \cup {NoPriority}, hold : 0 .. MaxHold]
    BY MutexAssumption DEF Free
  <2>2. mutex' = [mutex EXCEPT ![m] = Free] BY <1>1, <1>6
  <2> QED BY <2>1, <2>2 DEF MutexInv, MutexTypeOK
<1>8. Free.owner = NoThread BY DEF Free
<1>9. Waiters(m) = {} BY MutexList
<1>10. \A n \in Mutexes : Waiters(n)' = Waiters(n) BY <1>5 DEF Waiters
<1>11. \A t \in Thread, n \in Mutexes : Inside(t, n)' <=> Inside(t, n) BY <1>1 DEF Inside
<1>12. MutexTypeOK' BY <1>1, <1>2, <1>5, <1>7 DEF MutexInv, MutexTypeOK, Base, Sound, LastRelease
<1>13. MutexCurrent' BY <1>1, <1>3, <1>5, MutexFacts DEF MutexInv, MutexCurrent
<1>14. MutexWaits'
  <2> SUFFICES ASSUME NEW n \in Mutexes, NEW t \in Waiters(n)'
               PROVE  /\ Inside(t, n)' /\ sys'.error[t] = "EOK"
                      /\ mutex'[n].owner # t /\ mutex'[n].owner # NoThread
    BY DEF MutexWaits
  <2>1. t \in Waiters(n) /\ n # m /\ t \in Thread BY <1>9, <1>10, MutexList
  <2> QED BY <1>5, <1>7, <1>11, <2>1 DEF MutexInv, MutexWaits
<1>15. MutexInside'
  <2> SUFFICES ASSUME NEW n \in Mutexes, NEW t \in Thread, Inside(t, n)'
               PROVE  /\ mine'[t][n] = 0
                      /\ \/ t \in Waiters(n)'
                         \/ /\ sys'.stat[t] = "READY" /\ sys'.error[t] = "EOK"
                            /\ mutex'[n].owner = t
                         \/ /\ sys'.stat[t] = "READY" /\ sys'.error[t] = "ETIMEOUT"
                            /\ mutex'[n].owner # t
    BY DEF MutexInside
  <2>1. Inside(t, n) /\ t # c /\ Waiters(n)' = Waiters(n) BY <1>3, <1>10, <1>11
  <2>2. mine'[t][n] = mine[t][n] BY <1>2, <2>1 DEF LastRelease
  <2>3. mutex'[n].owner = t <=> mutex[n].owner = t BY <1>2, <1>7, <1>8, <2>1, MutexFacts
  <2> QED BY <1>5, <2>1, <2>2, <2>3 DEF MutexInv, MutexInside
<1>16. MutexOwner'
  <2>1. ASSUME NEW n \in Mutexes, n # m PROVE OwnerOK(n)'
    <3>1. mutex'[n] = mutex[n] /\ \A t \in Thread : mine'[t][n] = mine[t][n]
      BY <1>2, <1>7, <2>1 DEF LastRelease
    <3>2. OwnerOK(n) BY DEF MutexInv, MutexOwner
    <3> QED BY <1>11, <3>1, <3>2 DEF OwnerOK
  <2>2. OwnerOK(m)'
    <3>1. OwnerOK(m) BY DEF MutexInv, MutexOwner
    <3>2. \A t \in Thread : ~Inside(t, m)' => ~(mine'[t][m] > 0)
      BY <1>2, <1>11, <3>1 DEF OwnerOK, LastRelease
    <3> QED BY <1>7, <1>8, <3>2, MutexFacts DEF OwnerOK
  <2> QED BY <2>1, <2>2 DEF MutexOwner
<1>17. MutexPriority'
  <2> SUFFICES ASSUME Single, NEW n \in Mutexes
               PROVE  /\ \A t \in Thread : mutex'[n].owner # t => sys'.prio[t] = InitPriority[t]
                      /\ mutex'[n].owner # NoThread =>
                           mutex'[n].orig = InitPriority[mutex'[n].owner]
    BY DEF MutexPriority, Single
  <2>1. n = m BY DEF Single
  <2>2. /\ \A t \in Thread : mutex[m].owner # t => sys.prio[t] = InitPriority[t]
        /\ mutex[m].owner # NoThread => mutex[m].orig = InitPriority[mutex[m].owner]
    BY DEF MutexInv, MutexPriority
  <2> QED BY <1>2, <1>5, <1>7, <1>8, <2>1, <2>2, MutexFacts
<1>18. MutexOrder'
  <2> SUFFICES ASSUME Single, MutexFlag = "PRIO", NEW n \in Mutexes
               PROVE  /\ Sorted(sys'.wait[n], sys'.prio)
                      /\ \A t \in Waiters(n)' : sys'.prio[mutex'[n].owner] <= sys'.prio[t]
    BY DEF MutexOrder, Single
  <2>1. n = m BY DEF Single
  <2>2. Waiters(n)' = {} /\ sys'.wait[n] = <<>> BY <1>5, <1>9, <1>10, <2>1
  <2>3. Sorted(<<>>, sys'.prio) BY DEF Sorted
  <2> QED BY <2>2, <2>3
<1> QED BY <1>5, <1>12, <1>13, <1>14, <1>15, <1>16, <1>17, <1>18 DEF MutexInv

\* h is READY and left the waiting lists, which keep their order otherwise.
Unblocked(k, r, h) ==
  /\ Base(r) /\ r.stat = [k.stat EXCEPT ![h] = "READY"] /\ r.error = k.error
  /\ r.cur = k.cur /\ r.prio = k.prio
  /\ \A w \in WaitList : /\ ToSet(r.wait[w]) = ToSet(k.wait[w]) \ {h}
                         /\ r.wait[w] = Unlink(k.wait[w], h)

\* The new owner is ready and waits for nothing.
LEMMA UnblockedOK ==
  ASSUME NEW k, Base(k), NEW h \in Thread, k.stat[h] = "SUSPEND",
         NEW r, r = rt_thread_resume(k, h)
  PROVE  Unblocked(k, r, h)
<1>1. /\ Base(r) /\ r.stat = [k.stat EXCEPT ![h] = "READY"] /\ r.error = k.error
      /\ r.cur = k.cur /\ r.prio = k.prio
      /\ \A w \in WaitList : ToSet(r.wait[w]) = ToSet(k.wait[w]) \ {h}
  BY ResumeBase
<1>2. LeftLists(k, r, h)
  <2>1. k \in KernelState BY DEF Base, Sound
  <2> QED BY <2>1, ResumeLists
<1> QED BY <1>1, <1>2 DEF Unblocked, LeftLists

\* The first waiter h is resumed, the priority of c was given back.
HandedOver(c, m, h) ==
  /\ Base(sys') /\ sys'.stat = [sys.stat EXCEPT ![h] = "READY"] /\ sys'.error = sys.error
  /\ sys'.cur = sys.cur /\ sys'.prio = [sys.prio EXCEPT ![c] = mutex[m].orig]
  /\ \A w \in WaitList : /\ ToSet(sys'.wait[w]) = ToSet(sys.wait[w]) \ {h}
                         /\ sys'.wait[w] = Unlink(sys.wait[w], h)

\* rt_mutex_release with a waiter: the first of the list becomes the owner.
LEMMA HandOverEffect ==
  ASSUME MutexInv, NEW c \in Thread, NEW m \in Mutexes, mutex[m].orig \in Priority,
         sys.wait[m] # <<>>, sys' = rt_ipc_list_resume(Restored(c, m), m),
         NEW h \in Thread, h = Head(sys.wait[m]), sys.stat[h] = "SUSPEND"
  PROVE  HandedOver(c, m, h)
<1>1. PICK k : k = Restored(c, m) OBVIOUS
<1>2. GivenBack(k, c, m) BY <1>1, RestoredOK
<1>3. /\ Base(k) /\ k.stat = sys.stat /\ k.error = sys.error /\ k.cur = sys.cur
      /\ k.wait = sys.wait /\ k.prio = [sys.prio EXCEPT ![c] = mutex[m].orig]
  BY <1>2 DEF GivenBack
<1>4. PICK r : r = sys' OBVIOUS
<1>5. r = rt_thread_resume(k, h) /\ k.stat[h] = "SUSPEND" /\ Base(k)
  BY <1>1, <1>3, <1>4 DEF rt_ipc_list_resume
<1>6. Unblocked(k, r, h) BY <1>5, UnblockedOK
<1> QED BY <1>3, <1>4, <1>6 DEF HandedOver, Unblocked

\* The last rt_mutex_release when threads wait.
LEMMA MutexHandOverOK ==
  ASSUME MutexInv, NEW c \in Thread, NEW m \in Mutexes, Running(c), ReleaseOuter(c, m),
         sys.wait[m] # <<>>
  PROVE  MutexInv'
<1>1. PICK h : h = Head(sys.wait[m]) OBVIOUS
<1>2. /\ mutex' = [mutex EXCEPT ![m] = [TakenBy(m, h) EXCEPT !.hold = 1]]
      /\ sys' = rt_ipc_list_resume(Restored(c, m), m) /\ Goto(c, "unlock") /\ want' = want
  BY <1>1 DEF ReleaseOuter
<1>3. LastRelease(c, m) /\ mutex[m].owner = c BY LastReleaseOK
<1>4. /\ sys.cur = c /\ pc[c] = "run" /\ \A n \in Mutexes : ~Inside(c, n)
      /\ mutex[m].value = 0 /\ mutex[m].orig \in Priority
  BY <1>3, HoldingCaller
<1>5. h \in Waiters(m) /\ h \in Thread /\ sys.stat[h] = "SUSPEND" /\ h # NoThread
  <2>1. sys.wait[m] \in Seq(Thread) BY MutexList
  <2>2. h \in Waiters(m) BY <1>1, <2>1, EmptyList DEF Waiters
  <2> QED BY <2>2, MutexList, MutexFacts
<1>6. Inside(h, m) /\ sys.error[h] = "EOK" /\ h # c /\ mine[h][m] = 0
  BY <1>3, <1>5 DEF MutexInv, MutexWaits, MutexInside
<1>7. /\ Base(sys') /\ sys'.error = sys.error /\ sys'.cur = sys.cur
      /\ sys'.stat = [sys.stat EXCEPT ![h] = "READY"]
      /\ sys'.prio = [sys.prio EXCEPT ![c] = mutex[m].orig]
      /\ \A w \in WaitList : /\ ToSet(sys'.wait[w]) = ToSet(sys.wait[w]) \ {h}
                             /\ sys'.wait[w] = Unlink(sys.wait[w], h)
  <2>1. HandedOver(c, m, h) BY <1>1, <1>2, <1>4, <1>5, HandOverEffect
  <2> QED BY <2>1 DEF HandedOver
<1>8. /\ sys'.stat[h] = "READY" /\ sys'.stat[c] = sys.stat[c]
      /\ \A t \in Thread \ {h} : sys'.stat[t] = sys.stat[t]
      /\ sys'.prio[c] = mutex[m].orig
      /\ \A t \in Thread \ {c} : sys'.prio[t] = sys.prio[t]
  <2>1. sys'.stat[h] = "READY" /\ \A t \in Thread \ {h} : sys'.stat[t] = sys.stat[t]
    BY <1>5, <1>7, MutexFacts
  <2>2. sys'.prio[c] = mutex[m].orig /\ \A t \in Thread \ {c} : sys'.prio[t] = sys.prio[t]
    BY <1>7, MutexFacts
  <2> QED BY <1>6, <2>1, <2>2
<1>9. \A n \in Mutexes : Waiters(n)' = Waiters(n) \ {h} BY <1>7, MutexList DEF Waiters
<1>10. PICK x : x = [TakenBy(m, h) EXCEPT !.hold = 1] OBVIOUS
<1>11. /\ x.value = 0 /\ x.owner = h /\ x.hold = 1 /\ x.orig = sys.prio[h]
       /\ x \in [value : {0, 1}, owner : Thread \cup {NoThread},
                 orig : Priority \cup {NoPriority}, hold : 0 .. MaxHold]
  <2>1. PICK p \in Priority : p = sys.prio[h] BY <1>5, MutexFacts
  <2>2. PICK y : y = (mutex[m].hold + 1) % 256 OBVIOUS
  <2>3. TakenBy(m, h) = [value |-> 0, owner |-> h, orig |-> p, hold |-> y]
    BY <1>4, <2>1, <2>2 DEF TakenBy
  <2>4. x = [value |-> 0, owner |-> h, orig |-> p, hold |-> 1] BY <1>10, <2>3
  <2>5. 1 \in 0 .. MaxHold BY MutexAssumption
  <2> QED BY <1>5, <2>1, <2>4, <2>5
<1>12. /\ mutex'[m] = x /\ \A n \in Mutexes \ {m} : mutex'[n] = mutex[n]
       /\ mutex' \in [Mutexes -> [value : {0, 1}, owner : Thread \cup {NoThread},
                                  orig : Priority \cup {NoPriority}, hold : 0 .. MaxHold]]
  BY <1>2, <1>10, <1>11 DEF MutexInv, MutexTypeOK
<1>13. /\ pc'[c] = "unlock" /\ \A t \in Thread \ {c} : pc'[t] = pc[t]
       /\ pc' \in MutexPc
  BY <1>2, MutexGoto
<1>14. \A t \in Thread, n \in Mutexes : Inside(t, n)' <=> Inside(t, n)
  BY <1>2, <1>4, <1>13 DEF Inside
<1>15. \A n \in Mutexes \ {m} : ~Inside(h, n) BY <1>6 DEF Inside
<1>16. sys.cur # NoThread /\ sys.stat[c] = "READY" BY <1>4, MutexCaller
<1>17. MutexTypeOK'
  BY <1>2, <1>3, <1>7, <1>12, <1>13 DEF MutexInv, MutexTypeOK, MutexPc, Base, Sound, LastRelease
<1>18. MutexCurrent' BY <1>4, <1>7, <1>8, <1>16 DEF MutexCurrent
<1>19. MutexWaits'
  <2> SUFFICES ASSUME NEW n \in Mutexes, NEW t \in Waiters(n)'
               PROVE  /\ Inside(t, n)' /\ sys'.error[t] = "EOK"
                      /\ mutex'[n].owner # t /\ mutex'[n].owner # NoThread
    BY DEF MutexWaits
  <2>1. t \in Waiters(n) /\ t # h /\ t \in Thread BY <1>9, MutexList
  <2>2. Inside(t, n) /\ sys.error[t] = "EOK" /\ mutex[n].owner # t /\ mutex[n].owner # NoThread
    BY <2>1 DEF MutexInv, MutexWaits
  <2> QED BY <1>5, <1>7, <1>11, <1>12, <1>14, <2>1, <2>2
<1>20. MutexInside'
  <2> SUFFICES ASSUME NEW n \in Mutexes, NEW t \in Thread, Inside(t, n)'
               PROVE  /\ mine'[t][n] = 0
                      /\ \/ t \in Waiters(n)'
                         \/ /\ sys'.stat[t] = "READY" /\ sys'.error[t] = "EOK"
                            /\ mutex'[n].owner = t
                         \/ /\ sys'.stat[t] = "READY" /\ sys'.error[t] = "ETIMEOUT"
                            /\ mutex'[n].owner # t
    BY DEF MutexInside
  <2>1. Inside(t, n) /\ t # c BY <1>4, <1>14
  <2>2. mine'[t][n] = mine[t][n] BY <1>3, <2>1 DEF LastRelease
  <2>3. CASE t = h
    <3>1. n = m BY <1>15, <2>1, <2>3
    <3> QED BY <1>6, <1>7, <1>8, <1>11, <1>12, <2>2, <2>3, <3>1
  <2>4. CASE t # h
    <3>1. t \in Waiters(n) => t \in Waiters(n)' BY <1>9, <2>4
    <3>2. mutex'[n].owner = t <=> mutex[n].owner = t
      BY <1>3, <1>11, <1>12, <2>1, <2>4
    <3>3. sys'.stat[t] = sys.stat[t] /\ sys'.error[t] = sys.error[t] BY <1>7, <1>8, <2>4
    <3> QED BY <2>1, <2>2, <3>1, <3>2, <3>3 DEF MutexInv, MutexInside
  <2> QED BY <2>3, <2>4
<1>21. MutexOwner'
  <2>1. ASSUME NEW n \in Mutexes, n # m PROVE OwnerOK(n)'
    <3>1. mutex'[n] = mutex[n] /\ \A t \in Thread : mine'[t][n] = mine[t][n]
      BY <1>3, <1>12, <2>1 DEF LastRelease
    <3>2. OwnerOK(n) BY DEF MutexInv, MutexOwner
    <3> QED BY <1>14, <3>1, <3>2 DEF OwnerOK
  <2>2. OwnerOK(m)'
    <3>1. OwnerOK(m) BY DEF MutexInv, MutexOwner
    <3>2. ASSUME NEW t \in Thread \ {h}, ~Inside(t, m)'
          PROVE  ~(mine'[t][m] > 0) /\ mutex'[m].owner # t
      <4>1. mutex'[m].owner # t BY <1>11, <1>12
      <4>2. CASE t = c BY <1>3, <4>1, <4>2 DEF LastRelease
      <4>3. CASE t # c
        <5>1. ~(mine[t][m] > 0) BY <1>3, <1>14, <3>1, <3>2, <4>3 DEF OwnerOK
        <5> QED BY <1>3, <4>1, <4>3, <5>1 DEF LastRelease
      <4> QED BY <4>2, <4>3
    <3>3. /\ Inside(h, m)' /\ mutex'[m].owner = h /\ mutex'[m].hold = 1
          /\ mutex'[m].value = 0 /\ mutex'[m].orig \in Priority
      BY <1>5, <1>6, <1>11, <1>12, <1>14, MutexFacts
    <3> QED BY <1>5, <3>2, <3>3 DEF OwnerOK
  <2> QED BY <2>1, <2>2 DEF MutexOwner
<1>22. MutexPriority'
  <2> SUFFICES ASSUME Single, NEW n \in Mutexes
               PROVE  /\ \A t \in Thread : mutex'[n].owner # t => sys'.prio[t] = InitPriority[t]
                      /\ mutex'[n].owner # NoThread =>
                           mutex'[n].orig = InitPriority[mutex'[n].owner]
    BY DEF MutexPriority, Single
  <2>1. n = m BY DEF Single
  <2>2. /\ \A t \in Thread : mutex[m].owner # t => sys.prio[t] = InitPriority[t]
        /\ mutex[m].owner # NoThread => mutex[m].orig = InitPriority[mutex[m].owner]
    BY DEF MutexInv, MutexPriority
  <2>3. sys'.prio[c] = InitPriority[c] BY <1>3, <1>8, <2>2, MutexFacts
  <2>4. \A t \in Thread \ {c} : sys'.prio[t] = InitPriority[t] BY <1>3, <1>8, <2>2
  <2>5. x.orig = InitPriority[h] BY <1>3, <1>5, <1>6, <1>11, <2>2
  <2> QED BY <1>11, <1>12, <2>1, <2>3, <2>4, <2>5
<1>23. MutexOrder'
  <2> SUFFICES ASSUME Single, MutexFlag = "PRIO", NEW n \in Mutexes
               PROVE  /\ Sorted(sys'.wait[n], sys'.prio)
                      /\ \A t \in Waiters(n)' : sys'.prio[mutex'[n].owner] <= sys'.prio[t]
    BY DEF MutexOrder, Single
  <2>1. n = m BY DEF Single
  <2>2. Sorted(sys.wait[m], sys.prio) BY DEF MutexInv, MutexOrder
  <2>3. sys.wait[m] \in Seq(Thread) /\ m \in WaitList /\ Waiters(m) \subseteq Thread
    BY MutexList
  <2>4. c \notin Waiters(m) BY <1>3 DEF MutexInv, MutexWaits
  <2>5. \A u \in ToSet(sys.wait[m]) : sys'.prio[u] = sys.prio[u]
    BY <1>8, <2>3, <2>4 DEF Waiters
  <2>6. Sorted(sys.wait[m], sys'.prio) BY <2>2, <2>3, <2>5, SameKeysSorted
  <2>7. Sorted(sys'.wait[m], sys'.prio)
    <3>1. sys'.wait[m] = Unlink(sys.wait[m], h) BY <1>7, <2>3
    <3> QED BY <2>3, <2>6, <3>1, UnlinkSorted
  <2>8. sys.prio \in [Thread -> Int] BY MutexFacts DEF Priority
  <2>9. \A u \in Waiters(m) : sys.prio[h] <= sys.prio[u]
    BY <1>1, <2>2, <2>3, <2>8, HeadSorted DEF Waiters
  <2>10. \A t \in Waiters(m)' : sys'.prio[h] <= sys'.prio[t]
    BY <1>5, <1>8, <1>9, <2>3, <2>4, <2>9
  <2> QED BY <1>11, <1>12, <2>1, <2>7, <2>10
<1> QED BY <1>7, <1>17, <1>18, <1>19, <1>20, <1>21, <1>22, <1>23 DEF MutexInv

-----------------------------------------------------------------------------
(* The theorems of Mutex *)

\* Before the first call every mutex is free.
LEMMA MutexInitOK == MutexInit => MutexInv
<1> SUFFICES ASSUME MutexInit PROVE MutexInv OBVIOUS
<1>1. /\ sys = KernelInit /\ pc = [t \in Thread |-> "run"]
      /\ mutex = [m \in Mutexes |-> Free]
      /\ mine = [t \in Thread |-> [m \in Mutexes |-> 0]]
  BY DEF MutexInit
<1>2. want \in [Thread -> Mutexes]
  <2>1. (CHOOSE m \in Mutexes : TRUE) \in Mutexes BY MutexAssumption
  <2> QED BY <2>1 DEF MutexInit
<1>3. Base(sys) /\ sys.cur = NoThread BY <1>1, KernelInitSound DEF Base
<1>4. sys.prio = InitPriority /\ \A m \in Mutexes : sys.wait[m] = <<>>
  BY <1>1, MutexAssumption DEF KernelInit
<1>5. \A m \in Mutexes : Waiters(m) = {}
  BY <1>1, KernelInitSound, MutexAssumption DEF Waiters
<1>6. \A t \in Thread, m \in Mutexes : ~Inside(t, m) BY <1>1 DEF Inside
<1>7. Free.owner = NoThread /\ NoThread \notin Thread BY KernelAssumption DEF Free
<1>8. MutexTypeOK
  <2>1. Free \in [value : {0, 1}, owner : Thread \cup {NoThread},
                  orig : Priority \cup {NoPriority}, hold : 0 .. MaxHold]
    BY MutexAssumption DEF Free
  <2>2. 0 \in 0 .. MaxHold BY MutexAssumption
  <2> QED BY <1>1, <1>2, <1>3, <2>1, <2>2 DEF MutexTypeOK, Base, Sound
<1>9. MutexCurrent BY <1>1, <1>3, <1>4 DEF MutexCurrent
<1>10. MutexWaits BY <1>5 DEF MutexWaits
<1>11. MutexInside BY <1>6 DEF MutexInside
<1>12. MutexOwner
  <2> SUFFICES ASSUME NEW m \in Mutexes PROVE OwnerOK(m) BY DEF MutexOwner
  <2>1. mutex[m] = Free /\ \A t \in Thread : mine[t][m] = 0 BY <1>1
  <2> QED BY <1>7, <2>1 DEF OwnerOK
<1>13. MutexPriority BY <1>1, <1>4, <1>7 DEF MutexPriority
<1>14. MutexOrder
  <2>1. Sorted(<<>>, sys.prio) BY DEF Sorted
  <2> QED BY <1>4, <1>5, <2>1 DEF MutexOrder
<1> QED BY <1>3, <1>8, <1>9, <1>10, <1>11, <1>12, <1>13, <1>14 DEF MutexInv

\* Each action of Mutex keeps MutexInv.
LEMMA MutexNextOK == MutexInv /\ [MutexNext]_mutexVars => MutexInv'
<1> SUFFICES ASSUME MutexInv, [MutexNext]_mutexVars PROVE MutexInv' OBVIOUS
<1>1. CASE UNCHANGED mutexVars
  <2>1. UNCHANGED <<sys, pc, mutex, mine, want>> BY <1>1 DEF mutexVars
  <2>2. Base(sys') /\ MutexCurrent' /\ pc' \in MutexPc
    BY <2>1 DEF MutexInv, MutexCurrent, MutexTypeOK, MutexPc
  <2> QED BY <2>1, <2>2, MutexSameOK
<1>2. CASE (Boot \/ Tick) /\ UNCHANGED <<mutex, mine, want>>
  BY <1>2, MutexBootOK, MutexTickOK
<1>3. ASSUME NEW c \in Thread \ {Idle}, NEW m \in Mutexes, NEW tm, rt_mutex_take(c, m, tm)
      PROVE  MutexInv'
  <2>1. Running(c) BY <1>3 DEF rt_mutex_take
  <2>2. CASE Take(c, m) BY <2>1, <2>2, MutexTakeOK
  <2>3. CASE TryTake(c, m)
    BY <2>1, <2>3, Errors, MutexRefuseOK DEF TryTake, Running, At
  <2>4. CASE TakeWait(c, m, tm) BY <2>1, <2>4, MutexTakeWaitOK
  <2> QED BY <1>3, <2>2, <2>3, <2>4 DEF rt_mutex_take
<1>4. ASSUME NEW c \in Thread \ {Idle}, NEW m \in Mutexes, rt_mutex_release(c, m)
      PROVE  MutexInv'
  <2>1. Running(c) BY <1>4 DEF rt_mutex_release
  <2>2. CASE ReleaseByOther(c, m)
    BY <2>1, <2>2, Errors, MutexRefuseOK DEF ReleaseByOther, Running, At
  <2>3. CASE ReleaseInner(c, m) BY <2>1, <2>3, MutexInnerOK
  <2>4. CASE ReleaseOuter(c, m) BY <2>1, <2>4, MutexFreeOK, MutexHandOverOK
  <2> QED BY <1>4, <2>2, <2>3, <2>4 DEF rt_mutex_release
<1>5. ASSUME NEW c \in Thread \ {Idle}, MutexCall(c) PROVE MutexInv'
  BY <1>3, <1>4, <1>5, MutexReturnOK, MutexSleepOK, MutexScheduleOK DEF MutexCall
<1> QED BY <1>1, <1>2, <1>5 DEF MutexNext

\* MutexInv holds in every reachable state, whichever theorem needs it.
LEMMA MutexAlways == MutexSpec => []MutexInv
BY MutexInitOK, MutexNextOK, PTL DEF MutexSpec

\* For any number of threads and mutexes, all priorities and both orders of the
\* waiting lists: rt_mutex_take and rt_mutex_release agree with the threads on
\* who holds a mutex and how often, in spite of timeouts.
THEOREM MutualExclusion == MutexSpec => []HeldByOne
<1>1. ASSUME MutexInv PROVE HeldByOne
  <2> SUFFICES ASSUME NEW m \in Mutexes
               PROVE  /\ mutex[m].value = 0 <=> mutex[m].owner # NoThread
                      /\ \A t \in Thread : mine[t][m] > 0 \/ t \in HandedTo(m) => mutex[m].owner = t
                      /\ mutex[m].owner # NoThread =>
                           mutex[m].hold = mine[mutex[m].owner][m] + Cardinality(HandedTo(m))
    BY DEF HeldByOne
  <2>1. OwnerOK(m) /\ mutex[m].owner \in Thread \cup {NoThread} /\ NoThread \notin Thread
    BY <1>1, MutexFacts DEF MutexInv, MutexOwner, MutexTypeOK
  <2>2. \A t \in Thread : mine[t][m] \in Nat
    BY <1>1, MutexAssumption DEF MutexInv, MutexTypeOK
  <2>3. mutex[m].value = 0 <=> mutex[m].owner # NoThread BY <2>1 DEF OwnerOK, Free
  <2>4. ASSUME NEW t \in Thread
        PROVE  /\ t \in HandedTo(m) <=> Inside(t, m) /\ mutex[m].owner = t
               /\ Inside(t, m) => mine[t][m] = 0
    <3>1. t \in HandedTo(m) <=> Inside(t, m) /\ sys.stat[t] = "READY" /\ sys.error[t] = "EOK"
      BY DEF HandedTo, Inside
    <3>2. t \in Waiters(m) => sys.stat[t] = "SUSPEND" /\ mutex[m].owner # t
      BY <1>1, MutexList DEF MutexInv, MutexWaits
    <3>3. Inside(t, m) =>
            /\ mine[t][m] = 0
            /\ \/ t \in Waiters(m)
               \/ sys.stat[t] = "READY" /\ sys.error[t] = "EOK" /\ mutex[m].owner = t
               \/ sys.stat[t] = "READY" /\ sys.error[t] = "ETIMEOUT" /\ mutex[m].owner # t
      BY <1>1 DEF MutexInv, MutexInside
    <3> QED BY <3>1, <3>2, <3>3
  <2>5. ASSUME NEW t \in Thread, mine[t][m] > 0 \/ t \in HandedTo(m) PROVE mutex[m].owner = t
    <3>1. CASE t \in HandedTo(m) BY <2>4, <3>1
    <3>2. CASE mine[t][m] > 0
      <4>1. ~Inside(t, m) BY <2>4, <3>2
      <4> QED BY <2>1, <3>2, <4>1 DEF OwnerOK
    <3> QED BY <2>5, <3>1, <3>2
  <2>6. ASSUME NEW o \in Thread, mutex[m].owner = o
        PROVE  mutex[m].hold = mine[o][m] + Cardinality(HandedTo(m))
    <3>1. mutex[m].hold = IF Inside(o, m) THEN 1 ELSE mine[o][m] BY <2>1, <2>6 DEF OwnerOK
    <3>2. HandedTo(m) \subseteq Thread BY DEF HandedTo
    <3>3. CASE Inside(o, m)
      <4>1. HandedTo(m) = {o} BY <2>4, <2>6, <3>2, <3>3
      <4>2. Cardinality(HandedTo(m)) = 1 BY <4>1, FS_Singleton
      <4>3. mine[o][m] = 0 BY <2>4, <3>3
      <4> QED BY <3>1, <3>3, <4>2, <4>3
    <3>4. CASE ~Inside(o, m)
      <4>1. HandedTo(m) = {} BY <2>4, <2>6, <3>2, <3>4
      <4>2. Cardinality(HandedTo(m)) = 0 BY <4>1, FS_EmptySet
      <4> QED BY <2>2, <3>1, <3>4, <4>2
    <3> QED BY <3>3, <3>4
  <2> QED BY <2>1, <2>3, <2>5, <2>6
<1> QED BY <1>1, MutexAlways, PTL

\* For any number of threads and all priorities: with one mutex whose waiting
\* list is ordered by priority, its owner never runs below the priority of a
\* thread that waits for it.
THEOREM OwnerIsRaised ==
  ASSUME Single, MutexFlag = "PRIO"
  PROVE  MutexSpec => []OwnerInherits
<1>1. MutexInv => OwnerInherits
  BY DEF MutexInv, MutexWaits, MutexOrder, OwnerInherits, Waiters
<1> QED BY <1>1, MutexAlways, PTL

\* For any number of threads and all priorities: with one mutex a thread that
\* does not own it runs at the priority it was created with.
THEOREM InheritanceEnds ==
  ASSUME Single
  PROVE  MutexSpec => []RestoresPriority
<1>1. MutexInv => RestoresPriority
  BY MutexAssumption DEF MutexInv, MutexPriority, RestoresPriority
<1> QED BY <1>1, MutexAlways, PTL

-----------------------------------------------------------------------------
(* Both objects *)

LockInv ==
  /\ object = "sem" => SemInv
  /\ object = "mutex" => MutexInv

\* For any number of threads and all priorities: whichever object the threads
\* use, the lists and counts are what they should be, and no thread waits for
\* a permit the semaphore has.
THEOREM PermitsReachWaiters ==
  ASSUME DetachQuiescent
  PROVE  LSpec => []PermitNotWithheld
<1>1. LInit => LockInv BY SemInitOK, MutexInitOK DEF LInit, LockInv
<1>2. ASSUME LockInv, [LNext]_lvars PROVE LockInv'
  <2>1. CASE UseSemaphore
    <3>1. object = "sem" /\ object' = object /\ [Next]_vars BY <2>1 DEF UseSemaphore
    <3> QED BY <1>2, <3>1, SemNextOK DEF LockInv
  <2>2. CASE UseMutexes
    <3>1. object = "mutex" /\ object' = object /\ [MutexNext]_mutexVars BY <2>2 DEF UseMutexes
    <3> QED BY <1>2, <3>1, MutexNextOK DEF LockInv
  <2>3. CASE UNCHANGED lvars
    <3>1. object' = object /\ UNCHANGED vars /\ UNCHANGED mutexVars
      BY <2>3 DEF lvars, semaphore, mutexes, vars, mutexVars
    <3> QED BY <1>2, <3>1, SemNextOK, MutexNextOK DEF LockInv
  <2> QED BY <1>2, <2>1, <2>2, <2>3 DEF LNext
<1>3. LockInv => PermitNotWithheld
  BY DEF LockInv, PermitNotWithheld, SemInv, SemQuiet, MutexInv
<1> QED BY <1>1, <1>2, <1>3, PTL DEF LSpec
=============================================================================
