--------------------------- MODULE ThreadsProofs ---------------------------
(***************************************************************************)
(* The safety properties of Threads hold for every set of threads, every   *)
(* number of priorities and any waiting lists, whatever thread is deleted  *)
(* at whatever moment.  The deleted threads that no list refers to are the *)
(* set X of the proofs: a thread leaves it when its deletion ends, or when *)
(* its timer expires before rt_thread_delete has stopped it.               *)
(***************************************************************************)
EXTENDS Threads, KernelProofs

\* No two threads delete the same one; a thread marked by the second step is
\* CLOSE and, unless the lists are torn, on none of them.
DeletersOK(X) ==
  \A c \in Thread : pc[c] \in DelPC =>
    /\ arg[c] # Idle
    /\ pc[c] = "del2" => sys.stat[arg[c]] = "CLOSE" /\ arg[c] \in X
    /\ \A d \in Thread : pc[d] \in DelPC /\ arg[d] = arg[c] => d = c

\* The current thread is ready, or about to call rt_schedule with the
\* scheduler unlocked; from then on the idle thread is always ready.
CurOK(X) ==
  /\ sys.cur = NoThread => sys.nest = 0 /\ Deleting = {}
  /\ sys.cur # NoThread =>
       /\ sys.cur \notin X
       /\ sys.stat[Idle] = "READY"
       /\ sys.stat[sys.cur] = "READY" \/ (pc[sys.cur] = "sched" /\ sys.nest = 0)

\* X holds every thread under deletion but those that came back.
UnlinkedOK(X) == X \subseteq Deleting /\ Deleting \ back \subseteq X

Good(X) == TypeOK /\ KernelOK(sys, X) /\ UnlinkedOK(X) /\ DeletersOK(X) /\ CurOK(X)

IInv == TypeOK /\ ClosedNotScheduled /\ (Torn \/ \E X \in SUBSET Thread : Good(X))

-----------------------------------------------------------------------------
\* The threads being deleted are threads, and the idle thread is not one.
LEMMA DeletingThreads ==
  ASSUME NEW X, Good(X)
  PROVE  /\ Deleting \subseteq Thread /\ X \subseteq Deleting /\ X \subseteq Thread
         /\ Idle \notin Deleting
BY ThreadsAssumption DEF Good, TypeOK, Deleting, DeletersOK, UnlinkedOK

\* The bitmap is never empty once the system runs.
LEMMA GroupNotEmpty ==
  ASSUME NEW k \in KernelState, NEW X, KernelOK(k, X), Idle \notin X,
         k.stat[Idle] = "READY"
  PROVE  k.group # {}
<1> DEFINE p == k.prio[Idle]
<1>1. p \in Priority /\ Idle \in Thread /\ k.ready[p] \in Seq(Thread)
  BY KernelAssumption, KernelTypes
<1>2. Idle \in ToSet(k.ready[p]) BY <1>1 DEF KernelOK, ReadyListsOK
<1>3. k.ready[p] # <<>> BY <1>1, <1>2, EmptyList
<1> QED BY <1>1, <1>3 DEF KernelOK, ReadyListsOK

\* The part of the invariant that only depends on who deletes whom.
LEMMA SameDeleters ==
  ASSUME NEW X, Good(X), arg' = arg, Deleting \ back' \subseteq X,
         \A d \in Thread : pc'[d] \in DelPC \/ pc[d] \in DelPC => pc'[d] = pc[d],
         \A d \in X : sys'.stat[d] = sys.stat[d]
  PROVE  Deleting' = Deleting /\ DeletersOK(X)' /\ UnlinkedOK(X)'
<1>1. \A d \in Thread : pc'[d] \in DelPC <=> pc[d] \in DelPC OBVIOUS
<1>2. Deleting' = Deleting BY <1>1 DEF Deleting
<1>3. DeletersOK(X) /\ UnlinkedOK(X) BY DEF Good
<1>4. DeletersOK(X)' BY <1>1, <1>3 DEF DeletersOK
<1> QED BY <1>2, <1>3, <1>4 DEF UnlinkedOK

\* The unlinked threads are on no ready list.
LEMMA NotOnReadyList ==
  ASSUME NEW X, KernelOK(sys, X), UnlinkedOK(X)
  PROVE  X \subseteq Unlinked
<1>1. ASSUME NEW t \in X PROVE t \in Unlinked
  <2>1. ~OnReadyList(t) BY DEF KernelOK, ReadyListsOK, OnReadyList
  <2> QED BY <2>1 DEF Unlinked, UnlinkedOK
<1> QED BY <1>1

\* A step that leaves the current thread.
LEMMA StepKeep ==
  ASSUME NEW X, Good(X), TypeOK', KernelOK(sys', X), arg' = arg,
         Deleting \ back' \subseteq X,
         \A d \in Thread : pc'[d] \in DelPC \/ pc[d] \in DelPC => pc'[d] = pc[d],
         \A d \in X : sys'.stat[d] = sys.stat[d],
         sys'.cur = sys.cur,
         sys.cur = NoThread => sys'.nest = 0,
         sys.cur # NoThread =>
           /\ sys'.stat[Idle] = "READY"
           /\ sys'.stat[sys.cur] = "READY" \/ (pc'[sys.cur] = "sched" /\ sys'.nest = 0)
  PROVE  Good(X)' /\ SwitchStep
<1>1. Deleting' = Deleting /\ DeletersOK(X)' /\ UnlinkedOK(X)' BY SameDeleters
<1>2. CurOK(X)' BY <1>1 DEF Good, CurOK
<1> QED BY <1>1, <1>2 DEF Good, SwitchStep

\* What a switch to a ready thread of the highest priority is.
LEMMA SwitchHighest ==
  ASSUME NEW X, KernelOK(sys', X), UnlinkedOK(X)', sys'.nest = 0,
         NEW k, k.nest = 0, Scheduled(k, sys', X)
  PROVE  SwitchStep /\ sys'.cur \in Thread \ X /\ sys'.stat[sys'.cur] = "READY"
<1>1. /\ sys'.cur \in Thread \ X /\ sys'.stat[sys'.cur] = "READY"
      /\ \A u \in Thread \ X : sys'.stat[u] = "READY"
                                 => sys'.prio[sys'.cur] <= sys'.prio[u]
  BY DEF Scheduled
<1>2. (KernelOK(sys, X) /\ UnlinkedOK(X) => X \subseteq Unlinked)'
  BY NotOnReadyList, PTL
<1>3. X \subseteq Unlinked' BY <1>2
<1> QED BY <1>1, <1>3 DEF SwitchStep

\* A step that ends with rt_schedule, the scheduler not being locked.
LEMMA StepSwitch ==
  ASSUME NEW X, Good(X), TypeOK', KernelOK(sys', X), arg' = arg,
         Deleting \ back' \subseteq X,
         \A d \in Thread : pc'[d] \in DelPC \/ pc[d] \in DelPC => pc'[d] = pc[d],
         \A d \in X : sys'.stat[d] = sys.stat[d],
         sys'.stat[Idle] = "READY", sys'.nest = 0,
         NEW k, k.nest = 0, Scheduled(k, sys', X)
  PROVE  Good(X)' /\ SwitchStep
<1>1. Deleting' = Deleting /\ DeletersOK(X)' /\ UnlinkedOK(X)' BY SameDeleters
<1>2. SwitchStep /\ sys'.cur \in Thread \ X /\ sys'.stat[sys'.cur] = "READY"
  BY <1>1, SwitchHighest
<1>3. CurOK(X)' BY <1>1, <1>2, KernelAssumption DEF CurOK
<1> QED BY <1>1, <1>2, <1>3 DEF Good

\* A step of the running system that makes threads ready, if it changes their
\* state, and ends with rt_schedule; k is the kernel before that call.
LEMMA StepReady ==
  ASSUME NEW X, Good(X), TypeOK', KernelOK(sys', X), arg' = arg,
         Deleting \ back' \subseteq X,
         \A d \in Thread : pc'[d] \in DelPC \/ pc[d] \in DelPC => pc'[d] = pc[d],
         \A d \in Thread : sys'.stat[d] = sys.stat[d] \/ sys'.stat[d] = "READY",
         \A d \in X : sys'.stat[d] = sys.stat[d],
         sys.cur # NoThread, sys'.nest = sys.nest,
         NEW k, k.nest = sys.nest, k.cur = sys.cur, Scheduled(k, sys', X)
  PROVE  Good(X)' /\ SwitchStep
<1>1. Idle \in Thread BY KernelAssumption
<1>2. sys.stat[Idle] = "READY" BY DEF Good, CurOK
<1>3. sys'.stat[Idle] = "READY" BY <1>1, <1>2
<1>4. CASE sys.nest = 0 BY <1>3, <1>4, StepSwitch
<1>5. CASE sys.nest # 0
  <2>1. sys'.cur = sys.cur BY <1>5 DEF Scheduled
  <2>2. sys.cur \in Thread BY KernelTypes DEF Good, TypeOK
  <2>3. sys.stat[sys.cur] = "READY" BY <1>5 DEF Good, CurOK
  <2>4. sys'.stat[sys.cur] = "READY" BY <2>2, <2>3
  <2> QED BY <1>3, <2>1, <2>4, StepKeep
<1> QED BY <1>4, <1>5

\* What the cases below start from.
LEMMA Facts ==
  ASSUME NEW X, Good(X)
  PROVE  /\ sys \in KernelState /\ KernelOK(sys, X)
         /\ pc \in [Thread -> PC] /\ arg \in [Thread -> Thread] /\ back \in SUBSET Thread
         /\ sys.stat \in [Thread -> Stat] /\ sys.cur \in Thread \cup {NoThread}
         /\ sys.nest \in Nat
         /\ Idle \in Thread /\ Idle \notin X /\ NoThread \notin Thread
         /\ X \subseteq Deleting /\ Deleting \ back \subseteq X
         /\ sys.cur # NoThread => sys.stat[Idle] = "READY" /\ sys.cur \notin X
BY KernelTypes, KernelAssumption, DeletingThreads DEF Good, TypeOK, CurOK, UnlinkedOK

-----------------------------------------------------------------------------
(* System start *)

\* System start keeps the invariant: rt_thread_startup before there is a
\* current thread, and rt_system_scheduler_start once the idle thread is ready.
LEMMA BootStep ==
  ASSUME NEW X, Good(X), Boot, arg' = arg /\ back' = back
  PROVE  Good(X)' /\ SwitchStep
<1>0. /\ sys \in KernelState /\ KernelOK(sys, X)
      /\ pc \in [Thread -> PC] /\ arg \in [Thread -> Thread]
      /\ Idle \in Thread /\ Idle \notin X /\ sys.stat \in [Thread -> Stat]
      /\ X \subseteq Deleting
  BY Facts
<1>1. sys.cur = NoThread /\ sys.nest = 0 /\ Deleting = {} /\ pc' = pc /\ arg' = arg /\ back' = back
  BY DEF Boot, BootStartup, rt_system_scheduler_start, Good, CurOK
<1>2. X = {} /\ Deleting \ back' \subseteq X BY <1>0, <1>1
<1>3. CASE rt_system_scheduler_start
  <2>1. sys' = rt_schedule(sys) /\ sys.stat[Idle] = "READY"
    BY <1>1, <1>3 DEF rt_system_scheduler_start, rt_schedule
  <2>2. sys.group # {} BY <1>0, <2>1, GroupNotEmpty
  <2>3. /\ sys' \in KernelState /\ KernelOK(sys', X)
        /\ sys'.stat = sys.stat /\ sys'.nest = sys.nest
        /\ Scheduled(sys, sys', X)
    BY <1>0, <2>1, <2>2, ScheduleOK
  <2>4. TypeOK' BY <1>1, <2>3, Facts DEF TypeOK
  <2> QED BY <1>1, <1>2, <2>1, <2>3, <2>4, StepSwitch
<1>4. ASSUME NEW t \in Thread, BootStartup(t) PROVE Good(X)' /\ SwitchStep
  <2>1. sys' = rt_thread_startup(sys, t) /\ sys.stat[t] = "INIT" /\ t \notin X
    BY <1>1, <1>2, <1>4 DEF BootStartup
  <2>2. /\ sys' \in KernelState /\ KernelOK(sys', X)
        /\ sys'.nest = sys.nest /\ sys'.cur = sys.cur
    <3>1. /\ sys' \in KernelState /\ KernelOK(sys', X)
          /\ sys'.stat = [sys.stat EXCEPT ![t] = "READY"] /\ sys'.nest = sys.nest
          /\ sys.cur = NoThread => sys'.cur = sys.cur
      BY <1>0, <2>1, StartupOK
    <3> QED BY <1>1, <3>1
  <2>3. TypeOK' BY <1>1, <2>2, Facts DEF TypeOK
  <2> QED BY <1>1, <1>2, <2>2, <2>3, StepKeep
<1> QED BY <1>3, <1>4 DEF Boot

-----------------------------------------------------------------------------
(* Interrupts *)

\* A thread timer that expires in the tick interrupt (rt_thread_timeout) keeps
\* the invariant: it belongs to a suspended thread, and one that is being
\* deleted comes back.
LEMMA TimerStep ==
  ASSUME NEW X, Good(X), NEW t \in Thread, TimerInterrupt(t)
  PROVE  Good(X \ {t})' /\ SwitchStep
<1>0. /\ sys \in KernelState /\ KernelOK(sys, X)
      /\ pc \in [Thread -> PC] /\ arg \in [Thread -> Thread] /\ back \in SUBSET Thread
      /\ sys.stat \in [Thread -> Stat] /\ sys.cur \in Thread \cup {NoThread}
      /\ Idle \in Thread /\ NoThread \notin Thread
      /\ X \subseteq Deleting /\ Deleting \ back \subseteq X
      /\ Deleting \subseteq Thread
  BY Facts, DeletingThreads
<1>1. /\ sys.cur # NoThread /\ t \in sys.timer /\ pc' = pc /\ arg' = arg
      /\ back' = IF t \in Deleting THEN back \cup {t} ELSE back
      /\ sys' = rt_thread_timeout(rt_timer_stop(sys, t), t)
  BY DEF TimerInterrupt, TimerExpires
<1>2. sys.stat[t] = "SUSPEND" BY <1>0, <1>1 DEF KernelOK, TimersOK
<1>3. PICK k : k = rt_timer_stop(sys, t) OBVIOUS
<1>4. /\ k \in KernelState /\ KernelOK(k, X) /\ t \notin k.timer
      /\ k.stat = sys.stat /\ k.cur = sys.cur /\ k.nest = sys.nest
  BY <1>0, <1>3, TimerStopOK
<1>5. /\ sys' \in KernelState /\ KernelOK(sys', X \ {t})
      /\ Scheduled(k, sys', X \ {t})
      /\ sys'.stat = [k.stat EXCEPT ![t] = "READY"] /\ sys'.nest = k.nest
  <2>1. k.stat[t] = "SUSPEND" /\ sys' = rt_thread_timeout(k, t)
    BY <1>1, <1>2, <1>3, <1>4
  <2> QED BY <1>4, <2>1, TimeoutOfAnyOK
<1>6. \A d \in Thread : sys'.stat[d] = IF d = t THEN "READY" ELSE sys.stat[d]
  BY <1>0, <1>4, <1>5
<1>7. TypeOK' BY <1>0, <1>1, <1>5 DEF TypeOK
<1>8. Deleting' = Deleting BY <1>1 DEF Deleting
<1>9. UnlinkedOK(X \ {t})' BY <1>0, <1>1, <1>8 DEF UnlinkedOK
<1>10. DeletersOK(X \ {t})'
  <2>1. DeletersOK(X) BY DEF Good
  <2> QED BY <1>0, <1>1, <1>2, <1>6, <2>1 DEF DeletersOK
<1>11. sys.stat[Idle] = "READY" /\ sys'.stat[Idle] = "READY" /\ sys.cur \in Thread \ X
  BY <1>0, <1>1, <1>6 DEF Good, CurOK
<1>12. CurOK(X \ {t})' /\ SwitchStep
  <2>1. CASE sys.nest = 0
    <3>1. SwitchStep /\ sys'.cur \in Thread \ (X \ {t}) /\ sys'.stat[sys'.cur] = "READY"
      BY <1>4, <1>5, <1>9, <2>1, SwitchHighest
    <3> QED BY <1>0, <1>11, <3>1 DEF CurOK
  <2>2. CASE sys.nest # 0
    <3>1. sys'.cur = sys.cur BY <1>4, <1>5, <2>2 DEF Scheduled
    <3>2. sys.stat[sys.cur] = "READY" BY <1>1, <2>2 DEF Good, CurOK
    <3>3. sys'.stat[sys.cur] = "READY" BY <1>6, <1>11, <3>2
    <3> QED BY <1>0, <1>1, <1>11, <3>1, <3>3 DEF CurOK, SwitchStep
  <2> QED BY <2>1, <2>2
<1> QED BY <1>5, <1>7, <1>9, <1>10, <1>12 DEF Good

\* A time slice that ends in the tick interrupt (rt_thread_yield) keeps it.
LEMMA TickStep ==
  ASSUME NEW X, Good(X), TickYield, arg' = arg /\ back' = back
  PROVE  Good(X)' /\ SwitchStep
<1>0. /\ sys \in KernelState /\ KernelOK(sys, X)
      /\ pc \in [Thread -> PC] /\ arg \in [Thread -> Thread]
      /\ sys.cur \in Thread \cup {NoThread}
  BY Facts
<1>1. sys.cur # NoThread /\ pc' = pc /\ arg' = arg /\ back' = back /\ sys' = rt_thread_yield(sys)
  BY DEF TickYield
<1>2. sys.cur \in Thread BY <1>0, <1>1
<1>3. /\ sys' \in KernelState /\ KernelOK(sys', X)
      /\ sys'.cur = sys.cur \/ Scheduled(sys, sys', X)
      /\ sys'.stat = sys.stat /\ sys'.nest = sys.nest
  BY <1>0, <1>1, <1>2, YieldOK
<1>4. TypeOK' /\ Deleting \ back' \subseteq X BY <1>0, <1>1, <1>3, Facts DEF TypeOK
<1>5. CASE Scheduled(sys, sys', X)
  BY <1>1, <1>3, <1>4, <1>5, StepReady
<1>6. CASE sys'.cur = sys.cur
  <2>1. /\ sys'.stat[Idle] = "READY"
        /\ sys'.stat[sys.cur] = "READY" \/ (pc'[sys.cur] = "sched" /\ sys'.nest = 0)
    BY <1>1, <1>3 DEF Good, CurOK
  <2> QED BY <1>1, <1>3, <1>4, <1>6, <2>1, StepKeep
<1> QED BY <1>3, <1>5, <1>6

\* rt_ipc_list_resume resumes a suspended thread that nobody deletes.
LEMMA ResumeFirst ==
  ASSUME NEW X, Good(X), NEW w \in WaitList, sys.wait[w] # <<>>,
         NEW k, k = rt_ipc_list_resume(sys, w)
  PROVE  /\ k \in KernelState /\ KernelOK(k, X) /\ k.group # {}
         /\ k.cur = sys.cur /\ k.nest = sys.nest
         /\ \A d \in Thread : k.stat[d] = sys.stat[d] \/ k.stat[d] = "READY"
         /\ \A d \in X : k.stat[d] = sys.stat[d]
<1>0. sys \in KernelState /\ KernelOK(sys, X) /\ sys.stat \in [Thread -> Stat]
  BY Facts
<1>1. PICK t : t = Head(sys.wait[w]) OBVIOUS
<1>2. t \in ToSet(sys.wait[w]) /\ t \in Thread
  <2>1. sys.wait[w] \in Seq(Thread) BY <1>0, KernelTypes
  <2> QED BY <1>1, <2>1, EmptyList
<1>3. sys.stat[t] = "SUSPEND" /\ t \notin X
  BY <1>0, <1>2 DEF KernelOK, WaitListsOK, Loose
<1>4. k = rt_thread_resume(sys, t) BY <1>1 DEF rt_ipc_list_resume
<1>5. /\ k \in KernelState /\ KernelOK(k, X) /\ k.group # {}
      /\ k.stat = [sys.stat EXCEPT ![t] = "READY"]
      /\ k.cur = sys.cur /\ k.nest = sys.nest
  BY <1>0, <1>2, <1>3, <1>4, ResumeOK
<1>6. \A d \in Thread : k.stat[d] = IF d = t THEN "READY" ELSE sys.stat[d]
  BY <1>0, <1>5
<1>7. X \subseteq Thread BY DeletingThreads
<1> QED BY <1>3, <1>5, <1>6, <1>7

\* A handler that resumes the first waiter and reschedules keeps it.
LEMMA InterruptWakeStep ==
  ASSUME NEW X, Good(X), NEW w \in WaitList, InterruptWake(w)
  PROVE  Good(X)' /\ SwitchStep
<1>1. /\ sys.cur # NoThread /\ sys.wait[w] # <<>> /\ pc' = pc /\ arg' = arg /\ back' = back
      /\ sys' = rt_schedule(rt_ipc_list_resume(sys, w))
  BY DEF InterruptWake
<1>2. PICK k : k = rt_ipc_list_resume(sys, w) OBVIOUS
<1>3. /\ k \in KernelState /\ KernelOK(k, X) /\ k.group # {}
      /\ k.cur = sys.cur /\ k.nest = sys.nest
      /\ \A d \in Thread : k.stat[d] = sys.stat[d] \/ k.stat[d] = "READY"
      /\ \A d \in X : k.stat[d] = sys.stat[d]
  BY <1>1, <1>2, ResumeFirst
<1>4. /\ sys' \in KernelState /\ KernelOK(sys', X)
      /\ sys'.stat = k.stat /\ sys'.nest = k.nest /\ Scheduled(k, sys', X)
  <2>1. sys' = rt_schedule(k) BY <1>1, <1>2
  <2> QED BY <1>3, <2>1, ScheduleOK
<1>5. TypeOK' /\ Deleting \ back' \subseteq X BY <1>1, <1>4, Facts DEF TypeOK
<1>6. /\ \A d \in Thread : sys'.stat[d] = sys.stat[d] \/ sys'.stat[d] = "READY"
      /\ \A d \in X : sys'.stat[d] = sys.stat[d]
  BY <1>3, <1>4
<1> QED BY <1>1, <1>3, <1>4, <1>5, <1>6, StepReady

-----------------------------------------------------------------------------
(* Calls of the current thread *)

\* A running thread is ready, and nobody deletes it.
LEMMA RunningFacts ==
  ASSUME NEW X, Good(X), NEW c \in Thread, sys.cur = c, pc[c] # "sched"
  PROVE  /\ sys.cur # NoThread /\ sys.stat[c] = "READY" /\ c \notin X
         /\ sys.stat[Idle] = "READY"
BY KernelAssumption DEF Good, CurOK

\* Moving the caller between two places outside rt_thread_delete.
LEMMA GotoOK ==
  ASSUME NEW X, Good(X), NEW c \in Thread, NEW l \in PC \ DelPC, pc[c] \notin DelPC, Goto(c, l)
  PROVE  /\ pc' \in [Thread -> PC] /\ pc'[c] = l
         /\ \A d \in Thread : pc'[d] \in DelPC \/ pc[d] \in DelPC => pc'[d] = pc[d]
<1>1. pc \in [Thread -> PC] BY Facts
<1> QED BY <1>1 DEF Goto

\* The labels used below.
LEMMA Labels ==
  /\ "run" \in PC \ DelPC /\ "sched" \in PC \ DelPC /\ "back" \in PC \ DelPC
  /\ "del1" \in PC /\ "del2" \in PC /\ "del1" \in DelPC /\ "del2" \in DelPC
BY DEF PC, DelPC

\* rt_thread_startup by a running thread keeps it, the switch included.
LEMMA StartupStep ==
  ASSUME NEW X, Good(X), NEW c \in Thread, NEW t \in Thread, Startup(c, t)
  PROVE  Good(X)' /\ SwitchStep
<1>0. sys \in KernelState /\ KernelOK(sys, X) /\ sys.stat \in [Thread -> Stat]
  BY Facts
<1>1. /\ sys.cur = c /\ pc[c] = "run" /\ pc' = pc /\ arg' = arg /\ back' = back
      /\ sys.stat[t] = "INIT" /\ t \notin X
      /\ sys' = rt_thread_startup(sys, t)
  BY DeletingThreads DEF Startup, Running, At
<1>2. sys.cur # NoThread BY <1>1, RunningFacts
<1>3. /\ sys' \in KernelState /\ KernelOK(sys', X)
      /\ Scheduled(sys, sys', X)
      /\ sys'.stat = [sys.stat EXCEPT ![t] = "READY"] /\ sys'.nest = sys.nest
  BY <1>0, <1>1, <1>2, StartupOK
<1>4. \A d \in Thread : sys'.stat[d] = IF d = t THEN "READY" ELSE sys.stat[d]
  BY <1>0, <1>3
<1>5. /\ \A d \in X : sys'.stat[d] = sys.stat[d]
      /\ \A d \in Thread : sys'.stat[d] = sys.stat[d] \/ sys'.stat[d] = "READY"
  BY <1>1, <1>4, DeletingThreads
<1>6. TypeOK' /\ Deleting \ back' \subseteq X BY <1>1, <1>3, Facts DEF TypeOK
<1> QED BY <1>1, <1>2, <1>3, <1>5, <1>6, StepReady

\* A new thread object in freed memory (_rt_thread_init) keeps it.
LEMMA CreateStep ==
  ASSUME NEW X, Good(X), NEW c \in Thread, NEW t \in Thread, Create(c, t)
  PROVE  Good(X)' /\ SwitchStep
<1>0. /\ sys \in KernelState /\ KernelOK(sys, X) /\ sys.stat \in [Thread -> Stat]
  BY Facts
<1>1. /\ sys.cur = c /\ pc[c] = "run" /\ arg' = arg /\ back' = back \ {t} /\ t \in sys.gone
      /\ t \notin Deleting /\ pc[t] \notin DelPC
      /\ sys' = rt_thread_init(sys, t) /\ Goto(t, "run")
  BY DEF Create, Running, At, Goto
<1>2. /\ sys.cur # NoThread /\ sys.stat[c] = "READY" /\ sys.stat[Idle] = "READY"
  BY <1>1, RunningFacts
<1>3. sys.stat[t] = "CLOSE" /\ t \notin X
  BY <1>0, <1>1 DEF KernelOK, DefunctOK, Loose
<1>4. Deleting \ back' \subseteq X BY <1>1, Facts
<1>5. /\ pc' \in [Thread -> PC]
      /\ \A d \in Thread : pc'[d] \in DelPC \/ pc[d] \in DelPC => pc'[d] = pc[d]
  BY <1>1, GotoOK, Labels
<1>6. /\ sys' \in KernelState /\ KernelOK(sys', X)
      /\ sys'.stat = [sys.stat EXCEPT ![t] = "INIT"]
      /\ sys'.nest = sys.nest /\ sys'.cur = sys.cur
  BY <1>0, <1>1, ThreadInitOK
<1>7. \A d \in Thread : sys'.stat[d] = IF d = t THEN "INIT" ELSE sys.stat[d]
  BY <1>0, <1>6
<1>8. /\ \A d \in X : sys'.stat[d] = sys.stat[d]
      /\ \A d \in Thread : sys.stat[d] = "READY" => sys'.stat[d] = "READY"
  BY <1>3, <1>7, DeletingThreads
<1>9. sys'.stat[Idle] = "READY" /\ sys'.stat[sys.cur] = "READY"
  BY <1>0, <1>1, <1>2, <1>8, KernelAssumption
<1>10. TypeOK' BY <1>1, <1>5, <1>6, Facts DEF TypeOK
<1> QED BY <1>1, <1>2, <1>4, <1>5, <1>6, <1>8, <1>9, <1>10, StepKeep

\* The running thread takes itself out of the ready lists, whichever way,
\* and goes to the call of rt_schedule.
LEMMA LeaveStep ==
  ASSUME NEW X, Good(X), NEW c \in Thread, c # Idle, Running(c), sys.nest = 0,
         NEW v \in Stat, Goto(c, "sched"), arg' = arg, back' = back,
         sys' \in KernelState, KernelOK(sys', X),
         sys'.stat = [sys.stat EXCEPT ![c] = v],
         sys'.cur = sys.cur, sys'.nest = sys.nest
  PROVE  Good(X)' /\ SwitchStep
<1>1. sys.cur = c /\ pc[c] = "run" BY DEF Running, At
<1>2. sys.cur # NoThread /\ c \notin X /\ sys.stat[Idle] = "READY"
  BY <1>1, RunningFacts
<1>3. pc[c] \notin DelPC BY <1>1 DEF DelPC
<1>4. /\ pc' \in [Thread -> PC] /\ pc'[c] = "sched"
      /\ \A d \in Thread : pc'[d] \in DelPC \/ pc[d] \in DelPC => pc'[d] = pc[d]
  BY <1>3, GotoOK, Labels
<1>5. \A d \in Thread : d # c => sys'.stat[d] = sys.stat[d] BY Facts
<1>6. (\A d \in X : sys'.stat[d] = sys.stat[d]) /\ sys'.stat[Idle] = "READY"
  BY <1>2, <1>5, DeletingThreads, KernelAssumption
<1>7. TypeOK' /\ Deleting \ back' \subseteq X BY <1>4, Facts DEF TypeOK
<1> QED BY <1>1, <1>2, <1>4, <1>6, <1>7, StepKeep

\* rt_thread_sleep keeps it: the caller is suspended before its timer starts.
LEMMA SleepStep ==
  ASSUME NEW X, Good(X), NEW c \in Thread, c # Idle, rt_thread_sleep(c)
  PROVE  Good(X)' /\ SwitchStep
<1>0. sys \in KernelState /\ KernelOK(sys, X) /\ sys.stat \in [Thread -> Stat]
  BY Facts
<1>1. /\ Running(c) /\ sys.nest = 0 /\ Goto(c, "sched") /\ arg' = arg /\ back' = back
      /\ sys' = rt_timer_start(rt_thread_suspend(sys, c), c)
  BY DEF rt_thread_sleep
<1>2. sys.stat[c] = "READY" /\ c \notin X BY <1>1, RunningFacts DEF Running, At
<1>3. PICK k : k = rt_thread_suspend(sys, c) OBVIOUS
<1>4. /\ k \in KernelState /\ KernelOK(k, X \ {c})
      /\ k.stat = [sys.stat EXCEPT ![c] = "SUSPEND"]
      /\ k.cur = sys.cur /\ k.nest = sys.nest
  BY <1>0, <1>2, <1>3, SuspendOK
<1>5. X \ {c} = X BY <1>2
<1>6. k.stat[c] = "SUSPEND" BY <1>0, <1>4
<1>7. /\ sys' \in KernelState /\ KernelOK(sys', X)
      /\ sys'.stat = k.stat /\ sys'.cur = k.cur /\ sys'.nest = k.nest
  <2>1. KernelOK(k, X) BY <1>4, <1>5
  <2>2. sys' = rt_timer_start(k, c) BY <1>1, <1>3
  <2>3. k \in KernelState BY <1>4
  <2> QED BY <1>2, <1>6, <2>1, <2>2, <2>3, TimerStartOK
<1>8. /\ sys'.stat = [sys.stat EXCEPT ![c] = "SUSPEND"]
      /\ sys'.cur = sys.cur /\ sys'.nest = sys.nest
  BY <1>4, <1>7
<1> QED BY <1>1, <1>7, <1>8, Stats, LeaveStep

\* The blocking half of a wait (rt_ipc_list_suspend and the timer) keeps it.
LEMMA BlockStep ==
  ASSUME NEW X, Good(X), NEW c \in Thread, c # Idle, NEW w \in WaitList, NEW timed \in BOOLEAN,
         Block(c, w, timed)
  PROVE  Good(X)' /\ SwitchStep
<1>0. sys \in KernelState /\ KernelOK(sys, X) /\ sys.stat \in [Thread -> Stat]
  BY Facts
<1>1. PICK s : s = SetError(sys, c, "EOK") OBVIOUS
<1>2. PICK k : k = rt_ipc_list_suspend(s, w, c, "PRIO") OBVIOUS
<1>3. /\ Running(c) /\ sys.nest = 0 /\ Goto(c, "sched") /\ arg' = arg /\ back' = back
      /\ sys' = IF timed THEN rt_timer_start(k, c) ELSE k
  BY <1>1, <1>2 DEF Block
<1>4. sys.stat[c] = "READY" /\ c \notin X BY <1>3, RunningFacts DEF Running, At
<1>5. /\ s \in KernelState /\ KernelOK(s, X)
      /\ s.stat = sys.stat /\ s.cur = sys.cur /\ s.nest = sys.nest
  BY <1>0, <1>1, Errors, ErrorOK
<1>6. /\ k \in KernelState /\ KernelOK(k, X)
      /\ k.stat = [s.stat EXCEPT ![c] = "SUSPEND"]
      /\ k.cur = s.cur /\ k.nest = s.nest
  <2>1. s.stat[c] = "READY" BY <1>4, <1>5
  <2> QED BY <1>2, <1>4, <1>5, <2>1, ListSuspendOK
<1>7. k.stat[c] = "SUSPEND" BY <1>0, <1>5, <1>6
<1>8. /\ sys' \in KernelState /\ KernelOK(sys', X)
      /\ sys'.stat = k.stat /\ sys'.cur = k.cur /\ sys'.nest = k.nest
  <2>1. CASE timed
    <3>1. sys' = rt_timer_start(k, c) BY <1>3, <2>1
    <3>2. k \in KernelState /\ KernelOK(k, X) BY <1>6
    <3> QED BY <1>4, <1>7, <3>1, <3>2, TimerStartOK
  <2>2. CASE ~timed BY <1>3, <1>6, <2>2
  <2> QED BY <2>1, <2>2
<1>9. /\ sys'.stat = [sys.stat EXCEPT ![c] = "SUSPEND"]
      /\ sys'.cur = sys.cur /\ sys'.nest = sys.nest
  BY <1>5, <1>6, <1>8
<1> QED BY <1>3, <1>8, <1>9, Stats, LeaveStep

\* rt_thread_exit keeps it: the caller leaves the lists before it is CLOSE,
\* and goes to the defunct list or, if static, is detached.
LEMMA ExitStep ==
  ASSUME NEW X, Good(X), NEW c \in Thread, c # Idle, rt_thread_exit(c)
  PROVE  Good(X)' /\ SwitchStep
<1>0. sys \in KernelState /\ KernelOK(sys, X) /\ sys.stat \in [Thread -> Stat]
  BY Facts
<1>1. PICK k : k = SetStat(rt_timer_stop(rt_schedule_remove_thread(sys, c), c), c, "CLOSE")
  OBVIOUS
<1>2. /\ Running(c) /\ sys.nest = 0 /\ Goto(c, "sched") /\ arg' = arg /\ back' = back
      /\ sys' = IF c \in Static THEN rt_object_detach(k, c) ELSE MakeDefunct(k, c)
  BY <1>1 DEF rt_thread_exit
<1>3. sys.stat[c] = "READY" /\ c \notin X BY <1>2, RunningFacts DEF Running, At
<1>4. /\ k \in KernelState /\ KernelOK(k, X \ {c}) /\ Detached(k, c)
      /\ k.stat = [sys.stat EXCEPT ![c] = "CLOSE"]
      /\ k.cur = sys.cur /\ k.nest = sys.nest
  BY <1>0, <1>1, <1>3, Stats, TakeOutOK
<1>5. X \ {c} = X BY <1>3
<1>6. k.stat[c] = "CLOSE" /\ c \notin ToSet(k.defunct) BY <1>0, <1>4 DEF Detached, Loose
<1>7. KernelOK(k, X) /\ k \in KernelState BY <1>4, <1>5
<1>8. /\ sys' \in KernelState /\ KernelOK(sys', X)
      /\ sys'.stat = k.stat /\ sys'.cur = k.cur /\ sys'.nest = k.nest
  <2>1. CASE c \in Static
    <3>1. sys' = rt_object_detach(k, c) BY <1>2, <2>1
    <3> QED BY <1>3, <1>6, <1>7, <3>1, DetachOK
  <2>2. CASE c \notin Static
    <3>1. sys' = MakeDefunct(k, c) /\ Detached(k, c) BY <1>2, <1>4, <2>2
    <3>2. /\ sys' \in KernelState /\ KernelOK(sys', X \ {c})
          /\ sys'.stat = k.stat /\ sys'.cur = k.cur /\ sys'.nest = k.nest
      BY <1>6, <1>7, <3>1, MakeDefunctOK
    <3> QED BY <1>5, <3>2
  <2> QED BY <2>1, <2>2
<1>9. /\ sys'.stat = [sys.stat EXCEPT ![c] = "CLOSE"]
      /\ sys'.cur = sys.cur /\ sys'.nest = sys.nest
  BY <1>4, <1>8
<1> QED BY <1>2, <1>8, <1>9, Stats, LeaveStep

\* A call during which the current thread stays ready and keeps the
\* processor, and that no thread but the caller can notice in its own pc.
LEMMA StayStep ==
  ASSUME NEW X, Good(X), NEW c \in Thread, sys.cur = c, pc[c] # "sched",
         TypeOK', KernelOK(sys', X), arg' = arg, back' = back,
         \A d \in Thread : pc'[d] \in DelPC \/ pc[d] \in DelPC => pc'[d] = pc[d],
         \A d \in Thread : sys'.stat[d] = sys.stat[d] \/ sys'.stat[d] = "READY",
         \A d \in X : sys'.stat[d] = sys.stat[d],
         sys'.cur = sys.cur
  PROVE  Good(X)' /\ SwitchStep
<1>1. /\ sys.cur # NoThread /\ sys.stat[c] = "READY" /\ sys.stat[Idle] = "READY"
  BY RunningFacts
<1>2. sys'.stat[Idle] = "READY" /\ sys'.stat[sys.cur] = "READY"
  BY <1>1, KernelAssumption
<1>3. Deleting \ back' \subseteq X BY Facts
<1> QED BY <1>1, <1>2, <1>3, StepKeep

\* The waking half of a wait (rt_ipc_list_resume) keeps it.
LEMMA WakeStep ==
  ASSUME NEW X, Good(X), NEW c \in Thread, NEW w \in WaitList, Wake(c, w)
  PROVE  Good(X)' /\ SwitchStep
<1>1. /\ sys.cur = c /\ pc[c] = "run" /\ sys.wait[w] # <<>> /\ arg' = arg /\ back' = back
      /\ sys' = rt_ipc_list_resume(sys, w) /\ Goto(c, "sched")
  BY DEF Wake, Running, At
<1>2. pc[c] \notin DelPC /\ pc[c] # "sched" BY <1>1 DEF DelPC
<1>3. /\ pc' \in [Thread -> PC]
      /\ \A d \in Thread : pc'[d] \in DelPC \/ pc[d] \in DelPC => pc'[d] = pc[d]
  BY <1>1, <1>2, GotoOK, Labels
<1>4. /\ sys' \in KernelState /\ KernelOK(sys', X)
      /\ sys'.cur = sys.cur
      /\ \A d \in Thread : sys'.stat[d] = sys.stat[d] \/ sys'.stat[d] = "READY"
      /\ \A d \in X : sys'.stat[d] = sys.stat[d]
  BY <1>1, ResumeFirst
<1>5. TypeOK' BY <1>1, <1>3, <1>4, Facts DEF TypeOK
<1> QED BY <1>1, <1>2, <1>3, <1>4, <1>5, StayStep

\* rt_schedule as the last part of a call keeps it, whether or not the caller
\* is still ready.
LEMMA RescheduleStep ==
  ASSUME NEW X, Good(X), NEW c \in Thread, Reschedule(c)
  PROVE  Good(X)' /\ SwitchStep
<1>0. /\ sys \in KernelState /\ KernelOK(sys, X) /\ Idle \notin X
      /\ sys.cur # NoThread => sys.stat[Idle] = "READY"
      /\ NoThread \notin Thread
  BY Facts
<1>1. /\ sys.cur = c /\ pc[c] = "sched" /\ arg' = arg /\ back' = back /\ sys' = rt_schedule(sys)
      /\ Goto(c, IF sys.stat[c] = "CLOSE" THEN "run" ELSE "back")
  BY DEF Reschedule
<1>2. pc[c] \notin DelPC BY <1>1 DEF DelPC
<1>3. PICK l \in PC \ DelPC : Goto(c, l)
  <2>1. CASE sys.stat[c] = "CLOSE" BY <1>1, <2>1, Labels
  <2>2. CASE sys.stat[c] # "CLOSE" BY <1>1, <2>2, Labels
  <2> QED BY <2>1, <2>2
<1>4. /\ pc' \in [Thread -> PC]
      /\ \A d \in Thread : pc'[d] \in DelPC \/ pc[d] \in DelPC => pc'[d] = pc[d]
  BY <1>2, <1>3, GotoOK
<1>5. sys.cur # NoThread BY <1>0, <1>1
<1>6. sys.group # {} BY <1>0, <1>5, GroupNotEmpty
<1>7. /\ sys' \in KernelState /\ KernelOK(sys', X)
      /\ sys'.stat = sys.stat /\ sys'.nest = sys.nest
      /\ Scheduled(sys, sys', X)
  BY <1>0, <1>1, <1>6, ScheduleOK
<1>8. TypeOK' /\ Deleting \ back' \subseteq X BY <1>1, <1>4, <1>7, Facts DEF TypeOK
<1> QED BY <1>1, <1>4, <1>5, <1>7, <1>8, StepReady

\* The return from rt_thread_sleep, which clears the error, keeps it.
LEMMA ReturnStep ==
  ASSUME NEW X, Good(X), NEW c \in Thread, Return(c)
  PROVE  Good(X)' /\ SwitchStep
<1>0. sys \in KernelState /\ KernelOK(sys, X) BY Facts
<1>1. /\ sys.cur = c /\ pc[c] = "back" /\ arg' = arg /\ back' = back /\ Goto(c, "run")
      /\ sys' = IF sys.error[c] = "ETIMEOUT" THEN SetError(sys, c, "EOK") ELSE sys
  BY DEF Return
<1>2. pc[c] \notin DelPC /\ pc[c] # "sched" BY <1>1 DEF DelPC
<1>3. /\ pc' \in [Thread -> PC]
      /\ \A d \in Thread : pc'[d] \in DelPC \/ pc[d] \in DelPC => pc'[d] = pc[d]
  BY <1>1, <1>2, GotoOK, Labels
<1>4. /\ sys' \in KernelState /\ KernelOK(sys', X)
      /\ sys'.stat = sys.stat /\ sys'.cur = sys.cur
  <2>1. CASE sys' = SetError(sys, c, "EOK") BY <1>0, <2>1, Errors, ErrorOK
  <2>2. CASE sys' = sys BY <1>0, <2>2
  <2> QED BY <1>1, <2>1, <2>2
<1>5. TypeOK' BY <1>1, <1>3, <1>4, Facts DEF TypeOK
<1> QED BY <1>1, <1>2, <1>3, <1>4, <1>5, StayStep

\* rt_thread_yield by the current thread keeps it.
LEMMA YieldStep ==
  ASSUME NEW X, Good(X), NEW c \in Thread, Yield(c)
  PROVE  Good(X)' /\ SwitchStep
<1>1. sys.cur = c /\ pc' = pc /\ arg' = arg /\ back' = back /\ sys' = rt_thread_yield(sys)
  BY DEF Yield, Running, At
<1>2. sys.cur # NoThread BY <1>1, KernelAssumption
<1>3. TickYield /\ arg' = arg /\ back' = back BY <1>1, <1>2 DEF TickYield
<1> QED BY <1>3, TickStep

\* RT_THREAD_CTRL_CHANGE_PRIORITY keeps it, for ready threads, which change
\* lists, and for others.
LEMMA PriorityStep ==
  ASSUME NEW X, Good(X), NEW c \in Thread, NEW t \in Thread, NEW p \in NewPriority,
         SetPriority(c, t, p)
  PROVE  Good(X)' /\ SwitchStep
<1>0. sys \in KernelState /\ KernelOK(sys, X) BY Facts
<1>1. /\ sys.cur = c /\ pc[c] # "sched" /\ pc' = pc /\ arg' = arg /\ back' = back
      /\ (t \in Deleting => t = c)
      /\ sys' = ChangePriority(sys, t, p)
  BY DEF SetPriority, Running, At
<1>2. p \in Priority /\ t \notin X
  BY <1>1, ThreadsAssumption, RunningFacts, DeletingThreads
<1>3. /\ sys' \in KernelState /\ KernelOK(sys', X)
      /\ sys'.stat = sys.stat /\ sys'.cur = sys.cur
  BY <1>0, <1>1, <1>2, ChangePriorityOK
<1>4. TypeOK' BY <1>1, <1>3, Facts DEF TypeOK
<1> QED BY <1>1, <1>3, <1>4, StayStep

\* rt_enter_critical and rt_exit_critical keep it: only the outermost exit
\* reschedules.
LEMMA CriticalStep ==
  ASSUME NEW X, Good(X), NEW c \in Thread, EnterCritical(c) \/ ExitCritical(c)
  PROVE  Good(X)' /\ SwitchStep
<1>0. /\ sys \in KernelState /\ KernelOK(sys, X) /\ Idle \notin X
      /\ sys.nest \in Nat
  BY Facts
<1>1. sys.cur = c /\ pc[c] # "sched" /\ pc' = pc /\ arg' = arg /\ back' = back
  BY DEF EnterCritical, ExitCritical, Running, At
<1>2. sys.cur # NoThread /\ sys.stat[Idle] = "READY" BY <1>1, RunningFacts
<1>3. CASE EnterCritical(c)
  <2>1. PICK n \in Nat : n = sys.nest + 1 BY <1>0
  <2>2. sys' = [sys EXCEPT !.nest = n] BY <1>3, <2>1 DEF EnterCritical, rt_enter_critical
  <2>3. /\ sys' \in KernelState /\ sys'.cur = sys.cur
        /\ sys'.stat = sys.stat /\ sys'.prio = sys.prio /\ sys'.timer = sys.timer
        /\ sys'.gone = sys.gone /\ sys'.wait = sys.wait /\ sys'.ready = sys.ready
        /\ sys'.defunct = sys.defunct /\ sys'.group = sys.group
    BY <1>0, <2>1, <2>2 DEF KernelState
  <2>4. KernelOK(sys', X) BY <1>0, <2>3, FrameOK
  <2>5. TypeOK' BY <1>1, <2>3, Facts DEF TypeOK
  <2> QED BY <1>1, <2>3, <2>4, <2>5, StayStep
<1>4. CASE ExitCritical(c)
  <2>1. sys.group # {} BY <1>0, <1>2, GroupNotEmpty
  <2>2. sys' = rt_exit_critical(sys) BY <1>4 DEF ExitCritical
  <2>3. /\ sys' \in KernelState /\ KernelOK(sys', X) /\ sys'.stat = sys.stat
        /\ sys'.cur = sys.cur \/ (sys'.nest = 0 /\ Scheduled(sys', sys', X))
    BY <1>0, <2>1, <2>2, ExitCriticalOK
  <2>4. TypeOK' BY <1>1, <2>3, Facts DEF TypeOK
  <2>5. CASE sys'.cur = sys.cur BY <1>1, <2>3, <2>4, <2>5, StayStep
  <2>6. CASE sys'.nest = 0 /\ Scheduled(sys', sys', X)
    <3>1. PICK k : k = sys' OBVIOUS
    <3>2. k.nest = 0 /\ Scheduled(k, sys', X) BY <2>6, <3>1
    <3>3. /\ sys'.nest = 0 /\ sys'.stat[Idle] = "READY"
          /\ Deleting \ back' \subseteq X
      BY <1>1, <1>2, <2>3, <2>6, Facts
    <3> QED BY <1>1, <2>3, <2>4, <3>2, <3>3, StepSwitch
  <2> QED BY <2>3, <2>5, <2>6
<1> QED BY <1>3, <1>4

-----------------------------------------------------------------------------
(* rt_thread_delete and the idle thread *)

\* The first step of rt_thread_delete and rt_thread_detach, the unlinking,
\* keeps it: the thread joins the unlinked ones, whether or not its timer runs.
LEMMA DeleteUnlinkStep ==
  ASSUME NEW X, Good(X), NEW c \in Thread, NEW t \in Thread, DeleteUnlink(c, t)
  PROVE  Good(X \cup {t})' /\ SwitchStep
<1>0. /\ sys \in KernelState /\ KernelOK(sys, X) /\ sys.stat \in [Thread -> Stat]
      /\ pc \in [Thread -> PC] /\ arg \in [Thread -> Thread] /\ back \in SUBSET Thread
      /\ X \subseteq Deleting /\ Deleting \ back \subseteq X
  BY Facts
<1>1. /\ sys.cur = c /\ pc[c] = "run" /\ t # Idle /\ t # c
      /\ sys.stat[t] # "CLOSE" /\ t \notin Deleting
      /\ sys' = rt_schedule_remove_thread(sys, t)
      /\ pc' = [pc EXCEPT ![c] = "del1"] /\ arg' = [arg EXCEPT ![c] = t] /\ back' = back
  BY DEF DeleteUnlink, Running, At, Goto
<1>2. /\ sys.cur # NoThread /\ sys.stat[c] = "READY" /\ c \notin X
      /\ sys.stat[Idle] = "READY"
  BY <1>1, RunningFacts
<1>3. t \notin sys.gone /\ t \notin ToSet(sys.defunct)
  BY <1>0, <1>1 DEF KernelOK, DefunctOK
<1>4. /\ sys' \in KernelState /\ KernelOK(sys', X \cup {t})
      /\ sys'.stat = sys.stat /\ sys'.cur = sys.cur /\ sys'.nest = sys.nest
  BY <1>0, <1>1, <1>3, RemoveThreadOK
<1>5. /\ \A d \in Thread : d # c => pc'[d] = pc[d] /\ arg'[d] = arg[d]
      /\ pc'[c] = "del1" /\ arg'[c] = t
  BY <1>0, <1>1
<1>6. pc[c] \notin DelPC /\ pc'[c] \in DelPC BY <1>1, <1>5 DEF DelPC
<1>7. Deleting' = Deleting \cup {t} BY <1>5, <1>6 DEF Deleting
<1>8. TypeOK' BY <1>0, <1>1, <1>4, Labels DEF TypeOK
<1>9. UnlinkedOK(X \cup {t})' BY <1>0, <1>1, <1>7 DEF UnlinkedOK
<1>10. DeletersOK(X \cup {t})'
  <2>1. DeletersOK(X) BY DEF Good
  <2>2. \A d \in Thread : pc[d] \in DelPC => arg[d] # t BY <1>1 DEF Deleting
  <2>3. ASSUME NEW e \in Thread, pc'[e] \in DelPC
        PROVE  /\ arg'[e] # Idle
               /\ pc'[e] = "del2" => sys'.stat[arg'[e]] = "CLOSE" /\ arg'[e] \in X \cup {t}
               /\ \A d \in Thread : pc'[d] \in DelPC /\ arg'[d] = arg'[e] => d = e
    <3>1. CASE e = c BY <1>1, <1>5, <2>2, <3>1
    <3>2. CASE e # c
      <4>1. pc[e] \in DelPC /\ pc'[e] = pc[e] /\ arg'[e] = arg[e] BY <1>5, <2>3, <3>2
      <4>2. /\ arg[e] # Idle /\ arg[e] # t
            /\ pc[e] = "del2" => sys.stat[arg[e]] = "CLOSE" /\ arg[e] \in X
            /\ \A d \in Thread : pc[d] \in DelPC /\ arg[d] = arg[e] => d = e
        BY <2>1, <2>2, <4>1 DEF DeletersOK
      <4> QED BY <1>4, <1>5, <4>1, <4>2
    <3> QED BY <3>1, <3>2
  <2> QED BY <2>3 DEF DeletersOK
<1>11. CurOK(X \cup {t})' BY <1>1, <1>2, <1>4 DEF CurOK
<1> QED BY <1>4, <1>8, <1>9, <1>10, <1>11 DEF Good, SwitchStep

\* Their second step, which stops the timer and marks the thread CLOSE.  A
\* thread that came back is on a list, and the lists are torn, or suspended on
\* none, and then it is unlinked again.
LEMMA DeleteCloseStep ==
  ASSUME NEW X, Good(X), ClosedNotScheduled, NEW c \in Thread, DeleteClose(c)
  PROVE  /\ (\E Y : Good(Y)') \/ (TypeOK /\ Torn /\ ClosedNotScheduled)'
         /\ SwitchStep
<1>0. /\ sys \in KernelState /\ KernelOK(sys, X) /\ sys.stat \in [Thread -> Stat]
      /\ pc \in [Thread -> PC] /\ arg \in [Thread -> Thread] /\ back \in SUBSET Thread
      /\ X \subseteq Deleting /\ Deleting \ back \subseteq X
  BY Facts
<1>1. PICK t \in Thread : t = arg[c] BY <1>0
<1>2. /\ sys.cur = c /\ pc[c] = "del1" /\ arg' = arg /\ back' = back
      /\ sys' = SetStat(rt_timer_stop(sys, t), t, "CLOSE")
      /\ pc' = [pc EXCEPT ![c] = "del2"]
  BY <1>1 DEF DeleteClose, Goto
<1>3. pc[c] # "sched" /\ pc[c] \in DelPC BY <1>2 DEF DelPC
<1>4. /\ sys.cur # NoThread /\ sys.stat[c] = "READY" /\ c \notin X
      /\ sys.stat[Idle] = "READY"
  BY <1>2, <1>3, RunningFacts
<1>5. t \in Deleting /\ t # Idle BY <1>1, <1>3, DeletingThreads DEF Deleting
<1>6. PICK k : k = rt_timer_stop(sys, t) OBVIOUS
<1>7. /\ k \in KernelState /\ KernelOK(k, X) /\ t \notin k.timer
      /\ k.stat = sys.stat /\ k.cur = sys.cur /\ k.nest = sys.nest /\ k.gone = sys.gone
      /\ k.wait = sys.wait /\ k.defunct = sys.defunct /\ k.ready = sys.ready
      /\ k.timer = sys.timer \ {t}
  BY <1>0, <1>6, TimerStopOK DEF rt_timer_stop, KernelState
<1>8. /\ sys' \in KernelState
      /\ sys'.stat[t] = "CLOSE" /\ \A u \in Thread \ {t} : sys'.stat[u] = k.stat[u]
      /\ sys'.prio = k.prio /\ sys'.timer = k.timer
      /\ sys'.cur = k.cur /\ sys'.nest = k.nest /\ sys'.gone = k.gone
      /\ sys'.wait = k.wait /\ sys'.defunct = k.defunct /\ sys'.ready = k.ready
      /\ sys'.group = k.group
  <2>1. PICK r : r = SetStat(k, t, "CLOSE") OBVIOUS
  <2>2. k \in KernelState BY <1>7
  <2>3. /\ r \in KernelState /\ r.stat = [k.stat EXCEPT ![t] = "CLOSE"]
        /\ r.stat[t] = "CLOSE" /\ \A u \in Thread \ {t} : r.stat[u] = k.stat[u]
        /\ r.prio = k.prio /\ r.timer = k.timer /\ r.cur = k.cur /\ r.nest = k.nest
        /\ r.gone = k.gone /\ r.wait = k.wait /\ r.defunct = k.defunct
        /\ r.ready = k.ready /\ r.group = k.group
    BY <2>1, <2>2, Stats, StatUpdate
  <2>4. sys' = r BY <1>2, <1>6, <2>1
  <2> QED BY <2>3, <2>4
<1>9. /\ pc'[c] = "del2" /\ \A d \in Thread : d # c => pc'[d] = pc[d]
      /\ pc' \in [Thread -> PC]
  BY <1>0, <1>2, Labels
<1>10. \A d \in Thread : pc'[d] \in DelPC <=> pc[d] \in DelPC
  BY <1>3, <1>9, Labels
<1>11. Deleting' = Deleting BY <1>2, <1>10 DEF Deleting
<1>12. TypeOK' BY <1>0, <1>2, <1>8, <1>9 DEF TypeOK
<1>13. SwitchStep BY <1>7, <1>8 DEF SwitchStep
<1>14. sys'.cur = c /\ sys'.stat[Idle] = "READY" BY <1>2, <1>4, <1>5, <1>7, <1>8, KernelAssumption
<1>15. t # c => sys'.stat[c] = "READY" BY <1>4, <1>7, <1>8
<1>16. ASSUME NEW Y, X \subseteq Y, Y \subseteq Deleting, t \in Y, KernelOK(sys', Y), t # c,
              c \notin Y
       PROVE  Good(Y)'
  <2>1. UnlinkedOK(Y)' BY <1>0, <1>2, <1>11, <1>16 DEF UnlinkedOK
  <2>2. DeletersOK(X) BY DEF Good
  <2>3. ASSUME NEW e \in Thread, pc'[e] \in DelPC
        PROVE  /\ arg'[e] # Idle
               /\ pc'[e] = "del2" => sys'.stat[arg'[e]] = "CLOSE" /\ arg'[e] \in Y
               /\ \A d \in Thread : pc'[d] \in DelPC /\ arg'[d] = arg'[e] => d = e
    <3>1. /\ arg[e] # Idle /\ arg[e] \in Thread
          /\ pc[e] = "del2" => sys.stat[arg[e]] = "CLOSE" /\ arg[e] \in X
          /\ \A d \in Thread : pc[d] \in DelPC /\ arg[d] = arg[e] => d = e
      BY <1>0, <1>10, <2>2, <2>3 DEF DeletersOK
    <3>2. pc'[e] = "del2" => sys'.stat[arg[e]] = "CLOSE" /\ arg[e] \in Y
      BY <1>1, <1>7, <1>8, <1>9, <1>16, <3>1
    <3> QED BY <1>2, <1>10, <3>1, <3>2
  <2>4. DeletersOK(Y)' BY <2>3 DEF DeletersOK
  <2>5. CurOK(Y)' BY <1>4, <1>2, <1>14, <1>15, <1>16 DEF CurOK
  <2> QED BY <1>12, <1>16, <2>1, <2>4, <2>5 DEF Good
<1>17. CASE t \in X
  <2>1. KernelOK(sys', X)
    <3>1. KernelOK(sys', X \ {t}) /\ Detached(sys', t)
      BY <1>7, <1>8, <1>17, SetStatOK
    <3>2. ReadyListsOK(sys', X) BY <1>8, <1>17, <3>1 DEF KernelOK, ReadyListsOK
    <3> QED BY <3>1, <3>2 DEF KernelOK, Detached
  <2>2. Good(X)' BY <1>0, <1>4, <1>16, <1>17, <2>1
  <2> QED BY <1>13, <2>2
<1>18. CASE t \notin X /\ Torn'
  <2>1. t \in back BY <1>0, <1>5, <1>18
  <2>2. ClosedNotScheduled'
    <3>1. \A u \in Thread : (OnReadyList(u)' <=> OnReadyList(u)) /\ (OnWaitList(u)' <=> OnWaitList(u))
      BY <1>7, <1>8 DEF OnReadyList, OnWaitList
    <3>2. ASSUME NEW u \in Thread \ back'
          PROVE  /\ sys'.stat[u] = "CLOSE" =>
                      /\ u \notin sys'.timer /\ ~OnReadyList(u)' /\ ~OnWaitList(u)'
                      /\ sys'.cur = u => pc'[u] = "sched"
                 /\ u \in sys'.gone => sys'.stat[u] = "CLOSE" /\ u \notin ToSet(sys'.defunct)
                 /\ u \in Deleting' => ~OnReadyList(u)' /\ ~OnWaitList(u)' /\ sys'.cur # u
      <4>1. u \in Thread \ back /\ u # t BY <1>2, <2>1
      <4>2. /\ sys.stat[u] = "CLOSE" =>
                 /\ u \notin sys.timer /\ ~OnReadyList(u) /\ ~OnWaitList(u)
            /\ u \in sys.gone => sys.stat[u] = "CLOSE" /\ u \notin ToSet(sys.defunct)
            /\ u \in Deleting => ~OnReadyList(u) /\ ~OnWaitList(u) /\ sys.cur # u
        BY <4>1 DEF ClosedNotScheduled
      <4>3. sys'.stat[u] = sys.stat[u] BY <1>7, <1>8, <4>1
      <4>4. sys.stat[u] = "CLOSE" => sys.cur # u BY <1>2, <1>4
      <4> QED BY <1>7, <1>8, <1>11, <3>1, <4>2, <4>3, <4>4
    <3> QED BY <3>2 DEF ClosedNotScheduled
  <2> QED BY <1>12, <1>13, <1>18, <2>2
<1>19. CASE t \notin X /\ ~Torn'
  <2>1. ~OnReadyList(t)' /\ ~OnWaitList(t)' /\ t \notin ToSet(sys'.defunct) /\ t \notin sys'.gone
    BY <1>1, <1>2, <1>9, <1>19 DEF Torn
  <2>2. /\ ~OnReadyList(t) /\ ~OnWaitList(t) /\ t \notin ToSet(sys.defunct) /\ t \notin sys.gone
    BY <1>7, <1>8, <2>1 DEF OnReadyList, OnWaitList
  <2>3. Loose(k, t) /\ Loose(sys', t)
    BY <1>7, <1>8, <2>1, <2>2 DEF Loose, OnWaitList
  <2>4. t # c
    <3>1. sys.prio[t] \in Priority BY <1>0, KernelTypes
    <3>2. sys.stat[t] # "READY"
      BY <1>0, <1>19, <2>2, <3>1 DEF KernelOK, ReadyListsOK, OnReadyList
    <3> QED BY <1>4, <3>2
  <2>5. KernelOK(k, X \cup {t})
    <3>1. k.prio = sys.prio /\ k.group = sys.group BY <1>0, <1>6 DEF rt_timer_stop, KernelState
    <3>2. ReadyListsOK(k, X \cup {t})
      BY <1>0, <1>7, <2>2, <3>1 DEF KernelOK, ReadyListsOK, OnReadyList
    <3> QED BY <1>7, <2>3, <3>2 DEF KernelOK
  <2>6. KernelOK(sys', X \cup {t})
    <3>1. PICK Y : Y = X \cup {t} OBVIOUS
    <3>2. t \in Y /\ KernelOK(k, Y) BY <2>5, <3>1
    <3>3. KernelOK(sys', Y \ {t}) /\ Detached(sys', t)
      BY <1>7, <1>8, <3>2, SetStatOK
    <3>4. ReadyListsOK(sys', Y) BY <1>8, <3>2, <3>3 DEF KernelOK, ReadyListsOK
    <3>5. KernelOK(sys', Y) BY <3>3, <3>4 DEF KernelOK, Detached
    <3> QED BY <3>1, <3>5
  <2>7. Good(X \cup {t})' BY <1>0, <1>4, <1>5, <1>16, <2>4, <2>6
  <2> QED BY <1>1, <1>13, <2>7
<1> QED BY <1>17, <1>18, <1>19

\* Their last step, into the defunct list or out of the object container,
\* keeps it.
LEMMA DeleteFinishStep ==
  ASSUME NEW X, Good(X), NEW c \in Thread, DeleteFinish(c)
  PROVE  (\E Y : Good(Y)') /\ SwitchStep
<1>0. /\ sys \in KernelState /\ KernelOK(sys, X)
      /\ pc \in [Thread -> PC] /\ arg \in [Thread -> Thread] /\ back \in SUBSET Thread
      /\ X \subseteq Deleting /\ Deleting \ back \subseteq X
  BY Facts
<1>1. PICK t \in Thread : t = arg[c] BY <1>0
<1>2. /\ sys.cur = c /\ pc[c] = "del2" /\ arg' = arg /\ back' = back
      /\ sys' = MakeDefunct(sys, t) \/ sys' = rt_object_detach(sys, t)
      /\ pc' = [pc EXCEPT ![c] = "run"]
  BY <1>1 DEF DeleteFinish, Goto
<1>3. pc[c] # "sched" /\ pc[c] \in DelPC BY <1>2 DEF DelPC
<1>4. /\ sys.cur # NoThread /\ sys.stat[c] = "READY" /\ c \notin X
      /\ sys.stat[Idle] = "READY"
  BY <1>2, <1>3, RunningFacts
<1>5. t \in X /\ sys.stat[t] = "CLOSE"
  BY <1>1, <1>2, <1>3 DEF Good, DeletersOK
<1>6. Detached(sys, t) BY <1>0, <1>5 DEF KernelOK, TimersOK, Detached
<1>7. /\ sys' \in KernelState /\ KernelOK(sys', X \ {t})
      /\ sys'.stat = sys.stat /\ sys'.cur = sys.cur /\ sys'.nest = sys.nest
  <2>1. CASE sys' = MakeDefunct(sys, t)
    BY <1>0, <1>5, <1>6, <2>1, MakeDefunctOK
  <2>2. CASE sys' = rt_object_detach(sys, t)
    <3>1. t \in Thread \ (X \ {t}) /\ t \notin ToSet(sys.defunct)
      BY <1>6 DEF Detached, Loose
    <3>2. KernelOK(sys, X \ {t}) BY <1>0, <1>5, ExemptClosedOK
    <3> QED BY <1>0, <1>5, <2>2, <3>1, <3>2, DetachOK
  <2> QED BY <1>2, <2>1, <2>2
<1>8. /\ pc'[c] = "run" /\ \A d \in Thread : d # c => pc'[d] = pc[d]
      /\ pc' \in [Thread -> PC]
  BY <1>0, <1>2, Labels
<1>9. pc'[c] \notin DelPC BY <1>8, Labels
<1>10. \A d \in Thread : pc[d] \in DelPC /\ arg[d] = t => d = c
  BY <1>1, <1>3 DEF Good, DeletersOK
<1>11. Deleting' = Deleting \ {t}
  BY <1>1, <1>2, <1>8, <1>9, <1>10 DEF Deleting
<1>12. UnlinkedOK(X \ {t})' BY <1>0, <1>2, <1>11 DEF UnlinkedOK
<1>13. DeletersOK(X \ {t})'
  <2>1. \A d \in Thread : pc'[d] \in DelPC => pc[d] \in DelPC /\ pc'[d] = pc[d] /\ arg[d] # t
    BY <1>8, <1>9, <1>10
  <2>2. DeletersOK(X) BY DEF Good
  <2> QED BY <1>2, <1>7, <2>1, <2>2 DEF DeletersOK
<1>14. CurOK(X \ {t})' BY <1>2, <1>4, <1>7 DEF CurOK
<1>15. TypeOK' BY <1>0, <1>2, <1>7, <1>8 DEF TypeOK
<1>16. Good(X \ {t})' BY <1>7, <1>12, <1>13, <1>14, <1>15 DEF Good
<1>17. SwitchStep BY <1>7 DEF SwitchStep
<1> QED BY <1>16, <1>17

\* The clean-up of a defunct thread by the idle thread keeps it.
LEMMA ReapStep ==
  ASSUME NEW X, Good(X), Reap
  PROVE  Good(X)' /\ SwitchStep
<1>0. sys \in KernelState /\ KernelOK(sys, X) /\ Idle \in Thread BY Facts
<1>1. PICK t : t = Head(sys.defunct) OBVIOUS
<1>2. /\ sys.cur = Idle /\ pc[Idle] # "sched" /\ pc' = pc /\ arg' = arg /\ back' = back
      /\ sys.defunct # <<>>
      /\ sys' = rt_object_detach(rt_list_remove(sys, t), t)
  BY <1>1 DEF Reap, Running, At
<1>3. t \in ToSet(sys.defunct) /\ t \in Thread
  <2>1. sys.defunct \in Seq(Thread) BY <1>0, KernelTypes
  <2> QED BY <1>1, <1>2, <2>1, EmptyList
<1>4. sys.stat[t] = "CLOSE" /\ t \notin X
  BY <1>0, <1>3 DEF KernelOK, DefunctOK, Loose
<1>5. PICK k : k = rt_list_remove(sys, t) OBVIOUS
<1>6. /\ k \in KernelState /\ KernelOK(k, X) /\ t \notin ToSet(k.defunct)
      /\ k.stat = sys.stat /\ k.cur = sys.cur
  BY <1>0, <1>3, <1>4, <1>5, UnlinkClosedOK
<1>7. /\ sys' \in KernelState /\ KernelOK(sys', X)
      /\ sys'.stat = k.stat /\ sys'.cur = k.cur
  <2>1. k.stat[t] = "CLOSE" /\ sys' = rt_object_detach(k, t) BY <1>2, <1>4, <1>5, <1>6
  <2> QED BY <1>3, <1>4, <1>6, <2>1, DetachOK
<1>8. TypeOK' BY <1>2, <1>7, Facts DEF TypeOK
<1> QED BY <1>0, <1>2, <1>6, <1>7, <1>8, StayStep

-----------------------------------------------------------------------------
(* The theorems *)

\* A closed thread is out of the scheduler whenever the lists are sound.
LEMMA GoodCloses == ASSUME NEW X, Good(X) PROVE ClosedNotScheduled
<1>0. /\ sys \in KernelState /\ KernelOK(sys, X) /\ Deleting \ back \subseteq X
      /\ NoThread \notin Thread /\ DeletersOK(X) /\ CurOK(X)
      /\ sys.cur # NoThread => sys.cur \notin X
  BY Facts DEF Good
<1>1. ASSUME NEW t \in Thread \ back
      PROVE  /\ sys.stat[t] = "CLOSE" =>
                  /\ t \notin sys.timer /\ ~OnReadyList(t) /\ ~OnWaitList(t)
                  /\ sys.cur = t => pc[t] = "sched"
             /\ t \in sys.gone => sys.stat[t] = "CLOSE" /\ t \notin ToSet(sys.defunct)
             /\ t \in Deleting => ~OnReadyList(t) /\ ~OnWaitList(t) /\ sys.cur # t
  <2>1. CASE sys.stat[t] = "CLOSE"
    <3>1. t \notin sys.timer BY <1>0, <2>1 DEF KernelOK, TimersOK
    <3>2. ~OnReadyList(t) BY <1>0, <2>1 DEF KernelOK, ReadyListsOK, OnReadyList
    <3>3. ~OnWaitList(t) BY <1>0, <2>1 DEF KernelOK, WaitListsOK, OnWaitList
    <3>4. sys.cur = t => pc[t] = "sched" BY <1>0, <2>1 DEF CurOK
    <3>5. t \in sys.gone => t \notin ToSet(sys.defunct) BY <1>0 DEF KernelOK, DefunctOK
    <3>6. t \in Deleting => sys.cur # t BY <1>0
    <3> QED BY <2>1, <3>1, <3>2, <3>3, <3>4, <3>5, <3>6
  <2>2. CASE sys.stat[t] # "CLOSE"
    <3>1. t \notin sys.gone BY <1>0, <2>2 DEF KernelOK, DefunctOK
    <3>2. t \in Deleting => t \in X BY <1>0
    <3>3. t \in X => ~OnReadyList(t) BY <1>0 DEF KernelOK, ReadyListsOK, OnReadyList
    <3>4. t \in X => ~OnWaitList(t) BY <1>0 DEF KernelOK, Loose, OnWaitList
    <3>5. t \in X => sys.cur # t BY <1>0
    <3> QED BY <2>2, <3>1, <3>2, <3>3, <3>4, <3>5
  <2> QED BY <2>1, <2>2
<1> QED BY <1>1 DEF ClosedNotScheduled

\* One set of unlinked threads is enough.
LEMMA GoodIsIInv == ASSUME NEW X, Good(X) PROVE IInv
<1>1. X \in SUBSET Thread BY DeletingThreads
<1> QED BY <1>1, GoodCloses DEF IInv, Good

\* The invariant holds before the first thread is started.
LEMMA InitOK == Init => IInv
<1> SUFFICES ASSUME Init PROVE Good({}) BY GoodIsIInv
<1>1. \A t \in Thread : pc[t] = "run" BY DEF Init
<1>2. Deleting = {} BY <1>1 DEF Deleting, DelPC
<1>3. \A s : s = <<>> => NoDup(s) /\ ToSet(s) = {}
  <2>1. <<>> \in Seq(Thread) /\ Len(<<>>) = 0 OBVIOUS
  <2>2. ToSet(<<>>) = {} BY <2>1, EmptyList
  <2>3. DOMAIN <<>> = {} OBVIOUS
  <2>4. NoDup(<<>>) BY <2>3, Zenon DEF NoDup
  <2> QED BY <2>2, <2>4
<1>4. InitPriority \in [Thread -> Priority] BY KernelAssumption DEF Priority
<1>5. sys \in KernelState
  BY <1>4, Stats, Errors DEF Init, KernelInit, KernelState
<1>6. /\ sys.stat = [t \in Thread |-> "INIT"] /\ sys.timer = {} /\ sys.gone = {}
      /\ sys.ready = [p \in Priority |-> <<>>] /\ sys.group = {}
      /\ sys.wait = [w \in WaitList |-> <<>>] /\ sys.defunct = <<>>
      /\ sys.cur = NoThread /\ sys.nest = 0
  BY DEF Init, KernelInit
<1>7. TypeOK BY <1>5, Labels DEF Init, TypeOK
<1>8. KernelOK(sys, {})
  BY <1>3, <1>6 DEF KernelOK, ReadyListsOK, WaitListsOK, TimersOK, DefunctOK
<1>9. DeletersOK({}) BY <1>1 DEF DeletersOK, DelPC
<1>10. CurOK({}) BY <1>2, <1>6 DEF CurOK
<1>11. UnlinkedOK({}) BY <1>2 DEF UnlinkedOK
<1> QED BY <1>7, <1>8, <1>9, <1>10, <1>11 DEF Good

\* The conclusion about a step.
StepOK == IInv' /\ SwitchStep

LEMMA GoodStep ==
  ASSUME NEW X, Good(X)', SwitchStep
  PROVE  StepOK
<1>1. (Good(X) => IInv)' BY GoodIsIInv, PTL
<1> QED BY <1>1 DEF StepOK

\* Every step keeps the invariant, and every step that switches threads goes
\* to a ready thread of the highest priority.
LEMMA NextOK ==
  ASSUME IInv, [Next]_vars
  PROVE  IInv' /\ [SwitchStep]_vars
<1>1. CASE ~Torn /\ ~UNCHANGED vars
  <2>1. PICK X \in SUBSET Thread : Good(X) BY <1>1 DEF IInv
  <2>2. Boot /\ UNCHANGED <<arg, back>> => StepOK BY <2>1, BootStep, GoodStep
  <2>3. Reap => StepOK BY <2>1, ReapStep, GoodStep
  <2>4. Interrupt => StepOK
    BY <2>1, TickStep, TimerStep, InterruptWakeStep, GoodStep DEF Interrupt
  <2>5. ASSUME NEW c \in Thread \ {Idle}, Call(c) PROVE StepOK
    <3>1. CASE rt_thread_sleep(c) BY <2>1, <3>1, SleepStep, GoodStep
    <3>2. CASE Reschedule(c) BY <2>1, <3>2, RescheduleStep, GoodStep
    <3>3. CASE Return(c) BY <2>1, <3>3, ReturnStep, GoodStep
    <3>4. CASE Yield(c) BY <2>1, <3>4, YieldStep, GoodStep
    <3>5. CASE EnterCritical(c) \/ ExitCritical(c) BY <2>1, <3>5, CriticalStep, GoodStep
    <3>6. CASE rt_thread_exit(c) BY <2>1, <3>6, ExitStep, GoodStep
    <3>7. CASE DeleteClose(c)
      <4>1. ClosedNotScheduled BY DEF IInv
      <4>2. /\ (\E Y : Good(Y)') \/ (TypeOK /\ Torn /\ ClosedNotScheduled)'
            /\ SwitchStep
        BY <2>1, <3>7, <4>1, DeleteCloseStep
      <4>3. (TypeOK /\ Torn /\ ClosedNotScheduled)' => IInv' BY DEF IInv
      <4> QED BY <4>2, <4>3, GoodStep DEF StepOK
    <3>8. CASE DeleteFinish(c) BY <2>1, <3>8, DeleteFinishStep, GoodStep
    <3>9. ASSUME NEW t \in Thread, Startup(c, t) \/ Create(c, t) \/ DeleteUnlink(c, t)
          PROVE  StepOK
      BY <2>1, <3>9, StartupStep, CreateStep, DeleteUnlinkStep, GoodStep
    <3>10. ASSUME NEW t \in Thread, NEW p \in NewPriority, SetPriority(c, t, p) PROVE StepOK
      BY <2>1, <3>10, PriorityStep, GoodStep
    <3>11. ASSUME NEW w \in WaitList, Wake(c, w) PROVE StepOK
      BY <2>1, <3>11, WakeStep, GoodStep
    <3>12. ASSUME NEW w \in WaitList, NEW timed \in BOOLEAN, Block(c, w, timed) PROVE StepOK
      BY <2>1, <3>12, BlockStep, GoodStep
    <3> QED BY <2>5, <3>1, <3>2, <3>3, <3>4, <3>5, <3>6, <3>7, <3>8, <3>9, <3>10,
               <3>11, <3>12 DEF Call
  <2> QED BY <1>1, <2>2, <2>3, <2>4, <2>5 DEF Next, StepOK
<1>2. CASE UNCHANGED vars
  <2>1. sys' = sys /\ pc' = pc /\ arg' = arg /\ back' = back BY <1>2 DEF vars
  <2>2. /\ Deleting' = Deleting /\ TypeOK' = TypeOK /\ Torn' = Torn
        /\ ClosedNotScheduled' = ClosedNotScheduled
    BY <2>1 DEF Deleting, TypeOK, Torn, OnReadyList, OnWaitList, ClosedNotScheduled
  <2>3. ASSUME NEW X, Good(X) PROVE Good(X)'
    BY <2>1, <2>2, <2>3 DEF Good, DeletersOK, CurOK, UnlinkedOK
  <2>4. IInv' BY <2>2, <2>3 DEF IInv
  <2> QED BY <1>2, <2>4
<1>3. CASE Torn /\ ~UNCHANGED vars BY <1>3 DEF Next
<1> QED BY <1>1, <1>2, <1>3

\* The inductive invariant gives the safety properties of Threads.
LEMMA IInvImplies == IInv => TypeOK /\ ReadyQueueOK /\ SuspendedOK /\ ClosedNotScheduled
<1> SUFFICES ASSUME IInv PROVE ReadyQueueOK /\ SuspendedOK BY DEF IInv
<1>1. CASE Torn BY <1>1 DEF IInv, ReadyQueueOK, SuspendedOK
<1>2. CASE ~Torn
  <2>1. PICK X \in SUBSET Thread : Good(X) BY <1>2 DEF IInv
  <2>2. TypeOK /\ KernelOK(sys, X) /\ UnlinkedOK(X) BY <2>1 DEF Good
  <2>3. SuspendedOK BY <2>2 DEF SuspendedOK, KernelOK
  <2>4. ReadyListsOK(sys, Unlinked)
    <3>1. X \subseteq Unlinked BY <2>2, NotOnReadyList
    <3>2. ASSUME NEW t \in Unlinked \ X PROVE sys.stat[t] # "READY"
      <4>1. t \in Thread /\ ~OnReadyList(t) BY <2>1, DeletingThreads DEF Unlinked
      <4>2. sys.prio[t] \in Priority BY <2>2, <4>1, KernelTypes DEF TypeOK
      <4> QED BY <2>2, <4>1, <4>2 DEF KernelOK, ReadyListsOK, OnReadyList
    <3>3. ReadyListsOK(sys, X) BY <2>2 DEF KernelOK
    <3>4. \A t \in Unlinked, p \in Priority : t \notin ToSet(sys.ready[p])
      BY DEF Unlinked, OnReadyList
    <3> QED BY <3>1, <3>2, <3>3, <3>4 DEF ReadyListsOK
  <2> QED BY <2>3, <2>4 DEF ReadyQueueOK
<1> QED BY <1>1, <1>2

\* For every number of threads and priorities, and whatever thread is deleted
\* at whatever moment: the ready lists, the bitmap, the waiting lists, the
\* timers and the thread states agree whenever interrupts are enabled, up to
\* the step that tears the lists.
THEOREM ThreadsSafe ==
  Spec => [](TypeOK /\ ReadyQueueOK /\ SuspendedOK /\ ClosedNotScheduled)
<1>1. Init => IInv BY InitOK
<1>2. IInv /\ [Next]_vars => IInv' BY NextOK
<1>3. IInv => TypeOK /\ ReadyQueueOK /\ SuspendedOK /\ ClosedNotScheduled BY IInvImplies
<1> QED BY <1>1, <1>2, <1>3, PTL DEF Spec

\* For every number of threads and priorities: a thread waits on at most one
\* object and only while SUSPEND, and only a SUSPEND thread has a running
\* timer, so the assertion of rt_thread_timeout never fails.
THEOREM WaitersSuspended == Spec => []SuspendedOK
<1>1. Spec => [](TypeOK /\ ReadyQueueOK /\ SuspendedOK /\ ClosedNotScheduled)
  BY ThreadsSafe
<1> QED BY <1>1, PTL

\* For every number of threads and priorities, and deletions that interleave
\* with anything: a thread that exited or was deleted is on no list and has no
\* timer, and runs at most the rest of rt_thread_exit, and a thread under
\* deletion is not scheduled, unless its timer expired between the first two
\* steps of rt_thread_delete.
THEOREM ClosedStaysOut == Spec => []ClosedNotScheduled
<1>1. Spec => [](TypeOK /\ ReadyQueueOK /\ SuspendedOK /\ ClosedNotScheduled)
  BY ThreadsSafe
<1> QED BY <1>1, PTL

\* For every number of threads and priorities: each context switch is to a
\* ready thread of the highest ready priority, outside critical sections.
THEOREM SwitchesToHighest == Spec => SwitchToHighest
<1>1. Init => IInv BY InitOK
<1>2. IInv /\ [Next]_vars => IInv' /\ [SwitchStep]_vars BY NextOK
<1> QED BY <1>1, <1>2, PTL DEF Spec, SwitchToHighest
=============================================================================
