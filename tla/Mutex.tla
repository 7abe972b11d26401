------------------------------- MODULE Mutex -------------------------------
(***************************************************************************)
(* The recursive mutexes of src/src/ipc.c, with priority inheritance.      *)
(* Places in a call:                                                       *)
(*   lock    blocked in rt_mutex_take, rt_schedule() is next               *)
(*   locked  rt_schedule() returned in rt_mutex_take, thread->error next   *)
(*   unlock  rt_mutex_release has handed the mutex over, rt_schedule() next*)
(*   sleep   in rt_thread_sleep, rt_schedule() is next                     *)
(***************************************************************************)
EXTENDS Processor

CONSTANTS
  Mutexes,    \* the mutexes; each has a waiting list of its name
  MutexFlag,  \* RT_IPC_FLAG_FIFO or RT_IPC_FLAG_PRIO
  LockTime,   \* kinds of timeout the threads use
  MaxHold,    \* bound: nobody takes a mutex it holds this many times
  Sleepers    \* threads that also sleep

ASSUME MutexAssumption ==
  /\ Mutexes \subseteq WaitList /\ Mutexes # {}
  /\ MutexFlag \in {"FIFO", "PRIO"} /\ MaxHold \in 1 .. 255
  /\ LockTime \subseteq {"none", "timed", "forever"} /\ Sleepers \subseteq Thread

VARIABLES
  mutex,  \* value, owner, original_priority and hold of each mutex
  mine,   \* how often each thread took each mutex and did not release it
  want    \* the mutex of each thread's last rt_mutex_take
mutexVars == <<sys, pc, mutex, mine, want>>

NoPriority == 255   \* the original_priority 0xff of a free mutex
Free == [value |-> 1, owner |-> NoThread, orig |-> NoPriority, hold |-> 0]

MutexTypeOK ==
  /\ sys \in KernelState
  /\ pc \in [Thread -> {"run", "lock", "locked", "unlock", "sleep"}]
  /\ mutex \in [Mutexes -> [value : {0, 1}, owner : Thread \cup {NoThread},
                             orig : Priority \cup {NoPriority}, hold : 0 .. MaxHold]]
  /\ mine \in [Thread -> [Mutexes -> 0 .. MaxHold]]
  /\ want \in [Thread -> Mutexes]

MutexInit ==
  /\ sys = KernelInit /\ pc = [t \in Thread |-> "run"]
  /\ mutex = [m \in Mutexes |-> Free]
  /\ mine = [t \in Thread |-> [m \in Mutexes |-> 0]]
  /\ want \in [Thread -> {CHOOSE m \in Mutexes : TRUE}]

-----------------------------------------------------------------------------
\* t becomes the owner; its present priority is the one to go back to.
TakenBy(m, t) == [value |-> mutex[m].value, owner |-> t, orig |-> sys.prio[t],
                  hold |-> (mutex[m].hold + 1) % 256]

Take(c, m) ==
  /\ \/ /\ mutex[m].owner = c /\ mine[c][m] < MaxHold
        /\ mutex' = [mutex EXCEPT ![m].hold = (@ + 1) % 256]
     \/ /\ mutex[m].owner # c /\ mutex[m].value > 0
        /\ mutex' = [mutex EXCEPT ![m] = [TakenBy(m, c) EXCEPT !.value = @ - 1]]
  /\ sys' = SetError(sys, c, "EOK")
  /\ mine' = [mine EXCEPT ![c][m] = @ + 1]
  /\ UNCHANGED <<pc, want>>

Busy(c, m) == mutex[m].owner # c /\ mutex[m].value = 0

TryTake(c, m) ==
  /\ Busy(c, m)
  /\ sys' = SetError(sys, c, "ETIMEOUT")
  /\ UNCHANGED <<pc, mutex, mine, want>>

\* Fault: the owner keeps its own priority.
NoInherit(k, o, c) == k

\* The owner o runs at least at the priority of c, which has to wait for it.
Inherit(k, o, c) ==
  IF k.prio[c] < k.prio[o] THEN ChangePriority(k, o, k.prio[c]) ELSE k

TakeWait(c, m, tm) ==
  /\ Busy(c, m)
  /\ sys' = WaitOn(Inherit(SetError(sys, c, "EOK"), mutex[m].owner, c), m, c, MutexFlag, tm)
  /\ want' = [want EXCEPT ![c] = m]
  /\ Goto(c, "lock")
  /\ UNCHANGED <<mutex, mine>>

rt_mutex_take(c, m, tm) ==
  /\ Running(c)
  /\ Take(c, m) \/ (tm = "none" /\ TryTake(c, m)) \/ (tm # "none" /\ TakeWait(c, m, tm))

\* Fault: the error of the wait is ignored.
LockReturnUnchecked(c) ==
  /\ At(c, "locked")
  /\ mine' = [mine EXCEPT ![c][want[c]] = @ + 1]
  /\ Goto(c, "run")
  /\ UNCHANGED <<sys, mutex, want>>

LockReturn(c) ==
  /\ At(c, "locked")
  /\ mine' = IF sys.error[c] = "EOK" THEN [mine EXCEPT ![c][want[c]] = @ + 1] ELSE mine
  /\ Goto(c, "run")
  /\ UNCHANGED <<sys, mutex, want>>

ReleaseByOther(c, m) ==
  /\ mutex[m].owner # c
  /\ sys' = SetError(sys, c, "ERROR")
  /\ UNCHANGED <<pc, mutex, mine, want>>

ReleaseInner(c, m) ==
  /\ mutex[m].owner = c /\ (mutex[m].hold - 1) % 256 # 0
  /\ mutex' = [mutex EXCEPT ![m].hold = (@ - 1) % 256]
  /\ mine' = [mine EXCEPT ![c][m] = @ - 1]
  /\ UNCHANGED <<sys, pc, want>>

\* Fault: the priority is not given back.
NoRestore(c, m) == sys

Restored(c, m) ==
  IF mutex[m].orig # sys.prio[c] THEN ChangePriority(sys, c, mutex[m].orig) ELSE sys

\* The last release: the first waiter, if any, is the new owner at once.
ReleaseOuter(c, m) ==
  /\ mutex[m].owner = c /\ (mutex[m].hold - 1) % 256 = 0
  /\ mine' = [mine EXCEPT ![c][m] = @ - 1]
  /\ \/ /\ sys.wait[m] # <<>>
        /\ mutex' = [mutex EXCEPT ![m] = [TakenBy(m, Head(sys.wait[m])) EXCEPT !.hold = 1]]
        /\ sys' = rt_ipc_list_resume(Restored(c, m), m)
        /\ Goto(c, "unlock")
     \/ /\ sys.wait[m] = <<>>
        /\ mutex' = [mutex EXCEPT ![m] = [Free EXCEPT !.value = mutex[m].value + 1]]
        /\ sys' = Restored(c, m)
        /\ UNCHANGED pc
  /\ UNCHANGED want

rt_mutex_release(c, m) ==
  Running(c) /\ (ReleaseByOther(c, m) \/ ReleaseInner(c, m) \/ ReleaseOuter(c, m))

rt_thread_sleep(c) ==
  /\ Running(c) /\ c \in Sleepers
  /\ sys' = rt_timer_start(rt_thread_suspend(sys, c), c)
  /\ Goto(c, "sleep")
  /\ UNCHANGED <<mutex, mine, want>>

MutexSchedule(c) ==
  /\ Schedule(c, "lock", "locked") \/ Schedule(c, "unlock", "run") \/ Schedule(c, "sleep", "run")
  /\ UNCHANGED <<mutex, mine, want>>

MutexCall(c) ==
  \/ \E m \in Mutexes, tm \in LockTime : rt_mutex_take(c, m, tm)
  \/ \E m \in Mutexes : rt_mutex_release(c, m)
  \/ LockReturn(c) \/ rt_thread_sleep(c) \/ MutexSchedule(c)

MutexNext ==
  \/ (Boot \/ Tick) /\ UNCHANGED <<mutex, mine, want>>
  \/ \E c \in Thread \ {Idle} : MutexCall(c)

MutexSpec == MutexInit /\ [][MutexNext]_mutexVars

-----------------------------------------------------------------------------
(* Properties *)

\* The waiter rt_mutex_release made owner and that has not returned yet.
HandedTo(m) == {t \in Thread : /\ pc[t] \in {"lock", "locked"} /\ want[t] = m
                              /\ sys.stat[t] = "READY" /\ sys.error[t] = "EOK"}

\* Mutual exclusion: what a thread believes to hold agrees with the mutex.
\* Only the owner holds it, as often as it took it, a hand-over under way
\* counts for the new owner, and a waiter that timed out just before or after
\* a release never believes to hold it.
HeldByOne ==
  \A m \in Mutexes :
    /\ mutex[m].value = 0 <=> mutex[m].owner # NoThread
    /\ \A t \in Thread : mine[t][m] > 0 \/ t \in HandedTo(m) => mutex[m].owner = t
    /\ mutex[m].owner # NoThread =>
         mutex[m].hold = mine[mutex[m].owner][m] + Cardinality(HandedTo(m))

\* Priority inheritance: no waiter has a higher priority than the owner it
\* waits for, through timeouts of waiters and hand-overs included.
OwnerInherits ==
  \A m \in Mutexes : \A t \in ToSet(sys.wait[m]) :
    mutex[m].owner # NoThread /\ sys.prio[mutex[m].owner] <= sys.prio[t]

\* Inherited priority ends with ownership ("change the owner thread to
\* original priority", src/src/ipc.c): a thread that owns no mutex runs at the
\* priority it was created with.
RestoresPriority ==
  \A t \in Thread :
    (\A m \in Mutexes : mutex[m].owner # t) => sys.prio[t] = InitPriority[t]
=============================================================================
