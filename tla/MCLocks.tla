------------------------------ MODULE MCLocks ------------------------------
(* The threads of one system use a semaphore or mutexes: Semaphore and Mutex *)
(* side by side, for TLC and for the proofs.                                 *)
EXTENDS Semaphore, Mutex

CONSTANTS t1, t2, t3, idle

VARIABLE object   \* what the threads of this run use

\* Three threads of three priorities.
ThreePriority == (t1 :> 0) @@ (t2 :> 1) @@ (t3 :> 2) @@ (idle :> 3)

semaphore == <<value, time, live, stray>>
mutexes   == <<mutex, mine, want>>
lvars     == <<sys, pc, object, semaphore, mutexes>>

LInit == object \in {"sem", "mutex"} /\ Init /\ MutexInit

UseSemaphore == object = "sem" /\ Next /\ UNCHANGED <<object, mutexes>>
UseMutexes   == object = "mutex" /\ MutexNext /\ UNCHANGED <<object, semaphore>>

LNext == UseSemaphore \/ UseMutexes

\* The fairness of Semaphore's FairSpec; what is checked of the mutexes needs
\* none.
LSpec ==
  /\ LInit /\ [][LNext]_lvars
  /\ WF_lvars(object = "sem" /\ Clock /\ UNCHANGED <<object, mutexes>>)
  /\ \A c \in Thread :
       WF_lvars(object = "sem" /\ Continue(c) /\ UNCHANGED <<object, mutexes>>)

\* A thread never waits at a semaphore that has a permit, or that was detached:
\* rt_sem_take, rt_sem_release, rt_sem_control, time-outs and handlers never
\* separate a permit from the thread that waits for it.
PermitNotWithheld ==
  /\ object = "sem" => TypeOK /\ NoWaitWithPermit
  /\ object = "mutex" => MutexTypeOK
=============================================================================
