---------------------------- MODULE KernelProofs ----------------------------
(***************************************************************************)
(* Lemmas about the operators of Kernel and Processor, for every set of    *)
(* threads and every number of priorities.  First, what each kernel        *)
(* function does to the consistency of the kernel's lists; then the effect *)
(* of the functions that the calls of ipc.c, the drivers and the tick are  *)
(* made of: which thread is on which waiting list, has a running timer, is *)
(* READY, and with which result, afterwards.  Each effect is an operator   *)
(* from the record before to the record after, for the proofs to cite as   *)
(* one fact.                                                               *)
(***************************************************************************)
EXTENDS Processor, ListProofs

(* The scheduler's functions *)

\* Every list of a kernel state is a sequence of threads.
LEMMA KernelTypes ==
  ASSUME NEW k \in KernelState
  PROVE  /\ k.stat \in [Thread -> Stat] /\ k.prio \in [Thread -> Priority]
         /\ k.error \in [Thread -> Error] /\ k.timer \in SUBSET Thread
         /\ k.ready \in [Priority -> Seq(Thread)] /\ k.group \in SUBSET Priority
         /\ k.wait \in [WaitList -> Seq(Thread)] /\ k.defunct \in Seq(Thread)
         /\ k.cur \in Thread \cup {NoThread} /\ k.nest \in Nat
         /\ k.gone \in SUBSET Thread
BY DEF KernelState

\* The elements of every list are threads.
LEMMA ListMembers ==
  ASSUME NEW k \in KernelState
  PROVE  /\ \A p \in Priority : ToSet(k.ready[p]) \subseteq Thread
         /\ \A w \in WaitList : ToSet(k.wait[w]) \subseteq Thread
         /\ ToSet(k.defunct) \subseteq Thread
<1>1. /\ \A p \in Priority : k.ready[p] \in Seq(Thread)
      /\ \A w \in WaitList : k.wait[w] \in Seq(Thread)
      /\ k.defunct \in Seq(Thread)
  BY KernelTypes
<1>2. \A s \in Seq(Thread) : ToSet(s) \subseteq Thread BY EmptyList
<1> QED BY <1>1, <1>2

\* The states a thread can take.
LEMMA Stats == /\ "INIT" \in Stat /\ "READY" \in Stat
               /\ "SUSPEND" \in Stat /\ "CLOSE" \in Stat
BY DEF Stat

\* r is k without t in any list.
RemovedFrom(k, r, t) ==
  /\ r \in KernelState
  /\ r.stat = k.stat /\ r.prio = k.prio /\ r.error = k.error
  /\ r.timer = k.timer /\ r.group = k.group /\ r.cur = k.cur
  /\ r.nest = k.nest /\ r.gone = k.gone
  /\ \A p \in Priority : /\ NoDup(r.ready[p])
                         /\ ToSet(r.ready[p]) = ToSet(k.ready[p]) \ {t}
  /\ \A w \in WaitList : /\ NoDup(r.wait[w])
                         /\ ToSet(r.wait[w]) = ToSet(k.wait[w]) \ {t}
  /\ NoDup(r.defunct) /\ ToSet(r.defunct) = ToSet(k.defunct) \ {t}

\* rt_list_remove unlinks the thread from every list and changes nothing else.
LEMMA ListRemoveOK ==
  ASSUME NEW k \in KernelState, NEW X, KernelOK(k, X), NEW t \in Thread,
         NEW r, r = rt_list_remove(k, t)
  PROVE  RemovedFrom(k, r, t)
<1>1. /\ \A p \in Priority : k.ready[p] \in Seq(Thread) /\ NoDup(k.ready[p])
      /\ \A w \in WaitList : k.wait[w] \in Seq(Thread) /\ NoDup(k.wait[w])
      /\ k.defunct \in Seq(Thread) /\ NoDup(k.defunct)
  BY KernelTypes DEF KernelOK, ReadyListsOK, WaitListsOK, DefunctOK
<1>2. \A s \in Seq(Thread) : NoDup(s) =>
        /\ Unlink(s, t) \in Seq(Thread) /\ NoDup(Unlink(s, t))
        /\ ToSet(Unlink(s, t)) = ToSet(s) \ {t}
  BY UnlinkList
<1>3. /\ r.ready = [p \in Priority |-> Unlink(k.ready[p], t)]
      /\ r.wait = [w \in WaitList |-> Unlink(k.wait[w], t)]
      /\ r.defunct = Unlink(k.defunct, t)
      /\ r.stat = k.stat /\ r.prio = k.prio /\ r.error = k.error
      /\ r.timer = k.timer /\ r.group = k.group /\ r.cur = k.cur
      /\ r.nest = k.nest /\ r.gone = k.gone
  BY DEF KernelState, rt_list_remove
<1>4. r \in KernelState BY <1>1, <1>2, <1>3 DEF KernelState, rt_list_remove
<1> QED BY <1>1, <1>2, <1>3, <1>4 DEF RemovedFrom

\* The bitmap search: a set of priorities that is not empty has a least one.
LEMMA HighestReadyOK ==
  ASSUME NEW S \in SUBSET Priority, S # {}
  PROVE  \E m \in S : \A y \in S : m <= y
<1>1. S \subseteq Nat BY KernelAssumption DEF Priority
<1>2. PICK x \in S : \A y \in S : ~ (<<y, x>> \in OpToRel(<, Nat))
  BY <1>1, NatLessThanWellFounded, WFMin, Zenon
<1>3. ASSUME NEW y \in S PROVE x <= y
  <2>1. ~ (<<y, x>> \in OpToRel(<, Nat)) BY <1>2
  <2>2. y \in Nat /\ x \in Nat BY <1>1
  <2>3. ~ (y < x) BY <2>1, <2>2, Zenon DEF OpToRel
  <2> QED BY <2>2, <2>3
<1> QED BY <1>3

\* What rt_schedule at the end of an operation decides.
Scheduled(k, r, X) ==
  /\ k.nest # 0 => r.cur = k.cur
  /\ k.nest = 0 => /\ r.cur \in Thread \ X /\ r.stat[r.cur] = "READY"
                   /\ \A u \in Thread \ X : r.stat[u] = "READY"
                                              => r.prio[r.cur] <= r.prio[u]

\* rt_schedule changes only the current thread, and it picks a ready thread
\* of the highest priority unless the scheduler is locked.
LEMMA ScheduleOK ==
  ASSUME NEW k \in KernelState, NEW X, KernelOK(k, X), k.group # {},
         NEW r, r = rt_schedule(k)
  PROVE  /\ r \in KernelState /\ KernelOK(r, X)
         /\ r.stat = k.stat /\ r.prio = k.prio /\ r.error = k.error
         /\ r.timer = k.timer /\ r.group = k.group /\ r.nest = k.nest
         /\ r.gone = k.gone /\ r.ready = k.ready /\ r.wait = k.wait
         /\ r.defunct = k.defunct
         /\ Scheduled(k, r, X)
<1>1. CASE k.nest # 0 BY <1>1 DEF rt_schedule, Scheduled
<1>2. CASE k.nest = 0
  <2> DEFINE p == HighestReady(k)
             c == Head(k.ready[p])
  <2>1. k.group \in SUBSET Priority /\ k.ready \in [Priority -> Seq(Thread)]
    BY KernelTypes
  <2>2. p \in k.group /\ \A q \in k.group : p <= q
    BY <2>1, HighestReadyOK DEF HighestReady
  <2> HIDE DEF p
  <2>3. p \in Priority /\ k.ready[p] # <<>> /\ k.ready[p] \in Seq(Thread)
    BY <2>1, <2>2 DEF KernelOK, ReadyListsOK
  <2>4. c \in ToSet(k.ready[p]) BY <2>3, EmptyList
  <2>5. c \in Thread \ X /\ k.stat[c] = "READY" /\ k.prio[c] = p
    BY <2>3, <2>4 DEF KernelOK, ReadyListsOK
  <2>6. ASSUME NEW t \in Thread \ X, k.stat[t] = "READY" PROVE p <= k.prio[t]
    <3>1. k.prio[t] \in Priority BY KernelTypes
    <3>2. t \in ToSet(k.ready[k.prio[t]])
      BY <2>6, <3>1 DEF KernelOK, ReadyListsOK
    <3>3. k.ready[k.prio[t]] # <<>> BY <2>1, <3>1, <3>2, EmptyList
    <3>4. k.prio[t] \in k.group BY <3>1, <3>3 DEF KernelOK, ReadyListsOK
    <3> QED BY <2>2, <3>4
  <2>7. r = [k EXCEPT !.cur = c] BY <1>2 DEF rt_schedule, p
  <2> HIDE DEF c
  <2>8. /\ r \in KernelState /\ r.cur = c
        /\ r.stat = k.stat /\ r.prio = k.prio /\ r.error = k.error
        /\ r.timer = k.timer /\ r.group = k.group /\ r.nest = k.nest
        /\ r.gone = k.gone /\ r.ready = k.ready /\ r.wait = k.wait
        /\ r.defunct = k.defunct
    BY <2>5, <2>7 DEF KernelState
  <2>9. KernelOK(r, X)
    BY <2>8 DEF KernelOK, ReadyListsOK, WaitListsOK, TimersOK, DefunctOK, Detached, Loose
  <2> QED BY <1>2, <2>5, <2>6, <2>8, <2>9 DEF Scheduled
<1> QED BY <1>1, <1>2

\* rt_schedule_remove_thread takes a thread out of the scheduler, whatever
\* list it was on, and keeps the bitmap exact.
LEMMA RemoveThreadOK ==
  ASSUME NEW k \in KernelState, NEW X, KernelOK(k, X), NEW t \in Thread,
         t \notin k.gone, t \notin ToSet(k.defunct),
         NEW r, r = rt_schedule_remove_thread(k, t)
  PROVE  /\ r \in KernelState /\ KernelOK(r, X \cup {t})
         /\ r.stat = k.stat /\ r.prio = k.prio /\ r.error = k.error
         /\ r.timer = k.timer /\ r.cur = k.cur /\ r.nest = k.nest
         /\ r.gone = k.gone
<1>0. PICK q : q = rt_list_remove(k, t) OBVIOUS
<1>1. /\ q \in KernelState
      /\ q.stat = k.stat /\ q.prio = k.prio /\ q.error = k.error
      /\ q.timer = k.timer /\ q.group = k.group /\ q.cur = k.cur
      /\ q.nest = k.nest /\ q.gone = k.gone
      /\ \A p \in Priority : /\ NoDup(q.ready[p])
                             /\ ToSet(q.ready[p]) = ToSet(k.ready[p]) \ {t}
      /\ \A w \in WaitList : /\ NoDup(q.wait[w])
                             /\ ToSet(q.wait[w]) = ToSet(k.wait[w]) \ {t}
      /\ NoDup(q.defunct) /\ ToSet(q.defunct) = ToSet(k.defunct) \ {t}
  <2>1. RemovedFrom(k, q, t) BY <1>0, ListRemoveOK
  <2> QED BY <2>1 DEF RemovedFrom
<1> DEFINE pt == k.prio[t]
           g  == IF q.ready[pt] = <<>> THEN k.group \ {pt} ELSE k.group
<1>2. /\ r.group = g /\ r.ready = q.ready /\ r.wait = q.wait
      /\ r.defunct = q.defunct /\ r.stat = k.stat /\ r.prio = k.prio
      /\ r.error = k.error /\ r.timer = k.timer /\ r.cur = k.cur
      /\ r.nest = k.nest /\ r.gone = k.gone /\ r \in KernelState
  <2>1. r = IF q.ready[pt] = <<>> THEN [q EXCEPT !.group = @ \ {pt}] ELSE q
    BY <1>0 DEF rt_schedule_remove_thread
  <2>2. CASE q.ready[pt] = <<>>
    <3>1. r = [q EXCEPT !.group = @ \ {pt}] BY <2>1, <2>2
    <3> QED BY <1>1, <2>2, <3>1 DEF KernelState
  <2>3. CASE q.ready[pt] # <<>> BY <1>1, <2>1, <2>3
  <2> QED BY <2>2, <2>3
<1>3. pt \in Priority BY KernelTypes
<1>4. \A p \in Priority : q.ready[p] \in Seq(Thread) /\ k.ready[p] \in Seq(Thread)
  BY <1>1, KernelTypes
<1>5. \A p \in Priority : /\ q.ready[p] = <<>> <=> ToSet(q.ready[p]) = {}
                          /\ k.ready[p] = <<>> <=> ToSet(k.ready[p]) = {}
  BY <1>4, EmptyList
<1>6. \A p \in Priority : p # pt => t \notin ToSet(k.ready[p])
  BY DEF KernelOK, ReadyListsOK
<1>7. g = {p \in Priority : q.ready[p] # <<>>}
  <2>1. k.group = {p \in Priority : k.ready[p] # <<>>} BY DEF KernelOK, ReadyListsOK
  <2>2. ASSUME NEW p \in Priority, p # pt
        PROVE  q.ready[p] = <<>> <=> k.ready[p] = <<>>
    <3>1. ToSet(q.ready[p]) = ToSet(k.ready[p]) BY <1>1, <1>6, <2>2
    <3> QED BY <1>5, <3>1
  <2>3. q.ready[pt] # <<>> => k.ready[pt] # <<>> BY <1>1, <1>3, <1>5
  <2> QED BY <1>3, <2>1, <2>2, <2>3
<1> HIDE DEF g
<1>8. ReadyListsOK(r, X \cup {t})
  <2>1. \A p \in Priority : ToSet(k.ready[p])
          = {u \in Thread \ X : k.stat[u] = "READY" /\ k.prio[u] = p}
    BY DEF KernelOK, ReadyListsOK
  <2>2. \A p \in Priority : ToSet(r.ready[p])
          = {u \in Thread \ (X \cup {t}) : r.stat[u] = "READY" /\ r.prio[u] = p}
    BY <1>1, <1>2, <2>1
  <2>3. r.group = {p \in Priority : r.ready[p] # <<>>} BY <1>2, <1>7
  <2> QED BY <1>1, <1>2, <2>2, <2>3 DEF ReadyListsOK
<1>9. WaitListsOK(r)
  BY <1>1, <1>2 DEF KernelOK, WaitListsOK
<1>10. TimersOK(r) /\ DefunctOK(r)
  BY <1>1, <1>2 DEF KernelOK, TimersOK, DefunctOK
<1>11. \A u \in X \cup {t} : Loose(r, u)
  BY <1>1, <1>2 DEF KernelOK, Detached, Loose
<1> QED BY <1>2, <1>8, <1>9, <1>10, <1>11 DEF KernelOK

\* rt_schedule_insert_thread on a thread that is linked nowhere.
LEMMA InsertThreadOK ==
  ASSUME NEW k \in KernelState, NEW X, KernelOK(k, X), NEW t \in Thread,
         k.stat[t] # "READY" \/ t \in X, Detached(k, t), 
         NEW r, r = rt_schedule_insert_thread(k, t)
  PROVE  /\ r \in KernelState /\ KernelOK(r, X \ {t})
         /\ r.stat = [k.stat EXCEPT ![t] = "READY"] /\ r.prio = k.prio
         /\ r.error = k.error /\ r.timer = k.timer /\ r.cur = k.cur
         /\ r.nest = k.nest /\ r.gone = k.gone /\ r.group # {}
         /\ r.wait = k.wait /\ r.defunct = k.defunct
<1> DEFINE p == k.prio[t]
<1>1. p \in Priority /\ k.ready[p] \in Seq(Thread) BY KernelTypes
<1>2. /\ Append(k.ready[p], t) \in Seq(Thread)
      /\ Append(k.ready[p], t) # <<>>
      /\ ToSet(Append(k.ready[p], t)) = ToSet(k.ready[p]) \cup {t}
      /\ NoDup(k.ready[p]) /\ t \notin ToSet(k.ready[p]) => NoDup(Append(k.ready[p], t))
  BY <1>1, AppendList
<1>3. /\ r.ready = [k.ready EXCEPT ![p] = Append(k.ready[p], t)]
      /\ r.stat = [k.stat EXCEPT ![t] = "READY"] /\ r.group = k.group \cup {p}
      /\ r.prio = k.prio /\ r.error = k.error /\ r.timer = k.timer
      /\ r.cur = k.cur /\ r.nest = k.nest /\ r.gone = k.gone
      /\ r.wait = k.wait /\ r.defunct = k.defunct
  BY DEF rt_schedule_insert_thread, KernelState
<1>4. r \in KernelState
  <2>1. /\ r.ready \in [Priority -> Seq(Thread)]
        /\ r.stat \in [Thread -> Stat] /\ r.group \in SUBSET Priority
    BY <1>1, <1>2, <1>3, KernelTypes DEF Stat
  <2> QED BY <2>1 DEF rt_schedule_insert_thread, KernelState
<1>5. \A q \in Priority : ToSet(k.ready[q])
        = {u \in Thread \ X : k.stat[u] = "READY" /\ k.prio[u] = q}
  BY DEF KernelOK, ReadyListsOK
<1>6. t \notin ToSet(k.ready[p]) BY <1>1, <1>5
<1>7. \A q \in Priority : r.ready[q] = IF q = p THEN Append(k.ready[p], t) ELSE k.ready[q]
  BY <1>1, <1>3, KernelTypes
<1>8. \A u \in Thread : r.stat[u] = IF u = t THEN "READY" ELSE k.stat[u]
  BY <1>3, KernelTypes
<1>9. ReadyListsOK(r, X \ {t})
  <2>1. \A q \in Priority : NoDup(k.ready[q]) BY DEF KernelOK, ReadyListsOK
  <2>2. \A q \in Priority : NoDup(r.ready[q]) BY <1>1, <1>2, <1>6, <1>7, <2>1
  <2>3. ASSUME NEW q \in Priority
        PROVE  ToSet(r.ready[q])
                 = {u \in Thread \ (X \ {t}) : r.stat[u] = "READY" /\ r.prio[u] = q}
    <3>1. CASE q = p
      <4>1. ToSet(r.ready[q]) = ToSet(k.ready[q]) \cup {t} BY <1>2, <1>7, <3>1
      <4> QED BY <1>3, <1>5, <1>8, <3>1, <4>1
    <3>2. CASE q # p
      <4>1. ToSet(r.ready[q]) = ToSet(k.ready[q]) BY <1>7, <3>2
      <4> QED BY <1>3, <1>5, <1>8, <3>2, <4>1
    <3> QED BY <3>1, <3>2
  <2>4. k.group = {q \in Priority : k.ready[q] # <<>>} BY DEF KernelOK, ReadyListsOK
  <2>5. ASSUME NEW q \in Priority PROVE q \in r.group <=> r.ready[q] # <<>>
    <3>1. CASE q = p BY <1>2, <1>3, <1>7, <3>1
    <3>2. CASE q # p BY <1>3, <1>7, <2>4, <3>2
    <3> QED BY <3>1, <3>2
  <2>6. r.group = {q \in Priority : r.ready[q] # <<>>} BY <1>4, <2>5, KernelTypes
  <2> QED BY <2>2, <2>3, <2>6 DEF ReadyListsOK
<1>10. WaitListsOK(r)
  BY <1>3, <1>8, ListMembers DEF KernelOK, WaitListsOK, Detached, Loose
<1>11. TimersOK(r) /\ DefunctOK(r)
  BY <1>3, <1>8, ListMembers, KernelTypes DEF KernelOK, TimersOK, DefunctOK, Detached, Loose
<1>12. \A u \in X \ {t} : Loose(r, u)
  BY <1>3 DEF KernelOK, Detached, Loose
<1>13. r.group # {} BY <1>3
<1> QED BY <1>3, <1>4, <1>9, <1>10, <1>11, <1>12, <1>13 DEF KernelOK

\* Assigning thread->stat changes nothing else.
LEMMA StatUpdate ==
  ASSUME NEW k \in KernelState, NEW t \in Thread, NEW v \in Stat,
         NEW r, r = SetStat(k, t, v)
  PROVE  /\ r \in KernelState /\ r.stat = [k.stat EXCEPT ![t] = v]
         /\ r.stat[t] = v /\ \A u \in Thread \ {t} : r.stat[u] = k.stat[u]
         /\ r.prio = k.prio /\ r.error = k.error /\ r.timer = k.timer
         /\ r.cur = k.cur /\ r.nest = k.nest /\ r.gone = k.gone /\ r.wait = k.wait
         /\ r.defunct = k.defunct /\ r.ready = k.ready /\ r.group = k.group
BY DEF KernelState, SetStat

\* An unlinked thread may take any state but READY.
LEMMA SetStatOK ==
  ASSUME NEW k \in KernelState, NEW X, KernelOK(k, X), NEW t \in X, t \in Thread,
         t \notin k.timer, NEW r \in KernelState,
         r.stat[t] # "READY", \A u \in Thread \ {t} : r.stat[u] = k.stat[u],
         r.prio = k.prio, r.timer = k.timer, r.gone = k.gone, r.wait = k.wait,
         r.defunct = k.defunct, r.ready = k.ready, r.group = k.group
  PROVE  KernelOK(r, X \ {t}) /\ Detached(r, t)
<1>1. Detached(k, t) BY DEF KernelOK, Detached
<1>2. ReadyListsOK(r, X \ {t}) BY DEF KernelOK, ReadyListsOK
<1>3. WaitListsOK(r) BY <1>1, ListMembers DEF KernelOK, WaitListsOK, Detached, Loose
<1>4. TimersOK(r) BY <1>1, KernelTypes DEF KernelOK, TimersOK, Detached, Loose
<1>5. DefunctOK(r) BY <1>1, ListMembers, KernelTypes DEF KernelOK, DefunctOK, Detached, Loose
<1>6. \A u \in X : Loose(r, u) BY DEF KernelOK, Loose
<1>7. Detached(r, t) BY <1>6 DEF Detached
<1> QED BY <1>2, <1>3, <1>4, <1>5, <1>6, <1>7 DEF KernelOK

\* Starting and stopping timers: only of suspended threads.
LEMMA SetTimerOK ==
  ASSUME NEW k \in KernelState, NEW X, KernelOK(k, X), NEW r \in KernelState,
         \A u \in r.timer : k.stat[u] = "SUSPEND",
         r.stat = k.stat, r.prio = k.prio, r.gone = k.gone, r.wait = k.wait,
         r.defunct = k.defunct, r.ready = k.ready, r.group = k.group
  PROVE  KernelOK(r, X)
<1>1. ReadyListsOK(r, X) /\ WaitListsOK(r) /\ DefunctOK(r)
  BY DEF KernelOK, ReadyListsOK, WaitListsOK, DefunctOK
<1>2. TimersOK(r) BY DEF TimersOK
<1>3. \A u \in X : Loose(r, u) BY DEF KernelOK, Detached, Loose
<1> QED BY <1>1, <1>2, <1>3 DEF KernelOK

\* rt_timer_stop keeps the lists, and t has no running timer after it.
LEMMA TimerStopOK ==
  ASSUME NEW k \in KernelState, NEW X, KernelOK(k, X), NEW t \in Thread,
         NEW r, r = rt_timer_stop(k, t)
  PROVE  /\ r \in KernelState /\ KernelOK(r, X) /\ r.timer = k.timer \ {t}
         /\ r.stat = k.stat /\ r.prio = k.prio /\ r.error = k.error
         /\ r.cur = k.cur /\ r.nest = k.nest /\ r.gone = k.gone
         /\ r.wait = k.wait /\ r.defunct = k.defunct /\ r.ready = k.ready
         /\ r.group = k.group
<1>1. /\ r \in KernelState /\ r.timer = k.timer \ {t}
      /\ r.stat = k.stat /\ r.prio = k.prio /\ r.error = k.error
      /\ r.cur = k.cur /\ r.nest = k.nest /\ r.gone = k.gone
      /\ r.wait = k.wait /\ r.defunct = k.defunct /\ r.ready = k.ready
      /\ r.group = k.group
  BY DEF rt_timer_stop, KernelState
<1>2. \A u \in k.timer \ {t} : k.stat[u] = "SUSPEND"
  BY DEF KernelOK, TimersOK, Detached, Loose
<1> QED BY <1>1, <1>2, SetTimerOK

\* rt_timer_start of a suspended thread's timer keeps the lists in order.
LEMMA TimerStartOK ==
  ASSUME NEW k \in KernelState, NEW X, KernelOK(k, X), NEW t \in Thread \ X,
         k.stat[t] = "SUSPEND",
         NEW r, r = rt_timer_start(k, t)
  PROVE  /\ r \in KernelState /\ KernelOK(r, X) /\ r.timer = k.timer \cup {t}
         /\ r.stat = k.stat /\ r.prio = k.prio /\ r.error = k.error
         /\ r.cur = k.cur /\ r.nest = k.nest /\ r.gone = k.gone
         /\ r.wait = k.wait /\ r.defunct = k.defunct /\ r.ready = k.ready
         /\ r.group = k.group
<1>1. /\ r \in KernelState /\ r.timer = k.timer \cup {t}
      /\ r.stat = k.stat /\ r.prio = k.prio /\ r.error = k.error
      /\ r.cur = k.cur /\ r.nest = k.nest /\ r.gone = k.gone
      /\ r.wait = k.wait /\ r.defunct = k.defunct /\ r.ready = k.ready
      /\ r.group = k.group
  BY DEF rt_timer_start, KernelState
<1>2. \A u \in k.timer \cup {t} : k.stat[u] = "SUSPEND"
  BY DEF KernelOK, TimersOK, Detached, Loose
<1> QED BY <1>1, <1>2, SetTimerOK

\* Taking a ready thread out of the scheduler, to suspend or to close it,
\* leaves it on no list and without a timer.
LEMMA TakeOutOK ==
  ASSUME NEW k \in KernelState, NEW X, KernelOK(k, X), NEW t \in Thread,
         k.stat[t] = "READY",
         NEW v \in Stat, v # "READY",
         NEW r, r = SetStat(rt_timer_stop(rt_schedule_remove_thread(k, t), t), t, v)
  PROVE  /\ r \in KernelState /\ KernelOK(r, X \ {t}) /\ Detached(r, t)
         /\ r.stat = [k.stat EXCEPT ![t] = v] /\ r.prio = k.prio
         /\ r.error = k.error /\ r.cur = k.cur /\ r.nest = k.nest
         /\ r.gone = k.gone /\ r.timer \subseteq k.timer
<1>1. PICK a : a = rt_schedule_remove_thread(k, t) OBVIOUS
<1>2. PICK b : b = rt_timer_stop(a, t) OBVIOUS
<1>3. r = SetStat(b, t, v) BY <1>1, <1>2
<1>4. t \notin k.timer /\ t \notin k.gone /\ t \notin ToSet(k.defunct)
  BY DEF KernelOK, TimersOK, DefunctOK
<1>5. /\ a \in KernelState /\ KernelOK(a, X \cup {t})
      /\ a.stat = k.stat /\ a.prio = k.prio /\ a.error = k.error
      /\ a.timer = k.timer /\ a.cur = k.cur /\ a.nest = k.nest /\ a.gone = k.gone
  BY <1>1, <1>4, RemoveThreadOK
<1>6. /\ b \in KernelState /\ KernelOK(b, X \cup {t})
      /\ b.stat = a.stat /\ b.prio = a.prio /\ b.error = a.error
      /\ b.cur = a.cur /\ b.nest = a.nest /\ b.gone = a.gone
      /\ b.timer \subseteq a.timer
  BY <1>2, <1>5, TimerStopOK
<1>7. /\ r \in KernelState /\ r.stat = [b.stat EXCEPT ![t] = v]
      /\ r.stat[t] = v /\ \A u \in Thread \ {t} : r.stat[u] = b.stat[u]
      /\ r.prio = b.prio /\ r.error = b.error /\ r.timer = b.timer
      /\ r.cur = b.cur /\ r.nest = b.nest /\ r.gone = b.gone /\ r.wait = b.wait
      /\ r.defunct = b.defunct /\ r.ready = b.ready /\ r.group = b.group
  BY <1>3, <1>6, StatUpdate
<1>8. KernelOK(r, (X \cup {t}) \ {t}) /\ Detached(r, t)
  <2>1. PICK Y : Y = X \cup {t} OBVIOUS
  <2>2. t \in Y /\ KernelOK(b, Y) BY <1>6, <2>1
  <2>3. b \in KernelState BY <1>6
  <2>4. t \notin b.timer BY <1>4, <1>5, <1>6
  <2>5. KernelOK(r, Y \ {t}) /\ Detached(r, t) BY <1>7, <2>2, <2>3, <2>4, SetStatOK
  <2> QED BY <2>1, <2>5
<1>9. (X \cup {t}) \ {t} = X \ {t} OBVIOUS
<1> QED BY <1>5, <1>6, <1>7, <1>8, <1>9

\* rt_thread_suspend on a ready thread leaves it suspended and on no list.
LEMMA SuspendOK ==
  ASSUME NEW k \in KernelState, NEW X, KernelOK(k, X), NEW t \in Thread,
         k.stat[t] = "READY",
         NEW r, r = rt_thread_suspend(k, t)
  PROVE  /\ r \in KernelState /\ KernelOK(r, X \ {t}) /\ Detached(r, t)
         /\ r.stat = [k.stat EXCEPT ![t] = "SUSPEND"] /\ r.prio = k.prio
         /\ r.error = k.error /\ r.cur = k.cur /\ r.nest = k.nest
         /\ r.gone = k.gone /\ r.timer \subseteq k.timer
<1>1. r = SetStat(rt_timer_stop(rt_schedule_remove_thread(k, t), t), t, "SUSPEND")
  BY DEF rt_thread_suspend
<1>2. PICK v \in Stat : v = "SUSPEND" BY Stats
<1>3. v # "READY" BY <1>2
<1>4. r = SetStat(rt_timer_stop(rt_schedule_remove_thread(k, t), t), t, v) BY <1>1, <1>2
<1>5. /\ r \in KernelState /\ KernelOK(r, X \ {t}) /\ Detached(r, t)
      /\ r.stat = [k.stat EXCEPT ![t] = v] /\ r.prio = k.prio
      /\ r.error = k.error /\ r.cur = k.cur /\ r.nest = k.nest
      /\ r.gone = k.gone /\ r.timer \subseteq k.timer
  BY <1>3, <1>4, TakeOutOK
<1> QED BY <1>2, <1>5

\* Unlinking a suspended thread that has no timer.
LEMMA UnlinkSuspendedOK ==
  ASSUME NEW k \in KernelState, NEW X, KernelOK(k, X), NEW t \in Thread,
         k.stat[t] = "SUSPEND", t \notin k.timer,
         NEW r, r = rt_list_remove(k, t)
  PROVE  /\ r \in KernelState /\ KernelOK(r, X) /\ Detached(r, t)
         /\ r.stat = k.stat /\ r.prio = k.prio /\ r.error = k.error
         /\ r.timer = k.timer /\ r.cur = k.cur /\ r.nest = k.nest
         /\ r.gone = k.gone
<1>1. /\ r \in KernelState
      /\ r.stat = k.stat /\ r.prio = k.prio /\ r.error = k.error
      /\ r.timer = k.timer /\ r.group = k.group /\ r.cur = k.cur
      /\ r.nest = k.nest /\ r.gone = k.gone
      /\ \A p \in Priority : /\ NoDup(r.ready[p])
                             /\ ToSet(r.ready[p]) = ToSet(k.ready[p]) \ {t}
      /\ \A w \in WaitList : /\ NoDup(r.wait[w])
                             /\ ToSet(r.wait[w]) = ToSet(k.wait[w]) \ {t}
      /\ NoDup(r.defunct) /\ ToSet(r.defunct) = ToSet(k.defunct) \ {t}
  <2>1. RemovedFrom(k, r, t) BY ListRemoveOK
  <2> QED BY <2>1 DEF RemovedFrom
<1>2. \A p \in Priority : t \notin ToSet(k.ready[p]) BY DEF KernelOK, ReadyListsOK
<1>3. \A p \in Priority : ToSet(r.ready[p]) = ToSet(k.ready[p]) BY <1>1, <1>2
<1>4. ASSUME NEW p \in Priority PROVE r.ready[p] = <<>> <=> k.ready[p] = <<>>
  <2>1. r.ready[p] \in Seq(Thread) /\ k.ready[p] \in Seq(Thread) BY <1>1, KernelTypes
  <2> QED BY <1>3, <2>1, EmptyList
<1>5. ReadyListsOK(r, X) BY <1>1, <1>3, <1>4 DEF KernelOK, ReadyListsOK
<1>6. WaitListsOK(r) BY <1>1 DEF KernelOK, WaitListsOK
<1>7. TimersOK(r) /\ DefunctOK(r) BY <1>1 DEF KernelOK, TimersOK, DefunctOK
<1>8. t \notin k.gone BY DEF KernelOK, DefunctOK
<1>9. \A u \in X \cup {t} : Loose(r, u) BY <1>1, <1>8 DEF KernelOK, Loose
<1> QED BY <1>1, <1>5, <1>6, <1>7, <1>9 DEF KernelOK, Detached

\* rt_thread_resume makes a suspended thread ready, wherever it waited.
LEMMA ResumeOK ==
  ASSUME NEW k \in KernelState, NEW X, KernelOK(k, X), NEW t \in Thread \ X,
         k.stat[t] = "SUSPEND",
         NEW r, r = rt_thread_resume(k, t)
  PROVE  /\ r \in KernelState /\ KernelOK(r, X)
         /\ r.stat = [k.stat EXCEPT ![t] = "READY"] /\ r.prio = k.prio
         /\ r.error = k.error /\ r.cur = k.cur /\ r.nest = k.nest
         /\ r.gone = k.gone /\ r.group # {} /\ r.timer \subseteq k.timer
<1>1. PICK s : s = rt_timer_stop(k, t) OBVIOUS
<1>2. PICK a : a = rt_list_remove(s, t) OBVIOUS
<1>3. r = rt_schedule_insert_thread(a, t)
  <2>1. rt_timer_stop(rt_list_remove(k, t), t) = a
    BY <1>1, <1>2 DEF rt_timer_stop, rt_list_remove, KernelState
  <2> QED BY <2>1 DEF rt_thread_resume
<1>4. /\ s \in KernelState /\ KernelOK(s, X) /\ t \notin s.timer
      /\ s.stat = k.stat /\ s.prio = k.prio /\ s.error = k.error
      /\ s.cur = k.cur /\ s.nest = k.nest /\ s.gone = k.gone
  BY <1>1, TimerStopOK
<1>5. s.timer \subseteq k.timer BY <1>1 DEF rt_timer_stop, KernelState
<1>6. /\ a \in KernelState /\ KernelOK(a, X) /\ Detached(a, t)
      /\ a.stat = s.stat /\ a.prio = s.prio /\ a.error = s.error
      /\ a.timer = s.timer /\ a.cur = s.cur /\ a.nest = s.nest /\ a.gone = s.gone
  BY <1>2, <1>4, UnlinkSuspendedOK
<1>7. X \ {t} = X OBVIOUS
<1>8. a.stat[t] # "READY" BY <1>4, <1>6
<1>9. /\ r \in KernelState /\ KernelOK(r, X \ {t})
      /\ r.stat = [a.stat EXCEPT ![t] = "READY"] /\ r.prio = a.prio
      /\ r.error = a.error /\ r.timer = a.timer /\ r.cur = a.cur
      /\ r.nest = a.nest /\ r.gone = a.gone /\ r.group # {}
  BY <1>3, <1>6, <1>8, InsertThreadOK
<1> QED BY <1>4, <1>5, <1>6, <1>7, <1>9

\* The consistency of the lists does not depend on error, cur and nest.
LEMMA FrameOK ==
  ASSUME NEW k \in KernelState, NEW X, KernelOK(k, X), NEW r \in KernelState,
         r.stat = k.stat, r.prio = k.prio, r.timer = k.timer, r.gone = k.gone,
         r.wait = k.wait, r.defunct = k.defunct, r.ready = k.ready, r.group = k.group
  PROVE  KernelOK(r, X)
BY DEF KernelOK, ReadyListsOK, WaitListsOK, TimersOK, DefunctOK, Detached, Loose

\* Assigning thread->error changes nothing else.
LEMMA ErrorOK ==
  ASSUME NEW k \in KernelState, NEW X, KernelOK(k, X), NEW t \in Thread, NEW e \in Error,
         NEW r, r = SetError(k, t, e)
  PROVE  /\ r \in KernelState /\ KernelOK(r, X)
         /\ r.stat = k.stat /\ r.prio = k.prio /\ r.timer = k.timer
         /\ r.cur = k.cur /\ r.nest = k.nest /\ r.gone = k.gone /\ r.wait = k.wait
         /\ r.defunct = k.defunct /\ r.ready = k.ready /\ r.group = k.group
<1>1. /\ r \in KernelState
      /\ r.stat = k.stat /\ r.prio = k.prio /\ r.timer = k.timer
      /\ r.cur = k.cur /\ r.nest = k.nest /\ r.gone = k.gone /\ r.wait = k.wait
      /\ r.defunct = k.defunct /\ r.ready = k.ready /\ r.group = k.group
  BY DEF SetError, KernelState
<1> QED BY <1>1, FrameOK

\* The thread errors a wait can end with.
LEMMA Errors == "EOK" \in Error /\ "ETIMEOUT" \in Error /\ "ERROR" \in Error
BY DEF Error

\* A thread that is not in the ready lists may change its priority.
LEMMA SetPrioOK ==
  ASSUME NEW k \in KernelState, NEW X, KernelOK(k, X), NEW t \in Thread,
         k.stat[t] # "READY" \/ t \in X, NEW p \in Priority,
         NEW r, r = SetPrio(k, t, p)
  PROVE  /\ r \in KernelState /\ KernelOK(r, X)
         /\ r.stat = k.stat /\ r.error = k.error /\ r.timer = k.timer
         /\ r.cur = k.cur /\ r.nest = k.nest /\ r.gone = k.gone /\ r.wait = k.wait
         /\ r.defunct = k.defunct /\ r.ready = k.ready /\ r.group = k.group
<1>1. /\ r \in KernelState
      /\ r.stat = k.stat /\ r.error = k.error /\ r.timer = k.timer
      /\ r.cur = k.cur /\ r.nest = k.nest /\ r.gone = k.gone /\ r.wait = k.wait
      /\ r.defunct = k.defunct /\ r.ready = k.ready /\ r.group = k.group
      /\ r.prio = [k.prio EXCEPT ![t] = p]
  BY DEF SetPrio, KernelState
<1>2. \A u \in Thread : u # t => r.prio[u] = k.prio[u] BY <1>1, KernelTypes
<1>3. ReadyListsOK(r, X)
  <2>1. \A q \in Priority : ToSet(k.ready[q])
          = {u \in Thread \ X : k.stat[u] = "READY" /\ k.prio[u] = q}
    BY DEF KernelOK, ReadyListsOK
  <2>2. \A q \in Priority : ToSet(r.ready[q])
          = {u \in Thread \ X : r.stat[u] = "READY" /\ r.prio[u] = q}
    BY <1>1, <1>2, <2>1
  <2> QED BY <1>1, <2>2 DEF KernelOK, ReadyListsOK
<1>4. /\ WaitListsOK(r) /\ TimersOK(r) /\ DefunctOK(r)
      /\ \A u \in X : Loose(r, u)
  BY <1>1 DEF KernelOK, WaitListsOK, TimersOK, DefunctOK, Detached, Loose
<1> QED BY <1>1, <1>3, <1>4 DEF KernelOK

\* RT_THREAD_CTRL_CHANGE_PRIORITY moves a ready thread to its new list.
LEMMA ChangePriorityOK ==
  ASSUME NEW k \in KernelState, NEW X, KernelOK(k, X), NEW t \in Thread \ X,
         NEW p \in Priority,
         NEW r, r = ChangePriority(k, t, p)
  PROVE  /\ r \in KernelState /\ KernelOK(r, X)
         /\ r.stat = k.stat /\ r.error = k.error /\ r.timer = k.timer
         /\ r.cur = k.cur /\ r.nest = k.nest /\ r.gone = k.gone
<1>1. CASE k.stat[t] # "READY"
  <2>1. r = SetPrio(k, t, p) BY <1>1 DEF ChangePriority
  <2> QED BY <1>1, <2>1, SetPrioOK
<1>2. CASE k.stat[t] = "READY"
  <2>1. PICK a : a = rt_schedule_remove_thread(k, t) OBVIOUS
  <2>2. PICK b : b = SetPrio(a, t, p) OBVIOUS
  <2>3. PICK Y : Y = X \cup {t} OBVIOUS
  <2>4. r = rt_schedule_insert_thread(b, t) BY <1>2, <2>1, <2>2 DEF ChangePriority
  <2>5. t \notin k.timer /\ t \notin k.gone /\ t \notin ToSet(k.defunct)
    BY <1>2 DEF KernelOK, TimersOK, DefunctOK
  <2>6. /\ a \in KernelState /\ KernelOK(a, Y) /\ t \in Y
        /\ a.stat = k.stat /\ a.prio = k.prio /\ a.error = k.error
        /\ a.timer = k.timer /\ a.cur = k.cur /\ a.nest = k.nest /\ a.gone = k.gone
    BY <2>1, <2>3, <2>5, RemoveThreadOK
  <2>7. /\ b \in KernelState /\ KernelOK(b, Y)
        /\ b.stat = a.stat /\ b.error = a.error /\ b.timer = a.timer
        /\ b.cur = a.cur /\ b.nest = a.nest /\ b.gone = a.gone
    BY <2>2, <2>6, SetPrioOK
  <2>8. Detached(b, t) BY <1>2, <2>2, <2>6, <2>7 DEF KernelOK, TimersOK, Detached
  <2>9. /\ r \in KernelState /\ KernelOK(r, Y \ {t})
        /\ r.stat = [b.stat EXCEPT ![t] = "READY"]
        /\ r.error = b.error /\ r.timer = b.timer /\ r.cur = b.cur
        /\ r.nest = b.nest /\ r.gone = b.gone
    BY <2>4, <2>6, <2>7, <2>8, InsertThreadOK
  <2>10. Y \ {t} = X BY <2>3
  <2>11. r.stat = k.stat BY <1>2, <2>6, <2>7, <2>9, KernelTypes
  <2> QED BY <2>6, <2>7, <2>9, <2>10, <2>11
<1> QED BY <1>1, <1>2

\* rt_thread_timeout makes the thread ready and tells it ETIMEOUT, also if it
\* was unlinked before.
LEMMA TimeoutOfAnyOK ==
  ASSUME NEW k \in KernelState, NEW X, KernelOK(k, X), NEW t \in Thread,
         k.stat[t] = "SUSPEND", t \notin k.timer,
         NEW r, r = rt_thread_timeout(k, t)
  PROVE  /\ r \in KernelState /\ KernelOK(r, X \ {t}) /\ Scheduled(k, r, X \ {t})
         /\ r.stat = [k.stat EXCEPT ![t] = "READY"] /\ r.prio = k.prio
         /\ r.timer = k.timer /\ r.nest = k.nest /\ r.gone = k.gone
<1>1. PICK a : a = SetError(k, t, "ETIMEOUT") OBVIOUS
<1>2. PICK b : b = rt_list_remove(a, t) OBVIOUS
<1>3. PICK c : c = rt_schedule_insert_thread(b, t) OBVIOUS
<1>4. r = rt_schedule(c) BY <1>1, <1>2, <1>3 DEF rt_thread_timeout
<1>5. /\ a \in KernelState /\ KernelOK(a, X)
      /\ a.stat = k.stat /\ a.prio = k.prio /\ a.timer = k.timer
      /\ a.cur = k.cur /\ a.nest = k.nest /\ a.gone = k.gone
  BY <1>1, ErrorOK, Errors
<1>6. /\ b \in KernelState /\ KernelOK(b, X) /\ Detached(b, t)
      /\ b.stat = a.stat /\ b.prio = a.prio /\ b.timer = a.timer
      /\ b.cur = a.cur /\ b.nest = a.nest /\ b.gone = a.gone
  BY <1>2, <1>5, UnlinkSuspendedOK
<1>7. /\ c \in KernelState /\ KernelOK(c, X \ {t})
      /\ c.stat = [b.stat EXCEPT ![t] = "READY"] /\ c.prio = b.prio
      /\ c.timer = b.timer /\ c.cur = b.cur
      /\ c.nest = b.nest /\ c.gone = b.gone /\ c.group # {}
  BY <1>3, <1>5, <1>6, InsertThreadOK
<1>8. PICK Y : Y = X \ {t} OBVIOUS
<1>9. KernelOK(c, Y) BY <1>7, <1>8
<1>10. /\ r \in KernelState /\ KernelOK(r, Y)
       /\ r.stat = c.stat /\ r.prio = c.prio /\ r.timer = c.timer
       /\ r.nest = c.nest /\ r.gone = c.gone
       /\ Scheduled(c, r, Y)
  BY <1>4, <1>7, <1>9, ScheduleOK
<1>11. Scheduled(k, r, Y) BY <1>5, <1>6, <1>7, <1>10 DEF Scheduled
<1> QED BY <1>5, <1>6, <1>7, <1>8, <1>10, <1>11

\* The same for a thread that is where the lists say.
LEMMA TimeoutOK ==
  ASSUME NEW k \in KernelState, NEW X, KernelOK(k, X), NEW t \in Thread \ X,
         k.stat[t] = "SUSPEND", t \notin k.timer,
         NEW r, r = rt_thread_timeout(k, t)
  PROVE  /\ r \in KernelState /\ KernelOK(r, X) /\ Scheduled(k, r, X)
         /\ r.stat = [k.stat EXCEPT ![t] = "READY"] /\ r.prio = k.prio
         /\ r.timer = k.timer /\ r.nest = k.nest /\ r.gone = k.gone
<1>1. /\ r \in KernelState /\ KernelOK(r, X \ {t}) /\ Scheduled(k, r, X \ {t})
      /\ r.stat = [k.stat EXCEPT ![t] = "READY"] /\ r.prio = k.prio
      /\ r.timer = k.timer /\ r.nest = k.nest /\ r.gone = k.gone
  BY TimeoutOfAnyOK
<1>2. X \ {t} = X OBVIOUS
<1> QED BY <1>1, <1>2

\* rt_thread_startup makes a new thread ready; once there is a current thread
\* it reschedules.
LEMMA StartupOK ==
  ASSUME NEW k \in KernelState, NEW X, KernelOK(k, X), NEW t \in Thread \ X,
         k.stat[t] = "INIT",
         NEW r, r = rt_thread_startup(k, t)
  PROVE  /\ r \in KernelState /\ KernelOK(r, X)
         /\ k.cur = NoThread => r.cur = k.cur
         /\ k.cur # NoThread => Scheduled(k, r, X)
         /\ r.stat = [k.stat EXCEPT ![t] = "READY"] /\ r.nest = k.nest
         /\ r.timer \subseteq k.timer /\ r.gone = k.gone
<1>1. PICK a : a = SetPrio(k, t, InitPriority[t]) OBVIOUS
<1>2. PICK b : b = SetStat(a, t, "SUSPEND") OBVIOUS
<1>3. PICK c : c = rt_thread_resume(b, t) OBVIOUS
<1>4. r = IF k.cur # NoThread THEN rt_schedule(c) ELSE c
  BY <1>1, <1>2, <1>3 DEF rt_thread_startup
<1>5. InitPriority[t] \in Priority BY KernelAssumption DEF Priority
<1>6. /\ a \in KernelState /\ KernelOK(a, X)
      /\ a.stat = k.stat /\ a.timer = k.timer
      /\ a.cur = k.cur /\ a.nest = k.nest /\ a.gone = k.gone
  BY <1>1, <1>5, SetPrioOK
<1>7. /\ b \in KernelState /\ b.stat = [a.stat EXCEPT ![t] = "SUSPEND"]
      /\ b.stat[t] = "SUSPEND" /\ \A u \in Thread \ {t} : b.stat[u] = a.stat[u]
      /\ b.prio = a.prio /\ b.error = a.error /\ b.timer = a.timer
      /\ b.cur = a.cur /\ b.nest = a.nest /\ b.gone = a.gone /\ b.wait = a.wait
      /\ b.defunct = a.defunct /\ b.ready = a.ready /\ b.group = a.group
  BY <1>2, <1>6, StatUpdate, Stats
<1>8. KernelOK(b, X)
  <2>1. PICK Y : Y = X \cup {t} OBVIOUS
  <2>2. Detached(a, t)
    BY <1>6 DEF KernelOK, Detached, Loose, WaitListsOK, TimersOK, DefunctOK
  <2>3. ReadyListsOK(a, Y) BY <1>6, <2>1 DEF KernelOK, ReadyListsOK
  <2>4. KernelOK(a, Y) /\ t \notin a.timer
    BY <1>6, <2>1, <2>2, <2>3 DEF KernelOK, Detached
  <2>5. KernelOK(b, Y \ {t}) BY <1>6, <1>7, <2>1, <2>4, SetStatOK
  <2>6. Y \ {t} = X BY <2>1
  <2> QED BY <2>5, <2>6
<1>9. /\ c \in KernelState /\ KernelOK(c, X)
      /\ c.stat = [b.stat EXCEPT ![t] = "READY"] /\ c.prio = b.prio
      /\ c.cur = b.cur /\ c.nest = b.nest
      /\ c.gone = b.gone /\ c.group # {} /\ c.timer \subseteq b.timer
  <2>1. b \in KernelState /\ b.stat[t] = "SUSPEND" BY <1>7
  <2> QED BY <1>3, <1>8, <2>1, ResumeOK
<1>10. c.stat = [k.stat EXCEPT ![t] = "READY"] BY <1>6, <1>7, <1>9, KernelTypes
<1>11. CASE k.cur = NoThread BY <1>4, <1>6, <1>7, <1>9, <1>10, <1>11
<1>12. CASE k.cur # NoThread
  <2>1. r = rt_schedule(c) BY <1>4, <1>12
  <2>2. /\ r \in KernelState /\ KernelOK(r, X)
        /\ r.stat = c.stat /\ r.prio = c.prio /\ r.timer = c.timer
        /\ r.nest = c.nest /\ r.gone = c.gone /\ Scheduled(c, r, X)
    BY <1>9, <2>1, ScheduleOK
  <2> QED BY <1>6, <1>7, <1>9, <1>10, <1>12, <2>2 DEF Scheduled
<1> QED BY <1>11, <1>12

\* rt_thread_yield rotates the ready list of the current thread.
LEMMA YieldOK ==
  ASSUME NEW k \in KernelState, NEW X, KernelOK(k, X), k.cur \in Thread,
         NEW r, r = rt_thread_yield(k)
  PROVE  /\ r \in KernelState /\ KernelOK(r, X)
         /\ r.cur = k.cur \/ Scheduled(k, r, X)
         /\ r.stat = k.stat /\ r.prio = k.prio /\ r.error = k.error
         /\ r.timer = k.timer /\ r.nest = k.nest /\ r.gone = k.gone
<1> DEFINE c == k.cur
           p == k.prio[c]
           s == Unlink(k.ready[p], c)
<1>1. CASE r = k BY <1>1
<1>2. CASE r # k
  <2>1. c \in ToSet(k.ready[p]) /\ r = rt_schedule([k EXCEPT !.ready[p] = Append(Unlink(@, c), c)])
    BY <1>2 DEF rt_thread_yield
  <2>2. PICK a : a = [k EXCEPT !.ready[p] = Append(Unlink(@, c), c)] OBVIOUS
  <2>3. p \in Priority /\ k.ready[p] \in Seq(Thread) BY KernelTypes
  <2>4. NoDup(k.ready[p]) BY <2>3 DEF KernelOK, ReadyListsOK
  <2>5. s \in Seq(Thread) /\ NoDup(s) /\ ToSet(s) = ToSet(k.ready[p]) \ {c}
    BY <2>3, <2>4, UnlinkList
  <2>6. a.ready = [k.ready EXCEPT ![p] = Append(s, c)] BY <2>2 DEF KernelState
  <2> HIDE DEF s
  <2>7. /\ Append(s, c) \in Seq(Thread) /\ Append(s, c) # <<>>
        /\ NoDup(Append(s, c)) /\ ToSet(Append(s, c)) = ToSet(s) \cup {c}
    BY <2>5, AppendList
  <2>8. ToSet(Append(s, c)) = ToSet(k.ready[p]) BY <2>1, <2>5, <2>7
  <2>9. k.ready[p] # <<>> BY <2>1, <2>3, EmptyList
  <2>10. /\ a.stat = k.stat /\ a.prio = k.prio /\ a.error = k.error
         /\ a.timer = k.timer /\ a.nest = k.nest /\ a.gone = k.gone
         /\ a.wait = k.wait /\ a.defunct = k.defunct /\ a.group = k.group
         /\ a.cur = k.cur
    BY <2>2 DEF KernelState
  <2>11. a \in KernelState
    <3>1. a.ready \in [Priority -> Seq(Thread)] BY <2>3, <2>6, <2>7, KernelTypes
    <3> QED BY <2>2, <3>1 DEF KernelState
  <2>12. \A q \in Priority : a.ready[q] = IF q = p THEN Append(s, c) ELSE k.ready[q]
    BY <2>3, <2>6, KernelTypes
  <2>13. ReadyListsOK(a, X)
    <3>1. \A q \in Priority : NoDup(a.ready[q])
      BY <2>7, <2>12 DEF KernelOK, ReadyListsOK
    <3>2. \A q \in Priority : ToSet(a.ready[q]) = ToSet(k.ready[q]) BY <2>8, <2>12
    <3>3. \A q \in Priority : a.ready[q] = <<>> <=> k.ready[q] = <<>>
      BY <2>7, <2>9, <2>12
    <3> QED BY <2>10, <3>1, <3>2, <3>3 DEF KernelOK, ReadyListsOK
  <2>14. KernelOK(a, X)
    BY <2>10, <2>13 DEF KernelOK, WaitListsOK, TimersOK, DefunctOK, Detached, Loose
  <2>15. a.group # {} BY <2>3, <2>9, <2>10 DEF KernelOK, ReadyListsOK
  <2>16. r = rt_schedule(a) BY <2>1, <2>2
  <2>17. /\ r \in KernelState /\ KernelOK(r, X)
         /\ r.stat = a.stat /\ r.prio = a.prio /\ r.error = a.error
         /\ r.timer = a.timer /\ r.nest = a.nest /\ r.gone = a.gone
         /\ Scheduled(a, r, X)
    BY <2>11, <2>14, <2>15, <2>16, ScheduleOK
  <2> QED BY <2>10, <2>17 DEF Scheduled
<1> QED BY <1>1, <1>2

\* rt_exit_critical reschedules when it leaves the outermost section.
LEMMA ExitCriticalOK ==
  ASSUME NEW k \in KernelState, NEW X, KernelOK(k, X), k.group # {},
         NEW r, r = rt_exit_critical(k)
  PROVE  /\ r \in KernelState /\ KernelOK(r, X)
         /\ r.cur = k.cur \/ (r.nest = 0 /\ Scheduled(r, r, X))
         /\ r.nest = 0 => Scheduled(r, r, X)
         /\ r.stat = k.stat /\ r.prio = k.prio /\ r.error = k.error
         /\ r.timer = k.timer /\ r.gone = k.gone
<1>1. CASE k.nest <= 1
  <2>1. PICK a : a = [k EXCEPT !.nest = 0] OBVIOUS
  <2>2. r = rt_schedule(a) BY <1>1, <2>1 DEF rt_exit_critical
  <2>3. /\ a \in KernelState /\ a.nest = 0 /\ a.cur = k.cur
        /\ a.stat = k.stat /\ a.prio = k.prio /\ a.error = k.error
        /\ a.timer = k.timer /\ a.gone = k.gone /\ a.ready = k.ready
        /\ a.wait = k.wait /\ a.defunct = k.defunct /\ a.group = k.group
    BY <2>1 DEF KernelState
  <2>4. KernelOK(a, X) BY <2>3, FrameOK
  <2>5. a.group # {} BY <2>3
  <2>6. /\ r \in KernelState /\ KernelOK(r, X)
        /\ r.stat = a.stat /\ r.prio = a.prio /\ r.error = a.error
        /\ r.timer = a.timer /\ r.nest = a.nest /\ r.gone = a.gone
        /\ Scheduled(a, r, X)
    BY <2>2, <2>3, <2>4, <2>5, ScheduleOK
  <2> QED BY <2>3, <2>6 DEF Scheduled
<1>2. CASE ~(k.nest <= 1)
  <2>1. PICK n \in Nat : n = k.nest - 1 /\ n # 0 BY <1>2, KernelTypes
  <2>2. r = [k EXCEPT !.nest = n] BY <1>2, <2>1 DEF rt_exit_critical
  <2>3. /\ r \in KernelState /\ r.nest # 0 /\ r.cur = k.cur
        /\ r.stat = k.stat /\ r.prio = k.prio /\ r.error = k.error
        /\ r.timer = k.timer /\ r.gone = k.gone /\ r.ready = k.ready
        /\ r.wait = k.wait /\ r.defunct = k.defunct /\ r.group = k.group
    BY <2>1, <2>2 DEF KernelState
  <2>4. KernelOK(r, X) BY <2>3, FrameOK
  <2> QED BY <2>3, <2>4
<1> QED BY <1>1, <1>2

\* A thread is linked into a waiting list once, in its place by priority.
LEMMA InsertByPriorityList ==
  ASSUME NEW k \in KernelState, NEW s \in Seq(Thread), NEW t \in Thread,
         NEW r, r = InsertByPriority(k, s, t)
  PROVE  /\ r \in Seq(Thread) /\ ToSet(r) = ToSet(s) \cup {t}
         /\ NoDup(s) /\ t \notin ToSet(s) => NoDup(r)
         /\ Sorted(s, k.prio) => Sorted(r, k.prio)
<1> DEFINE I == {i \in 1 .. Len(s) : k.prio[t] < k.prio[s[i]]}
           n == IF I # {} THEN Min(I) ELSE 0
<1>1. n = SelectInSeq(s, LAMBDA u : k.prio[t] < k.prio[u]) BY DEF SelectInSeq
<1>2. r = LinkAt(s, n, t) BY <1>1 DEF InsertByPriority
<1>3. PICK J : J = I OBVIOUS
<1>4. Len(s) \in Nat /\ J \subseteq 1 .. Len(s) BY <1>3
<1>5. n = IF J # {} THEN Min(J) ELSE 0 BY <1>3
<1> HIDE DEF n
<1>6. n \in 0 .. Len(s) BY <1>4, <1>5, FirstPlace
<1>7. /\ r \in Seq(Thread) /\ ToSet(r) = ToSet(s) \cup {t}
      /\ NoDup(s) /\ t \notin ToSet(s) => NoDup(r)
  BY <1>2, <1>6, LinkAtList
<1>8. ASSUME Sorted(s, k.prio) PROVE Sorted(r, k.prio)
  <2>1. k.prio \in [Thread -> Int] BY KernelTypes DEF Priority
  <2>2. PICK key : key = k.prio OBVIOUS
  <2>3. key \in [Thread -> Int] /\ Sorted(s, key) BY <1>8, <2>1, <2>2
  <2>4. \A i \in 1 .. Len(s) : i \in J <=> key[t] < key[s[i]] BY <1>3, <2>2
  <2>5. /\ n \in 0 .. Len(s) /\ n = 0 => J = {}
        /\ n # 0 => n \in J /\ \A i \in J : n <= i
    BY <1>4, <1>5, FirstPlace, Zenon
  <2>6. key[t] \in Int /\ \A i \in 1 .. Len(s) : key[s[i]] \in Int BY <2>3
  <2>7. ASSUME NEW i \in 1 .. Len(s), n = 0 \/ i < n PROVE key[s[i]] <= key[t]
    <3>1. i \notin J BY <1>6, <2>5, <2>7
    <3>2. ~(key[t] < key[s[i]]) BY <2>4, <3>1
    <3>3. key[t] \in Int /\ key[s[i]] \in Int BY <2>6
    <3> QED BY <3>2, <3>3
  <2>8. ASSUME n # 0 PROVE key[t] <= key[s[n]]
    <3>1. n \in 1 .. Len(s) BY <1>4, <1>6, <2>8
    <3>2. key[t] < key[s[n]] BY <2>4, <2>5, <2>8, <3>1
    <3>3. key[t] \in Int /\ key[s[n]] \in Int BY <2>6, <3>1
    <3> QED BY <3>2, <3>3
  <2>9. Sorted(LinkAt(s, n, t), key) BY <1>6, <2>3, <2>7, <2>8, LinkSorted
  <2> QED BY <1>2, <2>2, <2>9
<1> QED BY <1>7, <1>8

\* rt_ipc_list_suspend leaves the ready thread on that waiting list only.
LEMMA ListSuspendOK ==
  ASSUME NEW k \in KernelState, NEW X, KernelOK(k, X), NEW t \in Thread \ X,
         k.stat[t] = "READY", NEW w \in WaitList, NEW flag,
         NEW r, r = rt_ipc_list_suspend(k, w, t, flag)
  PROVE  /\ r \in KernelState /\ KernelOK(r, X)
         /\ r.stat = [k.stat EXCEPT ![t] = "SUSPEND"] /\ r.prio = k.prio
         /\ r.error = k.error /\ r.cur = k.cur /\ r.nest = k.nest
         /\ r.gone = k.gone /\ r.timer \subseteq k.timer
<1>1. PICK s : s = rt_thread_suspend(k, t) OBVIOUS
<1>2. PICK l : l = IF flag = "FIFO" THEN Append(s.wait[w], t)
                                    ELSE InsertByPriority(s, s.wait[w], t)
  OBVIOUS
<1>3. r = [s EXCEPT !.wait[w] = l]
  BY <1>1, <1>2 DEF rt_ipc_list_suspend
<1>4. X \ {t} = X OBVIOUS
<1>5. /\ s \in KernelState /\ KernelOK(s, X) /\ Detached(s, t)
      /\ s.stat = [k.stat EXCEPT ![t] = "SUSPEND"] /\ s.prio = k.prio
      /\ s.error = k.error /\ s.cur = k.cur /\ s.nest = k.nest
      /\ s.gone = k.gone /\ s.timer \subseteq k.timer
  <2>1. /\ s \in KernelState /\ KernelOK(s, X \ {t}) /\ Detached(s, t)
        /\ s.stat = [k.stat EXCEPT ![t] = "SUSPEND"] /\ s.prio = k.prio
        /\ s.error = k.error /\ s.cur = k.cur /\ s.nest = k.nest
        /\ s.gone = k.gone /\ s.timer \subseteq k.timer
    BY <1>1, SuspendOK
  <2> QED BY <1>4, <2>1
<1>6. s.stat[t] = "SUSPEND" BY <1>5, KernelTypes
<1>7. s.wait[w] \in Seq(Thread) /\ NoDup(s.wait[w]) /\ t \notin ToSet(s.wait[w])
  BY <1>5, KernelTypes DEF KernelOK, WaitListsOK, Detached, Loose
<1>8. l \in Seq(Thread) /\ NoDup(l) /\ ToSet(l) = ToSet(s.wait[w]) \cup {t}
  <2>1. CASE flag = "FIFO" BY <1>2, <1>7, <2>1, AppendList
  <2>2. CASE flag # "FIFO"
    <3>1. l = InsertByPriority(s, s.wait[w], t) BY <1>2, <2>2
    <3>2. PICK v : v = s.wait[w] OBVIOUS
    <3>3. l \in Seq(Thread) /\ ToSet(l) = ToSet(v) \cup {t} /\ NoDup(l)
      BY <1>5, <1>7, <3>1, <3>2, InsertByPriorityList
    <3> QED BY <3>2, <3>3
  <2> QED BY <2>1, <2>2
<1>9. /\ r.wait = [s.wait EXCEPT ![w] = l]
      /\ r.stat = s.stat /\ r.prio = s.prio /\ r.error = s.error
      /\ r.timer = s.timer /\ r.cur = s.cur /\ r.nest = s.nest
      /\ r.gone = s.gone /\ r.ready = s.ready /\ r.group = s.group
      /\ r.defunct = s.defunct
  BY <1>3, <1>5 DEF KernelState
<1>10. r \in KernelState
  <2>1. r.wait \in [WaitList -> Seq(Thread)] BY <1>5, <1>8, <1>9, KernelTypes
  <2> QED BY <1>3, <1>5, <2>1 DEF KernelState
<1>11. \A v \in WaitList : r.wait[v] = IF v = w THEN l ELSE s.wait[v]
  BY <1>5, <1>9, KernelTypes
<1>12. WaitListsOK(r)
  <2>1. \A v \in WaitList : NoDup(r.wait[v])
    BY <1>5, <1>8, <1>11 DEF KernelOK, WaitListsOK
  <2>2. \A v \in WaitList : ToSet(r.wait[v])
          = IF v = w THEN ToSet(s.wait[w]) \cup {t} ELSE ToSet(s.wait[v])
    BY <1>8, <1>11
  <2>3. \A v \in WaitList : t \notin ToSet(s.wait[v]) BY <1>5 DEF Detached, Loose
  <2>4. \A v \in WaitList : \A u \in ToSet(s.wait[v]) :
          /\ s.stat[u] = "SUSPEND"
          /\ \A v2 \in WaitList : u \in ToSet(s.wait[v2]) => v2 = v
    BY <1>5 DEF KernelOK, WaitListsOK
  <2>5. ASSUME NEW v \in WaitList, NEW u \in ToSet(r.wait[v])
        PROVE  /\ r.stat[u] = "SUSPEND"
               /\ \A v2 \in WaitList : u \in ToSet(r.wait[v2]) => v2 = v
    BY <1>6, <1>9, <2>2, <2>3, <2>4
  <2> QED BY <2>1, <2>5 DEF WaitListsOK
<1>13. ReadyListsOK(r, X) /\ TimersOK(r) /\ DefunctOK(r)
  BY <1>5, <1>9 DEF KernelOK, ReadyListsOK, TimersOK, DefunctOK
<1>14. \A u \in X : Loose(r, u)
  <2>1. ASSUME NEW u \in X PROVE Loose(r, u)
    <3>1. Loose(s, u) /\ u # t BY <1>5 DEF KernelOK
    <3> QED BY <1>8, <1>9, <1>11, <3>1 DEF Detached, Loose
  <2> QED BY <2>1
<1> QED BY <1>5, <1>9, <1>10, <1>12, <1>13, <1>14 DEF KernelOK

\* A closed thread that is linked nowhere is left to the idle thread.
LEMMA MakeDefunctOK ==
  ASSUME NEW k \in KernelState, NEW X, KernelOK(k, X), NEW t \in Thread,
         k.stat[t] = "CLOSE", Detached(k, t),
         NEW r, r = MakeDefunct(k, t)
  PROVE  /\ r \in KernelState /\ KernelOK(r, X \ {t})
         /\ r.stat = k.stat /\ r.prio = k.prio /\ r.error = k.error
         /\ r.timer = k.timer /\ r.cur = k.cur /\ r.nest = k.nest
         /\ r.gone = k.gone
<1>1. k.defunct \in Seq(Thread) /\ NoDup(k.defunct) /\ t \notin ToSet(k.defunct)
  BY KernelTypes DEF KernelOK, DefunctOK, Detached, Loose
<1>2. PICK l : l = <<t>> \o k.defunct OBVIOUS
<1>3. l \in Seq(Thread) /\ NoDup(l) /\ ToSet(l) = ToSet(k.defunct) \cup {t}
  BY <1>1, <1>2, PrependList
<1>4. r = [k EXCEPT !.defunct = l] BY <1>2 DEF MakeDefunct
<1>5. /\ r \in KernelState /\ r.defunct = l
      /\ r.stat = k.stat /\ r.prio = k.prio /\ r.error = k.error
      /\ r.timer = k.timer /\ r.cur = k.cur /\ r.nest = k.nest
      /\ r.gone = k.gone /\ r.wait = k.wait /\ r.ready = k.ready /\ r.group = k.group
  BY <1>3, <1>4 DEF KernelState
<1>6. ReadyListsOK(r, X \ {t}) BY <1>5 DEF KernelOK, ReadyListsOK
<1>7. WaitListsOK(r) /\ TimersOK(r) BY <1>5 DEF KernelOK, WaitListsOK, TimersOK
<1>8. DefunctOK(r) BY <1>3, <1>5 DEF KernelOK, DefunctOK, Detached, Loose
<1>9. \A u \in X \ {t} : Loose(r, u) BY <1>3, <1>5 DEF KernelOK, Detached, Loose
<1> QED BY <1>5, <1>6, <1>7, <1>8, <1>9 DEF KernelOK

\* A closed thread needs no exemption: the ready lists hold READY threads.
LEMMA ExemptClosedOK ==
  ASSUME NEW k \in KernelState, NEW X, KernelOK(k, X), NEW t \in Thread,
         k.stat[t] = "CLOSE"
  PROVE  KernelOK(k, X \ {t})
<1>1. ReadyListsOK(k, X \ {t}) BY DEF KernelOK, ReadyListsOK
<1> QED BY <1>1 DEF KernelOK

\* A closed thread that is linked nowhere may be freed.
LEMMA DetachOK ==
  ASSUME NEW k \in KernelState, NEW X, KernelOK(k, X), NEW t \in Thread \ X,
         k.stat[t] = "CLOSE", t \notin ToSet(k.defunct),
         NEW r, r = rt_object_detach(k, t)
  PROVE  /\ r \in KernelState /\ KernelOK(r, X)
         /\ r.stat = k.stat /\ r.prio = k.prio /\ r.error = k.error
         /\ r.timer = k.timer /\ r.cur = k.cur /\ r.nest = k.nest
         /\ r.gone = k.gone \cup {t}
<1>1. /\ r \in KernelState /\ r.gone = k.gone \cup {t}
      /\ r.stat = k.stat /\ r.prio = k.prio /\ r.error = k.error
      /\ r.timer = k.timer /\ r.cur = k.cur /\ r.nest = k.nest
      /\ r.defunct = k.defunct /\ r.wait = k.wait /\ r.ready = k.ready
      /\ r.group = k.group
  BY DEF rt_object_detach, KernelState
<1>2. ReadyListsOK(r, X) /\ WaitListsOK(r) /\ TimersOK(r)
  BY <1>1 DEF KernelOK, ReadyListsOK, WaitListsOK, TimersOK
<1>3. DefunctOK(r) BY <1>1 DEF KernelOK, DefunctOK
<1>4. \A u \in X : Loose(r, u) BY <1>1 DEF KernelOK, Detached, Loose
<1> QED BY <1>1, <1>2, <1>3, <1>4 DEF KernelOK

\* Unlinking a closed thread from the defunct list.
LEMMA UnlinkClosedOK ==
  ASSUME NEW k \in KernelState, NEW X, KernelOK(k, X), NEW t \in Thread,
         k.stat[t] = "CLOSE",
         NEW r, r = rt_list_remove(k, t)
  PROVE  /\ r \in KernelState /\ KernelOK(r, X) /\ t \notin ToSet(r.defunct)
         /\ r.stat = k.stat /\ r.prio = k.prio /\ r.error = k.error
         /\ r.timer = k.timer /\ r.cur = k.cur /\ r.nest = k.nest
         /\ r.gone = k.gone
<1>1. /\ r \in KernelState
      /\ r.stat = k.stat /\ r.prio = k.prio /\ r.error = k.error
      /\ r.timer = k.timer /\ r.group = k.group /\ r.cur = k.cur
      /\ r.nest = k.nest /\ r.gone = k.gone
      /\ \A p \in Priority : /\ NoDup(r.ready[p])
                             /\ ToSet(r.ready[p]) = ToSet(k.ready[p]) \ {t}
      /\ \A w \in WaitList : /\ NoDup(r.wait[w])
                             /\ ToSet(r.wait[w]) = ToSet(k.wait[w]) \ {t}
      /\ NoDup(r.defunct) /\ ToSet(r.defunct) = ToSet(k.defunct) \ {t}
  <2>1. RemovedFrom(k, r, t) BY ListRemoveOK
  <2> QED BY <2>1 DEF RemovedFrom
<1>2. \A p \in Priority : t \notin ToSet(k.ready[p]) BY DEF KernelOK, ReadyListsOK
<1>3. \A p \in Priority : ToSet(r.ready[p]) = ToSet(k.ready[p]) BY <1>1, <1>2
<1>4. ASSUME NEW p \in Priority PROVE r.ready[p] = <<>> <=> k.ready[p] = <<>>
  <2>1. r.ready[p] \in Seq(Thread) /\ k.ready[p] \in Seq(Thread) BY <1>1, KernelTypes
  <2> QED BY <1>3, <2>1, EmptyList
<1>5. ReadyListsOK(r, X) BY <1>1, <1>3, <1>4 DEF KernelOK, ReadyListsOK
<1>6. WaitListsOK(r) BY <1>1 DEF KernelOK, WaitListsOK
<1>7. TimersOK(r) /\ DefunctOK(r) BY <1>1 DEF KernelOK, TimersOK, DefunctOK
<1>8. \A u \in X : Loose(r, u) BY <1>1 DEF KernelOK, Detached, Loose
<1> QED BY <1>1, <1>5, <1>6, <1>7, <1>8 DEF KernelOK

\* _rt_thread_init in the place of a thread that is gone.
LEMMA ThreadInitOK ==
  ASSUME NEW k \in KernelState, NEW X, KernelOK(k, X), NEW t \in Thread, t \in k.gone,
         NEW r, r = rt_thread_init(k, t)
  PROVE  /\ r \in KernelState /\ KernelOK(r, X)
         /\ r.stat = [k.stat EXCEPT ![t] = "INIT"]
         /\ r.timer = k.timer /\ r.cur = k.cur /\ r.nest = k.nest
         /\ r.gone = k.gone \ {t}
<1>1. InitPriority[t] \in Priority BY KernelAssumption DEF Priority
<1>2. /\ r.stat = [k.stat EXCEPT ![t] = "INIT"]
      /\ r.prio = [k.prio EXCEPT ![t] = InitPriority[t]]
      /\ r.error = [k.error EXCEPT ![t] = "EOK"]
      /\ r.gone = k.gone \ {t}
      /\ r.timer = k.timer /\ r.cur = k.cur /\ r.nest = k.nest
      /\ r.defunct = k.defunct /\ r.wait = k.wait /\ r.ready = k.ready
      /\ r.group = k.group
  BY DEF rt_thread_init, KernelState
<1>3. r \in KernelState
  <2>1. /\ r.stat \in [Thread -> Stat] /\ r.prio \in [Thread -> Priority]
        /\ r.error \in [Thread -> Error]
    BY <1>1, <1>2, KernelTypes, Stats, Errors
  <2>2. r.gone \in SUBSET Thread BY <1>2, KernelTypes
  <2> QED BY <2>1, <2>2 DEF rt_thread_init, KernelState
<1>4. k.stat[t] = "CLOSE" /\ t \notin ToSet(k.defunct) /\ t \notin X
  BY DEF KernelOK, DefunctOK, Detached, Loose
<1>5. \A u \in Thread : /\ r.stat[u] = IF u = t THEN "INIT" ELSE k.stat[u]
                        /\ u # t => r.prio[u] = k.prio[u]
  BY <1>2, KernelTypes
<1>6. ReadyListsOK(r, X)
  <2>1. \A q \in Priority : ToSet(k.ready[q])
          = {u \in Thread \ X : k.stat[u] = "READY" /\ k.prio[u] = q}
    BY DEF KernelOK, ReadyListsOK
  <2>2. \A q \in Priority : ToSet(r.ready[q])
          = {u \in Thread \ X : r.stat[u] = "READY" /\ r.prio[u] = q}
    BY <1>2, <1>4, <1>5, <2>1
  <2> QED BY <1>2, <2>2 DEF KernelOK, ReadyListsOK
<1>7. WaitListsOK(r) BY <1>2, <1>4, <1>5, ListMembers DEF KernelOK, WaitListsOK
<1>8. TimersOK(r) BY <1>2, <1>4, <1>5, KernelTypes DEF KernelOK, TimersOK
<1>9. DefunctOK(r)
  BY <1>2, <1>4, <1>5, ListMembers, KernelTypes DEF KernelOK, DefunctOK
<1>10. \A u \in X : Loose(r, u) BY <1>2, <1>4 DEF KernelOK, Detached, Loose
<1> QED BY <1>2, <1>3, <1>6, <1>7, <1>8, <1>9, <1>10 DEF KernelOK

-----------------------------------------------------------------------------
(* Effects *)

Sound(k) == k \in KernelState /\ KernelOK(k, {})

\* What no function used here changes.
Kept(k, r) == r.prio = k.prio /\ r.nest = k.nest /\ r.gone = k.gone

\* t is READY, without a timer and on no waiting list; the others are where
\* they were.
Woken(k, r, t) ==
  /\ Sound(r) /\ Kept(k, r) /\ r.group # {}
  /\ r.stat = [k.stat EXCEPT ![t] = "READY"]
  /\ r.timer = k.timer \ {t}
  /\ \A w \in WaitList : ToSet(r.wait[w]) = ToSet(k.wait[w]) \ {t}

\* c is suspended and linked nowhere.
Parked(k, r, c) ==
  /\ Sound(r) /\ Kept(k, r)
  /\ r.cur = k.cur /\ r.stat = [k.stat EXCEPT ![c] = "SUSPEND"]
  /\ \A w \in WaitList : ToSet(r.wait[w]) = ToSet(k.wait[w])

\* c is suspended on the waiting list w.
Linked(k, r, w, c) ==
  /\ Sound(r) /\ Kept(k, r) /\ r.cur = k.cur
  /\ r.stat = [k.stat EXCEPT ![c] = "SUSPEND"]
  /\ r.error = k.error /\ r.timer = k.timer
  /\ \A v \in WaitList :
       ToSet(r.wait[v]) = ToSet(k.wait[v]) \cup (IF v = w THEN {c} ELSE {})

\* The same, and the result is EOK until something else happens, with a
\* timer if the wait is timed.
Queued(k, r, w, c, time) ==
  /\ Sound(r) /\ Kept(k, r)
  /\ r.cur = k.cur /\ r.stat = [k.stat EXCEPT ![c] = "SUSPEND"]
  /\ r.error = [k.error EXCEPT ![c] = "EOK"]
  /\ r.timer = IF time = "timed" THEN k.timer \cup {c} ELSE k.timer
  /\ \A v \in WaitList :
       ToSet(r.wait[v]) = ToSet(k.wait[v]) \cup (IF v = w THEN {c} ELSE {})

\* Only the current thread and the order of a ready list may have changed;
\* the current thread is READY.
Dispatched(k, r) ==
  /\ Sound(r) /\ Kept(k, r)
  /\ r.stat = k.stat /\ r.error = k.error /\ r.timer = k.timer /\ r.wait = k.wait
  /\ r.cur \in Thread /\ r.stat[r.cur] = "READY"

-----------------------------------------------------------------------------
\* With a READY thread the bitmap is not empty.
LEMMA ReadyInGroup ==
  ASSUME NEW k, Sound(k), NEW t \in Thread, k.stat[t] = "READY"
  PROVE  k.group # {}
<1>1. k \in KernelState /\ KernelOK(k, {}) BY DEF Sound
<1>2. k.prio[t] \in Priority /\ k.ready \in [Priority -> Seq(Thread)] BY <1>1, KernelTypes
<1>3. t \in ToSet(k.ready[k.prio[t]]) BY <1>1, <1>2 DEF KernelOK, ReadyListsOK
<1>4. k.ready[k.prio[t]] # <<>> BY <1>2, <1>3, EmptyList
<1> QED BY <1>1, <1>2, <1>4 DEF KernelOK, ReadyListsOK

\* A READY thread has no timer and is on no waiting list.
LEMMA ReadyIsFree ==
  ASSUME NEW k, Sound(k), NEW t \in Thread, k.stat[t] = "READY"
  PROVE  t \notin k.timer /\ \A w \in WaitList : t \notin ToSet(k.wait[w])
BY DEF Sound, KernelOK, WaitListsOK, TimersOK

\* The lists that rt_list_remove leaves.
LEMMA RemovedFromWait ==
  ASSUME NEW k, Sound(k), NEW t \in Thread
  PROVE  \A w \in WaitList : ToSet(rt_list_remove(k, t).wait[w]) = ToSet(k.wait[w]) \ {t}
<1>1. PICK r : r = rt_list_remove(k, t) OBVIOUS
<1>2. k \in KernelState /\ KernelOK(k, {}) BY DEF Sound
<1>3. PICK X : X = {} OBVIOUS
<1>4. KernelOK(k, X) BY <1>2, <1>3
<1>5. \A w \in WaitList : ToSet(r.wait[w]) = ToSet(k.wait[w]) \ {t}
  <2>1. RemovedFrom(k, r, t) BY <1>1, <1>2, <1>4, ListRemoveOK
  <2> QED BY <2>1 DEF RemovedFrom
<1> QED BY <1>1, <1>5

\* rt_schedule with the scheduler unlocked.
LEMMA DispatchEffect ==
  ASSUME NEW k, Sound(k), k.group # {}, k.nest = 0, NEW r, r = rt_schedule(k)
  PROVE  Dispatched(k, r)
<1>1. k \in KernelState /\ KernelOK(k, {}) BY DEF Sound
<1>2. PICK X : X = {} OBVIOUS
<1>3. KernelOK(k, X) BY <1>1, <1>2
<1>4. /\ r \in KernelState /\ KernelOK(r, X)
      /\ r.stat = k.stat /\ r.prio = k.prio /\ r.error = k.error
      /\ r.timer = k.timer /\ r.nest = k.nest
      /\ r.gone = k.gone /\ r.wait = k.wait
      /\ Scheduled(k, r, X)
  BY <1>1, <1>3, ScheduleOK
<1> QED BY <1>2, <1>4 DEF Dispatched, Sound, Kept, Scheduled

\* rt_thread_yield with the scheduler unlocked.
LEMMA YieldEffect ==
  ASSUME NEW k, Sound(k), k.cur \in Thread, k.stat[k.cur] = "READY", k.nest = 0,
         NEW r, r = rt_thread_yield(k)
  PROVE  Dispatched(k, r)
<1>1. k \in KernelState /\ KernelOK(k, {}) BY DEF Sound
<1>2. PICK X : X = {} OBVIOUS
<1>3. KernelOK(k, X) BY <1>1, <1>2
<1>4. /\ r \in KernelState /\ KernelOK(r, X)
      /\ r.cur = k.cur \/ Scheduled(k, r, X)
      /\ r.stat = k.stat /\ r.prio = k.prio /\ r.error = k.error
      /\ r.timer = k.timer /\ r.nest = k.nest /\ r.gone = k.gone
  BY <1>1, <1>3, YieldOK
<1>5. r.wait = k.wait BY <1>1 DEF rt_thread_yield, rt_schedule, KernelState
<1> QED BY <1>2, <1>4, <1>5 DEF Dispatched, Sound, Kept, Scheduled

\* rt_thread_resume of a suspended thread.
LEMMA ResumeEffect ==
  ASSUME NEW k, Sound(k), NEW t \in Thread, k.stat[t] = "SUSPEND",
         NEW r, r = rt_thread_resume(k, t)
  PROVE  Woken(k, r, t) /\ r.error = k.error /\ r.cur = k.cur
<1>1. k \in KernelState /\ KernelOK(k, {}) BY DEF Sound
<1>2. PICK X : X = {} OBVIOUS
<1>3. KernelOK(k, X) /\ t \in Thread \ X BY <1>1, <1>2
<1>4. /\ r \in KernelState /\ KernelOK(r, X)
      /\ r.stat = [k.stat EXCEPT ![t] = "READY"] /\ r.prio = k.prio
      /\ r.error = k.error /\ r.cur = k.cur /\ r.nest = k.nest
      /\ r.gone = k.gone /\ r.group # {}
  BY <1>1, <1>3, ResumeOK
<1>5. PICK a : a = rt_list_remove(k, t) OBVIOUS
<1>6. PICK b : b = rt_timer_stop(a, t) OBVIOUS
<1>7. r = rt_schedule_insert_thread(b, t) BY <1>5, <1>6 DEF rt_thread_resume
<1>8. a \in KernelState /\ a.timer = k.timer BY <1>1, <1>3, <1>5, ListRemoveOK DEF RemovedFrom
<1>9. b \in KernelState /\ b.timer = a.timer \ {t} /\ b.wait = a.wait
  BY <1>6, <1>8 DEF rt_timer_stop, KernelState
<1>10. r.timer = b.timer /\ r.wait = b.wait
  BY <1>7, <1>9 DEF rt_schedule_insert_thread, KernelState
<1>11. \A w \in WaitList : ToSet(a.wait[w]) = ToSet(k.wait[w]) \ {t}
  BY <1>5, RemovedFromWait
<1> QED BY <1>2, <1>4, <1>8, <1>9, <1>10, <1>11 DEF Woken, Sound, Kept

\* The timer of t expires while the scheduler is unlocked.
LEMMA TimeoutEffect ==
  ASSUME NEW k, Sound(k), NEW t \in k.timer, k.nest = 0,
         NEW r, r = rt_thread_timeout(rt_timer_stop(k, t), t)
  PROVE  /\ Woken(k, r, t) /\ r.error = [k.error EXCEPT ![t] = "ETIMEOUT"]
         /\ r.cur \in Thread /\ r.stat[r.cur] = "READY"
<1>1. k \in KernelState /\ KernelOK(k, {}) BY DEF Sound
<1>2. PICK X : X = {} OBVIOUS
<1>3. t \in Thread /\ k.stat[t] = "SUSPEND" BY <1>1, KernelTypes DEF KernelOK, TimersOK
<1>4. KernelOK(k, X) /\ t \in Thread \ X BY <1>1, <1>2, <1>3
<1>5. PICK s : s = rt_timer_stop(k, t) OBVIOUS
<1>6. /\ s \in KernelState /\ KernelOK(s, X) /\ s.timer = k.timer \ {t}
      /\ s.stat = k.stat /\ s.prio = k.prio /\ s.error = k.error
      /\ s.cur = k.cur /\ s.nest = k.nest /\ s.gone = k.gone /\ s.wait = k.wait
  BY <1>1, <1>3, <1>4, <1>5, TimerStopOK
<1>7. r = rt_thread_timeout(s, t) BY <1>5
<1>8. /\ r \in KernelState /\ KernelOK(r, X) /\ Scheduled(s, r, X)
      /\ r.stat = [s.stat EXCEPT ![t] = "READY"] /\ r.prio = s.prio
      /\ r.timer = s.timer /\ r.nest = s.nest /\ r.gone = s.gone
  BY <1>3, <1>4, <1>6, <1>7, TimeoutOK
<1>9. PICK e : e = SetError(s, t, "ETIMEOUT") OBVIOUS
<1>10. PICK a : a = rt_list_remove(e, t) OBVIOUS
<1>11. PICK b : b = rt_schedule_insert_thread(a, t) OBVIOUS
<1>12. r = rt_schedule(b) BY <1>7, <1>9, <1>10, <1>11 DEF rt_thread_timeout
<1>13. /\ e \in KernelState /\ KernelOK(e, X) /\ e.wait = s.wait
       /\ e.stat = s.stat /\ e.timer = s.timer
  BY <1>3, <1>6, <1>9, ErrorOK, Errors
<1>14. e.error = [s.error EXCEPT ![t] = "ETIMEOUT"] BY <1>6, <1>9 DEF SetError, KernelState
<1>15. /\ a \in KernelState /\ KernelOK(a, X) /\ Detached(a, t)
       /\ a.error = e.error /\ a.stat = e.stat
  <2>1. e.stat[t] = "SUSPEND" /\ t \notin e.timer BY <1>3, <1>6, <1>13
  <2> QED BY <1>3, <1>10, <1>13, <2>1, UnlinkSuspendedOK
<1>16. \A w \in WaitList : ToSet(a.wait[w]) = ToSet(e.wait[w]) \ {t}
  <2>1. Sound(e) BY <1>2, <1>13 DEF Sound
  <2> QED BY <1>3, <1>10, <2>1, RemovedFromWait
<1>17. b.wait = a.wait /\ b.error = a.error
  BY <1>11, <1>15 DEF rt_schedule_insert_thread, KernelState
<1>18. b \in KernelState
  <2>1. a.stat[t] # "READY" BY <1>3, <1>6, <1>13, <1>15
  <2> QED BY <1>3, <1>11, <1>15, <2>1, InsertThreadOK
<1>19. r.wait = b.wait /\ r.error = b.error BY <1>12, <1>18 DEF rt_schedule, KernelState
<1>20. r.group # {}
  <2>1. Sound(r) /\ r.cur \in Thread /\ r.stat[r.cur] = "READY"
    BY <1>2, <1>6, <1>8 DEF Sound, Scheduled
  <2> QED BY <2>1, ReadyInGroup
<1> QED BY <1>2, <1>6, <1>8, <1>13, <1>14, <1>15, <1>16, <1>17, <1>19, <1>20
    DEF Woken, Sound, Kept, Scheduled

\* rt_thread_suspend of a READY thread.
LEMMA SuspendEffect ==
  ASSUME NEW k, Sound(k), NEW c \in Thread, k.stat[c] = "READY",
         NEW r, r = rt_thread_suspend(k, c)
  PROVE  Parked(k, r, c) /\ r.error = k.error /\ r.timer = k.timer /\ Detached(r, c)
<1>1. k \in KernelState /\ KernelOK(k, {}) BY DEF Sound
<1>2. PICK X : X = {} OBVIOUS
<1>3. KernelOK(k, X) /\ X \ {c} = {} BY <1>1, <1>2
<1>4. /\ r \in KernelState /\ KernelOK(r, X \ {c}) /\ Detached(r, c)
      /\ r.stat = [k.stat EXCEPT ![c] = "SUSPEND"] /\ r.prio = k.prio
      /\ r.error = k.error /\ r.cur = k.cur /\ r.nest = k.nest /\ r.gone = k.gone
  BY <1>1, <1>3, SuspendOK
<1>5. PICK a : a = rt_list_remove(k, c) OBVIOUS
<1>6. PICK b : b = rt_schedule_remove_thread(k, c) OBVIOUS
<1>7. a \in KernelState /\ a.timer = k.timer BY <1>1, <1>3, <1>5, ListRemoveOK DEF RemovedFrom
<1>8. b.timer = a.timer /\ b.wait = a.wait /\ b \in KernelState
  BY <1>5, <1>6, <1>7 DEF rt_schedule_remove_thread, KernelState
<1>9. r = SetStat(rt_timer_stop(b, c), c, "SUSPEND") BY <1>6 DEF rt_thread_suspend
<1>10. r.timer = b.timer \ {c} /\ r.wait = b.wait
  BY <1>8, <1>9 DEF SetStat, rt_timer_stop, KernelState
<1>11. \A w \in WaitList : ToSet(a.wait[w]) = ToSet(k.wait[w]) \ {c}
  BY <1>5, RemovedFromWait
<1>12. c \notin k.timer /\ \A w \in WaitList : c \notin ToSet(k.wait[w]) BY ReadyIsFree
<1>13. r.timer = k.timer BY <1>7, <1>8, <1>10, <1>12
<1>14. ASSUME NEW w \in WaitList PROVE ToSet(r.wait[w]) = ToSet(k.wait[w])
  <2>1. ToSet(r.wait[w]) = ToSet(k.wait[w]) \ {c} BY <1>8, <1>10, <1>11
  <2>2. c \notin ToSet(k.wait[w]) BY <1>12
  <2> QED BY <2>1, <2>2
<1> QED BY <1>3, <1>4, <1>13, <1>14 DEF Parked, Sound, Kept

\* rt_ipc_list_suspend of a READY thread.
LEMMA ListSuspendEffect ==
  ASSUME NEW k, Sound(k), NEW c \in Thread, k.stat[c] = "READY",
         NEW w \in WaitList, NEW flag,
         NEW r, r = rt_ipc_list_suspend(k, w, c, flag)
  PROVE  Linked(k, r, w, c)
<1>1. k \in KernelState /\ KernelOK(k, {}) BY DEF Sound
<1>2. PICK X : X = {} OBVIOUS
<1>3. KernelOK(k, X) /\ c \in Thread \ X BY <1>1, <1>2
<1>4. /\ r \in KernelState /\ KernelOK(r, X)
      /\ r.stat = [k.stat EXCEPT ![c] = "SUSPEND"] /\ r.prio = k.prio
      /\ r.error = k.error /\ r.cur = k.cur /\ r.nest = k.nest /\ r.gone = k.gone
  BY <1>1, <1>3, ListSuspendOK
<1>5. PICK s : s = rt_thread_suspend(k, c) OBVIOUS
<1>6. Parked(k, s, c) /\ s.timer = k.timer BY <1>5, SuspendEffect
<1>7. s \in KernelState /\ \A v \in WaitList : ToSet(s.wait[v]) = ToSet(k.wait[v])
  BY <1>6 DEF Parked, Sound
<1>8. PICK x : x = s.wait[w] OBVIOUS
<1>9. PICK l : l = IF flag = "FIFO" THEN Append(x, c) ELSE InsertByPriority(s, x, c)
  OBVIOUS
<1>10. r = [s EXCEPT !.wait[w] = l] BY <1>5, <1>8, <1>9 DEF rt_ipc_list_suspend
<1>11. x \in Seq(Thread) BY <1>7, <1>8, KernelTypes
<1>12. ToSet(l) = ToSet(x) \cup {c}
  <2>1. CASE flag = "FIFO" BY <1>9, <1>11, <2>1, AppendList
  <2>2. CASE flag # "FIFO"
    <3>1. l = InsertByPriority(s, x, c) BY <1>9, <2>2
    <3> QED BY <1>7, <1>11, <3>1, InsertByPriorityList
  <2> QED BY <2>1, <2>2
<1>13. r.timer = s.timer /\ r.wait = [s.wait EXCEPT ![w] = l]
  BY <1>7, <1>10 DEF KernelState
<1>14. \A v \in WaitList : r.wait[v] = IF v = w THEN l ELSE s.wait[v]
  BY <1>7, <1>13, KernelTypes
<1>15. \A v \in WaitList :
         ToSet(r.wait[v]) = ToSet(k.wait[v]) \cup (IF v = w THEN {c} ELSE {})
  BY <1>7, <1>8, <1>12, <1>14
<1> QED BY <1>2, <1>4, <1>6, <1>13, <1>15 DEF Sound, Kept, Linked

\* The blocking half of a call.
LEMMA WaitEffect ==
  ASSUME NEW k, Sound(k), NEW c \in Thread, k.stat[c] = "READY",
         NEW w \in WaitList, NEW flag, NEW time,
         NEW r, r = WaitOn(k, w, c, flag, time)
  PROVE  Queued(k, r, w, c, time)
<1>1. PICK e : e = SetError(k, c, "EOK") OBVIOUS
<1>2. PICK s : s = rt_ipc_list_suspend(e, w, c, flag) OBVIOUS
<1>3. r = IF time = "timed" THEN rt_timer_start(s, c) ELSE s
  BY <1>1, <1>2 DEF WaitOn
<1>4. k \in KernelState /\ KernelOK(k, {}) BY DEF Sound
<1>5. /\ Sound(e) /\ Kept(k, e) /\ e.stat = k.stat /\ e.timer = k.timer
      /\ e.cur = k.cur /\ e.wait = k.wait
  <2>1. PICK X : X = {} OBVIOUS
  <2>2. KernelOK(k, X) BY <1>4, <2>1
  <2>3. PICK v \in Error : v = "EOK" BY Errors
  <2>4. e = SetError(k, c, v) BY <1>1, <2>3
  <2>5. /\ e \in KernelState /\ KernelOK(e, X)
        /\ e.stat = k.stat /\ e.prio = k.prio /\ e.timer = k.timer
        /\ e.cur = k.cur /\ e.nest = k.nest /\ e.gone = k.gone /\ e.wait = k.wait
    BY <1>4, <2>2, <2>4, ErrorOK
  <2> QED BY <2>1, <2>5 DEF Sound, Kept
<1>6. e.error = [k.error EXCEPT ![c] = "EOK"] BY <1>1, <1>4 DEF SetError, KernelState
<1>7. e.stat[c] = "READY" BY <1>5
<1>8. Linked(e, s, w, c)
  BY <1>2, <1>5, <1>7, ListSuspendEffect
<1>9. CASE time # "timed" BY <1>3, <1>5, <1>6, <1>8, <1>9 DEF Queued, Kept, Linked
<1>10. CASE time = "timed"
  <2>1. r = rt_timer_start(s, c) BY <1>3, <1>10
  <2>2. s \in KernelState /\ KernelOK(s, {}) BY <1>8 DEF Sound, Linked
  <2>3. s.stat[c] = "SUSPEND" BY <1>4, <1>5, <1>8, KernelTypes DEF Linked
  <2>4. PICK X : X = {} OBVIOUS
  <2>5. KernelOK(s, X) /\ c \in Thread \ X BY <2>2, <2>4
  <2>6. /\ r \in KernelState /\ KernelOK(r, X) /\ r.timer = s.timer \cup {c}
        /\ r.stat = s.stat /\ r.prio = s.prio /\ r.error = s.error
        /\ r.cur = s.cur /\ r.nest = s.nest /\ r.gone = s.gone
        /\ r.wait = s.wait
    BY <2>1, <2>2, <2>3, <2>5, TimerStartOK
  <2> QED BY <1>5, <1>6, <1>8, <1>10, <2>4, <2>6 DEF Queued, Kept, Sound, Linked
<1> QED BY <1>9, <1>10

\* rt_thread_delay up to rt_schedule: the suspended thread has a timer.
LEMMA DelayEffect ==
  ASSUME NEW k, Sound(k), NEW c \in Thread, k.stat[c] = "READY",
         NEW r, r = rt_timer_start(rt_thread_suspend(k, c), c)
  PROVE  Parked(k, r, c) /\ r.error = k.error /\ r.timer = k.timer \cup {c}
<1>1. PICK s : s = rt_thread_suspend(k, c) OBVIOUS
<1>2. Parked(k, s, c) /\ s.error = k.error /\ s.timer = k.timer BY <1>1, SuspendEffect
<1>3. /\ s \in KernelState /\ KernelOK(s, {}) /\ k \in KernelState
      /\ s.stat = [k.stat EXCEPT ![c] = "SUSPEND"]
  BY <1>2 DEF Parked, Sound
<1>4. s.stat[c] = "SUSPEND" BY <1>3, KernelTypes
<1>5. PICK X : X = {} OBVIOUS
<1>6. KernelOK(s, X) /\ c \in Thread \ X BY <1>3, <1>5
<1>7. /\ r \in KernelState /\ KernelOK(r, X) /\ r.timer = s.timer \cup {c}
      /\ r.stat = s.stat /\ r.prio = s.prio /\ r.error = s.error
      /\ r.cur = s.cur /\ r.nest = s.nest /\ r.gone = s.gone /\ r.wait = s.wait
  BY <1>1, <1>3, <1>4, <1>6, TimerStartOK
<1> QED BY <1>2, <1>5, <1>7 DEF Parked, Sound, Kept

\* The kernel before any thread is started.
LEMMA KernelInitSound ==
  /\ Sound(KernelInit) /\ KernelInit.cur = NoThread /\ KernelInit.nest = 0
  /\ KernelInit.timer = {}
  /\ \A t \in Thread : KernelInit.stat[t] = "INIT"
  /\ \A w \in WaitList : ToSet(KernelInit.wait[w]) = {}
<1>1. \A s : s = <<>> => NoDup(s) /\ ToSet(s) = {}
  <2>1. <<>> \in Seq(Thread) /\ Len(<<>>) = 0 OBVIOUS
  <2>2. ToSet(<<>>) = {} BY <2>1, EmptyList
  <2>3. DOMAIN <<>> = {} OBVIOUS
  <2>4. NoDup(<<>>) BY <2>3, Zenon DEF NoDup
  <2> QED BY <2>2, <2>4
<1>2. InitPriority \in [Thread -> Priority] BY KernelAssumption DEF Priority
<1>3. PICK k : k = KernelInit OBVIOUS
<1>4. k \in KernelState BY <1>2, <1>3, Stats, Errors DEF KernelInit, KernelState
<1>5. /\ k.stat = [t \in Thread |-> "INIT"] /\ k.timer = {} /\ k.gone = {}
      /\ k.ready = [p \in Priority |-> <<>>] /\ k.group = {}
      /\ k.wait = [w \in WaitList |-> <<>>] /\ k.defunct = <<>>
      /\ k.cur = NoThread /\ k.nest = 0
  BY <1>3 DEF KernelInit
<1>6. KernelOK(k, {})
  BY <1>1, <1>5 DEF KernelOK, ReadyListsOK, WaitListsOK, TimersOK, DefunctOK
<1> QED BY <1>1, <1>3, <1>4, <1>5, <1>6 DEF Sound

\* t is READY at its first priority, and nothing is scheduled yet.
Begun(k, r, t) ==
  /\ Sound(r) /\ r.cur = k.cur /\ r.nest = k.nest
  /\ r.stat = [k.stat EXCEPT ![t] = "READY"] /\ r.error = k.error
  /\ r.prio = [k.prio EXCEPT ![t] = InitPriority[t]]
  /\ r.timer = k.timer /\ r.wait = k.wait

\* rt_thread_startup of a new thread before there is a current thread.
LEMMA StartupEffect ==
  ASSUME NEW k, Sound(k), NEW t \in Thread, k.stat[t] = "INIT", k.cur = NoThread,
         NEW r, r = rt_thread_startup(k, t)
  PROVE  Begun(k, r, t)
<1>1. k \in KernelState /\ KernelOK(k, {}) BY DEF Sound
<1>2. PICK X : X = {} OBVIOUS
<1>3. KernelOK(k, X) /\ t \in Thread \ X BY <1>1, <1>2
<1>4. /\ r \in KernelState /\ KernelOK(r, X)
      /\ k.cur = NoThread => r.cur = k.cur
      /\ r.stat = [k.stat EXCEPT ![t] = "READY"] /\ r.nest = k.nest
  BY <1>1, <1>3, StartupOK
<1>5. PICK s : s = SetStat(SetPrio(k, t, InitPriority[t]), t, "SUSPEND") OBVIOUS
<1>6. r = rt_thread_resume(s, t) BY <1>5 DEF rt_thread_startup
<1>7. /\ s.wait = k.wait /\ s.error = k.error /\ s.stat[t] = "SUSPEND"
      /\ s.timer = k.timer /\ s.prio = [k.prio EXCEPT ![t] = InitPriority[t]]
  BY <1>1, <1>5 DEF SetStat, SetPrio, KernelState
<1>8. s \in KernelState
  BY <1>1, <1>5, KernelAssumption DEF SetStat, SetPrio, KernelState, Priority, Stat
<1>9. PICK a : a = rt_timer_stop(rt_list_remove(s, t), t) OBVIOUS
<1>10. /\ a.wait = [w \in WaitList |-> Unlink(s.wait[w], t)] /\ a.error = s.error
       /\ a.timer = s.timer \ {t} /\ a.prio = s.prio
  BY <1>8, <1>9 DEF rt_timer_stop, rt_list_remove, KernelState
<1>11. r.wait = a.wait /\ r.error = a.error /\ r.timer = a.timer /\ r.prio = a.prio
  BY <1>6, <1>7, <1>8, <1>9
    DEF rt_thread_resume, rt_schedule_insert_thread, rt_timer_stop, rt_list_remove, KernelState
<1>12. t \notin k.timer /\ \A w \in WaitList : t \notin ToSet(k.wait[w])
  BY <1>1 DEF KernelOK, WaitListsOK, TimersOK
<1>13. \A w \in WaitList : Unlink(k.wait[w], t) = k.wait[w] BY <1>12 DEF Unlink
<1>14. k.wait = [w \in WaitList |-> k.wait[w]] BY <1>1, KernelTypes
<1>15. r.wait = k.wait BY <1>7, <1>10, <1>11, <1>13, <1>14
<1> QED BY <1>2, <1>4, <1>7, <1>10, <1>11, <1>12, <1>15 DEF Sound, Begun

-----------------------------------------------------------------------------
(* Records between two calls, on a started system or before *)

\* The lists are consistent and the scheduler is unlocked; once the system is
\* started there is a current thread, and the idle thread can always run.
Base(k) ==
  /\ Sound(k) /\ k.nest = 0
  /\ k.cur # NoThread => k.cur \in Thread /\ k.stat[Idle] = "READY"

\* rt_schedule.
LEMMA DispatchBase ==
  ASSUME NEW k, Base(k), k.cur # NoThread, NEW r, r = rt_schedule(k)
  PROVE  /\ Base(r) /\ r.stat = k.stat /\ r.error = k.error /\ r.timer = k.timer
         /\ r.wait = k.wait /\ r.prio = k.prio
         /\ r.cur \in Thread /\ r.cur # NoThread /\ r.stat[r.cur] = "READY"
<1>1. k.group # {} BY ReadyInGroup, KernelAssumption DEF Base
<1>2. Dispatched(k, r) BY <1>1, DispatchEffect DEF Base
<1> QED BY <1>2, KernelAssumption DEF Base, Dispatched, Kept

\* rt_thread_resume of a suspended thread.
LEMMA ResumeBase ==
  ASSUME NEW k, Base(k), NEW t \in Thread, k.stat[t] = "SUSPEND",
         NEW r, r = rt_thread_resume(k, t)
  PROVE  /\ Base(r) /\ r.stat = [k.stat EXCEPT ![t] = "READY"] /\ r.error = k.error
         /\ r.timer = k.timer \ {t} /\ r.cur = k.cur /\ r.prio = k.prio
         /\ \A w \in WaitList : ToSet(r.wait[w]) = ToSet(k.wait[w]) \ {t}
<1>1. Woken(k, r, t) /\ r.error = k.error /\ r.cur = k.cur
  BY ResumeEffect DEF Base
<1>2. k.stat \in [Thread -> Stat] BY KernelTypes DEF Base, Sound
<1> QED BY <1>1, <1>2, KernelAssumption DEF Base, Woken, Kept

-----------------------------------------------------------------------------
(* rt_ipc_list_resume_all *)

\* The threads of D were resumed with an error.
AllWoken(k, r, D) ==
  /\ Base(r) /\ r.cur = k.cur
  /\ r.stat = [t \in Thread |-> IF t \in D THEN "READY" ELSE k.stat[t]]
  /\ r.error = [t \in Thread |-> IF t \in D THEN "ERROR" ELSE k.error[t]]
  /\ r.timer = k.timer \ D
  /\ \A w \in WaitList : ToSet(r.wait[w]) = ToSet(k.wait[w]) \ D

\* One more.
LEMMA AllWokenStep ==
  ASSUME NEW k, NEW r, NEW D, AllWoken(k, r, D), Base(k),
         NEW t \in Thread \ D, k.stat[t] = "SUSPEND",
         NEW s, s = ResumeWithError(r, t)
  PROVE  AllWoken(k, s, D \cup {t})
<1>1. /\ Base(r) /\ r \in KernelState /\ KernelOK(r, {}) /\ Sound(r)
      /\ k \in KernelState /\ k.stat \in [Thread -> Stat] /\ k.error \in [Thread -> Error]
  BY KernelTypes DEF AllWoken, Base, Sound
<1>2. PICK X : X = {} OBVIOUS
<1>3. PICK e : e = SetError(r, t, "ERROR") OBVIOUS
<1>4. KernelOK(r, X) BY <1>1, <1>2
<1>5. /\ e \in KernelState /\ KernelOK(e, X)
      /\ e.stat = r.stat /\ e.timer = r.timer
      /\ e.cur = r.cur /\ e.nest = r.nest /\ e.wait = r.wait
  BY <1>1, <1>3, <1>4, ErrorOK, Errors
<1>6. e.error = [r.error EXCEPT ![t] = "ERROR"] BY <1>1, <1>3 DEF SetError, KernelState
<1>7. Base(e) BY <1>1, <1>2, <1>5 DEF Base, Sound
<1>8. e.stat[t] = "SUSPEND" BY <1>5 DEF AllWoken
<1>9. s = rt_thread_resume(e, t) BY <1>3 DEF ResumeWithError
<1>10. /\ Base(s) /\ s.stat = [e.stat EXCEPT ![t] = "READY"] /\ s.error = e.error
       /\ s.timer = e.timer \ {t} /\ s.cur = e.cur
       /\ \A w \in WaitList : ToSet(s.wait[w]) = ToSet(e.wait[w]) \ {t}
  BY <1>7, <1>8, <1>9, ResumeBase
<1>11. s.stat = [u \in Thread |-> IF u \in D \cup {t} THEN "READY" ELSE k.stat[u]]
  BY <1>1, <1>5, <1>10 DEF AllWoken
<1>12. s.error = [u \in Thread |-> IF u \in D \cup {t} THEN "ERROR" ELSE k.error[u]]
  BY <1>1, <1>6, <1>10 DEF AllWoken
<1>13. /\ s.cur = k.cur /\ s.timer = k.timer \ (D \cup {t})
       /\ \A w \in WaitList : ToSet(s.wait[w]) = ToSet(k.wait[w]) \ (D \cup {t})
  BY <1>5, <1>10 DEF AllWoken
<1> QED BY <1>10, <1>11, <1>12, <1>13 DEF AllWoken

\* The records after each turn of the loop exist.
LEMMA ResumeAllTurns ==
  ASSUME NEW k, NEW w, NEW q, q = k.wait[w], Len(q) \in Nat
  PROVE  \E f : /\ ResumeAll(k, w) = f[Len(q)] /\ f[0] = k
                /\ \A i \in 0 .. Len(q) - 1 : f[i + 1] = ResumeWithError(f[i], q[i + 1])
<1> DEFINE n       == Len(q)
           Turn(f, i) == IF i = 0 THEN k ELSE ResumeWithError(f[i - 1], q[i])
           Has(m)  == \E g : g = [i \in 0 .. m |-> Turn(g, i)]
           S       == {m \in 0 .. n : Has(m)}
<1>1. 0 \in S
  <2>1. PICK g : g = [i \in 0 .. 0 |-> k] OBVIOUS
  <2>2. g = [i \in 0 .. 0 |-> Turn(g, i)] BY <2>1
  <2> QED BY <2>2
<1>2. ASSUME NEW m \in 0 .. n - 1, m \in S PROVE m + 1 \in S
  <2>1. PICK g : g = [i \in 0 .. m |-> Turn(g, i)] BY <1>2
  <2>2. PICK h : h = [i \in 0 .. m + 1 |-> IF i = m + 1 THEN ResumeWithError(g[m], q[m + 1])
                                                       ELSE g[i]]
    OBVIOUS
  <2>3. ASSUME NEW i \in 0 .. m + 1 PROVE h[i] = Turn(h, i)
    <3>1. CASE i = m + 1
      <4>1. i # 0 /\ i - 1 = m /\ m \in 0 .. m + 1 /\ m # m + 1 BY <3>1
      <4>2. h[m] = g[m] BY <2>2, <4>1
      <4>3. h[i] = ResumeWithError(g[m], q[i]) BY <2>2, <3>1
      <4> QED BY <4>1, <4>2, <4>3
    <3>2. CASE i # m + 1 /\ i # 0
      <4>1. i \in 0 .. m /\ i - 1 \in 0 .. m + 1 /\ i - 1 # m + 1 BY <3>2
      <4>2. h[i] = g[i] /\ h[i - 1] = g[i - 1] BY <2>2, <3>2, <4>1
      <4>3. g[i] = ResumeWithError(g[i - 1], q[i]) BY <2>1, <3>2, <4>1
      <4> QED BY <3>2, <4>2, <4>3
    <3>3. CASE i = 0
      <4>1. i \in 0 .. m /\ i # m + 1 BY <3>3
      <4>2. h[i] = g[i] BY <2>2, <4>1
      <4>3. g[i] = k BY <2>1, <3>3, <4>1
      <4> QED BY <3>3, <4>2, <4>3
    <3> QED BY <3>1, <3>2, <3>3
  <2>4. h = [i \in 0 .. m + 1 |-> Turn(h, i)]
    <3>1. h = [i \in 0 .. m + 1 |-> h[i]] BY <2>2
    <3> HIDE DEF Turn
    <3> QED BY <2>3, <3>1
  <2>5. m + 1 \in 0 .. n OBVIOUS
  <2> QED BY <2>4, <2>5
<1>3. n \in S
  <2> HIDE DEF S
  <2>1. n \in Nat OBVIOUS
  <2>2. \A i \in 0 .. n : i \in S BY <1>1, <1>2, <2>1, CountUp
  <2> QED BY <2>1, <2>2
<1>4. PICK g : g = [i \in 0 .. n |-> Turn(g, i)] BY <1>3
<1> DEFINE h == CHOOSE f : f = [i \in 0 .. n |-> Turn(f, i)]
<1>5. h = [i \in 0 .. n |-> Turn(h, i)] BY <1>4, Zenon
<1>6. ResumeAll(k, w) = h[n] BY DEF ResumeAll
<1> HIDE DEF h
<1>7. h[0] = k BY <1>5
<1>8. ASSUME NEW i \in 0 .. n - 1 PROVE h[i + 1] = ResumeWithError(h[i], q[i + 1])
  <2>1. i + 1 \in 0 .. n /\ i + 1 # 0 /\ (i + 1) - 1 = i OBVIOUS
  <2> QED BY <1>5, <2>1
<1> QED BY <1>6, <1>7, <1>8

\* All the threads of the list are resumed, and no others.
LEMMA ResumeAllBase ==
  ASSUME NEW k, Base(k), NEW w \in WaitList, NEW r, r = ResumeAll(k, w)
  PROVE  AllWoken(k, r, ToSet(k.wait[w]))
<1>1. k \in KernelState /\ KernelOK(k, {}) BY DEF Base, Sound
<1>2. PICK q : q = k.wait[w] OBVIOUS
<1>3. q \in Seq(Thread) /\ NoDup(q) /\ \A t \in ToSet(q) : k.stat[t] = "SUSPEND"
  BY <1>1, <1>2, KernelTypes DEF KernelOK, WaitListsOK
<1>4. PICK f : /\ ResumeAll(k, w) = f[Len(q)] /\ f[0] = k
               /\ \A i \in 0 .. Len(q) - 1 : f[i + 1] = ResumeWithError(f[i], q[i + 1])
  BY <1>2, <1>3, ResumeAllTurns
<1> DEFINE D(i) == {q[j] : j \in 1 .. i}
           S == {i \in 0 .. Len(q) : AllWoken(k, f[i], D(i))}
<1>5. 0 \in S
  <2>1. D(0) = {} OBVIOUS
  <2>2. AllWoken(k, k, {})
    <3>1. k.stat \in [Thread -> Stat] /\ k.error \in [Thread -> Error] BY <1>1, KernelTypes
    <3> QED BY <3>1 DEF AllWoken
  <2>3. AllWoken(k, f[0], D(0)) BY <1>4, <2>1, <2>2, Zenon
  <2>4. 0 \in 0 .. Len(q) BY <1>3
  <2> QED BY <2>3, <2>4
<1>6. ASSUME NEW i \in 0 .. Len(q) - 1, i \in S PROVE i + 1 \in S
  <2>1. i + 1 \in 1 .. Len(q) /\ i + 1 \in 0 .. Len(q) BY <1>3
  <2>2. PICK t : t = q[i + 1] OBVIOUS
  <2>3. t \in Thread /\ t \in ToSet(q) BY <1>3, <2>1, <2>2, InToSet
  <2>4. t \notin D(i)
    <3>1. ASSUME NEW j \in 1 .. i PROVE q[j] # t
      <4>1. j \in 1 .. Len(q) /\ j # i + 1 BY <2>1
      <4> QED BY <1>3, <2>1, <2>2, <4>1, NoDupByIndex
    <3> QED BY <3>1
  <2>5. D(i + 1) = D(i) \cup {t} BY <2>1, <2>2
  <2>6. PICK E : E = D(i) OBVIOUS
  <2>7. PICK g : g = f[i + 1] OBVIOUS
  <2>8. AllWoken(k, f[i], E) BY <1>6, <2>6
  <2>9. g = ResumeWithError(f[i], t) BY <1>4, <2>2, <2>7
  <2>10. t \in Thread \ E /\ k.stat[t] = "SUSPEND" BY <1>3, <2>3, <2>4, <2>6
  <2>11. AllWoken(k, g, E \cup {t}) BY <2>8, <2>9, <2>10, AllWokenStep
  <2> QED BY <2>1, <2>5, <2>6, <2>7, <2>11
<1>7. Len(q) \in S
  <2>1. Len(q) \in Nat BY <1>3
  <2> HIDE DEF S
  <2>2. \A i \in 0 .. Len(q) : i \in S BY <1>5, <1>6, <2>1, CountUp
  <2> QED BY <2>1, <2>2
<1>8. D(Len(q)) = ToSet(q) BY <1>3, InToSet DEF ToSet
<1> QED BY <1>2, <1>4, <1>7, <1>8

-----------------------------------------------------------------------------
(* Start-up and the clock *)

\* Another thread may be current; everything else a caller sees is as before.
Same(k, r) ==
  r.stat = k.stat /\ r.error = k.error /\ r.timer = k.timer /\ r.wait = k.wait

\* The timer of t ended its wait.
Expired(k, r, t) ==
  /\ t \in k.timer /\ k.stat[t] = "SUSPEND"
  /\ r.stat = [k.stat EXCEPT ![t] = "READY"]
  /\ r.error = [k.error EXCEPT ![t] = "ETIMEOUT"]
  /\ r.timer = k.timer \ {t}
  /\ \A w \in WaitList : ToSet(r.wait[w]) = ToSet(k.wait[w]) \ {t}

\* A thread is started, or the scheduler is.
LEMMA BootBase ==
  ASSUME Base(sys), Boot
  PROVE  /\ Base(sys') /\ pc' = pc /\ sys.cur = NoThread
         /\ sys'.error = sys.error /\ sys'.timer = sys.timer /\ sys'.wait = sys.wait
         /\ \/ sys'.cur # NoThread /\ sys'.stat = sys.stat /\ sys'.stat[sys'.cur] = "READY"
            \/ /\ sys'.cur = NoThread
               /\ \E t \in Thread : /\ sys.stat[t] = "INIT"
                                    /\ sys'.stat = [sys.stat EXCEPT ![t] = "READY"]
<1>1. Idle \in Thread /\ NoThread \notin Thread BY KernelAssumption
<1>2. CASE rt_system_scheduler_start
  <2>1. sys' = rt_schedule(sys) /\ pc' = pc /\ sys.cur = NoThread /\ sys.stat[Idle] = "READY"
    BY <1>2 DEF rt_system_scheduler_start, rt_schedule, Base
  <2>2. sys.group # {} BY <1>1, <2>1, ReadyInGroup DEF Base
  <2>3. Dispatched(sys, sys') BY <2>1, <2>2, DispatchEffect DEF Base
  <2> QED BY <1>1, <2>1, <2>3 DEF Dispatched, Kept, Base
<1>3. ASSUME NEW t \in Thread, BootStartup(t)
      PROVE  /\ Base(sys') /\ pc' = pc /\ sys.cur = NoThread
             /\ sys'.error = sys.error /\ sys'.timer = sys.timer /\ sys'.wait = sys.wait
             /\ sys'.cur = NoThread /\ sys.stat[t] = "INIT"
             /\ sys'.stat = [sys.stat EXCEPT ![t] = "READY"]
  <2>1. /\ sys' = rt_thread_startup(sys, t) /\ pc' = pc
        /\ sys.stat[t] = "INIT" /\ sys.cur = NoThread
    BY <1>3 DEF BootStartup
  <2>2. Begun(sys, sys', t) BY <2>1, StartupEffect DEF Base
  <2> QED BY <2>1, <2>2 DEF Begun, Base
<1> QED BY <1>2, <1>3 DEF Boot

\* The tick moves the current thread behind the others of its priority, or
\* ends a wait.
LEMMA TickBase ==
  ASSUME Base(sys), Tick
  PROVE  /\ Base(sys') /\ pc' = pc /\ sys.cur # NoThread /\ sys'.cur # NoThread
         /\ \/ sys' = sys
            \/ Same(sys, sys') /\ sys'.stat[sys'.cur] = "READY"
            \/ \E t \in Thread : Expired(sys, sys', t) /\ sys'.stat[sys'.cur] = "READY"
<1>1. Idle \in Thread /\ NoThread \notin Thread BY KernelAssumption
<1>2. CASE TickYield
  <2>1. sys' = rt_thread_yield(sys) /\ pc' = pc /\ sys.cur # NoThread /\ sys.cur \in Thread
    BY <1>2 DEF TickYield, Base
  <2>2. CASE sys.stat[sys.cur] # "READY"
    <3>1. sys' = sys BY <2>1, <2>2 DEF rt_thread_yield
    <3> QED BY <2>1, <3>1
  <2>3. CASE sys.stat[sys.cur] = "READY"
    <3>1. Dispatched(sys, sys') BY <2>1, <2>3, YieldEffect DEF Base
    <3> QED BY <1>1, <2>1, <3>1 DEF Dispatched, Kept, Base, Same
  <2> QED BY <2>2, <2>3
<1>3. ASSUME NEW t \in Thread, TimerExpires(t)
      PROVE  /\ Base(sys') /\ pc' = pc /\ sys.cur # NoThread /\ sys'.cur # NoThread
             /\ Expired(sys, sys', t) /\ sys'.stat[sys'.cur] = "READY"
  <2>1. /\ sys' = rt_thread_timeout(rt_timer_stop(sys, t), t) /\ pc' = pc
        /\ t \in sys.timer /\ sys.cur # NoThread
    BY <1>3 DEF TimerExpires
  <2>2. /\ Woken(sys, sys', t) /\ sys'.error = [sys.error EXCEPT ![t] = "ETIMEOUT"]
        /\ sys'.cur \in Thread /\ sys'.stat[sys'.cur] = "READY"
    BY <2>1, TimeoutEffect DEF Base
  <2>3. sys.stat \in [Thread -> Stat] /\ sys.stat[t] = "SUSPEND"
    BY <2>1, KernelTypes DEF Base, Sound, KernelOK, TimersOK
  <2>4. sys'.stat[Idle] = "READY" BY <1>1, <2>1, <2>2, <2>3 DEF Woken, Base
  <2>5. Base(sys') BY <2>2, <2>4 DEF Woken, Kept, Base
  <2> QED BY <1>1, <2>1, <2>2, <2>3, <2>5 DEF Woken, Expired
<1> QED BY <1>2, <1>3 DEF Tick

\* The waiter t of l was resumed.
Resumed(k, r, l, t) ==
  /\ t \in Thread /\ t \in ToSet(k.wait[l]) /\ k.stat[t] = "SUSPEND"
  /\ Base(r) /\ r.stat = [k.stat EXCEPT ![t] = "READY"] /\ r.error = k.error
  /\ r.timer = k.timer \ {t} /\ r.cur = k.cur /\ r.prio = k.prio
  /\ \A w \in WaitList : ToSet(r.wait[w]) = ToSet(k.wait[w]) \ {t}

\* rt_ipc_list_resume resumes the first one.
LEMMA ListResumeBase ==
  ASSUME NEW k, Base(k), NEW l \in WaitList, k.wait[l] # <<>>,
         NEW r, r = rt_ipc_list_resume(k, l)
  PROVE  \E t : Resumed(k, r, l, t)
<1>1. PICK t : t = Head(k.wait[l]) OBVIOUS
<1>2. k \in KernelState /\ KernelOK(k, {}) BY DEF Base, Sound
<1>3. k.wait[l] \in Seq(Thread) BY <1>2, KernelTypes
<1>4. t \in ToSet(k.wait[l]) /\ t \in Thread BY <1>1, <1>3, EmptyList
<1>5. k.stat[t] = "SUSPEND" BY <1>2, <1>4 DEF KernelOK, WaitListsOK
<1>6. r = rt_thread_resume(k, t) BY <1>1 DEF rt_ipc_list_resume
<1>7. t \in Thread /\ k.stat[t] = "SUSPEND" /\ Base(k) BY <1>4, <1>5
<1>8. /\ Base(r) /\ r.stat = [k.stat EXCEPT ![t] = "READY"] /\ r.error = k.error
      /\ r.timer = k.timer \ {t} /\ r.cur = k.cur /\ r.prio = k.prio
  BY <1>6, <1>7, ResumeBase
<1>9. Woken(k, r, t) BY <1>6, <1>7, ResumeEffect DEF Base
<1>10. \A w \in WaitList : ToSet(r.wait[w]) = ToSet(k.wait[w]) \ {t} BY <1>9 DEF Woken
<1> QED BY <1>4, <1>7, <1>8, <1>10 DEF Resumed

\* The current thread waits on w.
LEMMA WaitBase ==
  ASSUME NEW k, Base(k), NEW c \in Thread \ {Idle}, k.cur = c, k.stat[c] = "READY",
         NEW w \in WaitList, NEW flag, NEW time,
         NEW r, r = WaitOn(k, w, c, flag, time)
  PROVE  Base(r) /\ Queued(k, r, w, c, time)
<1>1. Queued(k, r, w, c, time) BY WaitEffect DEF Base
<1>2. Idle \in Thread /\ NoThread \notin Thread BY KernelAssumption
<1>3. k.stat \in [Thread -> Stat] /\ k.stat[Idle] = "READY"
  BY <1>2, KernelTypes DEF Base, Sound
<1>4. r.stat[Idle] = "READY" BY <1>1, <1>2, <1>3 DEF Queued
<1> QED BY <1>1, <1>4 DEF Queued, Kept, Base
=============================================================================
