---------------------------- MODULE DriverProofs ----------------------------
(***************************************************************************)
(* The safety properties of the drivers: those of Net hold for every       *)
(* number of descriptors, every size of the mailbox of erx, all priorities *)
(* of the threads and any number of frames the uIP thread sends by itself; *)
(* those of ChipDriver for images of any length, any number of retries and *)
(* of polls, every size of the receive FIFO and any number of late answers;*)
(* those of Serial for every size and low water mark of the data queue,    *)
(* every size of the ring and any number of characters.                    *)
(***************************************************************************)
EXTENDS Net, ChipDriver, Serial, KernelProofs, FiniteSetTheorems, FunctionTheorems

(***************************************************************************)
(* Net                                                                     *)
(***************************************************************************)

\* The threads suspended on the waiting list w.
Queue(w) == ToSet(sys.wait[w])

\* The lists are consistent, the scheduler is unlocked, the current thread and
\* the idle thread are READY.
Runs ==
  /\ Sound(sys) /\ sys.nest = 0
  /\ sys.cur \in Thread /\ sys.stat[sys.cur] = "READY" /\ sys.stat[Idle] = "READY"

\* Who may wait where: each object has one taker, which waits at one place.
\* A timer is that of the wait of etx for a permit, or of the uIP thread.
Waiters ==
  /\ \A u \in Queue("erxmb") : u = Erx /\ pc[Erx] = "run"
  /\ \A u \in Queue("etxmb") : u = Etx /\ pc[Etx] = "run"
  /\ \A u \in Queue("tx_ack") : u = Erx /\ pc[Erx] = "sent"
  /\ \A u \in Queue("tx_buf_free") : u = Etx /\ pc[Etx] = "took" /\ sys.error[Etx] = "EOK"
  /\ \A u \in sys.timer : u = Uip \/ (u = Etx /\ Etx \in Queue("tx_buf_free"))

Sending == pc[Etx] \in {"tx", "took", "copy", "step", "reply"}
Awaits  == pc[Erx] = "ack" \/ (pc[Erx] = "sent" /\ Erx \in Queue("tx_ack"))

\* One message at a time, which is in the mailbox or with etx, and erx waits
\* for its ack, or has the ack without having taken it yet.
HandOver ==
  /\ obj.etxmb > 0 \/ Sending => Awaits /\ obj.tx_ack = 0
  /\ Awaits => obj.etxmb > 0 \/ Sending \/ obj.tx_ack = 1
  /\ obj.etxmb = 0 \/ ~Sending
  /\ obj.tx_ack = 1 => pc[Erx] = "ack"
  /\ pc[Erx] \in {"ack", "sent"} => mem.p = 1 /\ mem.pdata = 1

Holds == \/ pc[Etx] = "copy"
         \/ pc[Etx] = "took" /\ Etx \notin Queue("tx_buf_free") /\ sys.error[Etx] = "EOK"

\* The handler owes a permit for the T bit until it gives it; the bits it has
\* read stay pending until it clears them.
Permits ==
  /\ obj.tx_buf_free + (IF Holds THEN 1 ELSE 0)
       + (IF "T" \in irq.pending /\ irq.at # "t" THEN 1 ELSE 0)
     <= ETH_TXBUFNB - Cardinality(tx.own) + mem.direct
  /\ irq.at = "r" => irq.status \subseteq irq.pending /\ irq.status # {}

\* A frame erx has not been told of has its interrupt before it; the handler
\* clears the R bit only when there is a mail.
Frames ==
  /\ pc[Erx] = "run" /\ rx > 0 /\ obj.erxmb = 0 => "R" \in irq.pending \/ mem.gaveup
  /\ irq.at = "r" /\ "R" \in irq.status => obj.erxmb > 0

IInv == TypeOK /\ Runs /\ Waiters /\ HandOver /\ Permits /\ Frames

-----------------------------------------------------------------------------
(* The steps of the kernel *)

\* t left its waiting list and its timer was stopped.
Freed(t) ==
  /\ sys'.timer = sys.timer \ {t}
  /\ \A w \in WaitList : ToSet(sys'.wait[w]) = ToSet(sys.wait[w]) \ {t}

\* The only thread on the waiting list o, u, left it.
Emptied(o, u) ==
  /\ sys'.error = sys.error /\ sys'.timer = sys.timer \ {u}
  /\ \A w \in WaitList : ToSet(sys'.wait[w]) = IF w = o THEN {} ELSE ToSet(sys.wait[w])

\* c joined the waiting list o.
Joined(c, o, time) ==
  /\ sys'.error = [sys.error EXCEPT ![c] = "EOK"]
  /\ sys'.timer = IF time = "timed" THEN sys.timer \cup {c} ELSE sys.timer
  /\ \A w \in WaitList :
       ToSet(sys'.wait[w]) = ToSet(sys.wait[w]) \cup (IF w = o THEN {c} ELSE {})

\* The first thread of a waiting list is woken and the scheduler called.
LEMMA WakeStep ==
  ASSUME Runs, NEW o \in WaitList, sys.wait[o] # <<>>, NEW u, Queue(o) \subseteq {u},
         sys' = rt_schedule(rt_ipc_list_resume(sys, o))
  PROVE  Runs' /\ Emptied(o, u)
<1>1. Sound(sys) /\ sys \in KernelState /\ KernelOK(sys, {}) BY DEF Runs, Sound
<1>2. PICK t : t = Head(sys.wait[o]) OBVIOUS
<1>3. sys.wait[o] \in Seq(Thread) BY <1>1, KernelTypes
<1>4. t \in Queue(o) /\ t \in Thread BY <1>2, <1>3, EmptyList DEF Queue
<1>5. sys.stat[t] = "SUSPEND" BY <1>1, <1>4 DEF Queue, KernelOK, WaitListsOK
<1>6. t = u BY <1>4
<1>7. PICK m : m = rt_thread_resume(sys, t) OBVIOUS
<1>8. Woken(sys, m, t) /\ m.error = sys.error /\ m.cur = sys.cur
  BY <1>1, <1>4, <1>5, <1>7, ResumeEffect
<1>9. Sound(m) /\ m.group # {} /\ m.nest = 0 BY <1>8 DEF Woken, Kept, Runs
<1>10. sys' = rt_schedule(m) BY <1>2, <1>7 DEF rt_ipc_list_resume
<1>11. Dispatched(m, sys') BY <1>9, <1>10, DispatchEffect
<1>12. Runs'
  BY <1>1, <1>4, <1>8, <1>11, KernelTypes DEF Runs, Woken, Dispatched, Kept
<1>13. \A w \in WaitList : ToSet(sys'.wait[w]) = ToSet(sys.wait[w]) \ {t}
  BY <1>8, <1>11 DEF Woken, Dispatched
<1>14. \A w \in WaitList : t \in ToSet(sys.wait[w]) => w = o
  BY <1>1, <1>4 DEF Queue, KernelOK, WaitListsOK
<1>15. ToSet(sys.wait[o]) = {t} BY <1>4, <1>6 DEF Queue
<1>16. ASSUME NEW w \in WaitList
       PROVE  ToSet(sys'.wait[w]) = IF w = o THEN {} ELSE ToSet(sys.wait[w])
  <2>1. CASE w = o BY <1>13, <1>15, <2>1
  <2>2. CASE w # o BY <1>13, <1>14, <2>2
  <2> QED BY <2>1, <2>2
<1> QED BY <1>6, <1>8, <1>11, <1>12, <1>16 DEF Emptied, Woken, Dispatched

\* The current thread waits.
LEMMA BlockStep ==
  ASSUME Runs, NEW o \in WaitList, NEW c \in Thread \ {Idle}, sys.cur = c, NEW time,
         sys' = rt_schedule(WaitOn(sys, o, c, "FIFO", time))
  PROVE  Runs' /\ Joined(c, o, time)
<1>1. Sound(sys) /\ sys \in KernelState /\ KernelOK(sys, {}) BY DEF Runs, Sound
<1>2. PICK m : m = WaitOn(sys, o, c, "FIFO", time) OBVIOUS
<1>3. sys.stat[c] = "READY" BY DEF Runs
<1>4. Queued(sys, m, o, c, time) BY <1>1, <1>2, <1>3, WaitEffect
<1>5. m.stat[Idle] = "READY" /\ Sound(m) /\ m.nest = 0
  BY <1>1, <1>4, KernelAssumption, KernelTypes DEF Queued, Runs, Kept
<1>6. m.group # {} BY <1>5, ReadyInGroup, KernelAssumption
<1>7. Dispatched(m, sys') BY <1>2, <1>5, <1>6, DispatchEffect
<1>8. Runs' BY <1>5, <1>7 DEF Runs, Dispatched, Kept
<1> QED BY <1>4, <1>7, <1>8 DEF Queued, Dispatched, Joined

\* rt_thread_delay.
LEMMA DelayStep ==
  ASSUME Runs, sys.cur = Uip, Delay
  PROVE  /\ Runs' /\ sys'.error = sys.error /\ sys'.timer = sys.timer \cup {Uip}
         /\ \A w \in WaitList : ToSet(sys'.wait[w]) = ToSet(sys.wait[w])
<1>1. Sound(sys) /\ sys \in KernelState /\ KernelOK(sys, {}) BY DEF Runs, Sound
<1>2. PICK m : m = rt_timer_start(rt_thread_suspend(sys, Uip), Uip) OBVIOUS
<1>3. Uip \in Thread /\ sys.stat[Uip] = "READY" BY NetAssumption DEF Runs
<1>4. Parked(sys, m, Uip) /\ m.error = sys.error /\ m.timer = sys.timer \cup {Uip}
  BY <1>1, <1>2, <1>3, DelayEffect
<1>5. m.stat[Idle] = "READY" /\ Sound(m) /\ m.nest = 0
  BY <1>1, <1>4, KernelAssumption, NetAssumption, KernelTypes DEF Parked, Runs, Kept
<1>6. m.group # {} BY <1>5, ReadyInGroup, KernelAssumption
<1>7. Dispatched(m, sys') BY <1>2, <1>5, <1>6, DispatchEffect DEF Delay
<1>8. Runs' BY <1>5, <1>7 DEF Runs, Dispatched, Kept
<1> QED BY <1>4, <1>7, <1>8 DEF Parked, Dispatched

\* The timer of t expires.
LEMMA TimeoutStep ==
  ASSUME Runs, NEW t, TimerExpires(t)
  PROVE  Runs' /\ Freed(t) /\ sys'.error = [sys.error EXCEPT ![t] = "ETIMEOUT"]
<1>1. Sound(sys) /\ sys \in KernelState /\ KernelOK(sys, {}) BY DEF Runs, Sound
<1>2. t \in sys.timer /\ t \in Thread BY <1>1, KernelTypes DEF TimerExpires
<1>3. /\ Woken(sys, sys', t) /\ sys'.error = [sys.error EXCEPT ![t] = "ETIMEOUT"]
      /\ sys'.cur \in Thread /\ sys'.stat[sys'.cur] = "READY"
  BY <1>1, <1>2, TimeoutEffect DEF TimerExpires, Runs
<1>4. Runs' BY <1>1, <1>2, <1>3, KernelTypes DEF Runs, Woken, Kept
<1> QED BY <1>3, <1>4 DEF Freed, Woken

\* The time slice of the current thread is used up.
LEMMA YieldStep ==
  ASSUME Runs, TickYield
  PROVE  /\ Runs' /\ sys'.error = sys.error /\ sys'.timer = sys.timer
         /\ sys'.wait = sys.wait
<1>1. Sound(sys) /\ sys.cur \in Thread /\ sys.stat[sys.cur] = "READY" /\ sys.nest = 0
  BY DEF Runs
<1>2. Dispatched(sys, sys') BY <1>1, YieldEffect DEF TickYield
<1> QED BY <1>1, <1>2 DEF Runs, Dispatched, Kept

-----------------------------------------------------------------------------
(* The initial state *)

\* The system as started is sound: every thread is ready, none waits.
LEMMA StartedOK ==
  /\ Sound(Started) /\ Started.nest = 0 /\ Started.timer = {}
  /\ Started.cur \in Thread /\ Started.stat[Started.cur] = "READY"
  /\ Started.stat[Idle] = "READY"
  /\ \A w \in WaitList : ToSet(Started.wait[w]) = {}
<1> DEFINE New(k, T) ==
             /\ Sound(k) /\ k.cur = NoThread /\ k.nest = 0 /\ k.timer = {}
             /\ \A t \in Thread : k.stat[t] = IF t \in T THEN "READY" ELSE "INIT"
             /\ \A w \in WaitList : ToSet(k.wait[w]) = {}
<1>1. ASSUME NEW k, NEW T, New(k, T), NEW t \in Thread, t \notin T
      PROVE  New(rt_thread_startup(k, t), T \cup {t})
  <2>1. PICK r : r = rt_thread_startup(k, t) OBVIOUS
  <2>2. Sound(k) /\ k.cur = NoThread /\ k.stat[t] = "INIT" /\ k \in KernelState
    BY <1>1 DEF Sound
  <2>3. Begun(k, r, t) BY <2>1, <2>2, StartupEffect
  <2>4. k.stat \in [Thread -> Stat] BY <2>2, KernelTypes
  <2>5. New(r, T \cup {t}) BY <1>1, <2>3, <2>4 DEF Begun
  <2> QED BY <2>1, <2>5
<1>2. New(KernelInit, {}) BY KernelInitSound
<1> HIDE DEF New
<1>3. PICK a : a = rt_thread_startup(KernelInit, Erx) OBVIOUS
<1>4. PICK b : b = rt_thread_startup(a, Etx) OBVIOUS
<1>5. PICK c : c = rt_thread_startup(b, Uip) OBVIOUS
<1>6. PICK d : d = rt_thread_startup(c, Idle) OBVIOUS
<1>7. New(a, {} \cup {Erx}) BY <1>1, <1>2, <1>3, NetAssumption
<1>8. New(b, ({} \cup {Erx}) \cup {Etx}) BY <1>1, <1>4, <1>7, NetAssumption
<1>9. New(c, (({} \cup {Erx}) \cup {Etx}) \cup {Uip}) BY <1>1, <1>5, <1>8, NetAssumption
<1>10. New(d, ((({} \cup {Erx}) \cup {Etx}) \cup {Uip}) \cup {Idle})
  BY <1>1, <1>6, <1>9, NetAssumption
<1>11. /\ Sound(d) /\ d.nest = 0 /\ d.timer = {} /\ d.stat[Idle] = "READY"
       /\ \A w \in WaitList : ToSet(d.wait[w]) = {}
  BY <1>10, NetAssumption DEF New
<1>12. Started = rt_schedule(d)
  BY <1>3, <1>4, <1>5, <1>6, <1>11 DEF Started, rt_schedule
<1>13. d.group # {} BY <1>11, ReadyInGroup, KernelAssumption
<1>14. PICK e : e = Started OBVIOUS
<1>15. Dispatched(d, e) BY <1>11, <1>12, <1>13, <1>14, DispatchEffect
<1> QED BY <1>11, <1>14, <1>15 DEF Dispatched, Kept

\* What is known of the constants.
LEMMA NetConstants ==
  /\ Erx \in Thread /\ Etx \in Thread /\ Uip \in Thread /\ Idle \in Thread
  /\ Erx # Etx /\ Erx # Uip /\ Erx # Idle /\ Etx # Uip /\ Etx # Idle /\ Uip # Idle
  /\ "erxmb" \in WaitList /\ "etxmb" \in WaitList
  /\ "tx_ack" \in WaitList /\ "tx_buf_free" \in WaitList
  /\ ETH_RXBUFNB \in Nat /\ ETH_RXBUFNB > 0 /\ ETH_TXBUFNB \in Nat /\ ETH_TXBUFNB > 0
  /\ MboxSize \in Nat /\ MboxSize > 0 /\ MaxDirect \in Nat
BY NetAssumption

\* It satisfies the inductive invariant.
LEMMA InitInv == Init => IInv
<1> SUFFICES ASSUME Init PROVE IInv OBVIOUS
<1> USE NetConstants
<1>1. Sound(sys) /\ Runs /\ sys \in KernelState BY StartedOK DEF Init, Runs, Sound
<1>2. sys.timer = {} /\ \A w \in WaitList : Queue(w) = {} BY StartedOK DEF Init, Queue
<1>3. TypeOK BY <1>1 DEF Init, TypeOK, TxDesc, Place, Mem
<1>4. Waiters BY <1>2 DEF Waiters
<1>5. HandOver BY DEF Init, HandOver, Sending, Awaits
<1>6. Permits BY FS_EmptySet DEF Init, Permits, Holds
<1>7. Frames BY DEF Init, Frames
<1> QED BY <1>1, <1>3, <1>4, <1>5, <1>6, <1>7 DEF IInv

-----------------------------------------------------------------------------
(* The steps of Net *)

\* A list is empty when no thread is suspended on it.
LEMMA EmptyQueue ==
  ASSUME TypeOK, NEW w \in WaitList
  PROVE  sys.wait[w] = <<>> <=> Queue(w) = {}
<1>1. sys.wait[w] \in Seq(Thread) BY KernelTypes DEF TypeOK
<1> QED BY <1>1, EmptyList DEF Queue

\* The current thread waits nowhere.
LEMMA CurrentIsFree ==
  ASSUME Runs
  PROVE  sys.cur \notin sys.timer /\ \A w \in WaitList : sys.cur \notin Queue(w)
BY ReadyIsFree DEF Runs, Queue

\* The chain of descriptors is a ring.
LEMMA NextDesc == ASSUME NEW d \in TxDesc PROVE (d + 1) % ETH_TXBUFNB \in TxDesc
BY NetConstants DEF TxDesc

\* Counting the descriptors of the engine.
LEMMA OwnCount ==
  ASSUME TypeOK, NEW d \in TxDesc
  PROVE  /\ Cardinality(tx.own) \in Nat
         /\ Cardinality(tx.own \cup {d}) \in Nat /\ Cardinality(tx.own \ {d}) \in Nat
         /\ Cardinality(tx.own \cup {d}) <= Cardinality(tx.own) + 1
         /\ d \in tx.own => Cardinality(tx.own \ {d}) = Cardinality(tx.own) - 1
<1>1. ETH_TXBUFNB - 1 \in Int BY NetConstants
<1>2. IsFiniteSet(TxDesc) BY <1>1, FS_Interval DEF TxDesc
<1>3. tx.own \subseteq TxDesc BY DEF TypeOK
<1>4. IsFiniteSet(tx.own) BY <1>2, <1>3, FS_Subset
<1>5. IsFiniteSet(tx.own \cup {d}) /\ IsFiniteSet(tx.own \ {d})
  BY <1>4, FS_AddElement, FS_RemoveElement
<1>6. /\ Cardinality(tx.own) \in Nat
      /\ Cardinality(tx.own \cup {d}) \in Nat /\ Cardinality(tx.own \ {d}) \in Nat
  BY <1>4, <1>5, FS_CardinalityType
<1>7. Cardinality(tx.own \cup {d}) = IF d \in tx.own THEN Cardinality(tx.own)
                                                   ELSE Cardinality(tx.own) + 1
  BY <1>4, FS_AddElement
<1>8. Cardinality(tx.own \ {d}) = IF d \in tx.own THEN Cardinality(tx.own) - 1
                                                 ELSE Cardinality(tx.own)
  BY <1>4, FS_RemoveElement
<1> QED BY <1>6, <1>7, <1>8

\* The facts every step starts from, with the waiting lists one by one.
LEMMA Facts ==
  ASSUME IInv
  PROVE  /\ TypeOK /\ Runs /\ sys \in KernelState
         /\ sys.error \in [Thread -> Error]
         /\ Cardinality(tx.own) \in Nat
         /\ Queue("erxmb") \subseteq {Erx} /\ Queue("etxmb") \subseteq {Etx}
         /\ Queue("tx_ack") \subseteq {Erx} /\ Queue("tx_buf_free") \subseteq {Etx}
         /\ sys.wait["erxmb"] = <<>> <=> Queue("erxmb") = {}
         /\ sys.wait["etxmb"] = <<>> <=> Queue("etxmb") = {}
         /\ sys.wait["tx_ack"] = <<>> <=> Queue("tx_ack") = {}
         /\ sys.wait["tx_buf_free"] = <<>> <=> Queue("tx_buf_free") = {}
         /\ sys.cur \notin Queue("erxmb") /\ sys.cur \notin Queue("etxmb")
         /\ sys.cur \notin Queue("tx_ack") /\ sys.cur \notin Queue("tx_buf_free")
<1>1. TypeOK /\ Runs /\ sys \in KernelState BY DEF IInv, TypeOK
<1>2. sys.error \in [Thread -> Error] BY <1>1, KernelTypes
<1>3. tx.set \in TxDesc BY <1>1 DEF TypeOK
<1>4. Cardinality(tx.own) \in Nat BY <1>1, <1>3, OwnCount
<1>5. /\ Queue("erxmb") \subseteq {Erx} /\ Queue("etxmb") \subseteq {Etx}
      /\ Queue("tx_ack") \subseteq {Erx} /\ Queue("tx_buf_free") \subseteq {Etx}
  BY DEF IInv, Waiters
<1> QED BY <1>1, <1>2, <1>4, <1>5, EmptyQueue, CurrentIsFree, NetConstants

\* A frame arrives.
LEMMA DmaReceiveOK == ASSUME IInv, DmaReceive PROVE IInv'
<1> USE NetConstants
<1>1. TypeOK' BY DEF IInv, DmaReceive, TypeOK
<1>2. Runs' BY DEF IInv, DmaReceive, Runs
<1>3. Waiters' BY DEF IInv, DmaReceive, Waiters, Queue
<1>4. HandOver' BY DEF IInv, DmaReceive, HandOver, Sending, Awaits, Queue
<1>5. Permits' BY DEF IInv, TypeOK, Mem, DmaReceive, Permits, Holds, Queue
<1>6. Frames' BY DEF IInv, TypeOK, DmaReceive, Frames
<1> QED BY <1>1, <1>2, <1>3, <1>4, <1>5, <1>6 DEF IInv

\* A frame is sent: a descriptor comes back, and the T bit is owed a permit.
LEMMA DmaTransmitOK == ASSUME IInv, DmaTransmit PROVE IInv'
<1> USE NetConstants
<1>1. TypeOK' BY NextDesc DEF IInv, DmaTransmit, TypeOK
<1>2. Runs' BY DEF IInv, DmaTransmit, Runs
<1>3. Waiters' BY DEF IInv, DmaTransmit, Waiters, Queue
<1>4. HandOver' BY DEF IInv, DmaTransmit, HandOver, Sending, Awaits, Queue
<1>5. Permits'
  <2>1. /\ Cardinality(tx.own) \in Nat /\ Cardinality(tx'.own) = Cardinality(tx.own) - 1
    BY OwnCount DEF IInv, TypeOK, DmaTransmit
  <2> QED BY <2>1 DEF IInv, TypeOK, Mem, DmaTransmit, Permits, Holds, Queue
<1>6. Frames' BY DEF IInv, TypeOK, DmaTransmit, Frames
<1> QED BY <1>1, <1>2, <1>3, <1>4, <1>5, <1>6 DEF IInv

\* The handler reads the bits and wakes erx.
LEMMA IrqEnterOK == ASSUME IInv, IrqEnter PROVE IInv'
<1> USE NetConstants
<1>1. irq.at = "none" /\ irq.pending # {} /\ irq.pending \subseteq {"R", "T"}
  BY DEF IrqEnter, IInv, TypeOK
<1>2. /\ irq' = [irq EXCEPT !.at = "r", !.status = irq.pending]
      /\ pc' = pc /\ rx' = rx /\ tx' = tx /\ mem' = mem
  BY DEF IrqEnter
<1>3. /\ Runs' /\ sys'.error = sys.error /\ sys'.timer \subseteq sys.timer
      /\ Etx \in sys.timer <=> Etx \in sys'.timer
      /\ Queue("erxmb")' \subseteq Queue("erxmb") /\ Queue("etxmb")' = Queue("etxmb")
      /\ Queue("tx_ack")' = Queue("tx_ack") /\ Queue("tx_buf_free")' = Queue("tx_buf_free")
  <2>1. CASE sys' = sys BY <2>1 DEF IInv, Runs, Queue
  <2>2. CASE sys' # sys
    <3>1. sys.wait["erxmb"] # <<>> /\ sys' = rt_schedule(rt_ipc_list_resume(sys, "erxmb"))
      BY <2>2 DEF IrqEnter, Post
    <3>2. Runs /\ Queue("erxmb") \subseteq {Erx} BY Facts
    <3>3. PICK o \in WaitList : o = "erxmb" OBVIOUS
    <3>4. Runs' /\ Emptied(o, Erx) BY <3>1, <3>2, <3>3, WakeStep
    <3> QED BY <3>3, <3>4 DEF Emptied, Queue
  <2> QED BY <2>1, <2>2
<1>4. /\ obj'.etxmb = obj.etxmb /\ obj'.tx_ack = obj.tx_ack
      /\ obj'.tx_buf_free = obj.tx_buf_free
      /\ obj' \in [erxmb : 0 .. MboxSize, etxmb : 0 .. 1, tx_ack : 0 .. 1,
                  tx_buf_free : 0 .. ETH_TXBUFNB + MaxDirect]
      /\ obj'.erxmb >= obj.erxmb
      /\ "R" \in irq.pending => obj'.erxmb > 0
  BY DEF IrqEnter, Post, IInv, TypeOK
<1>5. TypeOK' BY <1>1, <1>2, <1>3, <1>4 DEF IInv, TypeOK, Runs, Sound
<1>6. Waiters' BY <1>2, <1>3 DEF IInv, Waiters
<1>7. HandOver' BY <1>2, <1>3, <1>4 DEF IInv, HandOver, Sending, Awaits
<1>8. Permits' BY <1>1, <1>2, <1>3, <1>4 DEF IInv, TypeOK, Mem, Permits, Holds
<1>9. Frames' BY <1>1, <1>2, <1>4 DEF IInv, TypeOK, Frames
<1> QED BY <1>3, <1>5, <1>6, <1>7, <1>8, <1>9 DEF IInv

\* The handler gives the permit for the T bit it has read, to etx if it waits,
\* and clears the R bit.
LEMMA IrqReleaseOK == ASSUME IInv, IrqRelease PROVE IInv'
<1> USE NetConstants
<1>1. /\ irq.at = "r" /\ irq.status \subseteq irq.pending /\ irq.status # {}
      /\ irq.status \subseteq {"R", "T"}
      /\ pc' = pc /\ rx' = rx /\ tx' = tx /\ mem' = mem
  BY DEF IrqRelease, IInv, Permits, TypeOK
<1>2. /\ irq' \in [pending : SUBSET {"R", "T"}, at : {"none", "r", "t"}, status : SUBSET {"R", "T"}]
      /\ irq'.at # "r"
      /\ "R" \in irq.pending => "R" \in irq'.pending \/ "R" \in irq.status
  <2>1. irq \in [pending : SUBSET {"R", "T"}, at : {"none", "r", "t"}, status : SUBSET {"R", "T"}]
    BY DEF IInv, TypeOK
  <2>2. CASE "T" \in irq.status
    <3>1. irq' = [irq EXCEPT !.at = "t", !.pending = @ \ (irq.status \cap {"R"})]
      BY <2>2 DEF IrqRelease
    <3> QED BY <2>1, <3>1
  <2>3. CASE "T" \notin irq.status
    <3>1. irq' = [pending |-> irq.pending \ {"R"}, at |-> "none", status |-> {}]
      BY <2>3 DEF IrqRelease
    <3> QED BY <1>1, <2>1, <2>3, <3>1
  <2> QED BY <2>2, <2>3
<1>3. Frames'
  <2>1. obj'.erxmb = obj.erxmb BY DEF IrqRelease, Release, IInv, TypeOK
  <2> QED BY <1>1, <1>2, <2>1 DEF IInv, Frames
<1>4. CASE "T" \notin irq.status
  <2>1. sys' = sys /\ obj' = obj BY <1>4 DEF IrqRelease
  <2>2. Runs' BY <2>1 DEF IInv, Runs
  <2>3. TypeOK' BY <1>1, <1>2, <2>1 DEF IInv, TypeOK
  <2>4. Waiters' BY <1>1, <2>1 DEF IInv, Waiters, Queue
  <2>5. HandOver' BY <1>1, <2>1 DEF IInv, HandOver, Sending, Awaits, Queue
  <2>6. irq'.at = "none" /\ ("T" \in irq'.pending <=> "T" \in irq.pending)
    BY <1>4 DEF IrqRelease
  <2>7. Permits' BY <1>1, <2>1, <2>6 DEF IInv, TypeOK, Mem, Permits, Holds, Queue
  <2> QED BY <1>3, <2>2, <2>3, <2>4, <2>5, <2>7 DEF IInv
<1>5. CASE "T" \in irq.status /\ sys.wait["tx_buf_free"] # <<>>
  <2>1. /\ sys' = rt_schedule(rt_ipc_list_resume(sys, "tx_buf_free")) /\ obj' = obj
        /\ irq'.at = "t"
    BY <1>5 DEF IrqRelease, Release, IInv, TypeOK
  <2>2. Runs /\ Queue("tx_buf_free") \subseteq {Etx} /\ Queue("tx_buf_free") # {}
    BY <1>5, Facts
  <2>3. PICK o \in WaitList : o = "tx_buf_free" OBVIOUS
  <2>4. Runs' /\ Emptied(o, Etx) BY <1>5, <2>1, <2>2, <2>3, WakeStep
  <2>5. /\ Queue("erxmb")' = Queue("erxmb") /\ Queue("etxmb")' = Queue("etxmb")
        /\ Queue("tx_ack")' = Queue("tx_ack") /\ Queue("tx_buf_free")' = {}
        /\ sys'.timer = sys.timer \ {Etx} /\ sys'.error = sys.error
    BY <2>3, <2>4 DEF Emptied, Queue
  <2>6. Etx \in Queue("tx_buf_free") BY <2>2
  <2>7. TypeOK' BY <1>1, <1>2, <2>1, <2>4 DEF IInv, TypeOK, Runs, Sound
  <2>8. Waiters' BY <1>1, <2>5 DEF IInv, Waiters
  <2>9. HandOver' BY <1>1, <2>1, <2>5 DEF IInv, HandOver, Sending, Awaits
  <2>10. Permits' BY <1>1, <1>5, <2>1, <2>5, <2>6, Facts DEF IInv, TypeOK, Mem, Permits, Holds, Waiters
  <2> QED BY <1>3, <2>4, <2>7, <2>8, <2>9, <2>10 DEF IInv
<1>6. CASE "T" \in irq.status /\ sys.wait["tx_buf_free"] = <<>>
  <2>1. /\ sys' = sys /\ obj' = [obj EXCEPT !.tx_buf_free = @ + 1] /\ irq'.at = "t"
    BY <1>6 DEF IrqRelease, Release, IInv, TypeOK
  <2>2. Runs' BY <2>1 DEF IInv, Runs
  <2>3. obj.tx_buf_free < ETH_TXBUFNB + MaxDirect
    BY <1>1, <1>6, Facts DEF IInv, TypeOK, Mem, Permits
  <2>4. TypeOK' BY <1>1, <1>2, <2>1, <2>3 DEF IInv, TypeOK
  <2>5. Waiters' BY <1>1, <2>1 DEF IInv, Waiters, Queue
  <2>6. HandOver' BY <1>1, <2>1 DEF IInv, TypeOK, HandOver, Sending, Awaits, Queue
  <2>7. Permits' BY <1>1, <1>6, <2>1, Facts, SMTT(30) DEF IInv, TypeOK, Mem, Permits, Holds, Queue
  <2> QED BY <1>3, <2>2, <2>4, <2>5, <2>6, <2>7 DEF IInv
<1> QED BY <1>4, <1>5, <1>6

\* The handler clears the T bit, with any T bit set in between.
LEMMA IrqLeaveOK == ASSUME IInv, IrqLeave PROVE IInv'
<1> USE NetConstants
<1>1. TypeOK' BY DEF IInv, IrqLeave, TypeOK
<1>2. Runs' BY DEF IInv, IrqLeave, Runs
<1>3. Waiters' BY DEF IInv, IrqLeave, Waiters, Queue
<1>4. HandOver' BY DEF IInv, IrqLeave, HandOver, Sending, Awaits, Queue
<1>5. Permits' BY DEF IInv, TypeOK, Mem, IrqLeave, Permits, Holds, Queue
<1>6. Frames' BY DEF IInv, TypeOK, IrqLeave, Frames
<1> QED BY <1>1, <1>2, <1>3, <1>4, <1>5, <1>6 DEF IInv

\* A tick: the current thread gives way, or a timer expires.  The timeout of
\* the wait of etx takes no permit.
LEMMA ClockOK == ASSUME IInv, Clock PROVE IInv'
<1> USE NetConstants
<1>1. pc' = pc /\ rx' = rx /\ tx' = tx /\ irq' = irq /\ obj' = obj /\ mem' = mem
  BY DEF Clock, Tick, TickYield, TimerExpires
<1>2. Frames' BY <1>1 DEF IInv, Frames
<1>3. CASE TickYield
  <2>1. /\ Runs' /\ sys'.error = sys.error /\ sys'.timer = sys.timer
        /\ sys'.wait = sys.wait
    BY <1>3, YieldStep DEF IInv
  <2>2. TypeOK' BY <1>1, <2>1 DEF IInv, TypeOK, Runs, Sound
  <2>3. Waiters' BY <1>1, <2>1 DEF IInv, Waiters, Queue
  <2>4. HandOver' BY <1>1, <2>1 DEF IInv, HandOver, Sending, Awaits, Queue
  <2>5. Permits' BY <1>1, <2>1 DEF IInv, Permits, Holds, Queue
  <2> QED BY <1>2, <2>1, <2>2, <2>3, <2>4, <2>5 DEF IInv
<1>4. CASE \E t \in Thread : TimerExpires(t)
  <2>1. PICK t \in Thread : TimerExpires(t) BY <1>4
  <2>2. t \in sys.timer BY <2>1 DEF TimerExpires
  <2>3. Runs' /\ Freed(t) /\ sys'.error = [sys.error EXCEPT ![t] = "ETIMEOUT"]
    BY <2>1, TimeoutStep DEF IInv
  <2>4. t = Uip \/ (t = Etx /\ Etx \in Queue("tx_buf_free")) BY <2>2 DEF IInv, Waiters
  <2>5. /\ Queue("erxmb")' = Queue("erxmb") \ {t} /\ Queue("etxmb")' = Queue("etxmb") \ {t}
        /\ Queue("tx_ack")' = Queue("tx_ack") \ {t}
        /\ Queue("tx_buf_free")' = Queue("tx_buf_free") \ {t}
        /\ sys'.timer = sys.timer \ {t}
    BY <2>3 DEF Freed, Queue
  <2>6. sys'.error[Etx] = IF t = Etx THEN "ETIMEOUT" ELSE sys.error[Etx] BY <2>3, Facts
  <2>7. TypeOK' BY <1>1, <2>3 DEF IInv, TypeOK, Runs, Sound
  <2>8. Waiters' BY <1>1, <2>4, <2>5, <2>6 DEF IInv, Waiters
  <2>9. HandOver' BY <1>1, <2>4, <2>5 DEF IInv, HandOver, Sending, Awaits
  <2>10. Permits' BY <1>1, <2>4, <2>5, <2>6, Facts DEF IInv, TypeOK, Mem, Permits, Holds, Waiters
  <2> QED BY <1>2, <2>3, <2>7, <2>8, <2>9, <2>10 DEF IInv
<1> QED BY <1>3, <1>4 DEF Clock, Tick

\* The places of the threads after a step of c to l.
LEMMA PcStep ==
  ASSUME TypeOK, NEW c \in Thread, NEW l, Goto(c, l),
         l \in Place
  PROVE  /\ pc' \in [Thread -> Place]
         /\ pc'[c] = l /\ \A t \in Thread \ {c} : pc'[t] = pc[t]
BY DEF TypeOK, Goto

\* The current thread c waits for o: what its Block does to the lists.
Blocked(c, o, time) ==
  /\ Runs' /\ sys' \in KernelState /\ sys'.error[c] = "EOK"
  /\ \A t \in Thread \ {c} : sys'.error[t] = sys.error[t]
  /\ sys'.timer = IF time = "timed" THEN sys.timer \cup {c} ELSE sys.timer
  /\ \A w \in WaitList :
       ToSet(sys'.wait[w]) = ToSet(sys.wait[w]) \cup (IF w = o THEN {c} ELSE {})

\* A thread that waits is appended to the list of what it waits for.
LEMMA BlockQueues ==
  ASSUME IInv, NEW c \in Thread \ {Idle}, NEW o \in WaitList, NEW time, sys.cur = c,
         sys' = rt_schedule(WaitOn(sys, o, c, "FIFO", time))
  PROVE  Blocked(c, o, time)
<1>1. Runs' /\ Joined(c, o, time) BY BlockStep DEF IInv
<1>2. sys' \in KernelState BY <1>1 DEF Runs, Sound
<1> QED BY <1>1, <1>2, Facts DEF Joined, Blocked

\* erx takes a mail, or waits for one.
LEMMA RxMailOK == ASSUME IInv, irq.at = "none", RxMail PROVE IInv'
<1> USE NetConstants
<1>1. /\ sys.cur = Erx /\ pc[Erx] = "run" /\ rx' = rx /\ tx' = tx /\ irq' = irq
      /\ mem' = [mem EXCEPT !.gaveup = @ /\ obj.erxmb = 0]
  BY DEF RxMail, Running, At
<1>2. /\ mem' \in Mem
      /\ mem'.p = mem.p /\ mem'.pdata = mem.pdata /\ mem'.direct = mem.direct
      /\ obj.erxmb = 0 => mem'.gaveup = mem.gaveup
  BY <1>1 DEF IInv, TypeOK, Mem
<1>3. CASE obj.erxmb > 0
  <2>1. sys' = sys /\ obj' = [obj EXCEPT !.erxmb = @ - 1] /\ Goto(Erx, "rx")
    BY <1>3 DEF RxMail, Receive
  <2>2. /\ pc' \in [Thread -> Place]
        /\ pc'[Erx] = "rx" /\ pc'[Etx] = pc[Etx]
    BY <2>1, PcStep DEF IInv, Place
  <2>3. TypeOK' BY <1>1, <1>2, <1>3, <2>1, <2>2 DEF IInv, TypeOK
  <2>4. Runs' BY <2>1 DEF IInv, Runs
  <2>5. Waiters' BY <1>1, <2>1, <2>2, Facts DEF IInv, Waiters, Queue
  <2>6. HandOver' BY <1>1, <1>2, <2>1, <2>2 DEF IInv, TypeOK, HandOver, Sending, Awaits, Queue
  <2>7. Permits' BY <1>1, <1>2, <2>1, <2>2 DEF IInv, TypeOK, Mem, Permits, Holds, Queue
  <2>8. Frames' BY <1>1, <2>1, <2>2 DEF IInv, TypeOK, Frames
  <2> QED BY <2>3, <2>4, <2>5, <2>6, <2>7, <2>8 DEF IInv
<1>4. CASE obj.erxmb = 0
  <2>1. /\ sys' = rt_schedule(WaitOn(sys, "erxmb", Erx, "FIFO", "forever"))
        /\ obj' = obj /\ Goto(Erx, "run")
    BY <1>4 DEF RxMail, Receive, Block, IInv, TypeOK
  <2>2. /\ pc' \in [Thread -> Place]
        /\ pc'[Erx] = "run" /\ pc'[Etx] = pc[Etx]
    BY <2>1, PcStep DEF IInv, Place
  <2>3. PICK o \in WaitList : o = "erxmb" OBVIOUS
  <2>4. PICK time : time = "forever" OBVIOUS
  <2>5. Blocked(Erx, o, time)
    BY <1>1, <2>1, <2>3, <2>4, BlockQueues
  <2>6. /\ Queue("erxmb")' = Queue("erxmb") \cup {Erx} /\ Queue("etxmb")' = Queue("etxmb")
        /\ Queue("tx_ack")' = Queue("tx_ack") /\ Queue("tx_buf_free")' = Queue("tx_buf_free")
        /\ sys'.timer = sys.timer /\ sys'.error[Etx] = sys.error[Etx]
        /\ Runs' /\ sys' \in KernelState
    BY <2>3, <2>4, <2>5 DEF Blocked, Queue
  <2>7. TypeOK' BY <1>1, <1>2, <2>1, <2>2, <2>6 DEF IInv, TypeOK
  <2>8. Waiters' BY <1>1, <2>2, <2>6, Facts DEF IInv, Waiters
  <2>9. HandOver' BY <1>1, <1>2, <2>1, <2>2, <2>6 DEF IInv, TypeOK, HandOver, Sending, Awaits
  <2>10. Permits' BY <1>1, <1>2, <2>1, <2>2, <2>6 DEF IInv, TypeOK, Mem, Permits, Holds
  <2>11. Frames' BY <1>1, <1>2, <1>4, <2>1, <2>2 DEF IInv, TypeOK, Frames
  <2> QED BY <2>6, <2>7, <2>8, <2>9, <2>10, <2>11 DEF IInv
<1> QED BY <1>3, <1>4 DEF IInv, TypeOK

\* What erx does to its blocks.
LEMMA MemGaveup ==
  ASSUME NEW m \in Mem, NEW g \in BOOLEAN, NEW r, r = [m EXCEPT !.gaveup = g]
  PROVE  r \in Mem /\ r.direct = m.direct /\ r.gaveup = g
BY DEF Mem

\* A new frame buffer has one reference.
LEMMA MemTaken ==
  ASSUME NEW m \in Mem, NEW r, r = [m EXCEPT !.p = 1, !.gaveup = FALSE]
  PROVE  r \in Mem /\ r.direct = m.direct /\ r.p = 1
<1>1. 1 \in -1 .. 1 OBVIOUS
<1> QED BY <1>1 DEF Mem

\* pbuf_free takes one reference away.
LEMMA MemFreed ==
  ASSUME NEW m \in Mem, m.p >= 0, NEW r, r = pbuf_free(m)
  PROVE  r \in Mem /\ r.direct = m.direct /\ r.p = m.p - 1
<1>1. m.p - 1 \in -1 .. 1 BY DEF Mem
<1> QED BY <1>1 DEF Mem, pbuf_free

\* The answer of the driver does not touch the references.
LEMMA MemAnswer ==
  ASSUME NEW m \in Mem, NEW v \in {0, 1}, NEW r, r = [m EXCEPT !.pdata = v]
  PROVE  r \in Mem /\ r.direct = m.direct /\ r.p = m.p /\ r.pdata = v
BY DEF Mem

\* Steps of erx that leave the kernel, the mailboxes and the semaphores alone.
LEMMA ErxLocal ==
  ASSUME IInv, irq.at = "none", sys.cur = Erx, NEW l \in Place, Goto(Erx, l),
         sys' = sys, obj' = obj, tx' = tx, irq' = irq, rx' \in 0 .. ETH_RXBUFNB,
         mem' \in Mem,
         mem'.direct = mem.direct,
         pc[Erx] # "ack", l \notin {"ack", "sent"}, l # "run" \/ rx' = 0 \/ mem'.gaveup
  PROVE  IInv'
<1> USE NetConstants
<1>1. pc' \in [Thread -> Place] /\ pc'[Erx] = l /\ pc'[Etx] = pc[Etx]
  BY PcStep DEF IInv
<1>2. TypeOK' BY <1>1 DEF IInv, TypeOK
<1>3. Runs' BY DEF IInv, Runs
<1>4. Waiters' BY <1>1, Facts DEF IInv, Waiters, Queue
<1>5. HandOver' BY <1>1, Facts DEF IInv, HandOver, Sending, Awaits, Queue
<1>6. Permits' BY <1>1 DEF IInv, TypeOK, Mem, Permits, Holds, Queue
<1>7. Frames' BY <1>1 DEF IInv, TypeOK, Frames
<1> QED BY <1>2, <1>3, <1>4, <1>5, <1>6, <1>7 DEF IInv

\* The first half of ethernetif_linkoutput: the message is in the mailbox.
LEMMA LinkPostOK ==
  ASSUME IInv, irq.at = "none", sys.cur = Erx, pc[Erx] = "rx",
         rx' \in 0 .. ETH_RXBUFNB, tx' = tx, irq' = irq,
         NEW m \in Mem,
         m.p = 1, m.direct = mem.direct, LinkPost(m)
  PROVE  IInv'
<1> USE NetConstants
<1>1. obj.etxmb = 0 /\ obj.tx_ack = 0 /\ ~Sending
  BY DEF IInv, TypeOK, HandOver, Awaits
<1>2. obj' = [obj EXCEPT !.etxmb = @ + 1] /\ Goto(Erx, "ack") /\ mem' = [m EXCEPT !.pdata = 1]
  BY <1>1 DEF LinkPost, Post
<1>3. pc' \in [Thread -> Place] /\ pc'[Erx] = "ack" /\ pc'[Etx] = pc[Etx]
  BY <1>2, PcStep DEF IInv, Place
<1>4. /\ Runs' /\ sys' \in KernelState /\ sys'.error = sys.error
      /\ sys'.timer \subseteq sys.timer
      /\ Etx \in Queue("tx_buf_free") => Etx \in Queue("tx_buf_free")'
      /\ Queue("erxmb")' = Queue("erxmb") /\ Queue("etxmb")' \subseteq Queue("etxmb")
      /\ Queue("tx_ack")' = Queue("tx_ack") /\ Queue("tx_buf_free")' = Queue("tx_buf_free")
  <2>1. CASE sys' = sys BY <2>1 DEF IInv, Runs, Queue, TypeOK
  <2>2. CASE sys' # sys
    <3>1. sys.wait["etxmb"] # <<>> /\ sys' = rt_schedule(rt_ipc_list_resume(sys, "etxmb"))
      BY <2>2 DEF LinkPost, Post
    <3>2. Runs /\ Queue("etxmb") \subseteq {Etx} BY Facts
    <3>3. PICK o \in WaitList : o = "etxmb" OBVIOUS
    <3>4. Runs' /\ Emptied(o, Etx) BY <3>1, <3>2, <3>3, WakeStep
    <3> QED BY <3>3, <3>4 DEF Emptied, Queue, Runs, Sound
  <2> QED BY <2>1, <2>2
<1>5. TypeOK' BY <1>1, <1>2, <1>3, <1>4, MemAnswer DEF IInv, TypeOK
<1>6. Waiters' BY <1>3, <1>4, Facts DEF IInv, Waiters
<1>7. HandOver'
  BY <1>1, <1>2, <1>3, <1>4, MemAnswer DEF IInv, TypeOK, HandOver, Sending, Awaits
<1>8. Permits' BY <1>2, <1>3, <1>4, MemAnswer DEF IInv, TypeOK, Mem, Permits, Holds
<1>9. Frames' BY <1>2, <1>3 DEF IInv, TypeOK, Frames
<1> QED BY <1>4, <1>5, <1>6, <1>7, <1>8, <1>9 DEF IInv

\* erx reads a frame.
LEMMA EthRxOK == ASSUME IInv, irq.at = "none", rt_stm32_eth_rx PROVE IInv'
<1> USE NetConstants DEF Place
<1>1. sys.cur = Erx /\ pc[Erx] = "rx" /\ tx' = tx /\ irq' = irq
  BY DEF rt_stm32_eth_rx, At
<1>2. /\ mem \in Mem
      /\ rx \in 0 .. ETH_RXBUFNB
  BY DEF IInv, TypeOK
<1>3. CASE rx = 0 /\ Goto(Erx, "run") /\ UNCHANGED <<sys, rx, obj, mem>>
  BY <1>1, <1>2, <1>3, ErxLocal
<1>4. CASE /\ rx > 0 /\ rx' = rx - 1 /\ mem' = [mem EXCEPT !.gaveup = rx > 1]
           /\ Goto(Erx, "run") /\ UNCHANGED <<sys, obj>>
  <2>1. /\ mem' \in Mem
        /\ mem'.direct = mem.direct /\ rx' \in 0 .. ETH_RXBUFNB
        /\ rx' = 0 \/ mem'.gaveup
    <3>1. CASE rx > 1
      <4>1. mem' = [mem EXCEPT !.gaveup = TRUE] BY <1>4, <3>1
      <4>2. mem' \in Mem /\ mem'.direct = mem.direct /\ mem'.gaveup
        BY <1>2, <4>1, MemGaveup
      <4> QED BY <1>2, <1>4, <4>2
    <3>2. CASE ~(rx > 1)
      <4>0. (rx > 1) = FALSE BY <1>2, <3>2, SMT
      <4>1. mem' = [mem EXCEPT !.gaveup = FALSE] BY <1>4, <4>0, Zenon
      <4>2. mem' \in Mem /\ mem'.direct = mem.direct BY <1>2, <4>1, MemGaveup
      <4>3. rx' = 0 BY <1>2, <1>4, <3>2
      <4> QED BY <4>2, <4>3
    <3> QED BY <3>1, <3>2
  <2> QED BY <1>1, <1>4, <2>1, ErxLocal
<1>5. CASE rx > 0 /\ rx' = rx - 1 /\ eth_input([mem EXCEPT !.p = 1, !.gaveup = FALSE])
  <2>1. PICK m : m = [mem EXCEPT !.p = 1, !.gaveup = FALSE] OBVIOUS
  <2>2. /\ m \in Mem
        /\ m.p = 1 /\ m.direct = mem.direct /\ rx' \in 0 .. ETH_RXBUFNB
    <3>1. m \in Mem /\ m.p = 1 /\ m.direct = mem.direct BY <1>2, <2>1, MemTaken
    <3> QED BY <1>2, <1>5, <3>1
  <2>3. CASE Dropped(m)
    <3>1. Goto(Erx, "rx") /\ sys' = sys /\ obj' = obj BY <2>3 DEF Dropped
    <3>2. /\ mem' \in Mem
          /\ mem'.direct = mem.direct
      <4>1. CASE mem' = pbuf_free(m) BY <2>2, <4>1, MemFreed
      <4>2. CASE mem' = pbuf_free(pbuf_free(m)) 
        <5>1. PICK f : f = pbuf_free(m) OBVIOUS
        <5>2. f \in Mem /\ f.p = 0 /\ f.direct = mem.direct BY <2>2, <5>1, MemFreed
        <5> QED BY <4>2, <5>1, <5>2, MemFreed
      <4> QED BY <2>3, <4>1, <4>2 DEF Dropped
    <3> QED BY <1>1, <2>2, <3>1, <3>2, ErxLocal
  <2>4. CASE LinkPost(m) BY <1>1, <2>2, <2>4, LinkPostOK
  <2> QED BY <1>5, <2>1, <2>3, <2>4 DEF eth_input
<1> QED BY <1>3, <1>4, <1>5 DEF rt_stm32_eth_rx

\* The block and the answer are freed.
LEMMA LinkDoneOK == ASSUME IInv, irq.at = "none", LinkDone PROVE IInv'
<1> USE NetConstants DEF Place
<1>1. sys.cur = Erx /\ pc[Erx] = "sent" /\ Goto(Erx, "rx") BY DEF LinkDone, At
<1>2. mem.p = 1 /\ mem' = pbuf_free([mem EXCEPT !.pdata = 0]) BY <1>1 DEF IInv, HandOver, LinkDone
<1>3. /\ mem' \in Mem
      /\ mem'.direct = mem.direct
  <2>1. PICK m : m = [mem EXCEPT !.pdata = 0] OBVIOUS
  <2>2. mem \in Mem BY DEF IInv, TypeOK
  <2>3. m \in Mem /\ m.p = 1 /\ m.direct = mem.direct BY <1>2, <2>1, <2>2, MemAnswer
  <2>4. mem' = pbuf_free(m) BY <1>2, <2>1
  <2> QED BY <2>3, <2>4, MemFreed
<1> QED BY <1>1, <1>3, ErxLocal DEF LinkDone, IInv, TypeOK

\* erx takes the ack, or waits for it.
LEMMA LinkWaitOK == ASSUME IInv, irq.at = "none", LinkWait PROVE IInv'
<1> USE NetConstants
<1>1. /\ sys.cur = Erx /\ pc[Erx] = "ack" /\ Goto(Erx, "sent")
      /\ rx' = rx /\ tx' = tx /\ irq' = irq /\ mem' = mem
  BY DEF LinkWait, At, Block
<1>2. pc' \in [Thread -> Place] /\ pc'[Erx] = "sent" /\ pc'[Etx] = pc[Etx]
  BY <1>1, PcStep DEF IInv, Place
<1>3. CASE obj.tx_ack > 0
  <2>1. sys' = sys /\ obj' = [obj EXCEPT !.tx_ack = @ - 1]
    BY <1>3 DEF LinkWait
  <2>2. TypeOK' BY <1>1, <1>2, <1>3, <2>1 DEF IInv, TypeOK
  <2>3. Runs' BY <2>1 DEF IInv, Runs
  <2>4. Waiters' BY <1>1, <1>2, <2>1, Facts DEF IInv, Waiters, Queue
  <2>5. HandOver' BY <1>1, <1>2, <1>3, <2>1, Facts
      DEF IInv, TypeOK, HandOver, Sending, Awaits, Queue
  <2>6. Permits' BY <1>1, <1>2, <2>1 DEF IInv, TypeOK, Mem, Permits, Holds, Queue
  <2>7. Frames' BY <1>1, <1>2, <2>1 DEF IInv, TypeOK, Frames
  <2> QED BY <2>2, <2>3, <2>4, <2>5, <2>6, <2>7 DEF IInv
<1>4. CASE obj.tx_ack = 0
  <2>1. sys' = rt_schedule(WaitOn(sys, "tx_ack", Erx, "FIFO", "forever")) /\ obj' = obj
    BY <1>4 DEF LinkWait, Block, IInv, TypeOK
  <2>2. PICK o \in WaitList : o = "tx_ack" OBVIOUS
  <2>3. PICK time : time = "forever" OBVIOUS
  <2>4. Blocked(Erx, o, time) BY <1>1, <2>1, <2>2, <2>3, BlockQueues
  <2>5. /\ Queue("erxmb")' = Queue("erxmb") /\ Queue("etxmb")' = Queue("etxmb")
        /\ Queue("tx_ack")' = Queue("tx_ack") \cup {Erx}
        /\ Queue("tx_buf_free")' = Queue("tx_buf_free")
        /\ sys'.timer = sys.timer /\ sys'.error[Etx] = sys.error[Etx]
        /\ Runs' /\ sys' \in KernelState
    BY <2>2, <2>3, <2>4 DEF Blocked, Queue
  <2>6. TypeOK' BY <1>1, <1>2, <2>1, <2>5 DEF IInv, TypeOK
  <2>7. Waiters' BY <1>1, <1>2, <2>5, Facts DEF IInv, Waiters
  <2>8. HandOver' BY <1>1, <1>2, <1>4, <2>1, <2>5
      DEF IInv, TypeOK, HandOver, Sending, Awaits
  <2>9. Permits' BY <1>1, <1>2, <2>1, <2>5 DEF IInv, TypeOK, Mem, Permits, Holds
  <2>10. Frames' BY <1>1, <1>2, <2>1 DEF IInv, TypeOK, Frames
  <2> QED BY <2>5, <2>6, <2>7, <2>8, <2>9, <2>10 DEF IInv
<1> QED BY <1>3, <1>4 DEF IInv, TypeOK

\* etx takes the message, or waits for one.
LEMMA TxMailOK == ASSUME IInv, irq.at = "none", TxMail PROVE IInv'
<1> USE NetConstants
<1>1. /\ sys.cur = Etx /\ pc[Etx] = "run"
      /\ rx' = rx /\ tx' = tx /\ irq' = irq /\ mem' = mem
  BY DEF TxMail, Running, At
<1>2. CASE obj.etxmb > 0
  <2>1. sys' = sys /\ obj' = [obj EXCEPT !.etxmb = @ - 1] /\ Goto(Etx, "tx")
    BY <1>2 DEF TxMail, Receive
  <2>2. pc' \in [Thread -> Place] /\ pc'[Etx] = "tx" /\ pc'[Erx] = pc[Erx]
    BY <2>1, PcStep DEF IInv, Place
  <2>3. TypeOK' BY <1>1, <1>2, <2>1, <2>2 DEF IInv, TypeOK
  <2>4. Runs' BY <2>1 DEF IInv, Runs
  <2>5. Waiters' BY <1>1, <2>1, <2>2, Facts DEF IInv, Waiters, Queue
  <2>6. HandOver' BY <1>1, <1>2, <2>1, <2>2
      DEF IInv, TypeOK, HandOver, Sending, Awaits, Queue
  <2>7. Permits' BY <1>1, <2>1, <2>2 DEF IInv, TypeOK, Mem, Permits, Holds, Queue
  <2>8. Frames' BY <1>1, <2>1, <2>2 DEF IInv, TypeOK, Frames
  <2> QED BY <2>3, <2>4, <2>5, <2>6, <2>7, <2>8 DEF IInv
<1>3. CASE obj.etxmb = 0
  <2>1. /\ sys' = rt_schedule(WaitOn(sys, "etxmb", Etx, "FIFO", "forever"))
        /\ obj' = obj /\ Goto(Etx, "run")
    BY <1>3 DEF TxMail, Receive, Block, IInv, TypeOK
  <2>2. pc' \in [Thread -> Place] /\ pc'[Etx] = "run" /\ pc'[Erx] = pc[Erx]
    BY <2>1, PcStep DEF IInv, Place
  <2>3. PICK o \in WaitList : o = "etxmb" OBVIOUS
  <2>4. PICK time : time = "forever" OBVIOUS
  <2>5. Blocked(Etx, o, time) BY <1>1, <2>1, <2>3, <2>4, BlockQueues
  <2>6. /\ Queue("erxmb")' = Queue("erxmb") /\ Queue("etxmb")' = Queue("etxmb") \cup {Etx}
        /\ Queue("tx_ack")' = Queue("tx_ack") /\ Queue("tx_buf_free")' = Queue("tx_buf_free")
        /\ sys'.timer = sys.timer /\ Runs' /\ sys' \in KernelState
    BY <2>3, <2>4, <2>5 DEF Blocked, Queue
  <2>7. TypeOK' BY <1>1, <2>1, <2>2, <2>6 DEF IInv, TypeOK
  <2>8. Waiters' BY <1>1, <2>2, <2>6, Facts DEF IInv, Waiters
  <2>9. HandOver' BY <1>1, <2>1, <2>2, <2>6 DEF IInv, TypeOK, HandOver, Sending, Awaits
  <2>10. Permits' BY <1>1, <2>1, <2>2, <2>6 DEF IInv, TypeOK, Mem, Permits, Holds
  <2>11. Frames' BY <1>1, <2>1, <2>2 DEF IInv, TypeOK, Frames
  <2> QED BY <2>6, <2>7, <2>8, <2>9, <2>10, <2>11 DEF IInv
<1> QED BY <1>2, <1>3 DEF IInv, TypeOK

\* etx takes a permit, or waits for one with a timeout.
LEMMA TxClaimOK == ASSUME IInv, irq.at = "none", TxClaim PROVE IInv'
<1> USE NetConstants
<1>1. /\ sys.cur = Etx /\ pc[Etx] = "tx"
      /\ rx' = rx /\ tx' = tx /\ irq' = irq /\ mem' = mem
  BY DEF TxClaim, At
<1>2. CASE obj.tx_buf_free > 0
  <2>1. sys' = sys /\ obj' = [obj EXCEPT !.tx_buf_free = @ - 1] /\ Goto(Etx, "copy")
    BY <1>2 DEF TxClaim
  <2>2. pc' \in [Thread -> Place] /\ pc'[Etx] = "copy" /\ pc'[Erx] = pc[Erx]
    BY <2>1, PcStep DEF IInv, Place
  <2>3. TypeOK' BY <1>1, <1>2, <2>1, <2>2 DEF IInv, TypeOK
  <2>4. Runs' BY <2>1 DEF IInv, Runs
  <2>5. Waiters' BY <1>1, <2>1, <2>2, Facts DEF IInv, Waiters, Queue
  <2>6. HandOver' BY <1>1, <1>2, <2>1, <2>2
      DEF IInv, TypeOK, HandOver, Sending, Awaits, Queue
  <2>7. Permits' BY <1>1, <1>2, <2>1, <2>2, Facts, SMTT(30) DEF IInv, TypeOK, Mem, Permits, Holds, Queue
  <2>8. Frames' BY <1>1, <2>1, <2>2 DEF IInv, TypeOK, Frames
  <2> QED BY <2>3, <2>4, <2>5, <2>6, <2>7, <2>8 DEF IInv
<1>3. CASE obj.tx_buf_free = 0
  <2>1. /\ sys' = rt_schedule(WaitOn(sys, "tx_buf_free", Etx, "FIFO", "timed"))
        /\ obj' = obj /\ Goto(Etx, "took")
    BY <1>3 DEF TxClaim, Block, IInv, TypeOK
  <2>2. pc' \in [Thread -> Place] /\ pc'[Etx] = "took" /\ pc'[Erx] = pc[Erx]
    BY <2>1, PcStep DEF IInv, Place
  <2>3. PICK o \in WaitList : o = "tx_buf_free" OBVIOUS
  <2>4. PICK time : time = "timed" OBVIOUS
  <2>5. Blocked(Etx, o, time) BY <1>1, <2>1, <2>3, <2>4, BlockQueues
  <2>6. /\ Queue("erxmb")' = Queue("erxmb") /\ Queue("etxmb")' = Queue("etxmb")
        /\ Queue("tx_ack")' = Queue("tx_ack")
        /\ Queue("tx_buf_free")' = Queue("tx_buf_free") \cup {Etx}
        /\ sys'.timer = sys.timer \cup {Etx} /\ sys'.error[Etx] = "EOK"
        /\ Runs' /\ sys' \in KernelState
    BY <2>3, <2>4, <2>5 DEF Blocked, Queue
  <2>7. TypeOK' BY <1>1, <2>1, <2>2, <2>6 DEF IInv, TypeOK
  <2>8. Waiters' BY <1>1, <2>2, <2>6, Facts DEF IInv, Waiters
  <2>9. HandOver' BY <1>1, <2>1, <2>2, <2>6 DEF IInv, TypeOK, HandOver, Sending, Awaits
  <2>10. Permits' BY <1>1, <2>1, <2>2, <2>6 DEF IInv, TypeOK, Mem, Permits, Holds
  <2>11. Frames' BY <1>1, <2>1, <2>2 DEF IInv, TypeOK, Frames
  <2> QED BY <2>6, <2>7, <2>8, <2>9, <2>10, <2>11 DEF IInv
<1> QED BY <1>2, <1>3 DEF IInv, TypeOK

\* Steps of etx that leave the kernel and the objects alone and keep the
\* message: descriptors it takes are covered by the permit it holds.
LEMMA EtxLocal ==
  ASSUME IInv, sys.cur = Etx, NEW l \in {"copy", "step", "reply"}, Goto(Etx, l), Sending,
         sys' = sys, obj' = obj, irq' = irq, rx' = rx, mem' = mem,
         tx' \in [own : SUBSET TxDesc, set : TxDesc, dma : TxDesc],
         Cardinality(tx'.own) \in Nat,
         Cardinality(tx'.own) + (IF l = "copy" THEN 1 ELSE 0)
           <= Cardinality(tx.own) + (IF Holds THEN 1 ELSE 0)
  PROVE  IInv'
<1> USE NetConstants
<1>1. pc' \in [Thread -> Place] /\ pc'[Etx] = l /\ pc'[Erx] = pc[Erx]
  BY PcStep DEF IInv, Place
<1>2. TypeOK' BY <1>1 DEF IInv, TypeOK
<1>3. Runs' BY DEF IInv, Runs
<1>4. Waiters' BY <1>1, Facts DEF IInv, Waiters, Queue
<1>5. HandOver' BY <1>1 DEF IInv, HandOver, Sending, Awaits, Queue
<1>6. Permits'
  <2>1. (IF Holds' THEN 1 ELSE 0) = IF l = "copy" THEN 1 ELSE 0 BY <1>1 DEF Holds
  <2>2. Cardinality(tx.own) \in Nat BY Facts
  <2>3. PICK h \in {0, 1} : h = IF Holds THEN 1 ELSE 0 OBVIOUS
  <2>4. obj.tx_buf_free + h + (IF "T" \in irq.pending /\ irq.at # "t" THEN 1 ELSE 0)
          <= ETH_TXBUFNB - Cardinality(tx.own) + mem.direct
    BY <2>3 DEF IInv, Permits
  <2>5. Cardinality(tx'.own) + (IF l = "copy" THEN 1 ELSE 0) <= Cardinality(tx.own) + h
    BY <2>3
  <2>6. obj.tx_buf_free + (IF l = "copy" THEN 1 ELSE 0)
          + (IF "T" \in irq.pending /\ irq.at # "t" THEN 1 ELSE 0)
          <= ETH_TXBUFNB - Cardinality(tx'.own) + mem.direct
    BY <2>2, <2>4, <2>5 DEF IInv, TypeOK, Mem
  <2> QED BY <2>1, <2>6 DEF IInv, Permits
<1>7. Frames' BY <1>1 DEF IInv, TypeOK, Frames
<1> QED BY <1>2, <1>3, <1>4, <1>5, <1>6, <1>7 DEF IInv

\* eth_tx goes on with its permit, or answers without one.
LEMMA TxTookOK == ASSUME IInv, TxTook PROVE IInv'
<1> USE NetConstants
<1>1. /\ sys.cur = Etx /\ pc[Etx] = "took"
      /\ UNCHANGED <<sys, rx, tx, irq, obj, mem>>
  BY DEF TxTook, At
<1>2. PICK l \in {"copy", "step", "reply"} :
        Goto(Etx, l) /\ (l = "copy" => sys.error[Etx] = "EOK")
  BY DEF TxTook
<1>3. l = "copy" => Holds BY <1>1, <1>2, Facts DEF Holds
<1>4. Cardinality(tx.own) \in Nat BY Facts
<1>5. Cardinality(tx'.own) + (IF l = "copy" THEN 1 ELSE 0)
        <= Cardinality(tx.own) + (IF Holds THEN 1 ELSE 0)
  BY <1>1, <1>3, <1>4
<1> QED BY <1>1, <1>2, <1>4, <1>5, EtxLocal DEF Sending, IInv, TypeOK

\* The frame is in the descriptor: the permit is used up.
LEMMA TxCopyOK == ASSUME IInv, TxCopy PROVE IInv'
<1> USE NetConstants
<1>1. /\ sys.cur = Etx /\ pc[Etx] = "copy" /\ tx' = Own(tx) /\ Goto(Etx, "step")
      /\ UNCHANGED <<sys, rx, irq, obj, mem>>
  BY DEF TxCopy, At
<1>2. tx \in [own : SUBSET TxDesc, set : TxDesc, dma : TxDesc] BY DEF IInv, TypeOK
<1>3. /\ tx' \in [own : SUBSET TxDesc, set : TxDesc, dma : TxDesc]
      /\ tx'.own = tx.own \cup {tx.set} /\ tx.set \in TxDesc
  BY <1>1, <1>2 DEF Own
<1>4. /\ Cardinality(tx'.own) \in Nat /\ Cardinality(tx.own) \in Nat
      /\ Cardinality(tx'.own) <= Cardinality(tx.own) + 1
  BY <1>3, OwnCount DEF IInv
<1>5. Holds BY <1>1 DEF Holds
<1>6. PICK l \in {"copy", "step", "reply"} : l = "step" OBVIOUS
<1>7. Cardinality(tx'.own) + (IF l = "copy" THEN 1 ELSE 0)
        <= Cardinality(tx.own) + (IF Holds THEN 1 ELSE 0)
  BY <1>4, <1>5, <1>6
<1> QED BY <1>1, <1>3, <1>4, <1>6, <1>7, EtxLocal DEF Sending

\* eth_tx moves on to the next descriptor.
LEMMA TxStepOK == ASSUME IInv, TxStep PROVE IInv'
<1> USE NetConstants
<1>1. /\ sys.cur = Etx /\ pc[Etx] = "step" /\ tx' = Step(tx) /\ Goto(Etx, "reply")
      /\ UNCHANGED <<sys, rx, irq, obj, mem>>
  BY DEF TxStep, At
<1>2. tx \in [own : SUBSET TxDesc, set : TxDesc, dma : TxDesc] BY DEF IInv, TypeOK
<1>3. /\ tx' \in [own : SUBSET TxDesc, set : TxDesc, dma : TxDesc]
      /\ tx'.own = tx.own
  BY <1>1, <1>2, NextDesc DEF Step
<1>4. Cardinality(tx.own) \in Nat BY Facts
<1>5. PICK l \in {"copy", "step", "reply"} : l = "reply" OBVIOUS
<1>6. Cardinality(tx'.own) + (IF l = "copy" THEN 1 ELSE 0)
        <= Cardinality(tx.own) + (IF Holds THEN 1 ELSE 0)
  BY <1>3, <1>4, <1>5
<1> QED BY <1>1, <1>3, <1>4, <1>5, <1>6, EtxLocal DEF Sending

\* The ack goes to erx, which waits for it or is about to.
LEMMA TxAckOK == ASSUME IInv, irq.at = "none", TxAck PROVE IInv'
<1> USE NetConstants
<1>1. /\ sys.cur = Etx /\ pc[Etx] = "reply" /\ Goto(Etx, "run")
      /\ rx' = rx /\ tx' = tx /\ irq' = irq /\ mem' = mem
  BY DEF TxAck, At
<1>2. pc' \in [Thread -> Place] /\ pc'[Etx] = "run" /\ pc'[Erx] = pc[Erx]
  BY <1>1, PcStep DEF IInv, Place
<1>3. obj.tx_ack = 0 /\ obj.etxmb = 0 /\ Awaits
  BY <1>1 DEF IInv, TypeOK, HandOver, Sending
<1>4. CASE sys.wait["tx_ack"] # <<>>
  <2>1. sys' = rt_schedule(rt_ipc_list_resume(sys, "tx_ack")) /\ obj' = obj
    BY <1>4 DEF TxAck, Release
  <2>2. Runs /\ Queue("tx_ack") \subseteq {Erx} /\ Queue("tx_ack") # {} BY <1>4, Facts
  <2>3. PICK o \in WaitList : o = "tx_ack" OBVIOUS
  <2>4. Runs' /\ Emptied(o, Erx) BY <1>4, <2>1, <2>2, <2>3, WakeStep
  <2>5. /\ Queue("erxmb")' = Queue("erxmb") /\ Queue("etxmb")' = Queue("etxmb")
        /\ Queue("tx_ack")' = {} /\ Queue("tx_buf_free")' = Queue("tx_buf_free")
        /\ sys'.timer = sys.timer \ {Erx} /\ sys'.error = sys.error
        /\ sys' \in KernelState
    BY <2>3, <2>4 DEF Emptied, Queue, Runs, Sound
  <2>6. pc[Erx] = "sent" BY <2>2 DEF IInv, Waiters
  <2>7. TypeOK' BY <1>1, <1>2, <2>1, <2>5 DEF IInv, TypeOK
  <2>8. Waiters' BY <1>1, <1>2, <2>5, Facts DEF IInv, Waiters
  <2>9. HandOver' BY <1>1, <1>2, <1>3, <2>1, <2>5, <2>6
      DEF IInv, TypeOK, HandOver, Sending, Awaits
  <2>10. Permits' BY <1>1, <1>2, <2>1, <2>5 DEF IInv, TypeOK, Mem, Permits, Holds
  <2>11. Frames' BY <1>1, <1>2, <2>1 DEF IInv, TypeOK, Frames
  <2> QED BY <2>4, <2>7, <2>8, <2>9, <2>10, <2>11 DEF IInv
<1>5. CASE sys.wait["tx_ack"] = <<>>
  <2>1. sys' = sys /\ obj' = [obj EXCEPT !.tx_ack = @ + 1] BY <1>5 DEF TxAck, Release
  <2>2. pc[Erx] = "ack" BY <1>3, <1>5, Facts DEF Awaits
  <2>3. TypeOK' BY <1>1, <1>2, <1>3, <2>1 DEF IInv, TypeOK
  <2>4. Runs' BY <2>1 DEF IInv, Runs
  <2>5. Waiters' BY <1>1, <1>2, <2>1, Facts DEF IInv, Waiters, Queue
  <2>6. HandOver' BY <1>1, <1>2, <1>3, <2>1, <2>2
      DEF IInv, TypeOK, HandOver, Sending, Awaits, Queue
  <2>7. Permits' BY <1>1, <1>2, <2>1 DEF IInv, TypeOK, Mem, Permits, Holds, Queue
  <2>8. Frames' BY <1>1, <1>2, <2>1 DEF IInv, TypeOK, Frames
  <2> QED BY <2>3, <2>4, <2>5, <2>6, <2>7, <2>8 DEF IInv
<1> QED BY <1>4, <1>5

\* The uIP thread sends at most one frame and sleeps.
LEMMA UipOK == ASSUME IInv, UipStep PROVE IInv'
<1> USE NetConstants
<1>1. sys.cur = Uip /\ Delay /\ rx' = rx /\ irq' = irq /\ obj' = obj
  BY DEF UipStep, FirstDelay, TransmitPacket, Running, At
<1>2. pc' \in [Thread -> Place] /\ pc'[Erx] = pc[Erx] /\ pc'[Etx] = pc[Etx]
  BY <1>1, PcStep DEF IInv, Place, Delay
<1>3. /\ Runs' /\ sys'.error = sys.error /\ sys'.timer = sys.timer \cup {Uip}
      /\ \A w \in WaitList : ToSet(sys'.wait[w]) = ToSet(sys.wait[w])
  BY <1>1, DelayStep DEF IInv
<1>4. /\ Queue("erxmb")' = Queue("erxmb") /\ Queue("etxmb")' = Queue("etxmb")
      /\ Queue("tx_ack")' = Queue("tx_ack") /\ Queue("tx_buf_free")' = Queue("tx_buf_free")
  BY <1>3 DEF Queue
<1>5. /\ tx' \in [own : SUBSET TxDesc, set : TxDesc, dma : TxDesc] /\ mem' \in Mem
      /\ mem'.p = mem.p /\ mem'.pdata = mem.pdata /\ mem'.gaveup = mem.gaveup
      /\ Cardinality(tx'.own) \in Nat /\ Cardinality(tx.own) \in Nat
      /\ Cardinality(tx'.own) - mem'.direct <= Cardinality(tx.own) - mem.direct
  <2>1. tx \in [own : SUBSET TxDesc, set : TxDesc, dma : TxDesc] /\ mem \in Mem
    BY DEF IInv, TypeOK
  <2>2. Cardinality(tx.own) \in Nat BY Facts
  <2>3. CASE tx' = tx /\ mem' = mem BY <2>1, <2>2, <2>3 DEF Mem
  <2>4. CASE /\ mem.direct < MaxDirect /\ tx' = Step(Own(tx))
             /\ mem' = [mem EXCEPT !.direct = @ + 1]
    <3>1. PICK x : x = Own(tx) OBVIOUS
    <3>2. /\ x \in [own : SUBSET TxDesc, set : TxDesc, dma : TxDesc]
          /\ x.own = tx.own \cup {tx.set} /\ tx.set \in TxDesc
      BY <2>1, <3>1 DEF Own
    <3>3. /\ tx' \in [own : SUBSET TxDesc, set : TxDesc, dma : TxDesc]
          /\ tx'.own = x.own
      BY <2>4, <3>1, <3>2, NextDesc DEF Step
    <3>4. /\ Cardinality(tx'.own) \in Nat
          /\ Cardinality(tx'.own) <= Cardinality(tx.own) + 1
      BY <3>2, <3>3, OwnCount DEF IInv
    <3>5. /\ mem' \in Mem /\ mem'.direct = mem.direct + 1 /\ mem.direct \in Nat
          /\ mem'.p = mem.p /\ mem'.pdata = mem.pdata /\ mem'.gaveup = mem.gaveup
      BY <2>1, <2>4 DEF Mem
    <3> QED BY <2>2, <3>3, <3>4, <3>5
  <2> QED BY <2>3, <2>4 DEF UipStep, FirstDelay, TransmitPacket
<1>6. TypeOK' BY <1>1, <1>2, <1>3, <1>5 DEF IInv, TypeOK, Runs, Sound
<1>7. Waiters' BY <1>2, <1>3, <1>4 DEF IInv, Waiters
<1>8. HandOver' BY <1>1, <1>2, <1>4, <1>5 DEF IInv, HandOver, Sending, Awaits
<1>9. Permits' BY <1>1, <1>2, <1>3, <1>4, <1>5 DEF IInv, TypeOK, Mem, Permits, Holds
<1>10. Frames' BY <1>1, <1>2, <1>5 DEF IInv, Frames
<1> QED BY <1>3, <1>6, <1>7, <1>8, <1>9, <1>10 DEF IInv

-----------------------------------------------------------------------------
\* So does every action of Net.
LEMMA NextInv == IInv /\ [Next]_vars => IInv'
<1> SUFFICES ASSUME IInv, [Next]_vars PROVE IInv' OBVIOUS
<1>1. CASE DmaReceive BY <1>1, DmaReceiveOK
<1>2. CASE DmaTransmit BY <1>2, DmaTransmitOK
<1>3. CASE ETH_IRQHandler
  BY <1>3, IrqEnterOK, IrqReleaseOK, IrqLeaveOK DEF ETH_IRQHandler
<1>4. CASE irq.at = "none" /\ Clock BY <1>4, ClockOK
<1>5. CASE irq.at = "none" /\ ErxStep
  BY <1>5, RxMailOK, EthRxOK, LinkWaitOK, LinkDoneOK DEF ErxStep
<1>6. CASE irq.at = "none" /\ EtxStep
  BY <1>6, TxMailOK, TxClaimOK, TxTookOK, TxCopyOK, TxStepOK, TxAckOK DEF EtxStep
<1>7. CASE irq.at = "none" /\ UipStep BY <1>7, UipOK
<1>8. CASE UNCHANGED vars
  BY <1>8 DEF vars, IInv, TypeOK, Runs, Waiters, Queue, HandOver, Sending, Awaits,
              Permits, Holds, Frames
<1> QED BY <1>1, <1>2, <1>3, <1>4, <1>5, <1>6, <1>7, <1>8 DEF Next

\* The invariant implies the properties.
LEMMA IInvImplies == IInv => MessageAlive /\ PermitsCovered /\ NoFrameStranded
<1> SUFFICES ASSUME IInv PROVE MessageAlive /\ PermitsCovered /\ NoFrameStranded
  OBVIOUS
<1>1. Awaits <=> pc[Erx] = "ack" \/ (pc[Erx] = "sent" /\ sys.wait["tx_ack"] # <<>>)
  BY Facts DEF Awaits
<1>2. Claimed <=> Holds BY Facts DEF Claimed, Holds
<1>3. MessageAlive BY <1>1 DEF IInv, HandOver, MessageAlive, Sending, Awaits
<1>4. PermitsCovered BY <1>2 DEF IInv, Permits, PermitsCovered
<1>5. NoFrameStranded BY Facts DEF IInv, Waiters, Frames, NoFrameStranded
<1> QED BY <1>3, <1>4, <1>5

\* For every number of descriptors and all priorities: etx only looks at a
\* message while erx, on whose stack it lies, waits for the ack, and no ack is
\* left over for the next message (ethernetif_linkoutput, eth_tx_thread_entry).
THEOREM MessageStaysAlive == Spec => []MessageAlive
<1>1. Init => IInv BY InitInv
<1>2. IInv /\ [Next]_vars => IInv' BY NextInv
<1>3. IInv => MessageAlive BY IInvImplies
<1> QED BY <1>1, <1>2, <1>3, PTL DEF Spec

\* For every number of descriptors: whatever interrupts are merged or lost, the
\* permits of tx_buf_free never exceed the free descriptors by more than what
\* the uIP thread sent without one (ETH_IRQHandler, rt_stm32_eth_tx).
THEOREM PermitsAreCovered == Spec => []PermitsCovered
<1>1. Init => IInv BY InitInv
<1>2. IInv /\ [Next]_vars => IInv' BY NextInv
<1>3. IInv => PermitsCovered BY IInvImplies
<1> QED BY <1>1, <1>2, <1>3, PTL DEF Spec

\* For every number of descriptors and every size of the mailbox: no received
\* frame is left behind while erx sleeps, unless erx gave up on a frame before
\* it (ETH_IRQHandler, eth_rx_thread_entry).
THEOREM NoFrameIsStranded == Spec => []NoFrameStranded
<1>1. Init => IInv BY InitInv
<1>2. IInv /\ [Next]_vars => IInv' BY NextInv
<1>3. IInv => NoFrameStranded BY IInvImplies
<1> QED BY <1>1, <1>2, <1>3, PTL DEF Spec

(***************************************************************************)
(* ChipDriver                                                              *)
(***************************************************************************)

-----------------------------------------------------------------------------
(* The script *)

\* The indices of the frames that check the two parts of an image: first the
\* code and then, after the switch and the blocks, the data.
CodeAt(p) == IF p = "dsl" THEN Blocks + 3 ELSE Blocks + 4
DataAt(p) == CodeAt(p) + Blocks + 2


\* The last frame of a phase.
LastAt(p) == IF p = "dsl" THEN DataAt(p) + 4 ELSE DataAt(p) + 1

Frame == [op : {"reg", "ram", "chk"}, adr : 0 .. Blocks,
          val : Content \cup {"mode", "stop", "clear", "switch", "dtpnt", "valid", "lock", "ramloaded"}]

\* The frames of a part.
LEMMA PartFrames ==
  ASSUME NEW p \in {"code", "data"}, NEW F, Chk(p) \in F, \A i \in 1 .. Blocks : Ram(i, p) \in F
  PROVE  /\ Checked(p) \in Seq(F) /\ Len(Checked(p)) = Blocks + 1
         /\ \A i \in 1 .. Blocks : Checked(p)[i] = Ram(i, p)
         /\ Checked(p)[Blocks + 1] = Chk(p)
<1>1. Blocks \in Nat /\ Blocks > 0 BY ChipAssumption
<1>4. Part(p) \in Seq(F) /\ Len(Part(p)) = Blocks /\ \A i \in 1 .. Blocks : Part(p)[i] = Ram(i, p)
  BY <1>1 DEF Part
<1>5. <<Chk(p)>> \in Seq(F) /\ Len(<<Chk(p)>>) = 1 /\ <<Chk(p)>>[1] = Chk(p) OBVIOUS
<1> QED BY <1>1, <1>4, <1>5 DEF Checked
\* Where a sequence of two, or of five, parts has its elements.
JoinedTwo(F, s, a, b, m, n) ==
  /\ s \in Seq(F) /\ Len(s) = n /\ m \in Nat /\ n \in Nat /\ m <= n
  /\ \A i \in 1 .. m : s[i] = a[i]
  /\ \A i \in m + 1 .. n : s[i] = b[i - m]

LEMMA TwoParts ==
  ASSUME NEW F, NEW a \in Seq(F), NEW b \in Seq(F), NEW s, s = a \o b,
         NEW m, m = Len(a), NEW n, n = m + Len(b)
  PROVE  JoinedTwo(F, s, a, b, m, n)
BY DEF JoinedTwo

JoinedFive(F, s, a, b, c, d, e, la, lb, lc, ld, le) ==
  /\ s \in Seq(F) /\ Len(s) = le
  /\ \A i \in 1 .. la : s[i] = a[i]
  /\ \A i \in la + 1 .. lb : s[i] = b[i - la]
  /\ \A i \in lb + 1 .. lc : s[i] = c[i - lb]
  /\ \A i \in lc + 1 .. ld : s[i] = d[i - lc]
  /\ \A i \in ld + 1 .. le : s[i] = e[i - ld]

LEMMA FiveParts ==
  ASSUME NEW F, NEW a \in Seq(F), NEW b \in Seq(F), NEW c \in Seq(F), NEW d \in Seq(F),
         NEW e \in Seq(F), NEW s, s = a \o b \o c \o d \o e,
         NEW la, la = Len(a), NEW lb, lb = la + Len(b), NEW lc, lc = lb + Len(c),
         NEW ld, ld = lc + Len(d), NEW le, le = ld + Len(e)
  PROVE  JoinedFive(F, s, a, b, c, d, e, la, lb, lc, ld, le)
<1>1. PICK s2 : s2 = a \o b OBVIOUS
<1>2. PICK s3 : s3 = s2 \o c OBVIOUS
<1>3. PICK s4 : s4 = s3 \o d OBVIOUS
<1>4. s = s4 \o e BY <1>1, <1>2, <1>3
<1>5. JoinedTwo(F, s2, a, b, la, lb) BY <1>1, TwoParts
<1>6. JoinedTwo(F, s3, s2, c, lb, lc)
  <2>1. s2 \in Seq(F) /\ lb = Len(s2) BY <1>5 DEF JoinedTwo
  <2> QED BY <1>2, <2>1, TwoParts
<1>7. JoinedTwo(F, s4, s3, d, lc, ld)
  <2>1. s3 \in Seq(F) /\ lc = Len(s3) BY <1>6 DEF JoinedTwo
  <2> QED BY <1>3, <2>1, TwoParts
<1>8. JoinedTwo(F, s, s4, e, ld, le)
  <2>1. s4 \in Seq(F) /\ ld = Len(s4) BY <1>7 DEF JoinedTwo
  <2> QED BY <1>4, <2>1, TwoParts
<1>9. \A i \in 1 .. lc : s4[i] = s3[i] /\ s[i] = s4[i]
  <2>1. lc \in Nat /\ ld \in Nat /\ lc <= ld /\ \A i \in 1 .. lc : s4[i] = s3[i] BY <1>7 DEF JoinedTwo
  <2>2. \A i \in 1 .. ld : s[i] = s4[i] BY <1>8 DEF JoinedTwo
  <2> QED BY <2>1, <2>2, SMTT(30)
<1>10. \A i \in 1 .. lb : s[i] = s2[i] BY <1>5, <1>6, <1>9, SMTT(30) DEF JoinedTwo
<1>11. \A i \in lb + 1 .. lc : s[i] = c[i - lb] BY <1>5, <1>6, <1>9, SMTT(30) DEF JoinedTwo
<1>12. \A i \in lc + 1 .. ld : s[i] = d[i - lc] BY <1>5, <1>6, <1>7, <1>8 DEF JoinedTwo
<1>13. \A i \in 1 .. la : s[i] = a[i] BY <1>5, <1>10 DEF JoinedTwo
<1>14. \A i \in la + 1 .. lb : s[i] = b[i - la] BY <1>5, <1>10, SMTT(30) DEF JoinedTwo
<1> QED BY <1>8, <1>11, <1>12, <1>13, <1>14 DEF JoinedTwo, JoinedFive

\* The frames before the check of the code and after that of the data, and all.
Opening(p, f) ==
  \/ f.op = "reg" /\ f.val \in {"stop", "clear", "lock"}
  \/ p = "idc" /\ f = Ram(0, "boot")
  \/ \E a \in 1 .. Blocks : f = Ram(a, "code")

Closing(p, k, f) ==
  IF p = "dsl" THEN /\ k = 1 => f = Reg("dtpnt")
                    /\ k = 2 => f = Reg("switch")
                    /\ k = 3 => f = Ram(1, "address")
                    /\ k = 4 => f = Reg("valid")
               ELSE k = 1 => f = Reg("valid")

FrameIs(p, i, f) ==
  /\ i < CodeAt(p) => Opening(p, f)
  /\ i = CodeAt(p) => f = Chk("code")
  /\ i = CodeAt(p) + 1 => f = Reg("switch")
  /\ i \in CodeAt(p) + 2 .. DataAt(p) - 1 => \E a \in 1 .. Blocks : f = Ram(a, "data")
  /\ i = DataAt(p) => f = Chk("data")
  /\ i > DataAt(p) => Closing(p, i - DataAt(p), f)


\* An image between its opening and its closing frames.
Imaged(s, a, e, n, m) ==
  /\ s \in Seq(Frame) /\ Len(s) = n + 2 * Blocks + 3 + m
  /\ \A i \in 1 .. n : s[i] = a[i]
  /\ \A i \in 1 .. Blocks : s[n + i] = Ram(i, "code")
  /\ s[n + Blocks + 1] = Chk("code") /\ s[n + Blocks + 2] = Reg("switch")
  /\ \A i \in 1 .. Blocks : s[n + Blocks + 2 + i] = Ram(i, "data")
  /\ s[n + 2 * Blocks + 3] = Chk("data")
  /\ \A i \in 1 .. m : s[n + 2 * Blocks + 3 + i] = e[i]

LEMMA ImageFrames ==
  ASSUME NEW a \in Seq(Frame), NEW e \in Seq(Frame), NEW n, n = Len(a), NEW m, m = Len(e), NEW s,
         s = a \o Checked("code") \o <<Reg("switch")>> \o Checked("data") \o e
  PROVE  Imaged(s, a, e, n, m)
<1>1. PICK B \in Nat : B = Blocks /\ B > 0 BY ChipAssumption
<1> DEFINE b == Checked("code")
           c == <<Reg("switch")>>
           d == Checked("data")
<1>2. PICK F : F = Frame OBVIOUS
<1>3. c \in Seq(F) /\ Len(c) = 1 /\ c[1] = Reg("switch")
  <2>1. Reg("switch") \in F BY <1>1, <1>2 DEF Reg, Frame, Content
  <2> QED BY <2>1
<1>5. /\ b \in Seq(F) /\ Len(b) = Blocks + 1 /\ b[Blocks + 1] = Chk("code")
      /\ \A i \in 1 .. Blocks : b[i] = Ram(i, "code")
  <2>1. Chk("code") \in F /\ \A i \in 1 .. Blocks : Ram(i, "code") \in F
    BY <1>1, <1>2 DEF Frame, Content, Chk, Ram
  <2> QED BY <2>1, PartFrames
<1>6. /\ d \in Seq(F) /\ Len(d) = Blocks + 1 /\ d[Blocks + 1] = Chk("data")
      /\ \A i \in 1 .. Blocks : d[i] = Ram(i, "data")
  <2>1. Chk("data") \in F /\ \A i \in 1 .. Blocks : Ram(i, "data") \in F
    BY <1>1, <1>2 DEF Frame, Content, Chk, Ram
  <2> QED BY <2>1, PartFrames
<1> HIDE DEF b, c, d
<1>7. n \in Nat /\ m \in Nat OBVIOUS
<1> DEFINE lb == n + B + 1  lc == n + B + 2  ld == n + 2 * B + 3  le == n + 2 * B + 3 + m
<1>8. JoinedFive(F, s, a, b, c, d, e, n, lb, lc, ld, le)
  <2>1. s = a \o b \o c \o d \o e BY DEF b, c, d
  <2>2. a \in Seq(F) /\ b \in Seq(F) /\ c \in Seq(F) /\ d \in Seq(F) /\ e \in Seq(F)
    BY <1>2, <1>3, <1>5, <1>6
  <2>3. lb = n + Len(b) /\ lc = lb + Len(c) /\ ld = lc + Len(d) /\ le = ld + Len(e)
    BY <1>1, <1>3, <1>5, <1>6, <1>7
  <2> HIDE DEF lb, lc, ld, le
  <2> QED BY <2>1, <2>2, <2>3, FiveParts
<1> HIDE DEF lb, lc, ld, le
<1>9. /\ s \in Seq(F) /\ Len(s) = le
      /\ \A i \in 1 .. n : s[i] = a[i]
      /\ \A i \in n + 1 .. lb : s[i] = b[i - n]
      /\ \A i \in lb + 1 .. lc : s[i] = c[i - lb]
      /\ \A i \in lc + 1 .. ld : s[i] = d[i - lc]
      /\ \A i \in ld + 1 .. le : s[i] = e[i - ld]
  BY <1>8 DEF JoinedFive
<1>0. lb = n + B + 1 /\ lc = n + B + 2 /\ ld = n + 2 * B + 3 /\ le = n + 2 * B + 3 + m
  BY DEF lb, lc, ld, le
<1>b. \A i \in 1 .. B + 1 : s[n + i] = b[i]
  <2> TAKE i \in 1 .. B + 1
  <2>1. PICK j : j = n + i OBVIOUS
  <2>2. j \in n + 1 .. lb /\ j - n = i BY <1>0, <1>1, <1>7, <2>1
  <2> QED BY <1>9, <2>1, <2>2
<1>d. \A i \in 1 .. B + 1 : s[n + B + 2 + i] = d[i]
  <2> TAKE i \in 1 .. B + 1
  <2>1. PICK j : j = n + B + 2 + i OBVIOUS
  <2>2. j \in lc + 1 .. ld /\ j - lc = i BY <1>0, <1>1, <1>7, <2>1
  <2> QED BY <1>9, <2>1, <2>2
<1>10. \A i \in 1 .. B : s[n + i] = Ram(i, "code")
  <2> TAKE i \in 1 .. B
  <2>1. i \in 1 .. B + 1 /\ i \in 1 .. Blocks BY <1>1
  <2>2. s[n + i] = b[i] BY <1>b, <2>1
  <2>3. b[i] = Ram(i, "code") BY <1>5, <2>1
  <2> QED BY <2>2, <2>3
<1>11. s[n + B + 1] = Chk("code")
  <2>1. B + 1 \in 1 .. B + 1 /\ n + (B + 1) = n + B + 1 BY <1>1, <1>7
  <2> QED BY <1>1, <1>5, <1>b, <2>1
<1>12. s[n + B + 2] = Reg("switch")
  <2>1. lc \in lb + 1 .. lc /\ lc - lb = 1 BY <1>0, <1>1, <1>7
  <2> QED BY <1>0, <1>3, <1>9, <2>1
<1>13. \A i \in 1 .. B : s[n + B + 2 + i] = Ram(i, "data")
  <2> TAKE i \in 1 .. B
  <2>1. i \in 1 .. B + 1 /\ i \in 1 .. Blocks BY <1>1
  <2>2. s[n + B + 2 + i] = d[i] BY <1>d, <2>1
  <2>3. d[i] = Ram(i, "data") BY <1>6, <2>1
  <2> QED BY <2>2, <2>3
<1>14. s[n + 2 * B + 3] = Chk("data")
  <2>1. B + 1 \in 1 .. B + 1 /\ n + B + 2 + (B + 1) = n + 2 * B + 3 BY <1>1, <1>7
  <2> QED BY <1>1, <1>6, <1>d, <2>1
<1>15. \A i \in 1 .. m : s[n + 2 * B + 3 + i] = e[i]
  <2> TAKE i \in 1 .. m
  <2>1. PICK j : j = n + 2 * B + 3 + i OBVIOUS
  <2>2. j \in ld + 1 .. le /\ j - ld = i BY <1>0, <1>1, <1>7, <2>1
  <2> QED BY <1>9, <2>1, <2>2
<1> QED BY <1>0, <1>1, <1>2, <1>9, <1>10, <1>11, <1>12, <1>13, <1>14, <1>15 DEF Imaged

\* Both images are of this form; n and m are the numbers of the opening and of
\* the closing frames.
LEMMA FramesOfImage ==
  ASSUME NEW p \in {"dsl", "idc"}, NEW n, n = IF p = "dsl" THEN 2 ELSE 3,
         NEW m, m = IF p = "dsl" THEN 4 ELSE 1, NEW a, NEW e, NEW s, Imaged(s, a, e, n, m),
         \A i \in 1 .. n : Opening(p, a[i]), \A i \in 1 .. m : Closing(p, i, e[i])
  PROVE  /\ Len(s) = LastAt(p) /\ s \in Seq(Frame)
         /\ \A i \in 1 .. LastAt(p) : FrameIs(p, i, s[i])
<1>1. PICK B \in Nat : B = Blocks /\ B > 0 BY ChipAssumption
<1>2. n \in {2, 3} /\ m \in {1, 4} OBVIOUS
<1>3. CodeAt(p) = n + B + 1 /\ DataAt(p) = n + 2 * B + 3 /\ LastAt(p) = n + 2 * B + 3 + m
  BY <1>1 DEF CodeAt, DataAt, LastAt
<1>4. /\ s \in Seq(Frame) /\ Len(s) = n + 2 * B + 3 + m
      /\ \A i \in 1 .. n : s[i] = a[i]
      /\ \A i \in 1 .. B : s[n + i] = Ram(i, "code")
      /\ s[n + B + 1] = Chk("code") /\ s[n + B + 2] = Reg("switch")
      /\ \A i \in 1 .. B : s[n + B + 2 + i] = Ram(i, "data")
      /\ s[n + 2 * B + 3] = Chk("data")
      /\ \A i \in 1 .. m : s[n + 2 * B + 3 + i] = e[i]
  BY <1>1 DEF Imaged
<1>5. ASSUME NEW i \in 1 .. n + 2 * B + 3 + m PROVE FrameIs(p, i, s[i])
  <2>1. i <= n => Opening(p, s[i]) BY <1>2, <1>4
  <2>2. ASSUME i \in n + 1 .. n + B PROVE Opening(p, s[i])
    <3>1. i - n \in 1 .. B /\ n + (i - n) = i BY <1>1, <1>2, <2>2
    <3>2. s[i] = Ram(i - n, "code") BY <1>4, <3>1
    <3> QED BY <1>1, <3>1, <3>2 DEF Opening
  <2>3. ASSUME i \in n + B + 3 .. n + 2 * B + 2 PROVE \E x \in 1 .. Blocks : s[i] = Ram(x, "data")
    <3>1. PICK k : k = i - (n + B + 2) OBVIOUS
    <3>2. k \in 1 .. B /\ n + B + 2 + k = i BY <1>1, <1>2, <2>3, <3>1
    <3>3. s[i] = Ram(k, "data") BY <1>4, <3>2
    <3> QED BY <1>1, <3>2, <3>3
  <2>4. ASSUME i > n + 2 * B + 3 PROVE Closing(p, i - (n + 2 * B + 3), s[i])
    <3>1. PICK k \in 1 .. m : k = i - (n + 2 * B + 3) /\ i = n + 2 * B + 3 + k BY <1>1, <1>2, <2>4
    <3> QED BY <1>4, <3>1
  <2>5. i < n + B + 1 => Opening(p, s[i]) BY <1>1, <1>2, <2>1, <2>2
  <2>6. /\ i = n + B + 1 => s[i] = Chk("code")
        /\ i = n + B + 1 + 1 => s[i] = Reg("switch")
        /\ i = n + 2 * B + 3 => s[i] = Chk("data")
        /\ i \in n + B + 1 + 2 .. n + 2 * B + 3 - 1 => i \in n + B + 3 .. n + 2 * B + 2
    BY <1>1, <1>2, <1>4
  <2>7. PICK f : f = s[i] OBVIOUS
  <2>8. FrameIs(p, i, f) BY <1>3, <2>3, <2>4, <2>5, <2>6, <2>7 DEF FrameIs
  <2> QED BY <2>7, <2>8
<1> QED BY <1>3, <1>4, <1>5

\* The frames of the two downloads.
LEMMA ImagesFramed ==
  ASSUME NEW p \in {"dsl", "idc"}
  PROVE  /\ Len(Script[p]) = LastAt(p) /\ Script[p] \in Seq(Frame)
         /\ \A i \in 1 .. LastAt(p) : FrameIs(p, i, Script[p][i])
<1>1. PICK B \in Nat : B = Blocks /\ B > 0 BY ChipAssumption
<1>2. PICK s : s = Script[p] OBVIOUS
<1>f. PICK F : F = Frame OBVIOUS
<1>t. /\ Reg("stop") \in F /\ Reg("clear") \in F /\ Reg("switch") \in F /\ Reg("dtpnt") \in F
      /\ Reg("valid") \in F /\ Reg("lock") \in F
  BY <1>1, <1>f DEF Reg, Frame, Content
<1>u. Ram(1, "address") \in F /\ Ram(0, "boot") \in F BY <1>1, <1>f DEF Ram, Frame, Content
<1>3. CASE p = "dsl"
  <2> DEFINE a == <<Reg("stop"), Reg("clear")>>
             e == <<Reg("dtpnt"), Reg("switch"), Ram(1, "address"), Reg("valid")>>
  <2>1. s = a \o Checked("code") \o <<Reg("switch")>> \o Checked("data") \o e
    BY <1>2, <1>3 DEF Script
  <2>2. a \in Seq(F) /\ Len(a) = 2 /\ e \in Seq(F) /\ Len(e) = 4 BY <1>t, <1>u
  <2>3. \A i \in 1 .. 2 : Opening(p, a[i]) BY DEF Opening, Reg
  <2>4. \A i \in 1 .. 4 : Closing(p, i, e[i]) BY <1>3 DEF Closing
  <2> HIDE DEF a, e
  <2>5. Imaged(s, a, e, 2, 4) BY <1>f, <2>1, <2>2, ImageFrames
  <2> QED BY <1>2, <1>3, <2>3, <2>4, <2>5, FramesOfImage
<1>4. CASE p = "idc"
  <2> DEFINE a == <<Reg("lock"), Reg("clear"), Ram(0, "boot")>>
             e == <<Reg("valid")>>
  <2>1. s = a \o Checked("code") \o <<Reg("switch")>> \o Checked("data") \o e
    BY <1>2, <1>4 DEF Script
  <2>2. a \in Seq(F) /\ Len(a) = 3 /\ e \in Seq(F) /\ Len(e) = 1 BY <1>t, <1>u
  <2>3. \A i \in 1 .. 3 : Opening(p, a[i]) BY <1>4 DEF Opening, Reg
  <2>4. \A i \in 1 .. 1 : Closing(p, i, e[i]) BY <1>4 DEF Closing
  <2> HIDE DEF a, e
  <2>5. Imaged(s, a, e, 3, 1) BY <1>f, <2>1, <2>2, ImageFrames
  <2> QED BY <1>2, <1>4, <2>3, <2>4, <2>5, FramesOfImage
<1> QED BY <1>3, <1>4

\* A frame is one of these.
ChipFrameOK(f) ==
  /\ f \in Frame
  /\ f.op = "ram" => f.val \in Content
  /\ f.op = "chk" => f.val \in {"code", "data"}

LEMMA ImageFrameOK ==
  ASSUME NEW p \in {"dsl", "idc"}, NEW i \in 1 .. LastAt(p), NEW f, f \in Frame, FrameIs(p, i, f)
  PROVE  /\ ChipFrameOK(f)
         /\ f.op = "chk" <=> i \in {CodeAt(p), DataAt(p)}
         /\ f.val # "ramloaded"
         /\ i = LastAt(p) => f = Reg("valid")
<1>1. PICK B \in Nat : B = Blocks /\ B > 0 BY ChipAssumption
<1>2. PICK c \in Nat : c = CodeAt(p) /\ c > 1 /\ DataAt(p) = c + B + 2
  BY <1>1 DEF CodeAt, DataAt
<1>3. PICK d \in Nat : d = DataAt(p) /\ c < d /\ LastAt(p) = d + (IF p = "dsl" THEN 4 ELSE 1)
  BY <1>1, <1>2 DEF LastAt
<1>4. i \in Nat /\ i <= d + (IF p = "dsl" THEN 4 ELSE 1) BY <1>3
<1>5. CASE i < c
  <2>1. Opening(p, f) BY <1>2, <1>5 DEF FrameIs
  <2>2. ChipFrameOK(f) /\ f.op # "chk" /\ f.val # "ramloaded"
    BY <2>1 DEF Opening, ChipFrameOK, Ram, Content
  <2> QED BY <1>2, <1>3, <1>5, <2>2
<1>6. CASE i = c
  <2>1. f = Chk("code") BY <1>2, <1>6 DEF FrameIs
  <2>2. ChipFrameOK(f) /\ f.op = "chk" /\ f.val # "ramloaded" BY <2>1 DEF ChipFrameOK, Chk
  <2> QED BY <1>2, <1>3, <1>6, <2>2
<1>7. CASE i = c + 1
  <2>1. f = Reg("switch") BY <1>2, <1>7 DEF FrameIs
  <2>2. ChipFrameOK(f) /\ f.op # "chk" /\ f.val # "ramloaded" BY <2>1 DEF ChipFrameOK, Reg
  <2> QED BY <1>1, <1>2, <1>3, <1>7, <2>2
<1>8. CASE i > c + 1 /\ i < d
  <2>1. \E a \in 1 .. Blocks : f = Ram(a, "data")
    <3>1. i \in c + 2 .. d - 1 BY <1>3, <1>4, <1>8
    <3> QED BY <1>2, <1>3, <3>1 DEF FrameIs
  <2>2. ChipFrameOK(f) /\ f.op # "chk" /\ f.val # "ramloaded" BY <2>1 DEF ChipFrameOK, Ram, Content
  <2> QED BY <1>2, <1>3, <1>8, <2>2
<1>9. CASE i = d
  <2>1. f = Chk("data") BY <1>3, <1>9 DEF FrameIs
  <2>2. ChipFrameOK(f) /\ f.op = "chk" /\ f.val # "ramloaded" BY <2>1 DEF ChipFrameOK, Chk
  <2> QED BY <1>2, <1>3, <1>9, <2>2
<1>10. CASE i > d
  <2>1. PICK k \in 1 .. (IF p = "dsl" THEN 4 ELSE 1) : k = i - d BY <1>3, <1>4, <1>10
  <2>2. Closing(p, k, f) BY <1>3, <1>10, <2>1 DEF FrameIs
  <2>3. ChipFrameOK(f) /\ f.op # "chk" /\ f.val # "ramloaded"
        /\ (k = (IF p = "dsl" THEN 4 ELSE 1) => f = Reg("valid"))
    <3>1. f = Reg("dtpnt") \/ f = Reg("switch") \/ f = Ram(1, "address") \/ f = Reg("valid")
      BY <2>1, <2>2 DEF Closing
    <3>2. ChipFrameOK(f) /\ f.op # "chk" /\ f.val # "ramloaded"
      BY <3>1 DEF ChipFrameOK, Reg, Ram, Content
    <3> QED BY <2>1, <2>2, <3>2 DEF Closing
  <2>4. i = LastAt(p) <=> k = (IF p = "dsl" THEN 4 ELSE 1) BY <1>3, <1>4, <2>1
  <2> QED BY <1>2, <1>3, <1>10, <2>3, <2>4
<1> QED BY <1>2, <1>3, <1>4, <1>5, <1>6, <1>7, <1>8, <1>9, <1>10

Phases == {"aux", "dsl", "idc", "start"}

LEMMA ScriptPhases ==
  /\ DOMAIN Script = Phases
  /\ Script["aux"] = <<Reg("mode")>> /\ Script["start"] = <<Reg("ramloaded")>>
BY DEF Script, Phases

\* The frame in hand.
InHand(p, i, f) ==
  /\ p \in Phases /\ ChipFrameOK(f) /\ i \in Nat /\ i > 0 /\ i <= Len(Script[p])
  /\ Len(Script[p]) \in Nat /\ Len(Script[p]) <= 2 * Blocks + 9
  /\ p = "aux" => i = 1 /\ Len(Script[p]) = 1 /\ f = Reg("mode")
  /\ p = "start" => i = 1 /\ Len(Script[p]) = 1 /\ f = Reg("ramloaded")
  /\ p \in {"dsl", "idc"} =>
       /\ i \in 1 .. LastAt(p) /\ Len(Script[p]) = LastAt(p) /\ FrameIs(p, i, f)
       /\ f.op = "chk" <=> i \in {CodeAt(p), DataAt(p)}
       /\ i = LastAt(p) => f = Reg("valid")
       /\ f.val # "ramloaded"
  /\ f.val = "valid" => p \in {"dsl", "idc"}

LEMMA FrameInHand ==
  ASSUME NEW p \in DOMAIN Script, NEW i \in DOMAIN Script[p], NEW f, f = Script[p][i]
  PROVE  InHand(p, i, f)
<1>1. PICK B \in Nat : B = Blocks /\ B > 0 BY ChipAssumption
<1>2. p \in Phases BY ScriptPhases
<1>3. CASE p \in {"aux", "start"}
  <2>1. PICK g : g = Reg(IF p = "aux" THEN "mode" ELSE "ramloaded") OBVIOUS
  <2>2. Script[p] = <<g>> BY <1>3, <2>1, ScriptPhases
  <2>3. i = 1 /\ f = g /\ Len(Script[p]) = 1 BY <2>2
  <2>4. ChipFrameOK(f) /\ f.val # "valid" /\ f = Reg(IF p = "aux" THEN "mode" ELSE "ramloaded")
    BY <1>1, <2>1, <2>3 DEF ChipFrameOK, Frame, Reg
  <2> QED BY <1>1, <1>2, <1>3, <2>3, <2>4 DEF InHand
<1>4. CASE p \in {"dsl", "idc"}
  <2>1. PICK n : n = LastAt(p) OBVIOUS
  <2>2. n \in Nat /\ n <= 2 * B + 9 BY <1>1, <1>4, <2>1 DEF LastAt, DataAt, CodeAt
  <2>3. /\ Len(Script[p]) = n /\ Script[p] \in Seq(Frame)
        /\ \A j \in 1 .. n : FrameIs(p, j, Script[p][j])
    BY <1>4, <2>1, ImagesFramed
  <2>4. i \in 1 .. n /\ f \in Frame /\ FrameIs(p, i, f) BY <2>3
  <2>5. /\ ChipFrameOK(f)
        /\ f.op = "chk" <=> i \in {CodeAt(p), DataAt(p)}
        /\ f.val # "ramloaded"
        /\ i = n => f = Reg("valid")
    BY <1>4, <2>1, <2>4, ImageFrameOK
  <2> QED BY <1>1, <1>2, <1>4, <2>1, <2>2, <2>3, <2>4, <2>5 DEF InHand
<1> QED BY <1>2, <1>3, <1>4 DEF Phases

-----------------------------------------------------------------------------
(* The cores *)

Parts == {"code", "data"}
CoreState == [ram : [Parts -> [0 .. Blocks -> Content]], half : Parts, valid : BOOLEAN,
              loaded : BOOLEAN]

\* What the frame f makes of a core x.
Effect(f, x, y) ==
  /\ f.op = "ram" =>
       /\ y.half = x.half /\ y.valid = x.valid
       /\ \A h \in Parts : \A a \in 0 .. Blocks :
            y.ram[h][a] = IF h = x.half /\ a = f.adr THEN f.val ELSE x.ram[h][a]
  /\ f.op # "ram" => y.ram = x.ram
  /\ f.op = "chk" => y.half = f.val
  /\ f.op = "reg" =>
       /\ f.val = "switch" => y.half = "data"
       /\ f.val \in {"clear", "valid"} => y.half = "code"
       /\ f.val \notin {"clear", "valid", "switch"} => y.half = x.half
       /\ f.val = "valid" => y.valid
       /\ f.val = "ramloaded" => y.loaded /\ y.valid = x.valid

LEMMA CoreExecutes ==
  ASSUME NEW c \in {"dsl", "idc"}, NEW f, ChipFrameOK(f), NEW y, y = Executed(c, f),
         chip \in [{"dsl", "idc"} -> CoreState]
  PROVE  /\ y \in [{"dsl", "idc"} -> CoreState]
         /\ \A e \in {"dsl", "idc"} \ {c} : y[e] = chip[e]
         /\ Effect(f, chip[c], y[c])
         /\ f.op = "reg" /\ f.val = "mode" => y = chip
<1>1. PICK x \in CoreState : x = chip[c] OBVIOUS
<1>2. f.op \in {"ram", "chk", "reg"} /\ f.adr \in 0 .. Blocks BY DEF ChipFrameOK, Frame
<1>3. CASE f.op = "ram"
  <2>1. f.val \in Content BY <1>3 DEF ChipFrameOK
  <2>2. y = [chip EXCEPT ![c].ram[chip[c].half][f.adr] = f.val]
    BY <1>3, <2>1 DEF Executed, Content
  <2>3. y = [chip EXCEPT ![c] = [x EXCEPT !.ram = [x.ram EXCEPT ![x.half] =
                                   [x.ram[x.half] EXCEPT ![f.adr] = f.val]]]]
    BY <1>1, <2>2
  <2>4. PICK r : r = [x.ram EXCEPT ![x.half] = [x.ram[x.half] EXCEPT ![f.adr] = f.val]] OBVIOUS
  <2>5. /\ r \in [Parts -> [0 .. Blocks -> Content]]
        /\ \A h \in Parts : \A a \in 0 .. Blocks :
             r[h][a] = IF h = x.half /\ a = f.adr THEN f.val ELSE x.ram[h][a]
    BY <1>1, <1>2, <2>1, <2>4 DEF CoreState, Parts
  <2>6. PICK z : z = [x EXCEPT !.ram = r] OBVIOUS
  <2>7. z \in CoreState /\ z.ram = r /\ z.half = x.half /\ z.valid = x.valid
    BY <1>1, <2>5, <2>6 DEF CoreState
  <2>8. y = [chip EXCEPT ![c] = z] BY <2>3, <2>4, <2>6
  <2>9. /\ y \in [{"dsl", "idc"} -> CoreState] /\ y[c] = z
        /\ \A e \in {"dsl", "idc"} \ {c} : y[e] = chip[e]
    BY <2>7, <2>8
  <2> QED BY <1>1, <1>3, <2>5, <2>7, <2>9 DEF Effect
<1>4. CASE f.op # "ram"
  <2>1. PICK h \in Parts, v \in BOOLEAN, l \in BOOLEAN :
          /\ y = [chip EXCEPT ![c] = [ram |-> x.ram, half |-> h, valid |-> v, loaded |-> l]]
          /\ f.op = "chk" => h = f.val
          /\ f.op = "reg" =>
               /\ f.val = "switch" => h = "data"
               /\ f.val \in {"clear", "valid"} => h = "code"
               /\ f.val \notin {"clear", "valid", "switch"} => h = x.half
               /\ f.val = "valid" => v
               /\ f.val = "ramloaded" => l /\ v = x.valid
    <3> DEFINE S(h, v, l) ==
          /\ y = [chip EXCEPT ![c] = [ram |-> x.ram, half |-> h, valid |-> v, loaded |-> l]]
          /\ f.op = "chk" => h = f.val
          /\ f.op = "reg" =>
               /\ f.val = "switch" => h = "data"
               /\ f.val \in {"clear", "valid"} => h = "code"
               /\ f.val \notin {"clear", "valid", "switch"} => h = x.half
               /\ f.val = "valid" => v
               /\ f.val = "ramloaded" => l /\ v = x.valid
    <3>1. x.half \in Parts /\ x.valid \in BOOLEAN /\ x.loaded \in BOOLEAN BY DEF CoreState
    <3>2. ASSUME NEW g, NEW w
          PROVE  [x EXCEPT !.half = g, !.valid = w]
                 = [ram |-> x.ram, half |-> g, valid |-> w, loaded |-> x.loaded]
      <4>1. PICK u : u = [ram |-> x.ram, half |-> g, valid |-> x.valid, loaded |-> x.loaded] OBVIOUS
      <4>2. [x EXCEPT !.half = g] = u BY <4>1 DEF CoreState
      <4>3. [u EXCEPT !.valid = w] = [ram |-> x.ram, half |-> g, valid |-> w, loaded |-> x.loaded]
        BY <4>1
      <4>4. [x EXCEPT !.half = g, !.valid = w] = [[x EXCEPT !.half = g] EXCEPT !.valid = w] OBVIOUS
      <4> QED BY <4>2, <4>3, <4>4
    <3>4. CASE f.op = "chk"
      <4>1. f.val \in Parts BY <3>4 DEF ChipFrameOK, Parts
      <4>2. y = [chip EXCEPT ![c].half = f.val, ![c].valid = FALSE] BY <3>4, <4>1 DEF Executed, Parts
      <4>3. y = [chip EXCEPT ![c] = [x EXCEPT !.half = f.val, !.valid = FALSE]] BY <1>1, <4>2
      <4>4. [x EXCEPT !.half = f.val, !.valid = FALSE]
            = [ram |-> x.ram, half |-> f.val, valid |-> FALSE, loaded |-> x.loaded]
        BY <3>2
      <4>5. S(f.val, FALSE, x.loaded) BY <3>4, <4>3, <4>4
      <4> QED BY <3>1, <4>1, <4>5
    <3>5. CASE f.op = "reg" /\ f.val \in {"clear", "valid", "switch"}
      <4> DEFINE h == IF f.val = "switch" THEN "data" ELSE "code"
                 v == f.val = "valid"
      <4>1. h \in Parts /\ v \in BOOLEAN BY DEF Parts
      <4>2. y = [chip EXCEPT ![c].half = h, ![c].valid = v] BY <3>5 DEF Executed
      <4>x. PICK g, w : g = h /\ w = v OBVIOUS
      <4>3. y = [chip EXCEPT ![c] = [x EXCEPT !.half = g, !.valid = w]] BY <1>1, <4>2, <4>x
      <4>4. [x EXCEPT !.half = g, !.valid = w]
            = [ram |-> x.ram, half |-> g, valid |-> w, loaded |-> x.loaded]
        BY <3>2
      <4>5. S(h, v, x.loaded) BY <3>5, <4>3, <4>4, <4>x
      <4> QED BY <3>1, <4>1, <4>5
    <3>6. CASE f.op = "reg" /\ f.val \in {"lock", "ramloaded"}
      <4> DEFINE l == f.val = "ramloaded"
      <4>1. l \in BOOLEAN OBVIOUS
      <4>2. y = [chip EXCEPT ![c].loaded = l] BY <3>6 DEF Executed
      <4>x. PICK w : w = l OBVIOUS
      <4>3. y = [chip EXCEPT ![c] = [x EXCEPT !.loaded = w]] BY <1>1, <4>2, <4>x
      <4>4. [x EXCEPT !.loaded = w]
            = [ram |-> x.ram, half |-> x.half, valid |-> x.valid, loaded |-> w]
        <5>1. PICK u : u = [ram |-> x.ram, half |-> x.half, valid |-> x.valid, loaded |-> w] OBVIOUS
        <5>2. [x EXCEPT !.loaded = w] = u BY <5>1, SMTT(20) DEF CoreState
        <5> QED BY <5>1, <5>2
      <4>5. S(x.half, x.valid, l) BY <3>6, <4>3, <4>4, <4>x
      <4> QED BY <3>1, <4>1, <4>5
    <3>7. CASE f.op = "reg" /\ f.val \notin {"clear", "valid", "switch", "lock", "ramloaded"}
      <4>1. y = chip BY <3>7 DEF Executed
      <4>2. chip = [chip EXCEPT ![c] = x] BY <1>1
      <4>3. x = [ram |-> x.ram, half |-> x.half, valid |-> x.valid, loaded |-> x.loaded]
        BY DEF CoreState
      <4>5. S(x.half, x.valid, x.loaded) BY <3>7, <4>1, <4>2, <4>3
      <4> QED BY <3>1, <4>5
    <3> QED BY <1>2, <1>4, <3>4, <3>5, <3>6, <3>7
  <2>2. PICK z : z = [ram |-> x.ram, half |-> h, valid |-> v, loaded |-> l] OBVIOUS
  <2>3. z \in CoreState /\ z.ram = x.ram /\ z.half = h /\ z.valid = v /\ z.loaded = l
    BY <1>1, <2>2 DEF CoreState
  <2>4. y = [chip EXCEPT ![c] = z] BY <1>1, <2>1, <2>2
  <2>5. /\ y \in [{"dsl", "idc"} -> CoreState] /\ y[c] = z
        /\ \A e \in {"dsl", "idc"} \ {c} : y[e] = chip[e]
    BY <2>3, <2>4
  <2>6. f.op = "reg" /\ f.val = "mode" => y = chip BY DEF Executed
  <2> QED BY <1>1, <1>4, <2>1, <2>3, <2>5, <2>6 DEF Effect
<1> QED BY <1>3, <1>4

\* Nothing was written to the data half of a core; nor is that half selected.
Blank(x) == \A a \in 1 .. Blocks : x.ram["data"][a] = "none"
Fresh(x) == x.half = "code" /\ Blank(x)

\* A half has all its blocks.
Full(x, part) == \A a \in 1 .. Blocks : x.ram[part][a] = part

\* Both halves have, but for the address.
Whole(c, x) ==
  \A p \in Parts : \A a \in 1 .. Blocks :
    x.ram[p][a] \in {p} \cup IF c = "dsl" /\ p = "data" /\ a = 1 THEN {"address"} ELSE {}

\* What the download has put into the core x by its frame i.  A switch that got
\* lost leads the data into the half of the code, and leaves its own half blank.
Written(p, i, x) ==
  /\ i <= CodeAt(p) => Fresh(x)
  /\ i = CodeAt(p) + 1 => Blank(x) /\ Full(x, "code")
  /\ i \in CodeAt(p) + 2 .. DataAt(p) - 1 => Fresh(x) \/ (x.half = "data" /\ Full(x, "code"))
  /\ i = DataAt(p) => Blank(x) \/ (x.half = "data" /\ Full(x, "code"))
  /\ i > DataAt(p) => Whole(p, x)
  /\ p = "dsl" /\ i \in DataAt(p) + 1 .. DataAt(p) + 3 => x.half = "data"

\* A frame keeps this,
LEMMA WrittenKept ==
  ASSUME NEW p \in {"dsl", "idc"}, NEW i \in 1 .. LastAt(p), NEW f, FrameIs(p, i, f), ChipFrameOK(f),
         NEW x \in CoreState, NEW y \in CoreState, Effect(f, x, y), Written(p, i, x)
  PROVE  Written(p, i, y)
<1>1. PICK B \in Nat : B = Blocks /\ B > 0 BY ChipAssumption
<1>2. PICK c \in Nat, d \in Nat : c = CodeAt(p) /\ c > 1 /\ d = DataAt(p) /\ d = c + B + 2
  BY <1>1 DEF CodeAt, DataAt
<1>3. LastAt(p) = d + (IF p = "dsl" THEN 4 ELSE 1) BY <1>2 DEF LastAt
<1>4. i \in Nat /\ i <= d + (IF p = "dsl" THEN 4 ELSE 1) BY <1>2, <1>3
<1>5. f.op \in {"ram", "chk", "reg"} /\ f.adr \in 0 .. Blocks BY DEF ChipFrameOK, Frame
<1>6. x.half \in Parts /\ y.half \in Parts BY DEF CoreState
<1>7. ASSUME y.ram = x.ram
      PROVE  (Blank(x) => Blank(y)) /\ (Whole(p, x) => Whole(p, y)) /\ \A q : Full(x, q) => Full(y, q)
  BY <1>7 DEF Blank, Whole, Full
<1>8. CASE i < c
  <2>1. Opening(p, f) /\ x.half = "code" /\ Blank(x)
    BY <1>2, <1>8 DEF FrameIs, Written, Fresh
  <2>2. f.op = "ram" \/ (f.op = "reg" /\ f.val \in {"stop", "clear", "lock"})
    BY <2>1 DEF Opening, Ram
  <2>3. y.half = "code" BY <2>1, <2>2 DEF Effect
  <2>4. Blank(y)
    <3>1. CASE f.op = "ram"
      <4>1. \A a \in 1 .. Blocks : y.ram["data"][a] = x.ram["data"][a]
        BY <1>1, <2>1, <3>1 DEF Effect, Parts
      <4> QED BY <2>1, <4>1 DEF Blank
    <3>2. CASE f.op # "ram" BY <1>7, <2>1, <3>2 DEF Effect
    <3> QED BY <3>1, <3>2
  <2> QED BY <1>2, <1>8, <2>3, <2>4 DEF Written, Fresh
<1>9. CASE i = c
  <2>1. f = Chk("code") /\ Fresh(x) BY <1>2, <1>9 DEF FrameIs, Written
  <2>2. f.op = "chk" /\ f.val = "code" BY <2>1 DEF Chk
  <2>3. y.half = "code" /\ y.ram = x.ram BY <2>2 DEF Effect
  <2>4. Fresh(y) BY <1>7, <2>1, <2>3 DEF Fresh
  <2> QED BY <1>2, <1>9, <2>4 DEF Written
<1>10. CASE i = c + 1
  <2>1. f = Reg("switch") /\ Blank(x) /\ Full(x, "code") BY <1>2, <1>10 DEF FrameIs, Written
  <2>2. y.ram = x.ram BY <2>1 DEF Effect, Reg
  <2>3. Blank(y) /\ Full(y, "code") BY <1>7, <2>1, <2>2
  <2> QED BY <1>1, <1>2, <1>10, <2>3 DEF Written
<1>11. CASE i > c + 1 /\ i < d
  <2>0. i \in c + 2 .. d - 1 BY <1>2, <1>4, <1>11
  <2>1. (\E a \in 1 .. Blocks : f = Ram(a, "data")) /\ (Fresh(x) \/ (x.half = "data" /\ Full(x, "code")))
    BY <1>2, <2>0 DEF FrameIs, Written
  <2>2. f.op = "ram" BY <2>1 DEF Ram
  <2>3. y.half = x.half BY <2>2 DEF Effect
  <2>4. Fresh(x) => Fresh(y)
    <3>1. ASSUME Fresh(x) PROVE Fresh(y)
      <4>1. x.half = "code" /\ Blank(x) BY <3>1 DEF Fresh
      <4>2. \A a \in 1 .. Blocks : y.ram["data"][a] = x.ram["data"][a]
        BY <1>1, <2>2, <4>1 DEF Effect, Parts
      <4> QED BY <2>3, <4>1, <4>2 DEF Fresh, Blank
    <3> QED BY <3>1
  <2>5. x.half = "data" /\ Full(x, "code") => Full(y, "code")
    <3>1. ASSUME x.half = "data", Full(x, "code") PROVE Full(y, "code")
      <4>2. \A a \in 1 .. Blocks : y.ram["code"][a] = x.ram["code"][a]
        BY <1>1, <2>2, <3>1 DEF Effect, Parts
      <4> QED BY <3>1, <4>2 DEF Full
    <3> QED BY <3>1
  <2> QED BY <1>2, <2>0, <1>11, <2>1, <2>3, <2>4, <2>5 DEF Written
<1>12. CASE i = d
  <2>1. f = Chk("data") /\ (Blank(x) \/ (x.half = "data" /\ Full(x, "code")))
    BY <1>2, <1>12 DEF FrameIs, Written
  <2>2. f.op = "chk" /\ f.val = "data" BY <2>1 DEF Chk
  <2>3. y.half = "data" /\ y.ram = x.ram BY <2>2 DEF Effect
  <2>4. Blank(y) \/ (y.half = "data" /\ Full(y, "code")) BY <1>7, <2>1, <2>3
  <2> QED BY <1>1, <1>2, <1>12, <2>4 DEF Written
<1>13. CASE i > d
  <2>1. PICK k \in 1 .. (IF p = "dsl" THEN 4 ELSE 1) : k = i - d /\ i = d + k BY <1>2, <1>4, <1>13
  <2>2. Closing(p, k, f) /\ Whole(p, x) /\ (p = "dsl" /\ k < 4 => x.half = "data")
    <3>1. Closing(p, k, f) BY <1>2, <1>13, <2>1 DEF FrameIs
    <3>2. p = "dsl" /\ k < 4 => i \in d + 1 .. d + 3 BY <1>2, <2>1
    <3> QED BY <1>2, <1>13, <3>1, <3>2 DEF Written
  <2>3. CASE p = "dsl" /\ k = 3
    <3>1. f = Ram(1, "address") BY <2>2, <2>3 DEF Closing
    <3>2. f.op = "ram" /\ f.adr = 1 /\ f.val = "address" BY <3>1 DEF Ram
    <3>3. y.half = "data" BY <2>2, <2>3, <3>2 DEF Effect
    <3>4. \A h \in Parts : \A a \in 1 .. Blocks :
            y.ram[h][a] = IF h = "data" /\ a = 1 THEN "address" ELSE x.ram[h][a]
      BY <1>1, <2>2, <2>3, <3>2 DEF Effect
    <3>5. Whole(p, y) BY <2>2, <2>3, <3>4 DEF Whole
    <3> QED BY <1>2, <1>1, <1>13, <3>3, <3>5 DEF Written
  <2>4. CASE ~(p = "dsl" /\ k = 3)
    <3>1. f = Reg("dtpnt") \/ f = Reg("switch") \/ f = Reg("valid")
      BY <2>1, <2>2, <2>4 DEF Closing
    <3>2. y.ram = x.ram BY <3>1 DEF Effect, Reg
    <3>3. Whole(p, y) BY <1>7, <2>2, <3>2
    <3>4. p = "dsl" /\ k < 4 => y.half = "data"
      <4>1. ASSUME p = "dsl", k < 4 PROVE y.half = "data"
        <5>1. f = Reg("dtpnt") \/ f = Reg("switch") BY <2>1, <2>2, <2>4, <4>1 DEF Closing
        <5> QED BY <2>2, <4>1, <5>1 DEF Effect, Reg
      <4> QED BY <4>1
    <3>5. p = "dsl" /\ i \in d + 1 .. d + 3 => k < 4 BY <1>2, <2>1
    <3> QED BY <1>2, <1>1, <1>13, <3>3, <3>4, <3>5 DEF Written
  <2> QED BY <2>3, <2>4
<1> QED BY <1>2, <1>4, <1>8, <1>9, <1>10, <1>11, <1>12, <1>13

\* and so does going on to the next, where a CRC was waited for if it is right.
LEMMA WrittenOn ==
  ASSUME NEW p \in {"dsl", "idc"}, NEW i \in Nat, NEW x \in CoreState, Written(p, i, x),
         i = CodeAt(p) => Full(x, "code"),
         i = DataAt(p) => Full(x, "code") /\ Full(x, "data") /\ x.half = "data"
  PROVE  Written(p, i + 1, x)
<1>1. PICK B \in Nat : B = Blocks /\ B > 0 BY ChipAssumption
<1>2. PICK c \in Nat, d \in Nat : c = CodeAt(p) /\ c > 1 /\ d = DataAt(p) /\ d = c + B + 2
  BY <1>1 DEF CodeAt, DataAt
<1>3. x.half \in Parts BY DEF CoreState
<1>4. CASE i < c BY <1>2, <1>4 DEF Written
<1>5. CASE i = c BY <1>1, <1>2, <1>5 DEF Written, Fresh
<1>6. CASE i = c + 1 BY <1>1, <1>2, <1>3, <1>6 DEF Written, Fresh, Parts
<1>7. CASE i > c + 1 /\ i < d
  <2>1. i \in c + 2 .. d - 1 BY <1>2, <1>7
  <2>2. Fresh(x) \/ (x.half = "data" /\ Full(x, "code")) BY <1>2, <2>1 DEF Written
  <2> QED BY <1>1, <1>2, <1>7, <2>2 DEF Written, Fresh
<1>8. CASE i = d
  <2>1. Whole(p, x) BY <1>2, <1>8 DEF Whole, Full, Parts
  <2> QED BY <1>1, <1>2, <1>8, <2>1 DEF Written
<1>9. CASE i > d
  <2>1. Whole(p, x) BY <1>2, <1>9 DEF Written
  <2>2. i + 1 \in d + 1 .. d + 3 => i \in d + 1 .. d + 3 BY <1>2, <1>9
  <2>3. p = "dsl" /\ i + 1 \in d + 1 .. d + 3 => x.half = "data" BY <1>2, <2>2 DEF Written
  <2> QED BY <1>1, <1>2, <1>9, <2>1, <2>3 DEF Written
<1> QED BY <1>2, <1>4, <1>5, <1>6, <1>7, <1>8, <1>9

-----------------------------------------------------------------------------
(* The answers *)

Response == [ok : BOOLEAN, crc : Crc]

\* A CRC v is on its way.
Coming(l, v) == \E j \in 1 .. Len(l) : l[j].crc = v

\* No CRC w comes after a CRC v.
Before(l, w, v) == \A j, k \in 1 .. Len(l) : l[j].crc = v /\ l[k].crc = w => k < j

LEMMA MoreAnswers ==
  ASSUME NEW l \in Seq(Response), NEW s \in Seq(Response), NEW k, k = l \o s
  PROVE  /\ k \in Seq(Response)
         /\ \A v : Coming(k, v) => Coming(l, v) \/ Coming(s, v)
         /\ \A v, w : ~Coming(s, w) /\ Before(l, w, v) => Before(k, w, v)
<1>1. PICK n \in Nat, m \in Nat : n = Len(l) /\ m = Len(s) OBVIOUS
<1>2. /\ k \in Seq(Response) /\ Len(k) = n + m
      /\ \A j \in 1 .. n : k[j] = l[j]
      /\ \A j \in n + 1 .. n + m : k[j] = s[j - n]
  BY <1>1
<1>3. ASSUME NEW j \in 1 .. n + m, ~ (j \in 1 .. n) PROVE j - n \in 1 .. m /\ k[j] = s[j - n]
  BY <1>1, <1>2, <1>3
<1>4. ASSUME NEW v, Coming(k, v) PROVE Coming(l, v) \/ Coming(s, v)
  <2>1. PICK j \in 1 .. n + m : k[j].crc = v BY <1>2, <1>4 DEF Coming
  <2>2. CASE j \in 1 .. n BY <1>1, <1>2, <2>1, <2>2 DEF Coming
  <2>3. CASE ~ (j \in 1 .. n)
    <3>1. PICK i \in 1 .. m : i = j - n /\ k[j] = s[i] BY <1>3, <2>3
    <3> QED BY <1>1, <2>1, <3>1 DEF Coming
  <2> QED BY <2>2, <2>3
<1>5. ASSUME NEW v, NEW w, ~Coming(s, w), Before(l, w, v) PROVE Before(k, w, v)
  <2> SUFFICES ASSUME NEW i \in 1 .. n + m, NEW j \in 1 .. n + m, k[i].crc = v, k[j].crc = w
               PROVE  j < i
    BY <1>2 DEF Before
  <2>1. j \in 1 .. n
    <3>1. CASE ~ (j \in 1 .. n)
      <4>1. PICK q \in 1 .. m : q = j - n /\ k[j] = s[q] BY <1>3, <3>1
      <4> QED BY <1>1, <1>5, <4>1 DEF Coming
    <3> QED BY <3>1
  <2>2. CASE i \in 1 .. n BY <1>1, <1>2, <1>5, <2>1, <2>2 DEF Before
  <2>3. CASE ~ (i \in 1 .. n) BY <1>1, <2>1, <2>3
  <2> QED BY <2>2, <2>3
<1> QED BY <1>2, <1>4, <1>5

LEMMA FewerAnswers ==
  ASSUME NEW l \in Seq(Response), l # <<>>, NEW k, k = Tail(l), NEW r, r = Head(l)
  PROVE  /\ k \in Seq(Response) /\ Len(k) = Len(l) - 1 /\ Len(l) \in Nat /\ Len(l) > 0
         /\ r \in Response /\ r = l[1] /\ Coming(l, r.crc)
         /\ \A v : Coming(k, v) => Coming(l, v)
         /\ \A v, w : Before(l, w, v) => Before(k, w, v)
         /\ \A w : Before(l, w, r.crc) => ~Coming(l, w)
<1>1. PICK n \in Nat : n = Len(l) /\ n > 0 OBVIOUS
<1>2. /\ k \in Seq(Response) /\ Len(k) = n - 1 /\ r = l[1] /\ r \in Response
      /\ \A j \in 1 .. n - 1 : k[j] = l[j + 1]
  BY <1>1
<1>3. Coming(l, r.crc) BY <1>1, <1>2 DEF Coming
<1>4. ASSUME NEW v, Coming(k, v) PROVE Coming(l, v)
  <2>1. PICK j \in 1 .. n - 1 : k[j].crc = v BY <1>2, <1>4 DEF Coming
  <2>2. j + 1 \in 1 .. n /\ l[j + 1].crc = v BY <1>1, <1>2, <2>1
  <2> QED BY <1>1, <2>2 DEF Coming
<1>5. ASSUME NEW v, NEW w, Before(l, w, v),
             NEW i \in 1 .. n - 1, NEW j \in 1 .. n - 1, k[i].crc = v, k[j].crc = w
      PROVE  j < i
  <2>1. PICK a \in 1 .. n, b \in 1 .. n : a = i + 1 /\ b = j + 1 BY <1>1
  <2>2. l[a].crc = v /\ l[b].crc = w BY <1>2, <1>5, <2>1
  <2>3. b < a BY <1>1, <1>5, <2>2 DEF Before
  <2> QED BY <2>1, <2>3
<1>6. ASSUME NEW w, Before(l, w, r.crc), Coming(l, w) PROVE FALSE
  <2>1. PICK j \in 1 .. n : l[j].crc = w BY <1>1, <1>6 DEF Coming
  <2>2. 1 \in 1 .. n /\ l[1].crc = r.crc BY <1>1, <1>2
  <2>3. j < 1 BY <1>1, <1>6, <2>1, <2>2 DEF Before
  <2> QED BY <2>1, <2>3
<1> QED BY <1>1, <1>2, <1>3, <1>4, <1>5, <1>6 DEF Before

LEMMA ChecksAt ==
  ASSUME NEW p \in {"dsl", "idc"}, NEW B \in Nat, B = Blocks
  PROVE  \E c \in Nat, d \in Nat : c = CodeAt(p) /\ c > 1 /\ d = DataAt(p) /\ d = c + B + 2
<1>1. B > 0 BY ChipAssumption
<1> QED BY <1>1 DEF CodeAt, DataAt

\* The CRC v, on its way or seen, is only that of the core x as it is, and the
\* CRCs w of the last check are read before it.
CrcTrue(x, l, seen, v, w) ==
  /\ Before(l, w, v) /\ (seen => ~Coming(l, w))
  /\ Coming(l, v) \/ seen =>
       Full(x, "code") /\ (v = "data" => Full(x, "data") /\ x.half = "data")

\* Which CRCs can be on their way at frame i of a download; new says that it
\* was not sent yet.
CrcInOrder(p, i, x, l, r, new) ==
  /\ i < CodeAt(p) \/ i > DataAt(p) => ~Coming(l, "code")
  /\ i = CodeAt(p) => CrcTrue(x, l, r = "code" /\ ~new, "code", "data")
  /\ i \in CodeAt(p) + 1 .. DataAt(p) - 1 => ~Coming(l, "data")
  /\ i = DataAt(p) => CrcTrue(x, l, r = "data" /\ ~new, "data", "code")

\* What an answer to the frame f may say of a core x.
Says(s, x, f) ==
  \A v \in {"code", "data"} : Coming(s, v) => f.op = "chk" /\ f.val = v /\ Full(x, v)

\* The frame f makes y of the core x, answers s join l to k, and q is the CRC
\* known then.
SendingOf(p, i, f, x, y, l, s, k, r, new, q) ==
  /\ p \in {"dsl", "idc"} /\ i \in 1 .. LastAt(p) /\ FrameIs(p, i, f) /\ ChipFrameOK(f)
  /\ f.op = "chk" <=> i \in {CodeAt(p), DataAt(p)}
  /\ x \in CoreState /\ y \in CoreState /\ Written(p, i, x)
  /\ l \in Seq(Response) /\ s \in Seq(Response) /\ k = l \o s /\ Says(s, y, f)
  /\ Effect(f, x, y) \/ (y = x /\ ~Coming(s, "code") /\ ~Coming(s, "data"))
  /\ new \in BOOLEAN /\ CrcInOrder(p, i, x, l, r, new)
  /\ q = IF f.op = "chk" /\ new THEN "none" ELSE r

LEMMA CrcSend ==
  ASSUME NEW p, NEW i, NEW f, NEW x, NEW y, NEW l, NEW s, NEW k, NEW r, NEW new, NEW q,
         SendingOf(p, i, f, x, y, l, s, k, r, new, q)
  PROVE  CrcInOrder(p, i, y, k, q, FALSE)
<1> USE DEF SendingOf
<1>1. PICK B \in Nat : B = Blocks /\ B > 0 BY ChipAssumption
<1>2. PICK c \in Nat, d \in Nat : c = CodeAt(p) /\ c > 1 /\ d = DataAt(p) /\ d = c + B + 2
  BY <1>1, ChecksAt
<1>3. i \in Nat BY <1>2 DEF LastAt
<1>4. /\ \A v : Coming(k, v) => Coming(l, v) \/ Coming(s, v)
      /\ \A v, w : ~Coming(s, w) /\ Before(l, w, v) => Before(k, w, v)
  BY MoreAnswers
<1>5. CASE i # c /\ i # d
  <2>1. ~Coming(s, "code") /\ ~Coming(s, "data") BY <1>2, <1>5 DEF Says
  <2> QED BY <1>2, <1>4, <1>5, <2>1 DEF CrcInOrder
<1>6. CASE i = c
  <2>1. f = Chk("code") /\ i # d BY <1>1, <1>2, <1>6 DEF FrameIs
  <2>2. f.op = "chk" /\ f.val = "code" BY <2>1 DEF Chk
  <2>3. y.ram = x.ram BY <2>2 DEF Effect
  <2>4. ~Coming(s, "data") /\ (Coming(s, "code") => Full(y, "code")) BY <2>2 DEF Says
  <2>5. CrcTrue(x, l, r = "code" /\ ~new, "code", "data") BY <1>2, <1>6 DEF CrcInOrder
  <2>6. Full(x, "code") => Full(y, "code") BY <2>3 DEF Full
  <2>7. q = "code" => r = "code" /\ ~new BY <2>2
  <2>8. CrcTrue(y, k, q = "code" /\ ~FALSE, "code", "data")
    BY <1>4, <2>4, <2>5, <2>6, <2>7 DEF CrcTrue
  <2> QED BY <1>1, <1>2, <1>6, <2>8 DEF CrcInOrder
<1>7. CASE i = d
  <2>1. f = Chk("data") /\ i # c BY <1>1, <1>2, <1>7 DEF FrameIs
  <2>2. f.op = "chk" /\ f.val = "data" BY <2>1 DEF Chk
  <2>3. y.ram = x.ram /\ (y.half = "data" \/ (y = x /\ ~Coming(s, "data"))) BY <2>2 DEF Effect
  <2>4. ~Coming(s, "code") /\ (Coming(s, "data") => Full(y, "data") /\ y.half = "data")
    BY <2>2, <2>3 DEF Says
  <2>5. CrcTrue(x, l, r = "data" /\ ~new, "data", "code") BY <1>2, <1>7 DEF CrcInOrder
  <2>6. \A v : Full(x, v) => Full(y, v) BY <2>3 DEF Full
  <2>7. q = "data" => r = "data" /\ ~new BY <2>2
  <2>8. Full(y, "data") => Full(y, "code")
    <3>1. Blank(x) \/ Full(x, "code") BY <1>2, <1>7 DEF Written
    <3>2. Blank(x) => x.ram["data"][1] = "none" BY <1>1 DEF Blank
    <3>3. Full(y, "data") => y.ram["data"][1] = "data" BY <1>1 DEF Full
    <3> QED BY <2>3, <2>6, <3>1, <3>2, <3>3
  <2>9. CrcTrue(y, k, q = "data" /\ ~FALSE, "data", "code")
    BY <1>4, <2>3, <2>4, <2>5, <2>6, <2>7, <2>8 DEF CrcTrue
  <2> QED BY <1>1, <1>2, <1>7, <2>9 DEF CrcInOrder
<1> QED BY <1>5, <1>6, <1>7

\* An answer is processed.
LEMMA CrcProcess ==
  ASSUME NEW p \in {"dsl", "idc"}, NEW i \in Nat, NEW x, NEW l \in Seq(Response), l # <<>>,
         NEW k, k = Tail(l), NEW r, NEW q, NEW h, h = Head(l),
         q = IF h.ok /\ h.crc # "none" THEN h.crc ELSE r,
         CrcInOrder(p, i, x, l, r, FALSE)
  PROVE  CrcInOrder(p, i, x, k, q, FALSE)
<1>2. /\ h \in Response /\ Coming(l, h.crc)
      /\ \A v : Coming(k, v) => Coming(l, v)
      /\ \A v, w : Before(l, w, v) => Before(k, w, v)
      /\ \A w : Before(l, w, h.crc) => ~Coming(l, w)
  BY FewerAnswers
<1>3. ASSUME NEW v, NEW w, CrcTrue(x, l, r = v /\ ~FALSE, v, w)
      PROVE  CrcTrue(x, k, q = v /\ ~FALSE, v, w)
  <2>1. CASE q = r BY <1>2, <1>3, <2>1 DEF CrcTrue
  <2>2. CASE q = h.crc /\ q = v
    <3>1. ~Coming(l, w) /\ Coming(l, v) BY <1>2, <1>3, <2>2 DEF CrcTrue
    <3> QED BY <1>2, <1>3, <2>2, <3>1 DEF CrcTrue
  <2>3. CASE q # v BY <1>2, <1>3, <2>3 DEF CrcTrue
  <2> QED BY <2>1, <2>2, <2>3
<1> QED BY <1>2, <1>3 DEF CrcInOrder

\* A frame that is to be sent again may look new.
LEMMA CrcAgain ==
  ASSUME NEW p, NEW i, NEW x, NEW l, NEW r, CrcInOrder(p, i, x, l, r, FALSE), NEW new
  PROVE  CrcInOrder(p, i, x, l, r, new)
<1>1. ASSUME NEW v, NEW w, CrcTrue(x, l, r = v /\ ~FALSE, v, w)
      PROVE  CrcTrue(x, l, r = v /\ ~new, v, w)
  BY <1>1 DEF CrcTrue
<1> QED BY <1>1 DEF CrcInOrder

\* The next frame.
LEMMA CrcOn ==
  ASSUME NEW p \in {"dsl", "idc"}, NEW i \in Nat, NEW x, NEW l, NEW r,
         CrcInOrder(p, i, x, l, r, FALSE), i = CodeAt(p) => r = "code", i = DataAt(p) => r = "data"
  PROVE  /\ CrcInOrder(p, i + 1, x, l, r, TRUE)
         /\ i = CodeAt(p) => Full(x, "code")
         /\ i = DataAt(p) => Full(x, "code") /\ Full(x, "data") /\ x.half = "data"
<1>1. PICK B \in Nat : B = Blocks /\ B > 0 BY ChipAssumption
<1>2. PICK c \in Nat, d \in Nat : c = CodeAt(p) /\ c > 1 /\ d = DataAt(p) /\ d = c + B + 2
  BY <1>1, ChecksAt
<1>3. ASSUME NEW v, NEW w, ~Coming(l, v) PROVE CrcTrue(x, l, r = v /\ ~TRUE, v, w)
  BY <1>3 DEF CrcTrue, Before, Coming
<1>4. CASE i < c
  <2>1. ~Coming(l, "code") BY <1>2, <1>4 DEF CrcInOrder
  <2> QED BY <1>1, <1>2, <1>3, <1>4, <2>1 DEF CrcInOrder
<1>5. CASE i = c
  <2>1. ~Coming(l, "data") /\ Full(x, "code") BY <1>2, <1>5 DEF CrcInOrder, CrcTrue
  <2> QED BY <1>1, <1>2, <1>3, <1>5, <2>1 DEF CrcInOrder
<1>6. CASE i > c /\ i < d
  <2>1. i \in c + 1 .. d - 1 BY <1>2, <1>6
  <2>2. ~Coming(l, "data") BY <1>2, <2>1 DEF CrcInOrder
  <2> QED BY <1>1, <1>2, <1>3, <1>6, <2>2 DEF CrcInOrder
<1>7. CASE i = d
  <2>1. /\ ~Coming(l, "code") /\ Full(x, "code") /\ Full(x, "data") /\ x.half = "data"
    BY <1>1, <1>2, <1>7 DEF CrcInOrder, CrcTrue
  <2> QED BY <1>1, <1>2, <1>7, <2>1 DEF CrcInOrder
<1>8. CASE i > d
  <2>1. ~Coming(l, "code") BY <1>2, <1>8 DEF CrcInOrder
  <2>2. PICK j : j = i + 1 OBVIOUS
  <2>3. i # c /\ i # d /\ j # c /\ j # d /\ ~ (j \in c + 1 .. d - 1) BY <1>1, <1>2, <1>8, <2>2
  <2>4. CrcInOrder(p, j, x, l, r, TRUE) BY <1>2, <2>1, <2>3 DEF CrcInOrder
  <2> QED BY <1>2, <2>2, <2>3, <2>4
<1>9. i < c \/ i = c \/ (i > c /\ i < d) \/ i = d \/ i > d BY <1>2
<1> QED BY <1>4, <1>5, <1>6, <1>7, <1>8, <1>9

-----------------------------------------------------------------------------
(* The download *)

AtState == [phase : Phases \cup {"up", "failed"}, i : 1 .. 2 * Blocks + 9,
            next : {"send", "ack", "crc"}, retry : 0 .. Retries, counter : 0 .. CrcPolls,
            err : BOOLEAN]
AtOK(a) == a \in AtState /\ (a.phase \in Phases => a.i <= Len(Script[a.phase]))

\* The part of ChipTypeOK about the download.
LoadTypeOK ==
  /\ AtOK(at) /\ rs \in Crc /\ late \in 0 .. MaxLate
  /\ link \in Seq(Response) /\ chip \in [{"dsl", "idc"} -> CoreState]

LEMMA LoadType ==
  ChipTypeOK <=>
    /\ LoadTypeOK
    /\ fifo \in [slot : [Slots -> Msg \cup {Empty}], read : Slots, write : Slots, full : BOOLEAN]
    /\ box \in [egress : Msg \cup {Empty}, enabled : BOOLEAN, ingress : BOOLEAN]
<1>1. DOMAIN Script \cup {"up", "failed"} = Phases \cup {"up", "failed"} /\ DOMAIN Script = Phases
  BY ScriptPhases
<1>2. ASSUME NEW p \in Phases PROVE Len(Script[p]) \in Nat /\ DOMAIN Script[p] = 1 .. Len(Script[p])
  <2>1. CASE p \in {"aux", "start"} BY <2>1, ScriptPhases
  <2>2. CASE p \in {"dsl", "idc"}
    <3>1. Script[p] \in Seq(Frame) BY <2>2, ImagesFramed
    <3> QED BY <3>1
  <2> QED BY <2>1, <2>2 DEF Phases
<1>3. ASSUME at \in AtState
      PROVE  (at.phase \in Phases => at.i <= Len(Script[at.phase]))
             <=> (at.phase \in Phases => at.i \in DOMAIN Script[at.phase])
  <2>1. at.i \in Nat /\ at.i >= 1 BY <1>3 DEF AtState
  <2> QED BY <1>2, <2>1
<1>4. [phase : DOMAIN Script \cup {"up", "failed"}, i : 1 .. 2 * Blocks + 9,
       next : {"send", "ack", "crc"}, retry : 0 .. Retries, counter : 0 .. CrcPolls,
       err : BOOLEAN] = AtState
  BY <1>1 DEF AtState
<1>5. (at.phase \in DOMAIN Script => at.i \in DOMAIN Script[at.phase])
      <=> (at.phase \in Phases => at.i \in DOMAIN Script[at.phase])
  BY <1>1
<1> QED BY <1>3, <1>4, <1>5 DEF ChipTypeOK, LoadTypeOK, AtOK, CoreState, Parts, Response

\* A phase begins.
BegunAs(b, phase, err) ==
  /\ AtOK(b) /\ b.phase = phase /\ b.i = 1 /\ b.next = "send" /\ b.retry = Retries /\ b.err = err

\* A phase of a has ended.
EndedTo(a, b, ok) ==
  /\ a.phase = "aux" => BegunAs(b, "dsl", FALSE)
  /\ a.phase = "dsl" => BegunAs(b, IF ok THEN "idc" ELSE "failed", FALSE)
  /\ a.phase = "idc" => BegunAs(b, "start", ~ok)
  /\ a.phase = "start" => BegunAs(b, IF ok /\ ~a.err THEN "up" ELSE "failed", a.err)

\* The same frame, in another state.
SameFrame(a, b) == AtOK(b) /\ b.phase = a.phase /\ b.i = a.i /\ b.err = a.err

\* The next frame.
NextFrame(a, b) ==
  /\ AtOK(b) /\ b.phase = a.phase /\ b.i = a.i + 1 /\ b.err = a.err
  /\ b.next = "send" /\ b.retry = Retries

LEMMA PhaseBegins ==
  ASSUME NEW phase \in Phases \cup {"up", "failed"}, NEW err \in BOOLEAN
  PROVE  BegunAs(Begin(phase, err), phase, err)
<1>1. PICK b : b = Begin(phase, err) OBVIOUS
<1>2. Blocks \in Nat /\ Retries \in Nat /\ CrcPolls \in Nat /\ Retries > 0 BY ChipAssumption
<1>3. /\ b \in AtState /\ b.phase = phase /\ b.i = 1 /\ b.next = "send" /\ b.retry = Retries
      /\ b.err = err
  BY <1>1, <1>2 DEF Begin, AtState
<1>4. phase \in Phases => 1 <= Len(Script[phase])
  <2>1. phase \in {"aux", "start"} => 1 <= Len(Script[phase]) BY SMTT(30), ScriptPhases
  <2>2. phase \in {"dsl", "idc"} => 1 <= Len(Script[phase])
    BY <1>2, ImagesFramed DEF LastAt, DataAt, CodeAt
  <2> QED BY <2>1, <2>2 DEF Phases
<1> QED BY <1>1, <1>3, <1>4 DEF BegunAs, AtOK

LEMMA PhaseEnds ==
  ASSUME NEW ok \in BOOLEAN, AtOK(at), Busy
  PROVE  EndedTo(at, Ended(ok), ok)
<1>1. at.phase \in Phases /\ at.err \in BOOLEAN BY ScriptPhases DEF Busy, AtOK, AtState
<1>2. CASE at.phase = "aux"
  <2>1. Ended(ok) = Begin("dsl", FALSE) BY <1>2 DEF Ended
  <2> QED BY <1>2, <2>1, PhaseBegins DEF EndedTo, Phases
<1>3. CASE at.phase = "dsl"
  <2>1. Ended(ok) = Begin(IF ok THEN "idc" ELSE "failed", FALSE) BY <1>3 DEF Ended
  <2> QED BY <1>3, <2>1, PhaseBegins DEF EndedTo, Phases
<1>4. CASE at.phase = "idc"
  <2>1. Ended(ok) = Begin("start", ~ok) BY <1>4 DEF Ended
  <2> QED BY <1>4, <2>1, PhaseBegins DEF EndedTo, Phases
<1>5. CASE at.phase = "start"
  <2>1. Ended(ok) = Begin(IF ok /\ ~at.err THEN "up" ELSE "failed", at.err) BY <1>5 DEF Ended
  <2> QED BY <1>1, <1>5, <2>1, PhaseBegins DEF EndedTo, Phases
<1> QED BY <1>1, <1>2, <1>3, <1>4, <1>5 DEF Phases

\* The frame in hand and its successors.
LEMMA HandFacts ==
  ASSUME AtOK(at), Busy
  PROVE  /\ InHand(at.phase, at.i, TheFrame) /\ at.phase \in Phases /\ at.i \in Nat /\ at.i > 0
         /\ at.err \in BOOLEAN /\ at.retry \in 0 .. Retries /\ at.next \in {"send", "ack", "crc"}
         /\ at.counter \in 0 .. CrcPolls
<1>1. PICK p \in Phases, i \in 1 .. 2 * Blocks + 9 : p = at.phase /\ i = at.i /\ i <= Len(Script[p])
  BY ScriptPhases DEF AtOK, AtState, Busy
<1>2. i \in Nat /\ i > 0 /\ p \in DOMAIN Script BY <1>1, ScriptPhases, ChipAssumption
<1>3. i \in DOMAIN Script[p]
  <2>1. CASE p \in {"aux", "start"} BY <1>1, <1>2, <2>1, ScriptPhases
  <2>2. CASE p \in {"dsl", "idc"}
    <3>1. Script[p] \in Seq(Frame) BY <2>2, ImagesFramed
    <3> QED BY <1>1, <1>2, <3>1
  <2> QED BY <1>1, <2>1, <2>2 DEF Phases
<1>4. InHand(p, i, Script[p][i]) BY <1>2, <1>3, FrameInHand
<1> QED BY <1>1, <1>2, <1>4 DEF TheFrame, AtOK, AtState

LEMMA Advances ==
  ASSUME AtOK(at), Busy
  PROVE  IF at.i < Len(Script[at.phase]) THEN NextFrame(at, Advance) ELSE EndedTo(at, Advance, TRUE)
<1>1. CASE at.i < Len(Script[at.phase])
  <2>1. PICK b : b = [at EXCEPT !.i = @ + 1, !.next = "send", !.retry = Retries] OBVIOUS
  <2>2. PICK n \in Nat : n = Len(Script[at.phase]) /\ n <= 2 * Blocks + 9
    BY HandFacts DEF InHand
  <2>3. at.i + 1 \in 1 .. 2 * Blocks + 9 /\ at.i + 1 <= n
    BY <1>1, <2>2, ChipAssumption, HandFacts, SMTT(30)
  <2>4. /\ b \in AtState /\ b.phase = at.phase /\ b.i = at.i + 1 /\ b.err = at.err
        /\ b.next = "send" /\ b.retry = Retries
    <3>1. PICK j \in 1 .. 2 * Blocks + 9 : j = at.i + 1 BY <2>3
    <3>2. at \in AtState /\ Retries \in 0 .. Retries BY ChipAssumption DEF AtOK
    <3>3. b = [at EXCEPT !.i = j, !.next = "send", !.retry = Retries] BY <2>1, <3>1
    <3> QED BY <3>1, <3>2, <3>3 DEF AtState
  <2>5. NextFrame(at, b) BY <2>2, <2>3, <2>4 DEF NextFrame, AtOK
  <2> QED BY <1>1, <2>1, <2>5 DEF Advance
<1>2. CASE ~(at.i < Len(Script[at.phase]))
  <2>1. Advance = Ended(TRUE) BY <1>2 DEF Advance
  <2> QED BY <1>2, <2>1, PhaseEnds
<1> QED BY <1>1, <1>2

LEMMA TriesAgain ==
  ASSUME AtOK(at), Busy
  PROVE  \/ SameFrame(at, Again) /\ Again.next = "send" /\ Again.retry < Retries
         \/ EndedTo(at, Again, FALSE)
<1>1. CASE at.retry > 1
  <2>1. PICK b : b = [at EXCEPT !.next = "send", !.retry = @ - 1] OBVIOUS
  <2>2. at.retry - 1 \in 0 .. Retries /\ at.retry - 1 < Retries
    BY <1>1, HandFacts, ChipAssumption
  <2>3. /\ b \in AtState /\ b.phase = at.phase /\ b.i = at.i /\ b.err = at.err
        /\ b.next = "send" /\ b.retry = at.retry - 1
    BY <2>1, <2>2, ChipAssumption DEF AtOK, AtState
  <2>4. SameFrame(at, b) BY <2>3 DEF SameFrame, AtOK
  <2> QED BY <1>1, <2>1, <2>2, <2>3, <2>4 DEF Again
<1>2. CASE ~(at.retry > 1)
  <2>1. Again = Ended(FALSE) BY <1>2 DEF Again
  <2> QED BY <2>1, PhaseEnds
<1> QED BY <1>1, <1>2

\* The same frame is acknowledged, and its CRC waited for.
LEMMA Waits ==
  ASSUME AtOK(at), Busy, NEW n \in {"ack", "crc"}, NEW k \in 0 .. CrcPolls
  PROVE  /\ SameFrame(at, [at EXCEPT !.next = n]) /\ [at EXCEPT !.next = n].next = n
         /\ SameFrame(at, [at EXCEPT !.next = n, !.counter = k])
         /\ [at EXCEPT !.next = n, !.counter = k].next = n
         /\ SameFrame(at, [at EXCEPT !.counter = k]) /\ [at EXCEPT !.counter = k].next = at.next
<1>1. ASSUME NEW b \in AtState, b.phase = at.phase, b.i = at.i, b.err = at.err
      PROVE  SameFrame(at, b)
  BY <1>1 DEF SameFrame, AtOK
<1>2. PICK b, c, d : /\ b = [at EXCEPT !.next = n] /\ c = [at EXCEPT !.next = n, !.counter = k]
                     /\ d = [at EXCEPT !.counter = k]
  OBVIOUS
<1>3. b \in AtState /\ b.phase = at.phase /\ b.i = at.i /\ b.err = at.err /\ b.next = n
  BY <1>2 DEF AtOK, AtState
<1>4. c \in AtState /\ c.phase = at.phase /\ c.i = at.i /\ c.err = at.err /\ c.next = n
  BY <1>2 DEF AtOK, AtState
<1>5. d \in AtState /\ d.phase = at.phase /\ d.i = at.i /\ d.err = at.err /\ d.next = at.next
  BY <1>2 DEF AtOK, AtState
<1> QED BY <1>1, <1>2, <1>3, <1>4, <1>5

\* What Transmit does: the answers s go on their way, and if ran holds the chip
\* has executed the frame.
Sent(f, c, s, ran) ==
  /\ chip' \in [{"dsl", "idc"} -> CoreState]
  /\ \A e \in {"dsl", "idc"} \ {c} : chip'[e] = chip[e]
  /\ IF ran THEN Effect(f, chip[c], chip'[c]) ELSE chip' = chip
  /\ f.op = "reg" /\ f.val = "mode" => chip' = chip
  /\ s \in Seq(Response) /\ link' = link \o s
  /\ Says(s, chip'[c], f)
  /\ ran \/ (~Coming(s, "code") /\ ~Coming(s, "data"))
  /\ Len(s) <= IF f.op = "chk" THEN 2 ELSE 1
  /\ s # <<>> => IF s[1].ok THEN ran ELSE Len(s) = 1
  /\ Len(s) = 2 => s[1].crc = "none"

LEMMA TransmitSends ==
  ASSUME LoadTypeOK, Transmit
  PROVE  \E s, ran : ran \in BOOLEAN /\ Sent(TheFrame, Core(at.phase), s, ran)
<1>1. PICK f, c : f = TheFrame /\ c = Core(at.phase) /\ c \in {"dsl", "idc"} BY DEF Core
<1>2. ChipFrameOK(f) BY <1>1, HandFacts DEF LoadTypeOK, Transmit, InHand
<1>3. chip \in [{"dsl", "idc"} -> CoreState] /\ link \in Seq(Response) BY DEF LoadTypeOK
<1>4. ASSUME NEW ok \in BOOLEAN, NEW crc \in Crc
      PROVE  Answer(ok, crc) \in Response /\ Answer(ok, crc).ok = ok /\ Answer(ok, crc).crc = crc
  BY DEF Answer, Response
<1>5. "none" \in Crc /\ "bad" \in Crc /\ "code" \in Crc /\ "data" \in Crc BY DEF Crc
<1>6. CASE UNCHANGED <<chip, link>>
  <2>1. <<>> \in Seq(Response) /\ link' = link \o <<>> /\ ~Coming(<<>>, "code") /\ ~Coming(<<>>, "data")
    BY <1>3, <1>6 DEF Coming
  <2>2. Sent(f, c, <<>>, FALSE) BY <1>3, <1>6, <2>1 DEF Sent, Says
  <2> QED BY <1>1, <2>2
<1>7. CASE link' = Append(link, Answer(FALSE, "none")) /\ UNCHANGED chip
  <2>1. PICK a : a = Answer(FALSE, "none") OBVIOUS
  <2>2. a \in Response /\ a.ok = FALSE /\ a.crc = "none" BY <1>4, <1>5, <2>1
  <2>3. PICK s : s = <<a>> OBVIOUS
  <2>4. s \in Seq(Response) /\ Len(s) = 1 /\ s[1] = a /\ link' = link \o s
    <3>1. PICK F : F = Response OBVIOUS
    <3>2. link \in Seq(F) /\ a \in F /\ link' = Append(link, a) BY <1>3, <1>7, <2>1, <2>2, <3>1
    <3>3. Append(link, a) = link \o <<a>> BY <3>2
    <3>4. <<a>> \in Seq(F) /\ Len(<<a>>) = 1 /\ <<a>>[1] = a BY <3>2
    <3> QED BY <2>3, <3>1, <3>2, <3>3, <3>4
  <2>5. ~Coming(s, "code") /\ ~Coming(s, "data") BY <2>2, <2>4 DEF Coming
  <2>6. ~s[1].ok /\ Len(s) <= (IF f.op = "chk" THEN 2 ELSE 1) BY <2>2, <2>4
  <2>7. Says(s, chip'[c], f) BY <2>5 DEF Says
  <2>8. Sent(f, c, s, FALSE)
    <3>1. chip' = chip BY <1>7
    <3>2. /\ chip' \in [{"dsl", "idc"} -> CoreState]
          /\ \A e \in {"dsl", "idc"} \ {c} : chip'[e] = chip[e]
      BY <1>3, <3>1
    <3>3. s # <<>> => IF s[1].ok THEN FALSE ELSE Len(s) = 1 BY <2>4, <2>6
    <3>4. Len(s) = 2 => s[1].crc = "none" BY <2>2, <2>4
    <3> QED BY <2>4, <2>5, <2>6, <2>7, <3>1, <3>2, <3>3, <3>4, Zenon DEF Sent
  <2> QED BY <1>1, <2>8
<1>8. CASE /\ chip' = Executed(c, f)
           /\ \/ UNCHANGED link
              \/ \E a \in Answers(c, f) : link' = link \o a
  <2>1. /\ chip' \in [{"dsl", "idc"} -> CoreState] /\ Effect(f, chip[c], chip'[c])
        /\ \A e \in {"dsl", "idc"} \ {c} : chip'[e] = chip[e]
        /\ f.op = "reg" /\ f.val = "mode" => chip' = chip
    BY <1>1, <1>2, <1>3, <1>8, CoreExecutes
  <2>2. CASE UNCHANGED link
    <3>1. <<>> \in Seq(Response) /\ link' = link \o <<>> /\ ~Coming(<<>>, "code") /\ ~Coming(<<>>, "data")
      BY <1>3, <2>2 DEF Coming
    <3>2. Sent(f, c, <<>>, TRUE) BY <2>1, <3>1 DEF Sent, Says
    <3> QED BY <1>1, <3>2
  <2>3. ASSUME NEW s \in Answers(c, f), link' = link \o s
        PROVE  \E z, ran : ran \in BOOLEAN /\ Sent(f, c, z, ran)
    <3>1. PICK a : a = Answer(TRUE, "none") OBVIOUS
    <3>2. a \in Response /\ a.ok = TRUE /\ a.crc = "none" BY <1>4, <1>5, <3>1
    <3>3. CASE f.op # "chk"
      <4>1. s = <<a>> BY <2>3, <3>1, <3>3 DEF Answers
      <4>2. s \in Seq(Response) /\ Len(s) = 1 /\ s[1] = a BY <3>2, <4>1
      <4>3. ~Coming(s, "code") /\ ~Coming(s, "data") BY <3>2, <4>2 DEF Coming
      <4>4. Sent(f, c, s, TRUE) BY <2>1, <2>3, <3>2, <3>3, <4>2, <4>3 DEF Sent, Says
      <4> QED BY <4>4
    <3>4. CASE f.op = "chk"
      <4>1. PICK v : v = IF Matches(c, f.val) THEN f.val ELSE "bad" OBVIOUS
      <4>2. v \in Crc /\ f.val \in {"code", "data"} BY <1>2, <1>5, <3>4, <4>1 DEF ChipFrameOK
      <4>3. PICK b : b = Answer(TRUE, v) OBVIOUS
      <4>4. b \in Response /\ b.ok = TRUE /\ b.crc = v BY <1>4, <4>2, <4>3
      <4>5. s = <<b>> \/ s = <<a, b>> BY <2>3, <3>1, <3>4, <4>1, <4>3 DEF Answers
      <4>6. /\ s \in Seq(Response) /\ Len(s) \in {1, 2} /\ s[1].ok
            /\ \A j \in 1 .. Len(s) : s[j].crc = v \/ s[j].crc = "none"
            /\ Len(s) = 2 => s[1].crc = "none"
        <5>1. CASE s = <<b>>
          <6>1. s \in Seq(Response) /\ Len(s) = 1 /\ s[1] = b BY <4>4, <5>1
          <6> QED BY <4>4, <6>1
        <5>2. CASE s = <<a, b>>
          <6>1. s \in Seq(Response) /\ Len(s) = 2 /\ s[1] = a /\ s[2] = b BY <3>2, <4>4, <5>2
          <6>2. \A j \in 1 .. 2 : j = 1 \/ j = 2 OBVIOUS
          <6> QED BY <3>2, <4>4, <6>1, <6>2
        <5> QED BY <4>5, <5>1, <5>2
      <4>7. chip'[c].ram = chip[c].ram BY <2>1, <3>4 DEF Effect
      <4>8. \A w \in {"code", "data"} : Coming(s, w) => w = f.val /\ Full(chip'[c], w)
        <5>1. ASSUME NEW w \in {"code", "data"}, Coming(s, w)
              PROVE  w = f.val /\ Full(chip'[c], w)
          <6>1. w = v BY <4>6, <5>1 DEF Coming
          <6>2. w = f.val /\ Matches(c, f.val) BY <4>1, <6>1
          <6> QED BY <4>7, <6>2 DEF Matches, Full
        <5> QED BY <5>1
      <4>9. Sent(f, c, s, TRUE) BY <2>1, <2>3, <3>4, <4>6, <4>8 DEF Sent, Says
      <4> QED BY <4>9
    <3> QED BY <3>3, <3>4
  <2> QED BY <1>1, <1>8, <2>2, <2>3
<1> QED BY <1>1, <1>6, <1>7, <1>8 DEF Transmit

-----------------------------------------------------------------------------
(* Complete images *)

\* What rt_shdsl_init has done when it is at a, with the cores x, the answers l
\* and the last CRC r; new says that the frame in hand was not sent yet.
ImagesAt(a, x, l, r, new) ==
  /\ a.phase = "aux" => ~Coming(l, "code") /\ ~Coming(l, "data") /\ Fresh(x["dsl"])
  /\ a.phase \in {"aux", "dsl"} => Fresh(x["idc"])
  /\ a.phase \in {"dsl", "idc"} =>
       Written(a.phase, a.i, x[a.phase]) /\ CrcInOrder(a.phase, a.i, x[a.phase], l, r, new)
  /\ a.phase \in {"idc", "start", "up"} => Whole("dsl", x["dsl"])
  /\ (a.phase = "start" /\ ~a.err) \/ a.phase = "up" => Whole("idc", x["idc"])
  /\ a.next = "crc" /\ a.phase \in Phases => Script[a.phase][a.i].op = "chk"

LEMMA ImagesStay ==
  ASSUME NEW a, NEW b, NEW x, NEW l, NEW r, NEW new, ImagesAt(a, x, l, r, FALSE), SameFrame(a, b),
         b.next = "crc" /\ b.phase \in Phases => Script[b.phase][b.i].op = "chk"
  PROVE  ImagesAt(b, x, l, r, new)
<1>1. b.phase = a.phase /\ b.i = a.i /\ b.err = a.err BY DEF SameFrame
<1>2. a.phase \in {"dsl", "idc"} => CrcInOrder(a.phase, a.i, x[a.phase], l, r, new)
  BY CrcAgain DEF ImagesAt
<1> QED BY <1>1, <1>2 DEF ImagesAt

LEMMA ImagesOn ==
  ASSUME NEW a, NEW b, NEW x \in [{"dsl", "idc"} -> CoreState], NEW l, NEW r, a.i \in Nat,
         ImagesAt(a, x, l, r, FALSE), NextFrame(a, b),
         a.phase \in {"dsl", "idc"} =>
           (a.i = CodeAt(a.phase) => r = "code") /\ (a.i = DataAt(a.phase) => r = "data")
  PROVE  ImagesAt(b, x, l, r, TRUE)
<1>1. b.phase = a.phase /\ b.i = a.i + 1 /\ b.err = a.err /\ b.next = "send" BY DEF NextFrame
<1>2. ASSUME a.phase \in {"dsl", "idc"}
      PROVE  Written(a.phase, a.i + 1, x[a.phase]) /\ CrcInOrder(a.phase, a.i + 1, x[a.phase], l, r, TRUE)
  <2>1. PICK p \in {"dsl", "idc"} : p = a.phase BY <1>2
  <2>2. PICK y \in CoreState : y = x[p] BY <2>1
  <2>3. PICK i \in Nat : i = a.i OBVIOUS
  <2>4. Written(p, i, y) /\ CrcInOrder(p, i, y, l, r, FALSE) BY <2>1, <2>2, <2>3 DEF ImagesAt
  <2>5. (i = CodeAt(p) => r = "code") /\ (i = DataAt(p) => r = "data") BY <2>1, <2>3
  <2>6. /\ CrcInOrder(p, i + 1, y, l, r, TRUE)
        /\ i = CodeAt(p) => Full(y, "code")
        /\ i = DataAt(p) => Full(y, "code") /\ Full(y, "data") /\ y.half = "data"
    BY <2>4, <2>5, CrcOn
  <2>7. Written(p, i + 1, y) BY <2>4, <2>6, WrittenOn
  <2> QED BY <2>1, <2>2, <2>3, <2>6, <2>7
<1> QED BY <1>1, <1>2 DEF ImagesAt

LEMMA ImagesEnd ==
  ASSUME NEW a, NEW b, NEW x \in [{"dsl", "idc"} -> CoreState], NEW l, NEW r, NEW ok \in BOOLEAN,
         NEW new, ImagesAt(a, x, l, r, FALSE), EndedTo(a, b, ok), a.phase \in Phases, a.err \in BOOLEAN,
         ok /\ a.phase \in {"dsl", "idc"} => a.i = LastAt(a.phase)
  PROVE  ImagesAt(b, x, l, r, new)
<1>1. PICK B \in Nat : B = Blocks /\ B > 0 BY ChipAssumption
<1>2. ASSUME NEW p \in {"dsl", "idc"}
      PROVE  /\ LastAt(p) \in Nat /\ LastAt(p) > DataAt(p) /\ 1 < CodeAt(p) /\ DataAt(p) > CodeAt(p)
             /\ DataAt(p) \in Nat /\ CodeAt(p) \in Nat
  BY <1>1 DEF LastAt, DataAt, CodeAt
<1>3. ASSUME NEW p \in {"dsl", "idc"}, NEW y, Fresh(y), ~Coming(l, "code")
      PROVE  Written(p, 1, y) /\ CrcInOrder(p, 1, y, l, r, new)
  <2>1. PICK c \in Nat, d \in Nat : c = CodeAt(p) /\ d = DataAt(p) /\ c > 1 /\ d > c BY <1>2
  <2>2. Written(p, 1, y) BY <1>3, <2>1 DEF Written
  <2>3. CrcInOrder(p, 1, y, l, r, new) BY <1>3, <2>1 DEF CrcInOrder
  <2> QED BY <2>2, <2>3
<1>4. CASE a.phase = "aux"
  <2>1. b.phase = "dsl" /\ b.i = 1 /\ b.next = "send" BY <1>4 DEF EndedTo, BegunAs
  <2>2. Fresh(x["dsl"]) /\ Fresh(x["idc"]) /\ ~Coming(l, "code") BY <1>4 DEF ImagesAt
  <2>3. Written("dsl", 1, x["dsl"]) /\ CrcInOrder("dsl", 1, x["dsl"], l, r, new) BY <1>3, <2>2
  <2> QED BY <2>1, <2>2, <2>3 DEF ImagesAt
<1>5. CASE a.phase = "dsl" /\ ok
  <2>1. b.phase = "idc" /\ b.i = 1 /\ b.next = "send" BY <1>5 DEF EndedTo, BegunAs
  <2>2. PICK e \in Nat : e = LastAt("dsl") /\ e > DataAt("dsl") /\ e = a.i BY <1>2, <1>5
  <2>3. Fresh(x["idc"]) /\ Written("dsl", e, x["dsl"]) /\ CrcInOrder("dsl", e, x["dsl"], l, r, FALSE)
    BY <1>5, <2>2 DEF ImagesAt
  <2>4. ~Coming(l, "code") /\ Whole("dsl", x["dsl"])
    <3>1. DataAt("dsl") \in Nat BY <1>2
    <3>2. Whole("dsl", x["dsl"]) BY <2>2, <2>3, <3>1 DEF Written
    <3>3. ~Coming(l, "code") BY <2>2, <2>3, <3>1 DEF CrcInOrder
    <3> QED BY <3>2, <3>3
  <2>5. Written("idc", 1, x["idc"]) /\ CrcInOrder("idc", 1, x["idc"], l, r, new) BY <1>3, <2>3, <2>4
  <2> QED BY <2>1, <2>4, <2>5 DEF ImagesAt
<1>6. CASE a.phase = "dsl" /\ ~ok
  <2>1. b.phase = "failed" BY <1>6 DEF EndedTo, BegunAs
  <2> QED BY <2>1 DEF ImagesAt, Phases
<1>7. CASE a.phase = "idc"
  <2>1. b.phase = "start" /\ b.err = ~ok /\ b.next = "send" BY <1>7 DEF EndedTo, BegunAs
  <2>2. Whole("dsl", x["dsl"]) /\ Written("idc", a.i, x["idc"]) BY <1>7 DEF ImagesAt
  <2>3. ASSUME ok PROVE Whole("idc", x["idc"])
    <3>1. PICK e \in Nat : e = LastAt("idc") /\ e > DataAt("idc") /\ e = a.i BY <1>2, <1>7, <2>3
    <3>2. DataAt("idc") \in Nat BY <1>2
    <3> QED BY <2>2, <3>1, <3>2 DEF Written
  <2> QED BY <2>1, <2>2, <2>3 DEF ImagesAt
<1>8. CASE a.phase = "start"
  <2>1. /\ b.phase \in {"up", "failed"} /\ (b.phase = "up" => ~a.err)
    BY <1>8 DEF EndedTo, BegunAs
  <2>2. Whole("dsl", x["dsl"]) /\ (~a.err => Whole("idc", x["idc"])) BY <1>8 DEF ImagesAt
  <2> QED BY <2>1, <2>2 DEF ImagesAt, Phases
<1> QED BY <1>4, <1>5, <1>6, <1>7, <1>8 DEF Phases

LEMMA ImagesProcess ==
  ASSUME NEW a, NEW x, NEW l \in Seq(Response), l # <<>>, NEW k, k = Tail(l), NEW r, NEW q,
         NEW h, h = Head(l), q = IF h.ok /\ h.crc # "none" THEN h.crc ELSE r, a.i \in Nat,
         ImagesAt(a, x, l, r, FALSE)
  PROVE  ImagesAt(a, x, k, q, FALSE)
<1>1. \A v : Coming(k, v) => Coming(l, v) BY FewerAnswers
<1>2. ASSUME a.phase \in {"dsl", "idc"} PROVE CrcInOrder(a.phase, a.i, x[a.phase], k, q, FALSE)
  <2>1. CrcInOrder(a.phase, a.i, x[a.phase], l, r, FALSE) BY <1>2 DEF ImagesAt
  <2>2. PICK p, i, y : p \in {"dsl", "idc"} /\ i \in Nat /\ p = a.phase /\ i = a.i /\ y = x[p] BY <1>2
  <2>3. CrcInOrder(p, i, y, l, r, FALSE) BY <2>1, <2>2
  <2>4. CrcInOrder(p, i, y, k, q, FALSE) BY <2>2, <2>3, CrcProcess
  <2> QED BY <2>2, <2>4
<1> QED BY <1>1, <1>2 DEF ImagesAt

New == at.next = "send" /\ at.retry = Retries

LEMMA ImagesSend ==
  ASSUME LoadTypeOK, Busy, at.next = "send", NEW f, f = TheFrame, NEW s, NEW ran \in BOOLEAN,
         Sent(f, Core(at.phase), s, ran), ImagesAt(at, chip, link, rs, New),
         rs' = IF f.op = "chk" /\ at.retry = Retries THEN "none" ELSE rs
  PROVE  link' \in Seq(Response) /\ rs' \in Crc /\ ImagesAt(at, chip', link', rs', FALSE)
<1>1. /\ InHand(at.phase, at.i, f) /\ at.phase \in Phases /\ ChipFrameOK(f)
  BY HandFacts DEF LoadTypeOK, InHand
<1>2. /\ link \in Seq(Response) /\ s \in Seq(Response) /\ link' = link \o s
      /\ chip \in [{"dsl", "idc"} -> CoreState] /\ chip' \in [{"dsl", "idc"} -> CoreState]
  BY DEF LoadTypeOK, Sent
<1>3. link' \in Seq(Response) /\ \A v : Coming(link', v) => Coming(link, v) \/ Coming(s, v)
  BY <1>2, MoreAnswers
<1>4. rs' \in Crc BY DEF LoadTypeOK, Crc
<1>5. at.next # "crc" OBVIOUS
<1>6. CASE at.phase = "aux"
  <2>1. f = Reg("mode") BY <1>1, <1>6 DEF InHand
  <2>2. f.op = "reg" /\ f.val = "mode" BY <2>1 DEF Reg
  <2>3. chip' = chip /\ ~Coming(s, "code") /\ ~Coming(s, "data") BY <2>2 DEF Sent, Says
  <2>4. ImagesAt(at, chip', link', rs', FALSE) BY <1>3, <1>5, <1>6, <2>3 DEF ImagesAt
  <2> QED BY <1>3, <1>4, <2>4
<1>7. CASE at.phase \in {"dsl", "idc"}
  <2>1. PICK p, i : p \in {"dsl", "idc"} /\ p = at.phase /\ i = at.i BY <1>7
  <2>2. /\ i \in 1 .. LastAt(p) /\ FrameIs(p, i, f)
        /\ f.op = "chk" <=> i \in {CodeAt(p), DataAt(p)}
    BY <1>1, <2>1 DEF InHand
  <2>3. Core(at.phase) = p BY <2>1 DEF Core
  <2>4. PICK x \in CoreState, y \in CoreState : x = chip[p] /\ y = chip'[p] BY <1>2, <2>1
  <2>5. PICK n \in BOOLEAN : n = New BY DEF New
  <2>6. Written(p, i, x) /\ CrcInOrder(p, i, x, link, rs, n) BY <2>1, <2>4, <2>5 DEF ImagesAt
  <2>7. /\ Says(s, y, f) /\ (\A e \in {"dsl", "idc"} \ {p} : chip'[e] = chip[e])
        /\ Effect(f, x, y) \/ (y = x /\ ~Coming(s, "code") /\ ~Coming(s, "data"))
    BY <2>3, <2>4 DEF Sent
  <2>8. Written(p, i, y) BY <1>1, <2>1, <2>2, <2>6, <2>7, WrittenKept
  <2>9. PICK q : q = rs' OBVIOUS
  <2>10. q = IF f.op = "chk" /\ n THEN "none" ELSE rs BY <2>5, <2>9 DEF New
  <2>11. CrcInOrder(p, i, y, link', q, FALSE)
    <3>1. SendingOf(p, i, f, x, y, link, s, link', rs, n, q)
      BY <1>1, <1>2, <2>1, <2>2, <2>6, <2>7, <2>10, Zenon DEF SendingOf
    <3> QED BY <3>1, CrcSend
  <2>12. ImagesAt(at, chip', link', rs', FALSE)
    <3>1. p = "dsl" => Fresh(chip["idc"]) /\ chip'["idc"] = chip["idc"] BY <2>1, <2>7 DEF ImagesAt
    <3>2. p = "idc" => Whole("dsl", chip["dsl"]) /\ chip'["dsl"] = chip["dsl"]
      BY <2>1, <2>7 DEF ImagesAt
    <3> QED BY <1>5, <2>1, <2>4, <2>8, <2>9, <2>11, <3>1, <3>2 DEF ImagesAt
  <2> QED BY <1>3, <1>4, <2>12
<1>8. CASE at.phase = "start"
  <2>1. f = Reg("ramloaded") BY <1>1, <1>8 DEF InHand
  <2>2. f.op = "reg" /\ f.val = "ramloaded" BY <2>1 DEF Reg
  <2>3. chip'["dsl"] = chip["dsl"] /\ chip'["idc"].ram = chip["idc"].ram
    BY <1>8, <2>2 DEF Sent, Effect, Core
  <2>4. Whole("idc", chip["idc"]) => Whole("idc", chip'["idc"]) BY <2>3 DEF Whole
  <2>5. ImagesAt(at, chip', link', rs', FALSE) BY <1>5, <1>8, <2>3, <2>4 DEF ImagesAt
  <2> QED BY <1>3, <1>4, <2>5
<1> QED BY <1>1, <1>6, <1>7, <1>8 DEF Phases

\* The download keeps its part of ChipTypeOK, and what the images are like.
LoadInv == LoadTypeOK /\ ImagesAt(at, chip, link, rs, New)

\* With the rest of the state as it is, going on in these ways keeps LoadInv.
LEMMA GoesOn ==
  ASSUME LoadTypeOK, Busy, ImagesAt(at, chip', link', rs', FALSE), rs' \in Crc,
         late' \in 0 .. MaxLate, link' \in Seq(Response), chip' \in [{"dsl", "idc"} -> CoreState],
         at.i \in Nat,
         \/ /\ SameFrame(at, at')
            /\ at'.next = "crc" => TheFrame.op = "chk"
         \/ /\ at' = Advance
            /\ IF TheFrame.op = "chk" THEN rs' = TheFrame.val ELSE TRUE
         \/ at' = Again
         \/ at' = Ended(FALSE)
  PROVE  LoadInv'
<1>1. PICK a, b, x, l, r :
        /\ a = at /\ b = at' /\ x = chip' /\ l = link' /\ r = rs' /\ a.i \in Nat
        /\ x \in [{"dsl", "idc"} -> CoreState]
  OBVIOUS
<1>2. ImagesAt(a, x, l, r, FALSE) BY <1>1
<1>3. AtOK(a) /\ a.phase \in Phases /\ a.err \in BOOLEAN /\ InHand(a.phase, a.i, TheFrame)
  BY <1>1, HandFacts DEF LoadTypeOK
<1> DEFINE N == b.next = "send" /\ b.retry = Retries
<1>4. SUFFICES AtOK(b) /\ ImagesAt(b, x, l, r, N)
  BY <1>1 DEF LoadInv, LoadTypeOK, New, AtOK, AtState
<1>5. CASE SameFrame(a, b) /\ (b.next = "crc" => TheFrame.op = "chk")
  <2>1. b.next = "crc" /\ b.phase \in Phases => Script[b.phase][b.i].op = "chk"
    BY <1>1, <1>5 DEF SameFrame, TheFrame
  <2>2. AtOK(b) BY <1>5 DEF SameFrame
  <2> HIDE DEF N
  <2>3. ImagesAt(b, x, l, r, N) BY <1>2, <1>5, <2>1, ImagesStay
  <2> QED BY <2>2, <2>3
<1>6. CASE EndedTo(a, b, FALSE)
  <2>1. AtOK(b) BY <1>3, <1>6 DEF EndedTo, BegunAs, Phases
  <2> HIDE DEF N
  <2>2. ImagesAt(b, x, l, r, N) BY <1>1, <1>2, <1>3, <1>6, ImagesEnd
  <2> QED BY <2>1, <2>2
<1>7. CASE b = Advance /\ (TheFrame.op = "chk" => r = TheFrame.val)
  <2>1. IF a.i < Len(Script[a.phase]) THEN NextFrame(a, b) ELSE EndedTo(a, b, TRUE)
    BY <1>1, <1>3, <1>7, Advances
  <2>2. ASSUME a.phase \in {"dsl", "idc"}
        PROVE  (a.i = CodeAt(a.phase) => r = "code") /\ (a.i = DataAt(a.phase) => r = "data")
    <3>1. FrameIs(a.phase, a.i, TheFrame) /\ (TheFrame.op = "chk" <=> a.i \in {CodeAt(a.phase), DataAt(a.phase)})
      BY <1>3, <2>2 DEF InHand
    <3>2. a.i = CodeAt(a.phase) => TheFrame = Chk("code") BY <3>1 DEF FrameIs
    <3>3. a.i = DataAt(a.phase) => TheFrame = Chk("data") BY <3>1 DEF FrameIs
    <3> QED BY <1>7, <3>1, <3>2, <3>3 DEF Chk
  <2>3. CASE NextFrame(a, b)
    <3>1. AtOK(b) /\ N = TRUE BY <2>3 DEF NextFrame
    <3>2. ImagesAt(b, x, l, r, TRUE) BY <1>1, <1>2, <2>2, <2>3, ImagesOn
    <3> QED BY <3>1, <3>2
  <2>4. CASE EndedTo(a, b, TRUE) /\ ~(a.i < Len(Script[a.phase]))
    <3>1. AtOK(b) BY <1>3, <2>4 DEF EndedTo, BegunAs, Phases
    <3>2. a.phase \in {"dsl", "idc"} => a.i = LastAt(a.phase)
      BY <1>3, <2>4 DEF InHand
    <3> HIDE DEF N
    <3>3. ImagesAt(b, x, l, r, N) BY <1>1, <1>2, <1>3, <2>4, <3>2, ImagesEnd
    <3> QED BY <3>1, <3>3
  <2> QED BY <2>1, <2>3, <2>4
<1>8. CASE b = Again
  <2>1. (SameFrame(a, b) /\ b.next = "send") \/ EndedTo(a, b, FALSE) BY <1>1, <1>3, <1>8, TriesAgain
  <2> QED BY <1>5, <1>6, <2>1
<1>9. CASE b = Ended(FALSE)
  <2>1. EndedTo(a, b, FALSE) BY <1>1, <1>3, <1>9, PhaseEnds
  <2> QED BY <1>6, <2>1
<1> QED BY <1>1, <1>5, <1>7, <1>8, <1>9

LEMMA LoadInvInit == ChipInit => LoadInv
<1> SUFFICES ASSUME ChipInit PROVE LoadInv OBVIOUS
<1>1. /\ at = Begin("aux", FALSE) /\ rs = "none" /\ link = <<>> /\ late = 0
      /\ chip = [c \in {"dsl", "idc"} |->
                   [ram |-> [p \in {"code", "data"} |-> [a \in 0 .. Blocks |-> "none"]],
                    half |-> "code", valid |-> FALSE, loaded |-> FALSE]]
  BY DEF ChipInit
<1>2. BegunAs(at, "aux", FALSE) BY <1>1, PhaseBegins DEF Phases
<1>3. chip \in [{"dsl", "idc"} -> CoreState] BY <1>1 DEF CoreState, Parts, Content
<1>4. \A c \in {"dsl", "idc"} : Fresh(chip[c])
  <2> SUFFICES ASSUME NEW c \in {"dsl", "idc"} PROVE Fresh(chip[c]) OBVIOUS
  <2>1. chip[c].half = "code" /\ \A a \in 0 .. Blocks : chip[c].ram["data"][a] = "none" BY <1>1
  <2>2. \A a \in 1 .. Blocks : a \in 0 .. Blocks BY ChipAssumption
  <2> QED BY <2>1, <2>2 DEF Fresh, Blank
<1>5. \A v : ~Coming(link, v) BY <1>1 DEF Coming
<1>6. ImagesAt(at, chip, link, rs, New) BY <1>2, <1>4, <1>5 DEF ImagesAt, BegunAs
<1>7. AtOK(at) /\ rs \in Crc /\ late \in 0 .. MaxLate
  <2>1. AtOK(at) BY <1>2 DEF BegunAs
  <2>2. rs \in Crc BY <1>1 DEF Crc
  <2>3. late \in 0 .. MaxLate BY <1>1, ChipAssumption
  <2> QED BY <2>1, <2>2, <2>3
<1>8. link \in Seq(Response) BY <1>1
<1> QED BY <1>8, <1>3, <1>6, <1>7 DEF LoadInv, LoadTypeOK

\* An answer is processed.
LEMMA Processes ==
  ASSUME LoadTypeOK, link # <<>>, NEW a, a.i \in Nat, ImagesAt(a, chip, link, rs, FALSE),
         Process(Head(link))
  PROVE  link' \in Seq(Response) /\ rs' \in Crc /\ ImagesAt(a, chip, link', rs', FALSE)
<1>1. PICK l, h, k, q :
        l \in Seq(Response) /\ l = link /\ h = Head(l) /\ k = Tail(l) /\ k = link' /\ q = rs'
        /\ q = IF h.ok /\ h.crc # "none" THEN h.crc ELSE rs
  BY DEF LoadTypeOK, Process
<1>2. h \in Response /\ k \in Seq(Response) BY <1>1, FewerAnswers
<1>3. q \in Crc BY <1>1, <1>2 DEF Response, LoadTypeOK
<1>4. ImagesAt(a, chip, k, q, FALSE) BY <1>1, ImagesProcess
<1> QED BY <1>1, <1>2, <1>3, <1>4

LEMMA LoadInvStep == LoadInv /\ [ChipNext]_chipVars => LoadInv'
<1> SUFFICES ASSUME LoadInv, [ChipNext]_chipVars PROVE LoadInv' OBVIOUS
<1>0. LoadTypeOK /\ ImagesAt(at, chip, link, rs, New) BY DEF LoadInv
<1>1. /\ rs \in Crc /\ late \in 0 .. MaxLate /\ link \in Seq(Response)
      /\ chip \in [{"dsl", "idc"} -> CoreState] /\ AtOK(at)
  BY <1>0 DEF LoadTypeOK
<1>2. ASSUME UNCHANGED <<at, rs, link, late, chip>> PROVE LoadInv'
  BY <1>0, <1>2 DEF LoadInv, LoadTypeOK, New
<1>3. ASSUME at.next \in {"ack", "crc"} PROVE ImagesAt(at, chip, link, rs, FALSE)
  <2>1. New = FALSE BY <1>3 DEF New
  <2> QED BY <1>0, <2>1
<1>4. CASE Transmit
  <2>1. Busy /\ at.next = "send" /\ at' = [at EXCEPT !.next = "ack"] /\ late' = late
        /\ rs' = IF TheFrame.op = "chk" /\ at.retry = Retries THEN "none" ELSE rs
    BY <1>4 DEF Transmit
  <2>2. PICK s, ran : ran \in BOOLEAN /\ Sent(TheFrame, Core(at.phase), s, ran)
    BY <1>0, <1>4, TransmitSends
  <2>3. link' \in Seq(Response) /\ rs' \in Crc /\ ImagesAt(at, chip', link', rs', FALSE)
    BY <1>0, <2>1, <2>2, ImagesSend
  <2>4. SameFrame(at, at') /\ at'.next = "ack"
    <3>1. 0 \in 0 .. CrcPolls BY ChipAssumption
    <3> QED BY <1>1, <2>1, <3>1, Waits
  <2>5. at.i \in Nat /\ late' \in 0 .. MaxLate /\ chip' \in [{"dsl", "idc"} -> CoreState]
    BY <1>1, <2>1, <2>2, HandFacts DEF Sent
  <2> QED BY <1>0, <2>1, <2>3, <2>4, <2>5, GoesOn
<1>5. CASE ReceiveAck
  <2>1. Busy /\ at.next = "ack" /\ link # <<>> /\ Process(Head(link)) /\ late' = late /\ chip' = chip
    BY <1>5 DEF ReceiveAck
  <2>2. at.i \in Nat BY <1>1, <2>1, HandFacts
  <2>3. link' \in Seq(Response) /\ rs' \in Crc /\ ImagesAt(at, chip', link', rs', FALSE)
    BY <1>0, <1>3, <2>1, <2>2, Processes
  <2>4. \/ at' = Again
        \/ TheFrame.op = "chk" /\ at' = [at EXCEPT !.next = "crc", !.counter = CrcPolls]
        \/ TheFrame.op # "chk" /\ at' = Advance
    BY <1>5 DEF ReceiveAck
  <2>5. at' = [at EXCEPT !.next = "crc", !.counter = CrcPolls] => SameFrame(at, at')
    <3>1. CrcPolls \in 0 .. CrcPolls BY ChipAssumption
    <3>2. SameFrame(at, [at EXCEPT !.next = "crc", !.counter = CrcPolls])
      BY <1>1, <2>1, <3>1, Waits
    <3> QED BY <3>2
  <2>6. late' \in 0 .. MaxLate /\ chip' \in [{"dsl", "idc"} -> CoreState] BY <1>1, <2>1
  <2> QED BY <1>0, <2>1, <2>2, <2>3, <2>4, <2>5, <2>6, GoesOn
<1>6. CASE AckMissing
  <2>1. Busy /\ at.next = "ack" /\ at' = Again /\ UNCHANGED <<rs, link, chip>> /\ late' <= MaxLate
        /\ late' = IF link = <<>> THEN late ELSE late + 1
    BY <1>6 DEF AckMissing
  <2>2. late' \in 0 .. MaxLate BY <1>1, <2>1, ChipAssumption
  <2>3. ImagesAt(at, chip', link', rs', FALSE) BY <1>3, <2>1
  <2>4. at.i \in Nat BY <1>1, <2>1, HandFacts
  <2> QED BY <1>0, <1>1, <2>1, <2>2, <2>3, <2>4, GoesOn
<1>7. CASE WaitCrc
  <2>1. Busy /\ at.next = "crc" /\ UNCHANGED <<late, chip>> BY <1>7 DEF WaitCrc
  <2>2. at.i \in Nat /\ late' \in 0 .. MaxLate /\ at.counter \in 0 .. CrcPolls
        /\ chip' \in [{"dsl", "idc"} -> CoreState] /\ ImagesAt(at, chip, link, rs, FALSE)
    BY <1>1, <1>3, <2>1, HandFacts
  <2>3. TheFrame.op = "chk"
    BY <2>1, <2>2, ScriptPhases DEF ImagesAt, Busy, TheFrame
  <2>4. CASE at' = Ended(FALSE) /\ UNCHANGED <<rs, link>>
    BY <1>0, <1>1, <2>1, <2>2, <2>4, GoesOn
  <2>5. CASE rs = TheFrame.val /\ at' = Advance /\ UNCHANGED <<rs, link>>
    BY <1>0, <1>1, <2>1, <2>2, <2>5, GoesOn
  <2>6. CASE /\ at.counter > 1 /\ at' = [at EXCEPT !.counter = @ - 1]
             /\ UNCHANGED <<rs, link>> \/ (link # <<>> /\ Process(Head(link)))
    <3>1. SameFrame(at, at')
      <4>1. PICK k \in 0 .. CrcPolls : k = at.counter - 1 BY <2>2, <2>6, ChipAssumption
      <4>2. at' = [at EXCEPT !.counter = k] BY <2>6, <4>1
      <4> QED BY <1>1, <2>1, <4>2, Waits
    <3>2. link' \in Seq(Response) /\ rs' \in Crc /\ ImagesAt(at, chip', link', rs', FALSE)
      <4>1. CASE UNCHANGED <<rs, link>> BY <1>1, <2>1, <2>2, <4>1
      <4>2. CASE link # <<>> /\ Process(Head(link)) BY <1>0, <2>1, <2>2, <4>2, Processes
      <4> QED BY <2>6, <4>1, <4>2
    <3> QED BY <1>0, <2>1, <2>2, <2>3, <3>1, <3>2, GoesOn
  <2> QED BY <1>7, <2>4, <2>5, <2>6 DEF WaitCrc
<1>8. CASE Mpi_RxInt \/ Get_IDC_Msg \/ Send_IDC_Msg \/ FirmwareTakes \/ \E m \in Msg : FirmwareSends(m)
  BY <1>2, <1>8 DEF Mpi_RxInt, Get_IDC_Msg, Send_IDC_Msg, FirmwareTakes, FirmwareSends
<1>9. CASE UNCHANGED chipVars BY <1>2, <1>9 DEF chipVars
<1> QED BY <1>4, <1>5, <1>6, <1>7, <1>8, <1>9 DEF ChipNext, Download

-----------------------------------------------------------------------------
(* Valid images *)

\* What the frame f, when it was acknowledged, has done to the cores x.
Done(a, f, x) ==
  /\ f.val = "valid" => x[a.phase].valid
  /\ f.val = "ramloaded" => x["idc"].loaded

\* As long as no answer came late, an answer is that of the frame in hand.
InStep(a, f, x, l, r) ==
  /\ a.next = "send" => l = <<>>
  /\ a.next = "ack" =>
       /\ Len(l) <= IF f.op = "chk" THEN 2 ELSE 1
       /\ l # <<>> => IF l[1].ok THEN Done(a, f, x) ELSE Len(l) = 1
       /\ Len(l) = 2 => l[1].crc = "none"
  /\ a.next = "crc" => Len(l) <= 1 /\ (l = <<>> \/ r = "none")
  /\ f.op = "chk" /\ (a.next = "ack" \/ (a.next = "send" /\ a.retry < Retries)) => r = "none"

Good(a) == ~a.err /\ a.phase # "failed"
ErrOK(a) == a.err => a.phase \in {"start", "failed"}

\* The phases behind have marked their core.
ValidAt(a, x) ==
  /\ a.phase \in {"idc", "start", "up"} => x["dsl"].valid
  /\ a.phase \in {"start", "up"} => x["idc"].valid
  /\ a.phase = "up" => x["idc"].loaded

Marked ==
  /\ ErrOK(at)
  /\ late = 0 /\ Good(at) =>
       ValidAt(at, chip) /\ (Busy => InStep(at, TheFrame, chip, link, rs))

LEMMA MarkedAtEnd ==
  ASSUME AtOK(at), Busy, ErrOK(at), NEW b, NEW x, NEW ok \in BOOLEAN, EndedTo(at, b, ok),
         Good(at) => ValidAt(at, x),
         Good(at) /\ ok => Done(at, TheFrame, x) /\ at.i = Len(Script[at.phase])
  PROVE  /\ ErrOK(b) /\ (Good(b) => Good(at) /\ ValidAt(b, x))
         /\ ~ok /\ Good(b) => at.phase = "aux"
         /\ b.next = "send" /\ b.retry = Retries
<1>1. at.phase \in Phases /\ at.err \in BOOLEAN /\ InHand(at.phase, at.i, TheFrame) BY HandFacts
<1>2. CASE at.phase = "aux"
  <2>1. BegunAs(b, "dsl", FALSE) /\ at.err = FALSE BY <1>1, <1>2 DEF EndedTo, ErrOK
  <2> QED BY <1>2, <2>1 DEF BegunAs, ErrOK, Good, ValidAt
<1>3. CASE at.phase = "dsl"
  <2>1. BegunAs(b, IF ok THEN "idc" ELSE "failed", FALSE) /\ at.err = FALSE
    BY <1>1, <1>3 DEF EndedTo, ErrOK
  <2>2. ok => x["dsl"].valid
    <3>1. ASSUME ok PROVE x["dsl"].valid
      <4>1. Done(at, TheFrame, x) /\ at.i = Len(Script[at.phase]) BY <1>3, <2>1, <3>1 DEF Good
      <4>2. TheFrame = Reg("valid") BY <1>1, <1>3, <4>1 DEF InHand
      <4> QED BY <1>3, <4>1, <4>2 DEF Done, Reg
    <3> QED BY <3>1
  <2> QED BY <1>3, <2>1, <2>2 DEF BegunAs, ErrOK, Good, ValidAt
<1>4. CASE at.phase = "idc"
  <2>1. BegunAs(b, "start", ~ok) /\ at.err = FALSE BY <1>1, <1>4 DEF EndedTo, ErrOK
  <2>2. ok => x["idc"].valid
    <3>1. ASSUME ok PROVE x["idc"].valid
      <4>1. Done(at, TheFrame, x) /\ at.i = Len(Script[at.phase]) BY <1>4, <2>1, <3>1 DEF Good
      <4>2. TheFrame = Reg("valid") BY <1>1, <1>4, <4>1 DEF InHand
      <4> QED BY <1>4, <4>1, <4>2 DEF Done, Reg
    <3> QED BY <3>1
  <2> QED BY <1>4, <2>1, <2>2 DEF BegunAs, ErrOK, Good, ValidAt
<1>5. CASE at.phase = "start"
  <2>1. BegunAs(b, IF ok /\ ~at.err THEN "up" ELSE "failed", at.err) BY <1>1, <1>5 DEF EndedTo
  <2>2. ok /\ ~at.err => x["idc"].loaded
    <3>1. ASSUME ok, ~at.err PROVE x["idc"].loaded
      <4>1. Done(at, TheFrame, x) BY <1>5, <3>1 DEF Good
      <4>2. TheFrame = Reg("ramloaded") BY <1>1, <1>5 DEF InHand
      <4> QED BY <4>1, <4>2 DEF Done, Reg
    <3> QED BY <3>1
  <2> QED BY <1>1, <1>5, <2>1, <2>2 DEF BegunAs, ErrOK, Good, ValidAt
<1> QED BY <1>1, <1>2, <1>3, <1>4, <1>5 DEF Phases

\* Going on in these ways keeps Marked.
LEMMA MarkedOn ==
  ASSUME AtOK(at), Busy, ErrOK(at),
         late' = 0 /\ Good(at) => ValidAt(at, chip'),
         \/ /\ SameFrame(at, at')
            /\ late' = 0 /\ Good(at) => InStep(at', TheFrame, chip', link', rs')
         \/ /\ at' = Advance
            /\ late' = 0 /\ Good(at) => link' = <<>> /\ Done(at, TheFrame, chip')
         \/ /\ at' = Again
            /\ late' = 0 /\ Good(at) => link' = <<>> /\ (TheFrame.op = "chk" => rs' = "none")
         \/ at' = Ended(FALSE) /\ at.phase # "aux"
  PROVE  Marked'
<1>1. PICK b, x, l, r, n, f :
        b = at' /\ x = chip' /\ l = link' /\ r = rs' /\ n = late' /\ f = (TheFrame)'
  OBVIOUS
<1>2. SUFFICES ErrOK(b) /\ (n = 0 /\ Good(b) => ValidAt(b, x) /\ InStep(b, f, x, l, r))
  BY <1>1 DEF Marked
<1>3. ASSUME b.next = "send", b.retry = Retries, l = <<>> PROVE InStep(b, f, x, l, r)
  <2>1. ~(b.retry < Retries) BY <1>3, ChipAssumption
  <2> QED BY <1>3, <2>1 DEF InStep
<1>4. CASE SameFrame(at, b) /\ (n = 0 /\ Good(at) => InStep(b, TheFrame, x, l, r))
  <2>1. f = TheFrame /\ b.phase = at.phase /\ b.err = at.err BY <1>1, <1>4 DEF SameFrame, TheFrame
  <2> QED BY <1>1, <1>4, <2>1 DEF ErrOK, Good, ValidAt
<1>5. ASSUME NEW ok \in BOOLEAN, EndedTo(at, b, ok), ~ok /\ at.phase = "aux" /\ n = 0 /\ Good(at) => l = <<>>,
             ok => (n = 0 /\ Good(at) => l = <<>> /\ Done(at, TheFrame, x))
                   /\ at.i = Len(Script[at.phase])
      PROVE  ErrOK(b) /\ (n = 0 /\ Good(b) => ValidAt(b, x) /\ InStep(b, f, x, l, r))
  <2>1. CASE n = 0
    <3>1. /\ ErrOK(b) /\ (Good(b) => Good(at) /\ ValidAt(b, x))
          /\ ~ok /\ Good(b) => at.phase = "aux"
          /\ b.next = "send" /\ b.retry = Retries
      BY <1>1, <1>5, <2>1, MarkedAtEnd
    <3>2. Good(b) => l = <<>> BY <1>5, <2>1, <3>1
    <3> QED BY <1>3, <3>1, <3>2
  <2>2. CASE n # 0
    <3>1. ErrOK(b)
      <4>1. at.phase \in Phases /\ at.err \in BOOLEAN BY HandFacts
      <4> QED BY <1>5, <4>1 DEF EndedTo, BegunAs, ErrOK, Phases
    <3> QED BY <2>2, <3>1
  <2> QED BY <2>1, <2>2
<1>6. CASE b = Advance /\ (n = 0 /\ Good(at) => l = <<>> /\ Done(at, TheFrame, x))
  <2>1. IF at.i < Len(Script[at.phase]) THEN NextFrame(at, b) ELSE EndedTo(at, b, TRUE)
    BY <1>6, Advances
  <2>2. CASE NextFrame(at, b)
    <3>1. b.phase = at.phase /\ b.err = at.err /\ b.next = "send" /\ b.retry = Retries
      BY <2>2 DEF NextFrame
    <3> QED BY <1>1, <1>3, <1>6, <3>1 DEF ErrOK, Good, ValidAt
  <2>3. CASE EndedTo(at, b, TRUE) /\ ~(at.i < Len(Script[at.phase]))
    <3>1. at.i = Len(Script[at.phase])
      <4>1. at.i \in Nat /\ Len(Script[at.phase]) \in Nat /\ at.i <= Len(Script[at.phase])
        BY HandFacts DEF InHand
      <4> QED BY <2>3, <4>1
    <3> QED BY <1>5, <1>6, <2>3, <3>1
  <2> QED BY <2>1, <2>2, <2>3
<1>7. CASE b = Again /\ (n = 0 /\ Good(at) => l = <<>> /\ (TheFrame.op = "chk" => r = "none"))
  <2>1. \/ SameFrame(at, b) /\ b.next = "send" /\ b.retry < Retries
        \/ EndedTo(at, b, FALSE)
    BY <1>7, TriesAgain
  <2>2. CASE SameFrame(at, b) /\ b.next = "send"
    <3>1. n = 0 /\ Good(at) => InStep(b, TheFrame, x, l, r) BY <1>7, <2>2 DEF InStep
    <3> QED BY <1>4, <2>2, <3>1
  <2>3. CASE EndedTo(at, b, FALSE) BY <1>5, <1>7, <2>3
  <2> QED BY <2>1, <2>2, <2>3
<1>8. CASE b = Ended(FALSE) /\ at.phase # "aux"
  <2>1. EndedTo(at, b, FALSE) BY <1>8, PhaseEnds
  <2> QED BY <1>5, <1>8, <2>1
<1> QED BY <1>1, <1>4, <1>6, <1>7, <1>8

LEMMA MarkedInit == ChipInit => Marked
<1> SUFFICES ASSUME ChipInit PROVE Marked OBVIOUS
<1>1. at = Begin("aux", FALSE) /\ rs = "none" /\ link = <<>> BY DEF ChipInit
<1>2. BegunAs(at, "aux", FALSE) BY <1>1, PhaseBegins DEF Phases
<1>3. at.phase = "aux" /\ at.err = FALSE /\ at.next = "send" BY <1>2 DEF BegunAs
<1>4. InStep(at, TheFrame, chip, link, rs) BY <1>1, <1>3 DEF InStep
<1> QED BY <1>3, <1>4 DEF Marked, ErrOK, ValidAt

LEMMA MarkedStep == LoadInv /\ Marked /\ [ChipNext]_chipVars => Marked'
<1> SUFFICES ASSUME LoadInv, Marked, [ChipNext]_chipVars PROVE Marked' OBVIOUS
<1>0. LoadTypeOK /\ ImagesAt(at, chip, link, rs, New) BY DEF LoadInv
<1>1. /\ rs \in Crc /\ late \in 0 .. MaxLate /\ link \in Seq(Response)
      /\ chip \in [{"dsl", "idc"} -> CoreState] /\ AtOK(at) /\ ErrOK(at)
  BY <1>0 DEF LoadTypeOK, Marked
<1>2. ASSUME UNCHANGED <<at, rs, link, late, chip>> PROVE Marked'
  BY <1>2 DEF Marked, Busy, TheFrame
<1>3. ASSUME late = 0, Good(at) PROVE ValidAt(at, chip) /\ (Busy => InStep(at, TheFrame, chip, link, rs))
  BY <1>3 DEF Marked
<1>4. CASE Transmit
  <2>1. Busy /\ at.next = "send" /\ at' = [at EXCEPT !.next = "ack"] /\ late' = late
        /\ rs' = IF TheFrame.op = "chk" /\ at.retry = Retries THEN "none" ELSE rs
    BY <1>4 DEF Transmit
  <2>2. PICK s, ran, f, c : ran \in BOOLEAN /\ Sent(f, c, s, ran) /\ f = TheFrame /\ c = Core(at.phase)
    BY <1>0, <1>4, TransmitSends
  <2>3. InHand(at.phase, at.i, f) /\ at.phase \in Phases /\ at.retry \in 0 .. Retries
    BY <1>1, <2>1, <2>2, HandFacts
  <2>4. SameFrame(at, at') /\ at'.next = "ack"
    <3>1. 0 \in 0 .. CrcPolls BY ChipAssumption
    <3> QED BY <1>1, <2>1, <3>1, Waits
  <2>5. ASSUME late = 0, Good(at) PROVE ValidAt(at, chip') /\ InStep(at', f, chip', link', rs')
    <3>1. ValidAt(at, chip) /\ link = <<>> /\ (f.op = "chk" /\ at.retry < Retries => rs = "none")
      BY <1>3, <2>1, <2>2, <2>5 DEF InStep
    <3>2. ValidAt(at, chip')
      <4>1. CASE at.phase \in {"aux", "dsl"} BY <4>1 DEF ValidAt
      <4>2. CASE at.phase = "idc"
        <5>1. chip'["dsl"] = chip["dsl"] BY <2>2, <4>2 DEF Sent, Core
        <5> QED BY <3>1, <4>2, <5>1 DEF ValidAt
      <4>3. CASE at.phase = "start"
        <5>1. f = Reg("ramloaded") BY <2>3, <4>3 DEF InHand
        <5>2. chip'["dsl"] = chip["dsl"] /\ chip'["idc"].valid = chip["idc"].valid
          BY <2>2, <4>3, <5>1 DEF Sent, Core, Effect, Reg
        <5> QED BY <3>1, <4>3, <5>2 DEF ValidAt
      <4> QED BY <2>3, <4>1, <4>2, <4>3 DEF Phases
    <3>3. link' = s
      <4>1. s \in Seq(Response) /\ link' = <<>> \o s BY <2>2, <3>1 DEF Sent
      <4> QED BY <4>1
    <3>4. ran => Done(at', f, chip')
      <4>1. ASSUME ran, f.val = "valid" PROVE chip'[at.phase].valid
        <5>1. at.phase \in {"dsl", "idc"} /\ c = at.phase BY <2>2, <2>3, <4>1 DEF InHand, Core
        <5>2. f.op = "reg" BY <2>3, <4>1 DEF InHand, ChipFrameOK, Frame, Content
        <5>3. chip'[c].valid BY <2>2, <4>1, <5>2 DEF Sent, Effect
        <5> QED BY <5>1, <5>3
      <4>2. ASSUME ran, f.val = "ramloaded" PROVE chip'["idc"].loaded
        <5>1. at.phase = "start" /\ f = Reg("ramloaded")
          BY <2>3, <4>2 DEF InHand, Phases, Reg
        <5>2. c = "idc" BY <2>2, <5>1 DEF Core
        <5>3. f.op = "reg" BY <5>1 DEF Reg
        <5> QED BY <2>2, <4>2, <5>2, <5>3 DEF Sent, Effect
      <4>3. at'.phase = at.phase BY <2>4 DEF SameFrame
      <4> QED BY <4>1, <4>2, <4>3 DEF Done
    <3>5. /\ Len(s) <= IF f.op = "chk" THEN 2 ELSE 1
          /\ s # <<>> => IF s[1].ok THEN ran ELSE Len(s) = 1
          /\ Len(s) = 2 => s[1].crc = "none"
      BY <2>2 DEF Sent
    <3>6. f.op = "chk" => rs' = "none"
      <4>1. at.retry = Retries \/ at.retry < Retries BY <2>3, ChipAssumption
      <4> QED BY <2>1, <2>2, <3>1, <4>1
    <3>7. InStep(at', f, chip', link', rs') BY <2>4, <3>3, <3>4, <3>5, <3>6, Zenon DEF InStep
    <3> QED BY <3>2, <3>7
  <2> QED BY <1>1, <2>1, <2>2, <2>4, <2>5, MarkedOn
<1>5. CASE ReceiveAck
  <2>1. Busy /\ at.next = "ack" /\ link # <<>> /\ Process(Head(link)) /\ late' = late /\ chip' = chip
    BY <1>5 DEF ReceiveAck
  <2>2. PICK l, h, k, f : l \in Seq(Response) /\ l = link /\ h = Head(l) /\ k = Tail(l) /\ f = TheFrame
    BY <1>1
  <2>3. h = l[1] /\ k \in Seq(Response) /\ Len(k) = Len(l) - 1 /\ Len(l) \in Nat /\ Len(l) > 0
    BY <2>1, <2>2, FewerAnswers
  <2>4. link' = k /\ rs' = (IF h.ok /\ h.crc # "none" THEN h.crc ELSE rs)
    BY <2>1, <2>2 DEF Process
  <2>5. ASSUME late = 0, Good(at)
        PROVE  /\ ValidAt(at, chip)
               /\ Len(l) <= IF f.op = "chk" THEN 2 ELSE 1
               /\ IF h.ok THEN Done(at, f, chip) ELSE Len(l) = 1
               /\ Len(l) = 2 => h.crc = "none"
               /\ f.op = "chk" => rs = "none"
    <3>1. ValidAt(at, chip) /\ InStep(at, f, chip, l, rs) BY <1>3, <2>1, <2>2, <2>5
    <3>2. l # <<>> BY <2>1, <2>2
    <3> QED BY <2>1, <2>3, <3>1, <3>2 DEF InStep
  <2>6. \/ ~h.ok /\ at' = Again
        \/ h.ok /\ f.op = "chk" /\ at' = [at EXCEPT !.next = "crc", !.counter = CrcPolls]
        \/ h.ok /\ f.op # "chk" /\ at' = Advance
    BY <1>5, <2>2 DEF ReceiveAck
  <2>7. CASE ~h.ok /\ at' = Again
    <3>1. late' = 0 /\ Good(at) => link' = <<>> /\ (f.op = "chk" => rs' = "none")
      <4> SUFFICES ASSUME late' = 0, Good(at) PROVE link' = <<>> /\ (f.op = "chk" => rs' = "none")
        OBVIOUS
      <4>1. late = 0 BY <2>1
      <4>2. Len(l) = 1 BY <2>5, <2>7, <4>1
      <4>3. k = <<>>
        <5>1. Len(k) = 0 BY <2>3, <4>2
        <5> QED BY <2>3, <5>1
      <4>4. rs' = rs BY <2>4, <2>7
      <4>5. f.op = "chk" => rs = "none" BY <2>5, <4>1
      <4> QED BY <2>4, <4>3, <4>4, <4>5
    <3> QED BY <1>1, <2>1, <2>2, <2>5, <2>7, <3>1, MarkedOn
  <2>8. CASE h.ok /\ f.op = "chk" /\ at' = [at EXCEPT !.next = "crc", !.counter = CrcPolls]
    <3>1. SameFrame(at, at') /\ at'.next = "crc"
      <4>1. CrcPolls \in 0 .. CrcPolls BY ChipAssumption
      <4> QED BY <1>1, <2>1, <2>8, <4>1, Waits
    <3>2. ASSUME late = 0, Good(at) PROVE InStep(at', f, chip', link', rs')
      <4>1. Len(l) \in {1, 2} BY <2>3, <2>5, <2>8, <3>2
      <4>2. Len(k) <= 1 /\ (k = <<>> \/ Len(l) = 2) BY <2>3, <4>1
      <4>3. Len(l) = 2 => rs' = "none" BY <2>4, <2>5, <2>8, <3>2
      <4> QED BY <2>4, <3>1, <4>2, <4>3 DEF InStep
    <3> QED BY <1>1, <2>1, <2>2, <2>5, <3>1, <3>2, MarkedOn
  <2>9. CASE h.ok /\ f.op # "chk" /\ at' = Advance
    <3>1. late' = 0 /\ Good(at) => link' = <<>> /\ Done(at, f, chip')
      <4> SUFFICES ASSUME late' = 0, Good(at) PROVE link' = <<>> /\ Done(at, f, chip')
        OBVIOUS
      <4>1. late = 0 BY <2>1
      <4>2. Len(l) <= 1 /\ Done(at, f, chip) BY <2>5, <2>9, <4>1
      <4>3. k = <<>>
        <5>1. Len(k) = 0 BY <2>3, <4>2
        <5> QED BY <2>3, <5>1
      <4> QED BY <2>1, <2>4, <4>2, <4>3
    <3> QED BY <1>1, <2>1, <2>2, <2>5, <2>9, <3>1, MarkedOn
  <2> QED BY <2>6, <2>7, <2>8, <2>9
<1>6. CASE AckMissing
  <2>1. Busy /\ at.next = "ack" /\ at' = Again /\ UNCHANGED <<rs, link, chip>>
        /\ late' = IF link = <<>> THEN late ELSE late + 1
    BY <1>6 DEF AckMissing
  <2>2. late' = 0 => late = 0 /\ link = <<>> BY <1>1, <2>1, ChipAssumption
  <2>3. late' = 0 /\ Good(at) => link' = <<>> /\ (TheFrame.op = "chk" => rs' = "none")
    BY <1>3, <2>1, <2>2 DEF InStep
  <2> QED BY <1>1, <1>3, <2>1, <2>2, <2>3, MarkedOn
<1>7. CASE WaitCrc
  <2>1. Busy /\ at.next = "crc" /\ UNCHANGED <<late, chip>> BY <1>7 DEF WaitCrc
  <2>2. PICK f : f = TheFrame OBVIOUS
  <2>3. /\ InHand(at.phase, at.i, f) /\ at.phase \in Phases /\ at.counter \in 0 .. CrcPolls
        /\ f.op = "chk"
    BY <1>0, <1>1, <2>1, <2>2, HandFacts, ScriptPhases DEF ImagesAt, Busy, TheFrame
  <2>4. f.val \in {"code", "data"} /\ at.phase # "aux" BY <2>3 DEF InHand, ChipFrameOK, Reg
  <2>5. late' = 0 /\ Good(at) => ValidAt(at, chip') BY <1>3, <2>1
  <2>6. CASE at' = Ended(FALSE) BY <1>1, <2>1, <2>4, <2>5, <2>6, MarkedOn
  <2>7. CASE rs = f.val /\ at' = Advance /\ UNCHANGED <<rs, link>>
    <3>1. late' = 0 /\ Good(at) => link' = <<>> /\ Done(at, f, chip')
      BY <1>3, <2>1, <2>2, <2>4, <2>7 DEF InStep, Done
    <3> QED BY <1>1, <2>1, <2>2, <2>5, <2>7, <3>1, MarkedOn
  <2>8. CASE /\ at.counter > 1 /\ at' = [at EXCEPT !.counter = @ - 1]
             /\ UNCHANGED <<rs, link>> \/ (link # <<>> /\ Process(Head(link)))
    <3>1. SameFrame(at, at') /\ at'.next = "crc"
      <4>1. PICK k \in 0 .. CrcPolls : k = at.counter - 1 BY <2>3, <2>8, ChipAssumption
      <4>2. at' = [at EXCEPT !.counter = k] BY <2>8, <4>1
      <4> QED BY <1>1, <2>1, <4>2, Waits
    <3>2. ASSUME late = 0, Good(at) PROVE InStep(at', f, chip', link', rs')
      <4>1. Len(link) <= 1 /\ (link = <<>> \/ rs = "none") BY <1>3, <2>1, <2>2, <3>2 DEF InStep
      <4>2. CASE UNCHANGED <<rs, link>> BY <3>1, <4>1, <4>2 DEF InStep
      <4>3. CASE link # <<>> /\ Process(Head(link))
        <5>1. PICK l, k : l \in Seq(Response) /\ l = link /\ k = Tail(l) BY <1>1
        <5>2. Len(k) = Len(l) - 1 /\ k \in Seq(Response) /\ Len(l) \in Nat /\ Len(l) > 0
          BY <4>3, <5>1, FewerAnswers
        <5>3. link' = k /\ k = <<>> BY <4>1, <4>3, <5>1, <5>2 DEF Process
        <5>4. Len(<<>>) <= 1 OBVIOUS
        <5> QED BY <3>1, <5>3, <5>4 DEF InStep
      <4> QED BY <2>8, <4>2, <4>3
    <3> QED BY <1>1, <2>1, <2>2, <2>5, <3>1, <3>2, MarkedOn
  <2> QED BY <1>7, <2>2, <2>6, <2>7, <2>8 DEF WaitCrc
<1>8. CASE Mpi_RxInt \/ Get_IDC_Msg \/ Send_IDC_Msg \/ FirmwareTakes \/ \E m \in Msg : FirmwareSends(m)
  BY <1>2, <1>8 DEF Mpi_RxInt, Get_IDC_Msg, Send_IDC_Msg, FirmwareTakes, FirmwareSends
<1>9. CASE UNCHANGED chipVars BY <1>2, <1>9 DEF chipVars
<1> QED BY <1>4, <1>5, <1>6, <1>7, <1>8, <1>9 DEF ChipNext, Download

-----------------------------------------------------------------------------
(* The receive FIFO *)

FifoState == [slot : [Slots -> Msg \cup {Empty}], read : Slots, write : Slots, full : BOOLEAN]
BoxState  == [egress : Msg \cup {Empty}, enabled : BOOLEAN, ingress : BOOLEAN]

\* From the next place to read there are d empty slots and then the messages q.
\* Only a FIFO with messages in it can be full to the end, and then no more are
\* received; after the reading of empty slots of a FIFO that was full before,
\* there is room.
FifoHolds(F, on, q, d) ==
  /\ F \in FifoState /\ on \in BOOLEAN /\ q \in Seq(Msg) /\ d \in Nat
  /\ d + Len(q) <= REC_FIFO_BLK_NUM
  /\ F.write = RingPlace(REC_FIFO_BLK_NUM, F.read, d + Len(q))
  /\ \A k \in Slots : F.slot[RingPlace(REC_FIFO_BLK_NUM, F.read, k)] =
       IF k \in d .. d + Len(q) - 1 THEN q[k - d + 1] ELSE Empty
  /\ d + Len(q) = REC_FIFO_BLK_NUM => q # <<>> /\ F.full /\ ~on

LEMMA HoldsNothing == ChipInit => FifoHolds(fifo, box.enabled, <<>>, 0)
<1> SUFFICES ASSUME ChipInit PROVE FifoHolds(fifo, box.enabled, <<>>, 0) OBVIOUS
<1>1. PICK s \in Nat : s = REC_FIFO_BLK_NUM /\ s > 0 BY ChipAssumption
<1>2. /\ fifo = [slot |-> [i \in Slots |-> Empty], read |-> 0, write |-> 0, full |-> FALSE]
      /\ box.enabled = TRUE
  BY DEF ChipInit
<1>3. Slots = 0 .. s - 1 /\ 0 \in Slots BY <1>1 DEF Slots
<1>4. fifo \in FifoState BY <1>2, <1>3 DEF FifoState
<1>5. \A k \in Slots : RingPlace(s, 0, k) = k BY <1>3 DEF RingPlace
<1>6. RingPlace(s, 0, 0) = 0 BY <1>1 DEF RingPlace
<1>7. <<>> \in Seq(Msg) /\ Len(<<>>) = 0 OBVIOUS
<1>8. fifo.read = 0 /\ fifo.write = 0 /\ \A k \in Slots : fifo.slot[k] = Empty BY <1>2
<1>9. \A k \in Slots : fifo.slot[RingPlace(s, 0, k)] =
        IF k \in 0 .. 0 + Len(<<>>) - 1 THEN <<>>[k - 0 + 1] ELSE Empty
  BY <1>3, <1>5, <1>7, <1>8
<1>10. 0 + Len(<<>>) = 0 /\ 0 + Len(<<>>) <= s /\ 0 + Len(<<>>) # s BY <1>1, <1>7
<1> QED BY <1>1, <1>2, <1>4, <1>6, <1>7, <1>8, <1>9, <1>10 DEF FifoHolds

\* A message is stored at the next place to write.
LEMMA HoldsStored ==
  ASSUME NEW q, NEW d, FifoHolds(fifo, box.enabled, q, d), box \in BoxState, box.egress \in Msg,
         box.enabled, Stored
  PROVE  /\ FifoHolds(fifo', box'.enabled, Append(q, box.egress), d) /\ box' \in BoxState
         /\ Len(q) < REC_FIFO_BLK_NUM
<1>1. PICK s \in Nat : s = REC_FIFO_BLK_NUM /\ s > 0 BY ChipAssumption
<1>2. PICK n \in Nat, a \in 0 .. s - 1, w \in 0 .. s - 1, m \in Msg :
        n = Len(q) /\ a = fifo.read /\ w = fifo.write /\ m = box.egress
  BY <1>1 DEF FifoHolds, FifoState, Slots
<1>3. /\ q \in Seq(Msg) /\ d \in Nat /\ d + n < s /\ w = RingPlace(s, a, d + n)
      /\ \A k \in 0 .. s - 1 : fifo.slot[RingPlace(s, a, k)] =
           IF k \in d .. d + n - 1 THEN q[k - d + 1] ELSE Empty
      /\ fifo \in FifoState /\ Slots = 0 .. s - 1 /\ d + n \in 0 .. s - 1
  <2>1. q \in Seq(Msg) /\ d \in Nat /\ fifo \in FifoState /\ Slots = 0 .. s - 1
    BY <1>1 DEF FifoHolds, Slots
  <2>2. d + n < s /\ d + n \in 0 .. s - 1
    <3>1. d + n <= s /\ d + n # s BY <1>1, <1>2 DEF FifoHolds
    <3> QED BY <1>1, <1>2, <2>1, <3>1
  <2>3. w = RingPlace(s, a, d + n) BY <1>1, <1>2 DEF FifoHolds
  <2>4. \A k \in 0 .. s - 1 : fifo.slot[RingPlace(s, a, k)] =
           IF k \in d .. d + n - 1 THEN q[k - d + 1] ELSE Empty
    BY <1>1, <1>2, <2>1 DEF FifoHolds
  <2> QED BY <2>1, <2>2, <2>3, <2>4
<1>4. PICK v : v = After(w) OBVIOUS
<1>5. /\ fifo' = [fifo EXCEPT !.slot[w] = m, !.write = v, !.full = (v = a)]
      /\ box' = [box EXCEPT !.egress = Empty, !.enabled = (v # a)]
  BY <1>2, <1>4 DEF Stored
<1>6. v = RingPlace(s, a, d + n + 1) /\ v \in 0 .. s - 1 /\ (v = a <=> d + n + 1 = s)
  <2>1. v = RingPlace(s, w, 1) /\ v \in 0 .. s - 1
    <3>1. 1 \in 0 .. s /\ w \in 0 .. s - 1 BY <1>1, <1>2
    <3>2. v = (w + 1) % s BY <1>1, <1>4 DEF After
    <3> QED BY <1>1, <3>1, <3>2, OnRing
  <2>2. PICK e \in 0 .. s - 1 : e = d + n BY <1>3
  <2>3. v = RingPlace(s, a, e + 1)
    <3>1. RingPlace(s, RingPlace(s, a, e), 1) = RingPlace(s, a, e + 1) BY <1>1, <1>2, <2>2, NextPlace, ZenonT(30)
    <3>2. w = RingPlace(s, a, e) BY <1>3, <2>2
    <3> QED BY <2>1, <3>1, <3>2
  <2>4. v = a <=> e + 1 = s BY <1>1, <1>2, <2>2, <2>3 DEF RingPlace
  <2>5. e + 1 = d + n + 1 BY <2>2
  <2> QED BY <2>1, <2>3, <2>4, <2>5
<1>7. PICK F : F = fifo' OBVIOUS
<1>8. /\ F \in FifoState /\ F.read = a /\ F.write = v /\ F.full = (v = a)
      /\ F.slot = [fifo.slot EXCEPT ![w] = m]
  <2>1. PICK g : g = [fifo.slot EXCEPT ![w] = m] OBVIOUS
  <2>2. g \in [Slots -> Msg \cup {Empty}] BY <1>2, <1>3, <2>1 DEF FifoState
  <2>3. F = [fifo EXCEPT !.slot = g, !.write = v, !.full = (v = a)] BY <1>5, <1>7, <2>1
  <2> QED BY <1>2, <1>3, <1>6, <2>1, <2>2, <2>3 DEF FifoState
<1>9. box' \in BoxState /\ box'.enabled = (v # a) BY <1>5 DEF BoxState
<1>10. PICK r : r = Append(q, m) OBVIOUS
<1>11. /\ r \in Seq(Msg) /\ Len(r) = n + 1 /\ r[n + 1] = m /\ r # <<>>
       /\ \A i \in 1 .. n : r[i] = q[i]
  BY <1>2, <1>3, <1>10
<1>12. ASSUME NEW k \in 0 .. s - 1
       PROVE  F.slot[RingPlace(s, a, k)] = IF k \in d .. d + n THEN r[k - d + 1] ELSE Empty
  <2>1. PICK x : x = RingPlace(s, a, k) OBVIOUS
  <2>2. x \in 0 .. s - 1 BY <1>1, <2>1, NextPlace
  <2>3. fifo.slot \in [0 .. s - 1 -> Msg \cup {Empty}] BY <1>3 DEF FifoState
  <2>4. CASE k = d + n
    <3>1. x = w /\ k - d + 1 = n + 1 BY <1>2, <1>3, <2>1, <2>4
    <3>2. F.slot[x] = m BY <1>8, <2>2, <2>3, <3>1
    <3>3. r[k - d + 1] = m BY <1>11, <3>1
    <3> QED BY <1>2, <1>3, <2>1, <2>4, <3>2, <3>3
  <2>5. CASE k # d + n
    <3>1. PICK e \in 0 .. s - 1 : e = d + n BY <1>3
    <3>2. x # w BY <1>1, <1>2, <1>3, <2>1, <2>5, <3>1, OtherPlace
    <3>3. F.slot[x] = fifo.slot[x] BY <1>8, <2>2, <2>3, <3>2
    <3>4. fifo.slot[x] = IF k \in d .. d + n - 1 THEN q[k - d + 1] ELSE Empty BY <1>3, <2>1
    <3>5. k \in d .. d + n - 1 <=> k \in d .. d + n BY <1>2, <1>3, <2>5
    <3>6. k \in d .. d + n - 1 => r[k - d + 1] = q[k - d + 1]
      <4>1. ASSUME k \in d .. d + n - 1 PROVE k - d + 1 \in 1 .. n BY <1>2, <1>3, <4>1
      <4> QED BY <1>11, <4>1
    <3> QED BY <2>1, <3>3, <3>4, <3>5, <3>6
  <2> QED BY <2>4, <2>5
<1>13. FifoHolds(F, box'.enabled, r, d)
  <2>1. d + (n + 1) = d + n + 1 /\ d + (n + 1) - 1 = d + n BY <1>2, <1>3
  <2>2. d + Len(r) = d + n + 1 /\ d + Len(r) <= s /\ d + Len(r) - 1 = d + n
    BY <1>2, <1>3, <1>11
  <2>3. F.write = RingPlace(s, F.read, d + Len(r)) BY <1>6, <1>8, <2>2
  <2>4. \A k \in Slots : F.slot[RingPlace(s, F.read, k)] =
          IF k \in d .. d + Len(r) - 1 THEN r[k - d + 1] ELSE Empty
    BY <1>3, <1>8, <1>12, <2>2
  <2>5. d + Len(r) = s => r # <<>> /\ F.full /\ ~box'.enabled
    BY <1>6, <1>8, <1>9, <1>11, <2>2
  <2>6. box'.enabled \in BOOLEAN BY <1>9
  <2> QED BY <1>1, <1>3, <1>8, <1>11, <2>2, <2>3, <2>4, <2>5, <2>6 DEF FifoHolds
<1> QED BY <1>1, <1>2, <1>3, <1>7, <1>9, <1>10, <1>13

\* A call of Get_IDC_Msg passes an empty slot, or takes the first message, or
\* finds nothing.
LEMMA HoldsGot ==
  ASSUME NEW q, NEW d, FifoHolds(fifo, box.enabled, q, d), box \in BoxState, Get_IDC_Msg
  PROVE  /\ box' \in BoxState
         /\ \/ \E e : FifoHolds(fifo', box'.enabled, q, e)
            \/ q # <<>> /\ \E e : FifoHolds(fifo', box'.enabled, Tail(q), e)
<1>1. PICK s \in Nat : s = REC_FIFO_BLK_NUM /\ s > 0 BY ChipAssumption
<1>2. PICK n \in Nat, a \in 0 .. s - 1, w \in 0 .. s - 1 :
        n = Len(q) /\ a = fifo.read /\ w = fifo.write
  BY <1>1 DEF FifoHolds, FifoState, Slots
<1>3. /\ q \in Seq(Msg) /\ d \in Nat /\ d + n <= s /\ w = RingPlace(s, a, d + n)
      /\ \A k \in 0 .. s - 1 : fifo.slot[RingPlace(s, a, k)] =
           IF k \in d .. d + n - 1 THEN q[k - d + 1] ELSE Empty
      /\ fifo \in FifoState /\ Slots = 0 .. s - 1
      /\ d + n = s => q # <<>> /\ fifo.full
  <2>1. q \in Seq(Msg) /\ d \in Nat /\ fifo \in FifoState /\ Slots = 0 .. s - 1 /\ d + n <= s
    BY <1>1, <1>2 DEF FifoHolds, Slots
  <2>2. d + n = s => q # <<>> /\ fifo.full BY <1>1, <1>2 DEF FifoHolds
  <2>3. w = RingPlace(s, a, d + n) BY <1>1, <1>2 DEF FifoHolds
  <2>4. \A k \in 0 .. s - 1 : fifo.slot[RingPlace(s, a, k)] =
           IF k \in d .. d + n - 1 THEN q[k - d + 1] ELSE Empty
    BY <1>1, <1>2, <2>1 DEF FifoHolds
  <2> QED BY <2>1, <2>2, <2>3, <2>4
<1>4. box' \in BoxState /\ box'.enabled = TRUE
  <2>1. box' = [box EXCEPT !.enabled = TRUE] BY DEF Get_IDC_Msg
  <2> QED BY <2>1 DEF BoxState
<1>7. d \in Nat /\ d + n <= s BY <1>3
<1>5. CASE ~Poll_Check
  <2>1. fifo' = fifo /\ w = a /\ ~fifo.full BY <1>2, <1>5 DEF Get_IDC_Msg, Poll_Check
  <2>2. d + n # s BY <1>3, <2>1
  <2>3. FifoHolds(fifo', box'.enabled, q, d) BY <1>1, <1>2, <1>4, <2>1, <2>2 DEF FifoHolds
  <2> QED BY <1>4, <2>3
<1>6. CASE Poll_Check
  <2>1. PICK b : b = After(a) OBVIOUS
  <2>2. b = RingPlace(s, a, 1) /\ b \in 0 .. s - 1
    <3>1. 1 \in 0 .. s BY <1>1
    <3>2. b = (a + 1) % s BY <1>1, <2>1 DEF After
    <3> QED BY <1>1, <1>2, <3>1, <3>2, OnRing
  <2>3. PICK F : F = fifo' OBVIOUS
  <2>4. /\ F \in FifoState /\ F.read = b /\ F.write = w /\ F.full = fifo.full
        /\ F.slot = [fifo.slot EXCEPT ![a] = Empty]
    <3>1. F = [fifo EXCEPT !.slot[a] = Empty, !.read = b]
      BY <1>2, <1>6, <2>1, <2>3 DEF Get_IDC_Msg
    <3>2. PICK g : g = [fifo.slot EXCEPT ![a] = Empty] OBVIOUS
    <3>3. g \in [Slots -> Msg \cup {Empty}] BY <1>2, <1>3, <3>2 DEF FifoState
    <3>4. F = [fifo EXCEPT !.slot = g, !.read = b] BY <3>1, <3>2
    <3> QED BY <1>2, <1>3, <2>2, <3>2, <3>3, <3>4 DEF FifoState
  <2>5. ASSUME NEW k \in 0 .. s - 1
        PROVE  F.slot[RingPlace(s, b, k)] =
                 IF k + 1 \in d .. d + n - 1 THEN q[k + 1 - d + 1] ELSE Empty
    <3>1. fifo.slot \in [0 .. s - 1 -> Msg \cup {Empty}] BY <1>3 DEF FifoState
    <3>2. PICK x : x = RingPlace(s, a, k + 1) OBVIOUS
    <3>3. RingPlace(s, b, k) = x BY <1>1, <1>2, <2>2, <3>2, NextPlace, ZenonT(30)
    <3>4. x \in 0 .. s - 1 BY <1>1, <2>2, <3>3, NextPlace, ZenonT(30)
    <3>5. CASE k = s - 1
      <4>1. x = a /\ ~(k + 1 \in d .. d + n - 1) BY <1>1, <1>2, <1>3, <3>2, <3>5 DEF RingPlace
      <4>2. F.slot[x] = Empty BY <2>4, <3>1, <3>4, <4>1
      <4> QED BY <3>3, <4>1, <4>2
    <3>6. CASE k # s - 1
      <4>1. k + 1 \in 0 .. s - 1 BY <1>1, <3>6
      <4>2. x # a BY <1>1, <1>2, <3>2, <3>6 DEF RingPlace
      <4>3. F.slot[x] = fifo.slot[x] BY <2>4, <3>1, <3>4, <4>2
      <4>4. fifo.slot[x] = IF k + 1 \in d .. d + n - 1 THEN q[k + 1 - d + 1] ELSE Empty
        BY <1>3, <3>2, <4>1
      <4> QED BY <3>3, <4>3, <4>4
    <3> QED BY <3>5, <3>6
  <2>6. ASSUME NEW e \in 0 .. s - 1, e + 1 = d + n
        PROVE  w = RingPlace(s, b, e)
    <3>1. RingPlace(s, b, e) = RingPlace(s, a, e + 1) BY <1>1, <1>2, <2>2, NextPlace, ZenonT(30)
    <3> QED BY <1>3, <2>6, <3>1
  <2>7. CASE d > 0
    <3>1. PICK e \in Nat : e = d - 1 BY <1>3, <2>7
    <3>2. PICK x \in 0 .. s - 1 : x = e + n /\ x + 1 = d + n
      <4>1. e + n \in 0 .. s - 1 /\ (e + n) + 1 = d + n BY <1>1, <1>2, <1>7, <2>7, <3>1
      <4> QED BY <4>1
    <3>3. w = RingPlace(s, b, e + n) BY <2>6, <3>2
    <3>4. ASSUME NEW k \in 0 .. s - 1
          PROVE  F.slot[RingPlace(s, b, k)] = IF k \in e .. e + n - 1 THEN q[k - e + 1] ELSE Empty
      <4>1. k + 1 \in d .. d + n - 1 <=> k \in e .. e + n - 1 BY <1>2, <1>3, <3>1
      <4>2. k + 1 - d + 1 = k - e + 1 BY <1>3, <3>1
      <4> QED BY <2>5, <4>1, <4>2
    <3>5. e + n <= s /\ e + n # s BY <1>1, <3>2
    <3>6. FifoHolds(F, box'.enabled, q, e)
      BY <1>1, <1>2, <1>3, <1>4, <2>4, <3>3, <3>4, <3>5 DEF FifoHolds
    <3> QED BY <1>4, <2>3, <3>6
  <2>8. CASE d = 0 /\ n > 0
    <3>1. PICK t : t = Tail(q) OBVIOUS
    <3>10. PICK j \in Nat : j = n - 1 BY <1>2, <2>8
    <3>2. /\ t \in Seq(Msg) /\ Len(t) = j /\ q # <<>>
          /\ \A i \in 1 .. j : t[i] = q[i + 1]
      BY <1>2, <1>3, <2>8, <3>1, <3>10
    <3>3. PICK x \in 0 .. s - 1 : x = 0 + j /\ x + 1 = d + n
      <4>1. 0 + j \in 0 .. s - 1 /\ (0 + j) + 1 = d + n BY <1>1, <1>2, <1>7, <2>8, <3>10
      <4> QED BY <4>1
    <3>4. w = RingPlace(s, b, 0 + j) BY <2>6, <3>3
    <3>5. ASSUME NEW k \in 0 .. s - 1
          PROVE  F.slot[RingPlace(s, b, k)] = IF k \in 0 .. 0 + j - 1 THEN t[k - 0 + 1] ELSE Empty
      <4>1. k + 1 \in d .. d + n - 1 <=> k \in 0 .. 0 + j - 1 BY <1>2, <2>8, <3>10
      <4>2. k + 1 - d + 1 = k + 2 /\ k - 0 + 1 = k + 1 BY <2>8
      <4>3. k \in 0 .. 0 + j - 1 => t[k + 1] = q[k + 2]
        <5>1. ASSUME k \in 0 .. 0 + j - 1 PROVE k + 1 \in 1 .. j /\ (k + 1) + 1 = k + 2
          BY <3>10, <5>1
        <5> QED BY <3>2, <5>1
      <4> QED BY <2>5, <4>1, <4>2, <4>3
    <3>6. 0 + j <= s /\ 0 + j # s BY <1>1, <3>3
    <3>7. FifoHolds(F, box'.enabled, t, 0)
      BY <1>1, <1>2, <1>4, <2>4, <3>2, <3>4, <3>5, <3>6, <1>3 DEF FifoHolds
    <3> QED BY <1>4, <2>3, <3>1, <3>2, <3>7
  <2>9. CASE d = 0 /\ n = 0
    <3>1. PICK e \in 0 .. s - 1 : e = s - 1 BY <1>1
    <3>2. RingPlace(s, b, e) = RingPlace(s, a, e + 1) BY <1>1, <1>2, <2>2, NextPlace, ZenonT(30)
    <3>3. w = RingPlace(s, b, e + n) BY <1>1, <1>2, <1>3, <2>9, <3>1, <3>2 DEF RingPlace
    <3>4. ASSUME NEW k \in 0 .. s - 1
          PROVE  F.slot[RingPlace(s, b, k)] = IF k \in e .. e + n - 1 THEN q[k - e + 1] ELSE Empty
      <4>1. ~(k + 1 \in d .. d + n - 1) /\ ~(k \in e .. e + n - 1) BY <2>9, <3>1
      <4> QED BY <2>5, <4>1
    <3>5. e + n <= s /\ e + n # s /\ e \in Nat BY <1>1, <2>9, <3>1
    <3>6. FifoHolds(F, box'.enabled, q, e)
      BY <1>1, <1>2, <1>3, <1>4, <2>4, <3>3, <3>4, <3>5 DEF FifoHolds
    <3> QED BY <1>4, <2>3, <3>6
  <2> QED BY <1>2, <1>3, <2>7, <2>8, <2>9
<1> QED BY <1>5, <1>6

\* The FIFO as a queue.
LEMMA BufferedIs ==
  ASSUME NEW q, NEW d, NEW on, FifoHolds(fifo, on, q, d)
  PROVE  Buffered = q
<1>1. PICK s \in Nat : s = REC_FIFO_BLK_NUM /\ s > 0 BY ChipAssumption
<1>2. PICK n \in Nat, a \in 0 .. s - 1, w \in 0 .. s - 1 :
        n = Len(q) /\ a = fifo.read /\ w = fifo.write
  BY <1>1 DEF FifoHolds, FifoState, Slots
<1>3. /\ q \in Seq(Msg) /\ d \in Nat /\ d + n <= s /\ w = RingPlace(s, a, d + n)
      /\ \A k \in 0 .. s - 1 : fifo.slot[RingPlace(s, a, k)] =
           IF k \in d .. d + n - 1 THEN q[k - d + 1] ELSE Empty
      /\ Slots = 0 .. s - 1
  <2>1. q \in Seq(Msg) /\ d \in Nat /\ Slots = 0 .. s - 1 /\ d + n <= s
    BY <1>1, <1>2 DEF FifoHolds, Slots
  <2>3. w = RingPlace(s, a, d + n) BY <1>1, <1>2 DEF FifoHolds
  <2>4. \A k \in 0 .. s - 1 : fifo.slot[RingPlace(s, a, k)] =
           IF k \in d .. d + n - 1 THEN q[k - d + 1] ELSE Empty
    BY <1>1, <1>2, <2>1 DEF FifoHolds
  <2> QED BY <2>1, <2>3, <2>4
<1>9. d \in Nat /\ d + n <= s BY <1>3
<1> DEFINE P(i) == RingPlace(s, a, d + i - 1)
<1>4. ASSUME NEW i \in 1 .. n
      PROVE  /\ P(i) \in 0 .. s - 1 /\ fifo.slot[P(i)] = q[i] /\ q[i] \in Msg /\ q[i] # Empty
             /\ (w - n + i - 1) % s = P(i)
  <2>1. PICK k \in 0 .. s - 1 : k = d + i - 1 BY <1>1, <1>2, <1>3
  <2>2. P(i) \in 0 .. s - 1 BY <1>1, <1>2, <2>1, NextPlace
  <2>3. k \in d .. d + n - 1 /\ k - d + 1 = i BY <1>2, <1>3, <2>1
  <2>4. fifo.slot[P(i)] = q[i] BY <1>3, <2>1, <2>3
  <2>5. q[i] \in Msg /\ q[i] # Empty BY <1>2, <1>3, ChipAssumption
  <2>6. (w - n + i - 1) % s = P(i)
    <3>1. PICK c \in 0 .. s, m \in 1 .. s : c = d + n /\ m = n - i + 1 /\ m <= c
      <4>1. d + n \in 0 .. s /\ n - i + 1 \in 1 .. s /\ n - i + 1 <= d + n
        BY <1>1, <1>2, <1>9
      <4> QED BY <4>1
    <3>2. PICK x \in Int : x = w - n + i - 1 /\ x = w - m
      <4>1. w \in Int /\ n \in Int /\ i \in Int BY <1>2
      <4>2. m = n - i + 1 BY <3>1
      <4>3. w - n + i - 1 \in Int /\ w - n + i - 1 = w - m BY <4>1, <4>2
      <4> QED BY <4>3
    <3>3. PICK e \in Nat : e = d + i - 1 /\ e = c - m BY <1>2, <1>9, <3>1
    <3>4. w = RingPlace(s, a, c) /\ w \in Nat BY <1>2, <1>3, <3>1
    <3>5. x % s = RingPlace(s, a, e)
      <4>1. x \in -s .. s - 1 /\ (x = a + e \/ x = a + e - s)
        <5>1. w = a + c \/ w = a + c - s BY <3>4 DEF RingPlace
        <5>2. a \in Nat /\ w \in 0 .. s - 1 /\ c \in Nat /\ m \in 1 .. s /\ x = w - m /\ e = c - m
          BY <1>2, <3>1, <3>2, <3>3
        <5>3. x = a + e \/ x = a + e - s BY <1>1, <5>1, <5>2
        <5>4. x \in -s .. s - 1 BY <1>1, <5>2
        <5> QED BY <5>3, <5>4
      <4>2. x \in 0 .. s - 1 => x % s = x BY <1>1, Offsets
      <4>3. x \in -s .. -1 => x % s = x + s BY <1>1, Offsets
      <4>4. a \in 0 .. s - 1 BY <1>2
      <4> QED BY <1>1, <3>3, <4>1, <4>2, <4>3, <4>4 DEF RingPlace
    <3> QED BY <3>2, <3>3, <3>5
  <2> QED BY <2>2, <2>4, <2>5, <2>6
<1>5. Cardinality(Filled) = n
  <2>1. PICK f : f = [i \in 1 .. n |-> P(i)] OBVIOUS
  <2>2. \A i \in 1 .. n : f[i] \in Filled BY <1>3, <1>4, <2>1 DEF Filled
  <2>3. ASSUME NEW i \in 1 .. n, NEW j \in 1 .. n, i # j PROVE f[i] # f[j]
    <3>1. PICK x \in 0 .. s - 1, y \in 0 .. s - 1 : x = d + i - 1 /\ y = d + j - 1
      <4>1. d + i - 1 \in 0 .. s - 1 /\ d + j - 1 \in 0 .. s - 1 BY <1>1, <1>2, <1>9
      <4> QED BY <4>1
    <3>2. x # y BY <1>2, <1>3, <2>3, <3>1
    <3>3. RingPlace(s, a, x) # RingPlace(s, a, y) BY <1>1, <1>2, <3>2, OtherPlace
    <3> QED BY <2>1, <3>1, <3>3
  <2>4. ASSUME NEW x \in Filled PROVE \E i \in 1 .. n : f[i] = x
    <3>1. x \in 0 .. s - 1 /\ fifo.slot[x] # Empty BY <1>3 DEF Filled
    <3>2. PICK k \in 0 .. s - 1 : RingPlace(s, a, k) = x
      <4>1. CASE x >= a
        <5>1. x - a \in 0 .. s - 1 /\ RingPlace(s, a, x - a) = x BY <1>1, <1>2, <3>1, <4>1 DEF RingPlace
        <5> QED BY <5>1
      <4>2. CASE x < a
        <5>1. x - a + s \in 0 .. s - 1 /\ RingPlace(s, a, x - a + s) = x
          BY <1>1, <1>2, <3>1, <4>2 DEF RingPlace
        <5> QED BY <5>1
      <4> QED BY <1>2, <3>1, <4>1, <4>2
    <3>3. k \in d .. d + n - 1 BY <1>3, <3>1, <3>2
    <3>4. PICK i \in 1 .. n : i = k - d + 1 /\ k = d + i - 1 BY <1>2, <1>9, <3>3, SMTT(30)
    <3> QED BY <2>1, <3>2, <3>4
  <2>5. f \in Bijection(1 .. n, Filled)
    <3>1. f \in [1 .. n -> Filled] BY <2>1, <2>2
    <3> QED BY <3>1, <2>3, <2>4, Fun_IsBij
  <2>6. ExistsBijection(1 .. n, Filled) BY <2>5 DEF ExistsBijection
  <2> QED BY <1>2, <2>6, FS_CountingElements
<1>6. Buffered = [i \in 1 .. n |-> fifo.slot[(w - n + i - 1) % s]] BY <1>1, <1>2, <1>5 DEF Buffered
<1>7. Buffered = [i \in 1 .. n |-> q[i]] BY <1>4, <1>6
<1>8. q = [i \in 1 .. n |-> q[i]] BY <1>2, <1>3
<1> QED BY <1>7, <1>8

-----------------------------------------------------------------------------
(* The theorems of the chip driver *)

FifoHeld == fifo \in FifoState /\ box \in BoxState /\ \E q, d : FifoHolds(fifo, box.enabled, q, d)

ChipInv == LoadInv /\ Marked /\ FifoHeld

BufferIsHeld == \A q, d, on : FifoHolds(fifo, on, q, d) => Buffered = q

LEMMA BufferedOf == BufferIsHeld
BY BufferedIs DEF BufferIsHeld

LEMMA FifoHeldInit == ChipInit => FifoHeld /\ MessageFifo!Init
<1> SUFFICES ASSUME ChipInit PROVE FifoHeld /\ MessageFifo!Init OBVIOUS
<1>1. FifoHolds(fifo, box.enabled, <<>>, 0) BY HoldsNothing
<1>2. box \in BoxState BY DEF ChipInit, BoxState
<1>3. fifo \in FifoState BY <1>1 DEF FifoHolds
<1>4. Buffered = <<>> BY <1>1, BufferedIs
<1> QED BY <1>1, <1>2, <1>3, <1>4 DEF FifoHeld, MessageFifo!Init

\* What a step does to the messages q that the FIFO holds.
LEMMA FifoStep ==
  ASSUME NEW q, NEW d, FifoHolds(fifo, box.enabled, q, d), box \in BoxState, [ChipNext]_chipVars
  PROVE  /\ box' \in BoxState
         /\ \E r, e : /\ FifoHolds(fifo', box'.enabled, r, e)
                      /\ \/ r = q
                         \/ Len(q) < REC_FIFO_BLK_NUM /\ \E m \in Msg : r = Append(q, m)
                         \/ q # <<>> /\ r = Tail(q)
<1>1. CASE Mpi_RxInt
  <2>1. box.egress \in Msg /\ box.enabled /\ Stored BY <1>1 DEF Mpi_RxInt, BoxState
  <2>2. /\ FifoHolds(fifo', box'.enabled, Append(q, box.egress), d) /\ box' \in BoxState
        /\ Len(q) < REC_FIFO_BLK_NUM
    BY <2>1, HoldsStored
  <2> QED BY <2>1, <2>2
<1>2. CASE Get_IDC_Msg
  <2>1. box' \in BoxState BY <1>2, HoldsGot
  <2>2. CASE \E e : FifoHolds(fifo', box'.enabled, q, e) BY <2>1, <2>2
  <2>3. CASE q # <<>> /\ \E e : FifoHolds(fifo', box'.enabled, Tail(q), e) BY <2>1, <2>3
  <2> QED BY <1>2, <2>2, <2>3, HoldsGot
<1>3. ASSUME fifo' = fifo, box' \in BoxState, box'.enabled = box.enabled
      PROVE  FifoHolds(fifo', box'.enabled, q, d)
  BY <1>3
<1>4. CASE Download \/ UNCHANGED chipVars
  <2>1. fifo' = fifo /\ box' = box
    BY <1>4 DEF Download, Transmit, ReceiveAck, AckMissing, WaitCrc, chipVars
  <2> QED BY <2>1, <1>3
<1>5. CASE Send_IDC_Msg \/ FirmwareTakes \/ \E m \in Msg : FirmwareSends(m)
  <2>1. fifo' = fifo BY <1>5 DEF Send_IDC_Msg, FirmwareTakes, FirmwareSends
  <2>2. box' \in BoxState /\ box'.enabled = box.enabled
    BY <1>5 DEF Send_IDC_Msg, FirmwareTakes, FirmwareSends, BoxState
  <2> QED BY <2>1, <2>2, <1>3
<1> QED BY <1>1, <1>2, <1>4, <1>5 DEF ChipNext

LEMMA FifoHeldStep == FifoHeld /\ [ChipNext]_chipVars => FifoHeld' /\ [MessageFifo!Next]_Buffered
<1> SUFFICES ASSUME FifoHeld, [ChipNext]_chipVars PROVE FifoHeld' /\ [MessageFifo!Next]_Buffered
  OBVIOUS
<1>1. PICK q, d : FifoHolds(fifo, box.enabled, q, d) BY DEF FifoHeld
<1>2. box \in BoxState BY DEF FifoHeld
<1>3. box' \in BoxState BY <1>1, <1>2, FifoStep
<1>4. PICK r, e : /\ FifoHolds(fifo', box'.enabled, r, e)
                  /\ \/ r = q
                     \/ Len(q) < REC_FIFO_BLK_NUM /\ \E m \in Msg : r = Append(q, m)
                     \/ q # <<>> /\ r = Tail(q)
  BY <1>1, <1>2, FifoStep
<1>5. FifoHeld' BY <1>3, <1>4 DEF FifoHeld, FifoHolds
<1>6. Buffered = q BY <1>1, BufferedIs
<1>7. Buffered' = r
  <2>1. PICK on : on = box'.enabled OBVIOUS
  <2>2. BufferIsHeld' BY BufferedOf, PTL
  <2>3. FifoHolds(fifo', on, r, e) => Buffered' = r BY <2>2 DEF BufferIsHeld
  <2> QED BY <1>4, <2>1, <2>3
<1>8. CASE r = q BY <1>5, <1>6, <1>7, <1>8
<1>9. CASE Len(q) < REC_FIFO_BLK_NUM /\ \E m \in Msg : r = Append(q, m)
  <2>1. MessageFifo!Put BY <1>6, <1>7, <1>9 DEF MessageFifo!Put
  <2> QED BY <1>5, <2>1 DEF MessageFifo!Next
<1>10. CASE q # <<>> /\ r = Tail(q)
  <2>1. MessageFifo!Get BY <1>6, <1>7, <1>10 DEF MessageFifo!Get
  <2> QED BY <1>5, <2>1 DEF MessageFifo!Next
<1> QED BY <1>4, <1>8, <1>9, <1>10

LEMMA ChipInvariant == ChipSpec => []ChipInv
<1>1. ChipInit => ChipInv BY LoadInvInit, MarkedInit, FifoHeldInit DEF ChipInv
<1>2. ChipInv /\ [ChipNext]_chipVars => ChipInv'
  BY LoadInvStep, MarkedStep, FifoHeldStep DEF ChipInv
<1> QED BY <1>1, <1>2, PTL DEF ChipSpec

\* The driver goes on to the second image only with the first in the chip, and
\* reports success only with both there; if no answer came late, both cores are
\* then marked valid and the firmware is started.
THEOREM BootIsVerified == ChipSpec => []BootVerified
<1>1. ChipInv => BootVerified
  <2> SUFFICES ASSUME ChipInv PROVE BootVerified OBVIOUS
  <2>1. ChipTypeOK BY LoadType DEF ChipInv, LoadInv, FifoHeld, FifoState, BoxState
  <2>2. \A c \in {"dsl", "idc"} : Verified(c) <=> Whole(c, chip[c]) BY DEF Verified, Whole, Parts
  <2>3. /\ at.phase \in {"idc", "start", "up"} => Whole("dsl", chip["dsl"])
        /\ (at.phase = "start" /\ ~at.err) \/ at.phase = "up" => Whole("idc", chip["idc"])
    BY DEF ChipInv, LoadInv, ImagesAt
  <2>4. at.phase = "up" /\ late = 0 =>
          chip["dsl"].valid /\ chip["idc"].valid /\ chip["idc"].loaded
    BY DEF ChipInv, Marked, ErrOK, Good, ValidAt
  <2> QED BY <2>1, <2>2, <2>3, <2>4 DEF BootVerified
<1> QED BY <1>1, ChipInvariant, PTL

\* The receive FIFO implements a queue of messages, for every capacity and
\* number of messages: Get_IDC_Msg hands them out in their order, none lost and
\* none twice, also after the FIFO was full and the mailbox had to wait.
THEOREM MessagesKeepOrder == ChipSpec => MessagesInOrder
<1>1. ChipInv /\ [ChipNext]_chipVars => [MessageFifo!Next]_Buffered BY FifoHeldStep DEF ChipInv
<1>2. ChipInit => MessageFifo!Init BY FifoHeldInit
<1> QED BY <1>1, <1>2, ChipInvariant, PTL DEF ChipSpec, MessagesInOrder, MessageFifo!Spec

(***************************************************************************)
(* Serial                                                                  *)
(***************************************************************************)

SerialPC == {"run", "push", "back", "pushed", "kick", "putc", "full", "wait",
             "woken", "halt", "take", "took"}
Asleep(w) == ToSet(sys.wait[w])

\* A place in the code that is reached on the path of the behaviour only.
Fits(l) == /\ l \in {"push", "back", "pushed", "kick"} => path = "dma"
           /\ l \in {"putc", "full", "wait", "woken", "halt"} => path = "int"
           /\ l \in {"take", "took"} => path = "rx"

\* The current thread can run, or is about to leave the processor; before the
\* system is started no thread is inside a call.
SerialCurrent ==
  /\ sys.cur # NoThread => sys.stat[sys.cur] = "READY" \/ pc[sys.cur] \in {"push", "wait", "take"}
  /\ sys.cur = NoThread => \A t \in Thread : pc[t] = "run"

\* A thread waits, without a time-out, inside the call of its waiting list.
SerialWaits ==
  /\ sys.timer = {}
  /\ \A t \in Asleep("push") : pc[t] \in {"push", "back"}
  /\ \A t \in Asleep("done") : pc[t] \in {"wait", "woken"}
  /\ \A t \in Asleep("rx") : pc[t] \in {"take", "took"}
  /\ \A t \in Thread : pc[t] \in {"take", "took"} => t = Shell
  /\ \A t \in Thread : pc[t] \notin {"run", "take", "took"} => t \in Writer
  /\ \A t \in Thread : Fits(pc[t])

\* A writer that can run, and one that is about to fill the register.
Awake   == \E c \in Writer : sys.stat[c] = "READY"
Filling == \E c \in Thread : pc[c] = "putc"

\* Until an index wraps the queue holds what was pushed and not yet popped.
Unwrapped ==
  tx_dma.pushes < IndexWrap =>
    /\ tx_dma.put = tx_dma.pushes /\ tx_dma.get <= tx_dma.put
    /\ tx_dma.put - tx_dma.get <= Size
    /\ tx_dma.waiting_lwm => tx_dma.get # tx_dma.put

\* While the queue is not empty the channel is active or about to be, and an
\* active channel sends or is about to be started.
Channel ==
  /\ Unwrapped
  /\ tx_dma.get # tx_dma.put => tx_dma.activated \/ \E t \in Thread : pc[t] = "pushed"
  /\ tx_dma.activated => tx_dma.dma # Nothing \/ \E t \in Thread : pc[t] = "kick"
  /\ tx_dma.waiting_lwm => Asleep("push") # {}
  /\ Asleep("push") # {} => tx_dma.waiting_lwm \/ Awake

\* A writer that found the register full finds the flag if it is full no longer,
\* unless another one took the flag and is about to fill the register.
Register ==
  /\ \A t \in Thread : pc[t] = "full" => reg.full \/ reg.flag \/ Filling
  /\ Asleep("done") # {} => ~reg.flag /\ (reg.full \/ Filling)
  /\ \A s, t \in Asleep("done") : s = t

\* What lies in the ring is being read, or indicated, or about to be.
Reader ==
  /\ Asleep("rx") # {} /\ rx_fifo.get # rx_fifo.put => rx_fifo.isr = "rx"
  /\ pc[Shell] \notin {"take", "took"} /\ rx_fifo.get # rx_fifo.put
       => rx_fifo.isr = "rx" \/ rx_fifo.sem > 0
  /\ rx_fifo.sem + (IF rx_fifo.isr = "rx" \/ rx_fifo.dr # Nothing THEN 1 ELSE 0)
       <= rx_fifo.arrived

SerialInv ==
  /\ SerialTypeOK /\ Base(sys) /\ SerialCurrent /\ SerialWaits
  /\ Channel /\ Register /\ Reader

TxRecord == [put : 0 .. IndexWrap - 1, get : 0 .. IndexWrap - 1, waiting_lwm : BOOLEAN,
             item : [0 .. Size - 1 -> Data], activated : BOOLEAN,
             dma : Data \cup {Nothing}, pushes : Nat]
RxRecord == [dr : 0 .. MaxChar, ore : BOOLEAN, put : 0 .. BufSize - 1, get : 0 .. BufSize - 1,
             buffer : [0 .. BufSize - 1 -> 0 .. MaxChar], sem : 0 .. MaxChar,
             isr : {"none", "rx", "clear", "ore"}, arrived : 0 .. MaxChar, last : 0 .. MaxChar]
RegRecord == [full : BOOLEAN, flag : BOOLEAN]

LEMMA SerialNumbers ==
  /\ Size \in Nat /\ Size > 0 /\ Lwm \in Nat /\ IndexWrap \in Nat /\ IndexWrap > 0
  /\ MaxPush \in Nat /\ MaxChar \in Nat /\ BufSize \in Nat /\ BufSize > 1
  /\ Nothing = 0 /\ Nothing \notin Data
BY SerialAssumption DEF Nothing

\* The facts every step starts from.
LEMMA SerialFacts ==
  ASSUME SerialInv
  PROVE  /\ Base(sys) /\ "push" \in WaitList /\ "done" \in WaitList /\ "rx" \in WaitList
         /\ Idle \in Thread /\ NoThread \notin Thread /\ Shell \in Thread
         /\ sys.stat \in [Thread -> Stat] /\ pc \in [Thread -> SerialPC]
         /\ value \in [Thread -> Data] /\ tx_dma \in TxRecord /\ rx_fifo \in RxRecord
         /\ reg \in RegRecord /\ path \in {"dma", "int", "rx"}
         /\ \A w \in WaitList :
              /\ Asleep(w) \subseteq Thread /\ (sys.wait[w] = <<>> <=> Asleep(w) = {})
              /\ \A t \in Asleep(w) : sys.stat[t] = "SUSPEND"
<1>1. Base(sys) /\ SerialTypeOK BY DEF SerialInv
<1>2. sys \in KernelState /\ KernelOK(sys, {}) BY <1>1 DEF Base, Sound
<1>3. sys.stat \in [Thread -> Stat] /\ \A w \in WaitList : sys.wait[w] \in Seq(Thread)
  BY <1>2, KernelTypes
<1>4. ASSUME NEW w \in WaitList
      PROVE  /\ Asleep(w) \subseteq Thread /\ (sys.wait[w] = <<>> <=> Asleep(w) = {})
             /\ \A t \in Asleep(w) : sys.stat[t] = "SUSPEND"
  <2>1. Asleep(w) \subseteq Thread /\ (sys.wait[w] = <<>> <=> Asleep(w) = {})
    BY <1>3, EmptyList DEF Asleep
  <2>2. \A t \in Asleep(w) : sys.stat[t] = "SUSPEND"
    BY <1>2 DEF Asleep, KernelOK, WaitListsOK
  <2> QED BY <2>1, <2>2
<1>5. /\ pc \in [Thread -> SerialPC] /\ value \in [Thread -> Data] /\ tx_dma \in TxRecord
      /\ rx_fifo \in RxRecord /\ reg \in RegRecord /\ path \in {"dma", "int", "rx"}
  BY <1>1 DEF SerialTypeOK, SerialPC, TxRecord, RxRecord, RegRecord
<1>6. "push" \in WaitList /\ "done" \in WaitList /\ "rx" \in WaitList /\ Shell \in Thread
  BY SerialAssumption
<1> QED BY <1>1, <1>3, <1>4, <1>5, <1>6, KernelAssumption

-----------------------------------------------------------------------------
(* What a step does to the threads *)

Threads == Base(sys) /\ SerialCurrent /\ SerialWaits

\* A thread that is not about to leave the processor can run and waits nowhere.
LEMMA SerialCaller ==
  ASSUME SerialInv, NEW c \in Thread, sys.cur = c, pc[c] \notin {"push", "wait", "take"}
  PROVE  sys.cur # NoThread /\ sys.stat[c] = "READY" /\ \A w \in WaitList : c \notin Asleep(w)
<1>1. sys.cur # NoThread /\ sys.stat[c] = "READY" BY SerialFacts DEF SerialInv, SerialCurrent
<1> QED BY <1>1, SerialFacts

\* What may happen to pc when c goes on at l.
LEMMA SerialGoto ==
  ASSUME SerialInv, NEW c \in Thread, NEW l \in SerialPC, Goto(c, l)
  PROVE  /\ pc'[c] = l /\ \A t \in Thread \ {c} : pc'[t] = pc[t]
         /\ pc' \in [Thread -> SerialPC]
BY SerialFacts DEF Goto

\* A place for c: the shell takes and reads, writers write.
Belongs(c, l) == /\ l \in SerialPC /\ (l \in {"take", "took"} => c = Shell)
                 /\ l \notin {"run", "take", "took"} => c \in Writer
                 /\ Fits(l)

\* c goes on at l and stays on the processor.
LEMMA SerialStep ==
  ASSUME SerialInv, NEW c \in Thread, sys.cur = c, pc[c] \notin {"push", "wait", "take"},
         NEW l, Belongs(c, l), Goto(c, l), sys' = sys, path' = path
  PROVE  /\ Threads' /\ pc'[c] = l /\ \A t \in Thread \ {c} : pc'[t] = pc[t]
         /\ pc' \in [Thread -> SerialPC]
         /\ \A w \in WaitList : Asleep(w)' = Asleep(w) /\ c \notin Asleep(w)
<1>1. sys.cur # NoThread /\ sys.stat[c] = "READY" /\ \A w \in WaitList : c \notin Asleep(w)
  BY SerialCaller
<1>2. /\ pc'[c] = l /\ \A t \in Thread \ {c} : pc'[t] = pc[t]
      /\ pc' \in [Thread -> SerialPC]
  BY SerialGoto DEF Belongs
<1>3. Base(sys') BY SerialFacts
<1>4. \A w \in WaitList : Asleep(w)' = Asleep(w) BY DEF Asleep
<1>5. SerialCurrent' BY <1>1 DEF SerialCurrent
<1>6. \A w \in WaitList : \A t \in Asleep(w) : t \in Thread \ {c} BY <1>1, SerialFacts
<1>7. SerialWaits' BY <1>2, <1>4, <1>6, SerialFacts DEF SerialInv, SerialWaits, Belongs, Fits
<1> QED BY <1>1, <1>2, <1>3, <1>4, <1>5, <1>7 DEF Threads

\* c begins to wait on w at l.
LEMMA SerialBlock ==
  ASSUME SerialInv, NEW c \in Thread \ {Idle}, sys.cur = c, pc[c] \notin {"push", "wait", "take"},
         NEW w, NEW l, <<w, l>> \in {<<"push", "push">>, <<"done", "wait">>, <<"rx", "take">>},
         Belongs(c, l), Goto(c, l), sys' = WaitOn(sys, w, c, "FIFO", "forever"), path' = path
  PROVE  /\ Threads' /\ pc'[c] = l /\ \A t \in Thread \ {c} : pc'[t] = pc[t]
         /\ pc' \in [Thread -> SerialPC] /\ Asleep(w)' = Asleep(w) \cup {c}
         /\ \A v \in WaitList \ {w} : Asleep(v)' = Asleep(v)
<1>1. sys.cur # NoThread /\ sys.stat[c] = "READY" /\ \A v \in WaitList : c \notin Asleep(v)
  BY SerialCaller
<1>2. /\ pc'[c] = l /\ \A t \in Thread \ {c} : pc'[t] = pc[t]
      /\ pc' \in [Thread -> SerialPC]
  BY SerialGoto DEF Belongs
<1>3. w \in WaitList BY SerialFacts
<1>4. Base(sys') /\ Queued(sys, sys', w, c, "forever")
  BY <1>1, <1>3, SerialFacts, WaitBase
<1>5. /\ sys'.timer = {} /\ sys'.cur = c
      /\ \A v \in WaitList : Asleep(v)' = Asleep(v) \cup (IF v = w THEN {c} ELSE {})
  BY <1>4 DEF Queued, Asleep, SerialInv, SerialWaits
<1>6. SerialCurrent' BY <1>2, <1>5, SerialFacts DEF SerialCurrent
<1>7. \A v \in WaitList : \A t \in Asleep(v) : t \in Thread \ {c} BY <1>1, SerialFacts
<1>8. SerialWaits' BY <1>2, <1>5, <1>7, SerialFacts DEF SerialInv, SerialWaits, Belongs, Fits
<1> QED BY <1>2, <1>3, <1>4, <1>5, <1>6, <1>8 DEF Threads

\* A handler wakes the first thread of w, or nobody.
LEMMA SerialWake ==
  ASSUME SerialInv, sys.cur # NoThread, NEW w \in WaitList, NEW wake \in BOOLEAN,
         wake => sys.wait[w] # <<>>, pc' = pc, path' = path,
         sys' = IF wake THEN rt_schedule(rt_ipc_list_resume(sys, w)) ELSE sys
  PROVE  /\ Threads'
         /\ \/ ~wake /\ \A v \in WaitList : Asleep(v)' = Asleep(v)
            \/ wake /\ \E t \in Asleep(w) :
                         /\ sys'.stat[t] = "READY"
                         /\ \A v \in WaitList : Asleep(v)' = Asleep(v) \ {t}
<1>1. CASE ~wake
  <2>1. sys' = sys BY <1>1
  <2> QED BY <1>1, <2>1 DEF SerialInv, Threads, SerialCurrent, SerialWaits, Asleep, Fits
<1>2. CASE wake
  <2>1. PICK k : k = rt_ipc_list_resume(sys, w) OBVIOUS
  <2>2. PICK t : Resumed(sys, k, w, t) BY <1>2, <2>1, SerialFacts, ListResumeBase
  <2>3. sys' = rt_schedule(k) /\ Base(k) /\ k.cur # NoThread BY <1>2, <2>1, <2>2 DEF Resumed
  <2>4. /\ Base(sys') /\ sys'.timer = k.timer /\ sys'.wait = k.wait /\ sys'.stat = k.stat
        /\ sys'.cur # NoThread /\ sys'.stat[sys'.cur] = "READY"
    BY <2>3, DispatchBase
  <2>5. t \in Asleep(w) /\ sys'.stat[t] = "READY" /\ \A v \in WaitList : Asleep(v)' = Asleep(v) \ {t}
    BY <2>2, <2>4, SerialFacts DEF Resumed, Asleep
  <2>6. sys'.timer = {} BY <2>2, <2>4 DEF Resumed, SerialInv, SerialWaits
  <2>7. SerialCurrent' BY <2>4 DEF SerialCurrent
  <2>8. SerialWaits' BY <2>5, <2>6, SerialFacts DEF SerialInv, SerialWaits, Fits
  <2> QED BY <1>2, <2>4, <2>5, <2>7, <2>8 DEF Threads
<1> QED BY <1>1, <1>2

-----------------------------------------------------------------------------
(* What is left alone *)

LEMMA ChannelKept ==
  ASSUME SerialInv, tx_dma' = tx_dma, Asleep("push")' = Asleep("push"),
         \A t \in Thread : pc[t] \in {"pushed", "kick"} => pc'[t] = pc[t],
         Asleep("push") = {} \/ sys'.stat = sys.stat
  PROVE  Channel'
BY DEF SerialInv, Channel, Unwrapped, Awake

LEMMA RegisterKept ==
  ASSUME SerialInv, reg' = reg, Asleep("done")' = Asleep("done"),
         \A t \in Thread : /\ pc'[t] = "full" => pc[t] = "full"
                           /\ pc[t] = "putc" => pc'[t] = "putc"
  PROVE  Register'
BY DEF SerialInv, Register, Filling

\* Threads wait for what is written on the path of the behaviour only.
LEMMA OnThePath ==
  ASSUME SerialInv
  PROVE  /\ path # "dma" => Asleep("push") = {}
         /\ path # "int" => Asleep("done") = {}
         /\ path # "rx" => Asleep("rx") = {}
BY SerialFacts DEF SerialInv, SerialWaits, Fits

LEMMA ReaderKept ==
  ASSUME SerialInv, rx_fifo' = rx_fifo, Asleep("rx")' = Asleep("rx"),
         pc'[Shell] \in {"take", "took"} <=> pc[Shell] \in {"take", "took"}
  PROVE  Reader'
BY DEF SerialInv, Reader

\* Types of what a step leaves alone or sets.
LEMMA SerialTyped ==
  ASSUME SerialInv, Base(sys'), pc' \in [Thread -> SerialPC], path' = path,
         value' \in [Thread -> Data], tx_dma' \in TxRecord, rx_fifo' \in RxRecord,
         reg' \in RegRecord
  PROVE  SerialTypeOK'
BY DEF SerialInv, SerialTypeOK, Base, Sound, SerialPC, TxRecord, RxRecord, RegRecord

-----------------------------------------------------------------------------
(* Start-up, the tick and rt_schedule *)

LEMMA SerialBootOK ==
  ASSUME SerialInv, Boot, UNCHANGED <<path, value, tx_dma, reg, rx_fifo>>
  PROVE  SerialInv'
<1>1. /\ Base(sys') /\ pc' = pc /\ sys.cur = NoThread
      /\ sys'.timer = sys.timer /\ sys'.wait = sys.wait
      /\ \/ sys'.cur # NoThread /\ sys'.stat = sys.stat /\ sys'.stat[sys'.cur] = "READY"
         \/ sys'.cur = NoThread
  BY BootBase DEF SerialInv
<1>2. \A t \in Thread : pc[t] = "run" BY <1>1 DEF SerialInv, SerialCurrent
<1>3. SerialCurrent' BY <1>1, <1>2 DEF SerialCurrent
<1>4. \A w \in WaitList : Asleep(w)' = Asleep(w) BY <1>1 DEF Asleep
<1>5. SerialWaits' BY <1>1, <1>4, SerialFacts DEF SerialInv, SerialWaits, Fits
<1>6. SerialTypeOK' BY <1>1, SerialFacts, SerialTyped
<1>7. Asleep("push") = {} BY <1>2, SerialFacts DEF SerialInv, SerialWaits
<1>8. Channel' /\ Register' /\ Reader'
  BY <1>1, <1>4, <1>7, SerialFacts, ChannelKept, RegisterKept, ReaderKept
<1> QED BY <1>1, <1>3, <1>5, <1>6, <1>8 DEF SerialInv

LEMMA SerialTickOK ==
  ASSUME SerialInv, Tick, UNCHANGED <<path, value, tx_dma, reg, rx_fifo>>
  PROVE  SerialInv'
<1>1. /\ Base(sys') /\ pc' = pc /\ sys.cur # NoThread /\ sys'.cur # NoThread
      /\ \/ sys' = sys
         \/ Same(sys, sys') /\ sys'.stat[sys'.cur] = "READY"
         \/ \E t \in Thread : Expired(sys, sys', t) /\ sys'.stat[sys'.cur] = "READY"
  BY TickBase DEF SerialInv
<1>2. \A t \in Thread : ~Expired(sys, sys', t) BY DEF Expired, SerialInv, SerialWaits
<1>3. /\ sys'.timer = sys.timer /\ sys'.wait = sys.wait /\ sys'.stat = sys.stat
      /\ sys' = sys \/ sys'.stat[sys'.cur] = "READY"
  BY <1>1, <1>2 DEF Same
<1>4. SerialCurrent' BY <1>1, <1>3 DEF SerialInv, SerialCurrent
<1>5. \A w \in WaitList : Asleep(w)' = Asleep(w) BY <1>3 DEF Asleep
<1>6. SerialWaits' BY <1>1, <1>3, <1>5, SerialFacts DEF SerialInv, SerialWaits, Fits
<1>7. SerialTypeOK' BY <1>1, SerialFacts, SerialTyped
<1>8. Channel' /\ Register' /\ Reader'
  BY <1>1, <1>3, <1>5, SerialFacts, ChannelKept, RegisterKept, ReaderKept
<1> QED BY <1>1, <1>4, <1>6, <1>7, <1>8 DEF SerialInv

LEMMA SerialScheduleOK ==
  ASSUME SerialInv, NEW c \in Thread, SerialSchedule(c)
  PROVE  SerialInv'
<1>1. PICK a, l : /\ <<a, l>> \in {<<"push", "back">>, <<"wait", "woken">>, <<"take", "took">>}
                  /\ Schedule(c, a, l) /\ UNCHANGED <<path, value, tx_dma, reg, rx_fifo>>
  BY DEF SerialSchedule
<1>2. /\ sys.cur = c /\ pc[c] = a /\ sys' = rt_schedule(sys) /\ Goto(c, l) /\ l \in SerialPC
      /\ (a = "push" /\ l = "back") \/ (a = "wait" /\ l = "woken") \/ (a = "take" /\ l = "took")
  BY <1>1 DEF Schedule, At, SerialPC
<1>3. sys.cur # NoThread BY <1>2, SerialFacts
<1>4. /\ Base(sys') /\ sys'.timer = sys.timer /\ sys'.wait = sys.wait /\ sys'.stat = sys.stat
      /\ sys'.cur # NoThread /\ sys'.stat[sys'.cur] = "READY"
  BY <1>2, <1>3, SerialFacts, DispatchBase
<1>5. /\ pc'[c] = l /\ \A t \in Thread \ {c} : pc'[t] = pc[t]
      /\ pc' \in [Thread -> SerialPC]
  BY <1>2, SerialGoto
<1>6. SerialCurrent' BY <1>4 DEF SerialCurrent
<1>7. \A w \in WaitList : Asleep(w)' = Asleep(w) BY <1>4 DEF Asleep
<1>8. SerialWaits'
  BY <1>1, <1>2, <1>4, <1>5, <1>7, SerialFacts DEF SerialInv, SerialWaits, Fits
<1>9. SerialTypeOK' BY <1>1, <1>4, <1>5, SerialFacts, SerialTyped
<1>10. Channel' BY <1>1, <1>2, <1>4, <1>5, <1>7, SerialFacts, ChannelKept
<1>11. Register' BY <1>1, <1>2, <1>5, <1>7, SerialFacts, RegisterKept
<1>12. Reader' BY <1>1, <1>2, <1>5, <1>7, SerialFacts, ReaderKept
<1> QED BY <1>4, <1>6, <1>8, <1>9, <1>10, <1>11, <1>12 DEF SerialInv

-----------------------------------------------------------------------------
(* Writing by DMA *)

\* An index moves on, and wraps.
LEMMA NextIndex ==
  ASSUME NEW i \in 0 .. IndexWrap - 1
  PROVE  /\ (i + 1) % IndexWrap \in 0 .. IndexWrap - 1
         /\ i + 1 < IndexWrap => (i + 1) % IndexWrap = i + 1
<1>1. PICK x \in Int : x = i + 1 OBVIOUS
<1>2. i \in Int /\ IndexWrap \in Nat /\ IndexWrap > 0 BY SerialNumbers
<1>3. x % IndexWrap \in 0 .. IndexWrap - 1 BY <1>2, Offsets
<1>4. ASSUME i + 1 < IndexWrap PROVE x % IndexWrap = x
  <2>1. x \in 0 .. IndexWrap - 1 BY <1>1, <1>2, <1>4
  <2> QED BY <1>2, <2>1, Offsets
<1> QED BY <1>1, <1>3, <1>4

\* An item is put.
LEMMA PutQueue ==
  ASSUME NEW q \in TxRecord, NEW d \in Data, NEW r, r = Put(q, d)
  PROVE  /\ r \in TxRecord /\ r.pushes = q.pushes + 1 /\ r.get = q.get
         /\ r.waiting_lwm = q.waiting_lwm /\ r.activated = q.activated /\ r.dma = q.dma
         /\ q.put + 1 < IndexWrap => r.put = q.put + 1
<1>1. q.put \in 0 .. IndexWrap - 1 /\ q.pushes \in Nat BY DEF TxRecord
<1>2. PICK n : n = (q.put + 1) % IndexWrap OBVIOUS
<1>3. n \in 0 .. IndexWrap - 1 /\ (q.put + 1 < IndexWrap => n = q.put + 1)
  BY <1>1, <1>2, NextIndex
<1>4. PICK p : p = q.put % Size OBVIOUS
<1>5. /\ r = [q EXCEPT !.item = [q.item EXCEPT ![p] = d], !.put = n,
                       !.pushes = q.pushes + 1]
  BY <1>2, <1>4 DEF Put
<1>6. [q.item EXCEPT ![p] = d] \in [0 .. Size - 1 -> Data] BY DEF TxRecord
<1>7. q.pushes + 1 \in Nat BY <1>1
<1> QED BY <1>3, <1>5, <1>6, <1>7 DEF TxRecord

\* An item is taken, if there is one.
LEMMA PopQueue ==
  ASSUME NEW q \in TxRecord, NEW r, r = Pop(q)
  PROVE  /\ r \in TxRecord /\ r.put = q.put /\ r.pushes = q.pushes
         /\ r.waiting_lwm = q.waiting_lwm
         /\ q.get = q.put => r.get = q.get
         /\ q.get < q.put => r.get = q.get + 1
<1>1. q.put \in 0 .. IndexWrap - 1 /\ q.get \in 0 .. IndexWrap - 1 BY DEF TxRecord
<1>2. PICK n : n = (q.get + 1) % IndexWrap OBVIOUS
<1>3. n \in 0 .. IndexWrap - 1 /\ (q.get + 1 < IndexWrap => n = q.get + 1)
  BY <1>1, <1>2, NextIndex
<1>4. CASE q.get = q.put
  <2>1. r = q BY <1>4 DEF Pop
  <2> QED BY <1>1, <1>4, <2>1
<1>5. CASE q.get # q.put
  <2>1. r = [q EXCEPT !.get = n] BY <1>2, <1>5 DEF Pop
  <2>2. q.get < q.put => q.get + 1 < IndexWrap BY <1>1, SerialNumbers
  <2> QED BY <1>3, <1>5, <2>1, <2>2 DEF TxRecord
<1> QED BY <1>4, <1>5

\* The next item goes to the channel, or the channel rests.
LEMMA FeedQueue ==
  ASSUME NEW q \in TxRecord, NEW r, r = Feed(q)
  PROVE  /\ r \in TxRecord /\ r.put = q.put /\ r.get = q.get /\ r.pushes = q.pushes
         /\ r.waiting_lwm = q.waiting_lwm /\ r.activated = (q.get # q.put)
         /\ r.activated => r.dma # Nothing
<1>1. CASE q.get # q.put
  <2>1. PICK d : d = q.item[q.get % Size] OBVIOUS
  <2>2. d \in Data
    <3>1. q.get \in Int /\ Size \in Nat /\ Size > 0 BY SerialNumbers DEF TxRecord
    <3>2. q.get % Size \in 0 .. Size - 1 BY <3>1
    <3> QED BY <2>1, <3>2 DEF TxRecord
  <2>3. r = [q EXCEPT !.activated = TRUE, !.dma = d] BY <1>1, <2>1 DEF Feed
  <2> QED BY <1>1, <2>2, <2>3, SerialNumbers DEF TxRecord
<1>2. CASE q.get = q.put
  <2>1. r = [q EXCEPT !.activated = FALSE, !.dma = Nothing] BY <1>2 DEF Feed
  <2> QED BY <1>2, <2>1 DEF TxRecord
<1> QED BY <1>1, <1>2

\* rt_data_queue_push, from its beginning or after a wait.
LEMMA SerialPushOK ==
  ASSUME SerialInv, NEW c \in Writer, NEW d \in Data, sys.cur = c, path = "dma",
         pc[c] \in {"run", "back"}, Push(c, d)
  PROVE  SerialInv'
<1>1. /\ value' = [value EXCEPT ![c] = d] /\ UNCHANGED <<path, reg, rx_fifo>>
      /\ c \in Thread \ {Idle}
  BY SerialAssumption DEF Push
<1>2. value' \in [Thread -> Data] BY <1>1, SerialFacts
<1>3. Belongs(c, "push") /\ Belongs(c, "pushed") BY DEF Belongs, SerialPC, Fits
<1>4. /\ tx_dma.put \in Nat /\ tx_dma.get \in Nat /\ Size \in Nat /\ Size > 0
      /\ tx_dma.pushes \in Nat /\ IndexWrap \in Nat
  BY SerialFacts, SerialNumbers DEF TxRecord
<1>5. Unwrapped BY DEF SerialInv, Channel
<1>6. CASE /\ Count(tx_dma) = Size
           /\ tx_dma' = [tx_dma EXCEPT !.waiting_lwm = TRUE]
           /\ sys' = WaitOn(sys, "push", c, "FIFO", "forever")
           /\ Goto(c, "push")
  <2>1. /\ Threads' /\ pc'[c] = "push" /\ \A t \in Thread \ {c} : pc'[t] = pc[t]
        /\ pc' \in [Thread -> SerialPC] /\ Asleep("push")' = Asleep("push") \cup {c}
        /\ \A v \in WaitList \ {"push"} : Asleep(v)' = Asleep(v)
    BY <1>1, <1>3, <1>6, SerialBlock
  <2>2. /\ tx_dma' \in TxRecord /\ tx_dma'.waiting_lwm = TRUE
        /\ tx_dma'.put = tx_dma.put /\ tx_dma'.get = tx_dma.get /\ tx_dma'.pushes = tx_dma.pushes
        /\ tx_dma'.activated = tx_dma.activated /\ tx_dma'.dma = tx_dma.dma
    BY <1>6, SerialFacts DEF TxRecord
  <2>3. SerialTypeOK' BY <1>1, <1>2, <2>1, <2>2, SerialFacts, SerialTyped DEF Threads
  <2>4. tx_dma.get # tx_dma.put BY <1>4, <1>6 DEF Count
  <2>5. Unwrapped' BY <1>5, <2>2, <2>4 DEF Unwrapped
  <2>6. \A t \in Thread : pc[t] \in {"pushed", "kick"} => pc'[t] = pc[t] BY <2>1
  <2>7. Channel' BY <2>1, <2>2, <2>5, <2>6 DEF SerialInv, Channel
  <2>8. Register' /\ Reader' BY <1>1, <2>1, SerialFacts, RegisterKept, ReaderKept
  <2> QED BY <2>1, <2>3, <2>7, <2>8 DEF SerialInv, Threads
<1>7. CASE /\ Count(tx_dma) # Size /\ tx_dma' = Put(tx_dma, d) /\ Goto(c, "pushed") /\ UNCHANGED sys
  <2>1. /\ Threads' /\ pc'[c] = "pushed" /\ \A t \in Thread \ {c} : pc'[t] = pc[t]
        /\ pc' \in [Thread -> SerialPC]
        /\ \A w \in WaitList : Asleep(w)' = Asleep(w) /\ c \notin Asleep(w)
    BY <1>1, <1>3, <1>7, SerialStep
  <2>2. /\ tx_dma' \in TxRecord /\ tx_dma'.waiting_lwm = tx_dma.waiting_lwm
        /\ tx_dma'.get = tx_dma.get /\ tx_dma'.pushes = tx_dma.pushes + 1
        /\ tx_dma'.activated = tx_dma.activated /\ tx_dma'.dma = tx_dma.dma
        /\ tx_dma.put + 1 < IndexWrap => tx_dma'.put = tx_dma.put + 1
    <3>1. tx_dma \in TxRecord /\ tx_dma' = Put(tx_dma, d) BY <1>7, SerialFacts
    <3> QED BY <3>1, PutQueue
  <2>3. SerialTypeOK' BY <1>1, <1>2, <2>1, <2>2, SerialFacts, SerialTyped DEF Threads
  <2>4. Unwrapped'
    <3>1. SUFFICES ASSUME tx_dma.pushes + 1 < IndexWrap
                   PROVE  /\ tx_dma'.put = tx_dma'.pushes /\ tx_dma'.get <= tx_dma'.put
                          /\ tx_dma'.put - tx_dma'.get <= Size /\ tx_dma'.get # tx_dma'.put
      BY <2>2 DEF Unwrapped
    <3>2. /\ tx_dma.put = tx_dma.pushes /\ tx_dma.get <= tx_dma.put
          /\ tx_dma.put - tx_dma.get <= Size
      BY <1>4, <1>5, <3>1 DEF Unwrapped
    <3>3. tx_dma'.put = tx_dma.put + 1 BY <2>2, <3>1, <3>2
    <3> QED BY <1>4, <1>7, <2>2, <3>2, <3>3 DEF Count
  <2>5. \A t \in Thread : pc[t] \in {"pushed", "kick"} => pc'[t] = pc[t] BY <2>1
  <2>6. Asleep("push")' = Asleep("push") BY <2>1, SerialFacts
  <2>7. Awake' <=> Awake BY <1>7 DEF Awake
  <2>8. Channel' BY <1>1, <2>1, <2>2, <2>4, <2>5, <2>6, <2>7 DEF SerialInv, Channel
  <2>9. Register' /\ Reader' BY <1>1, <2>1, SerialFacts, RegisterKept, ReaderKept
  <2> QED BY <2>1, <2>3, <2>8, <2>9 DEF SerialInv, Threads
<1> QED BY <1>6, <1>7 DEF Push

LEMMA SerialDmaTxOK ==
  ASSUME SerialInv, NEW c \in Thread, NEW d \in Data, _serial_dma_tx(c, d)
  PROVE  SerialInv'
<1>1. /\ c \in Writer /\ sys.cur = c /\ pc[c] = "run" /\ path = "dma" /\ Push(c, d)
  BY DEF _serial_dma_tx, Running, At
<1> QED BY <1>1, SerialPushOK

LEMMA SerialPushAgainOK ==
  ASSUME SerialInv, NEW c \in Thread, PushAgain(c)
  PROVE  SerialInv'
<1>1. sys.cur = c /\ pc[c] = "back" /\ Push(c, value[c]) BY DEF PushAgain, At
<1>2. c \in Writer /\ path = "dma" BY <1>1 DEF SerialInv, SerialWaits, Fits
<1>3. value[c] \in Data BY SerialFacts
<1> QED BY <1>1, <1>2, <1>3, SerialPushOK

LEMMA SerialActivateOK ==
  ASSUME SerialInv, NEW c \in Thread, Activate(c)
  PROVE  SerialInv'
<1>1. PICK l : l = IF tx_dma.activated THEN "run" ELSE "kick" OBVIOUS
<1>2. /\ sys.cur = c /\ pc[c] = "pushed" /\ tx_dma' = [tx_dma EXCEPT !.activated = TRUE]
      /\ Goto(c, l) /\ UNCHANGED <<sys, path, value, reg, rx_fifo>>
  BY <1>1 DEF Activate, At
<1>3. Belongs(c, l) BY <1>1, <1>2 DEF Belongs, SerialPC, SerialInv, SerialWaits, Fits
<1>4. /\ Threads' /\ pc'[c] = l /\ \A t \in Thread \ {c} : pc'[t] = pc[t]
      /\ pc' \in [Thread -> SerialPC]
      /\ \A w \in WaitList : Asleep(w)' = Asleep(w) /\ c \notin Asleep(w)
  BY <1>2, <1>3, SerialStep
<1>5. /\ tx_dma' \in TxRecord /\ tx_dma'.waiting_lwm = tx_dma.waiting_lwm
      /\ tx_dma'.put = tx_dma.put /\ tx_dma'.get = tx_dma.get /\ tx_dma'.pushes = tx_dma.pushes
      /\ tx_dma'.activated = TRUE /\ tx_dma'.dma = tx_dma.dma
  BY <1>2, SerialFacts DEF TxRecord
<1>6. SerialTypeOK' BY <1>2, <1>4, <1>5, SerialFacts, SerialTyped DEF Threads
<1>7. Asleep("push")' = Asleep("push") BY <1>4, SerialFacts
<1>8. tx_dma'.dma # Nothing \/ \E t \in Thread : pc'[t] = "kick"
  <2>1. CASE tx_dma.activated
    <3>1. tx_dma.dma # Nothing \/ \E t \in Thread : pc[t] = "kick" BY <2>1 DEF SerialInv, Channel
    <3> QED BY <1>2, <1>4, <1>5, <3>1
  <2>2. CASE ~tx_dma.activated BY <1>1, <1>4, <2>2
  <2> QED BY <2>1, <2>2
<1>9. (Awake' <=> Awake) /\ Unwrapped' BY <1>2, <1>5 DEF Awake, Unwrapped, SerialInv, Channel
<1>10. Channel' BY <1>5, <1>7, <1>8, <1>9 DEF SerialInv, Channel
<1>11. Register' /\ Reader' BY <1>1, <1>2, <1>4, SerialFacts, RegisterKept, ReaderKept
<1> QED BY <1>4, <1>6, <1>10, <1>11 DEF SerialInv, Threads

LEMMA SerialKickOK ==
  ASSUME SerialInv, NEW c \in Thread, Kick(c)
  PROVE  SerialInv'
<1>1. /\ sys.cur = c /\ pc[c] = "kick" /\ tx_dma' = [tx_dma EXCEPT !.dma = value[c]]
      /\ Goto(c, "run") /\ UNCHANGED <<sys, path, value, reg, rx_fifo>>
  BY DEF Kick, At
<1>2. Belongs(c, "run") BY DEF Belongs, SerialPC, Fits
<1>3. /\ Threads' /\ pc'[c] = "run" /\ \A t \in Thread \ {c} : pc'[t] = pc[t]
      /\ pc' \in [Thread -> SerialPC]
      /\ \A w \in WaitList : Asleep(w)' = Asleep(w) /\ c \notin Asleep(w)
  BY <1>1, <1>2, SerialStep
<1>4. value[c] \in Data BY SerialFacts
<1>5. /\ tx_dma' \in TxRecord /\ tx_dma'.waiting_lwm = tx_dma.waiting_lwm
      /\ tx_dma'.put = tx_dma.put /\ tx_dma'.get = tx_dma.get /\ tx_dma'.pushes = tx_dma.pushes
      /\ tx_dma'.activated = tx_dma.activated /\ tx_dma'.dma # Nothing
  BY <1>1, <1>4, SerialFacts, SerialNumbers DEF TxRecord
<1>6. SerialTypeOK' BY <1>1, <1>3, <1>5, SerialFacts, SerialTyped DEF Threads
<1>7. Asleep("push")' = Asleep("push") BY <1>3, SerialFacts
<1>8. \A t \in Thread : pc[t] = "pushed" => pc'[t] = "pushed" BY <1>1, <1>3
<1>9. (Awake' <=> Awake) /\ Unwrapped' BY <1>1, <1>5 DEF Awake, Unwrapped, SerialInv, Channel
<1>10. Channel' BY <1>5, <1>7, <1>8, <1>9 DEF SerialInv, Channel
<1>11. Register' /\ Reader' BY <1>1, <1>3, SerialFacts, RegisterKept, ReaderKept
<1> QED BY <1>3, <1>6, <1>10, <1>11 DEF SerialInv, Threads

\* The end of a transfer: the first pusher is woken at the mark, and the
\* channel goes on as long as there are items.
LEMMA SerialDmaDoneOK ==
  ASSUME SerialInv, DmaDone
  PROVE  SerialInv'
<1>1. PICK wake \in BOOLEAN : wake = (AtMark(tx_dma) /\ sys.wait["push"] # <<>>) OBVIOUS
<1>2. /\ sys.cur # NoThread /\ pc' = pc /\ UNCHANGED <<path, value, reg, rx_fifo>>
      /\ sys' = IF wake THEN rt_schedule(rt_ipc_list_resume(sys, "push")) ELSE sys
      /\ tx_dma' = Feed([Pop(tx_dma) EXCEPT !.waiting_lwm = @ /\ ~AtMark(tx_dma)])
  BY <1>1 DEF DmaDone, WakePusher
<1>3. /\ Threads'
      /\ \/ ~wake /\ \A v \in WaitList : Asleep(v)' = Asleep(v)
         \/ wake /\ \E t \in Asleep("push") :
                      /\ sys'.stat[t] = "READY"
                      /\ \A v \in WaitList : Asleep(v)' = Asleep(v) \ {t}
  BY <1>1, <1>2, SerialFacts, SerialWake
<1>4. /\ tx_dma.put \in Nat /\ tx_dma.get \in Nat /\ Size \in Nat /\ Lwm \in Nat
      /\ tx_dma.pushes \in Nat /\ IndexWrap \in Nat
      /\ tx_dma \in TxRecord /\ tx_dma.waiting_lwm \in BOOLEAN /\ Unwrapped
  BY SerialFacts, SerialNumbers DEF TxRecord, SerialInv, Channel
<1>5. /\ tx_dma.waiting_lwm => Asleep("push") # {}
      /\ sys.wait["push"] = <<>> <=> Asleep("push") = {}
  BY SerialFacts DEF SerialInv, Channel
<1>6. wake <=> AtMark(tx_dma) BY <1>1, <1>5 DEF AtMark
<1>7. PICK m \in BOOLEAN : m = (tx_dma.waiting_lwm /\ ~wake) OBVIOUS
<1>8. PICK p : p = Pop(tx_dma) OBVIOUS
<1>9. PICK q : q = [p EXCEPT !.waiting_lwm = m] OBVIOUS
<1>10. /\ p \in TxRecord /\ p.put = tx_dma.put /\ p.pushes = tx_dma.pushes
       /\ p.waiting_lwm = tx_dma.waiting_lwm
       /\ tx_dma.get = tx_dma.put => p.get = tx_dma.get
       /\ tx_dma.get < tx_dma.put => p.get = tx_dma.get + 1
  BY <1>4, <1>8, PopQueue
<1>11. /\ q \in TxRecord /\ q.put = p.put /\ q.pushes = p.pushes /\ q.get = p.get
       /\ q.waiting_lwm = m
  BY <1>9, <1>10 DEF TxRecord
<1>12. tx_dma' = Feed(q)
  <2>1. q = [p EXCEPT !.waiting_lwm = @ /\ ~AtMark(tx_dma)] BY <1>6, <1>7, <1>9, <1>10
  <2> QED BY <1>2, <1>8, <2>1
<1>13. /\ tx_dma' \in TxRecord /\ tx_dma'.put = q.put /\ tx_dma'.get = q.get
       /\ tx_dma'.pushes = q.pushes /\ tx_dma'.waiting_lwm = m
       /\ tx_dma'.activated = (q.get # q.put) /\ (tx_dma'.activated => tx_dma'.dma # Nothing)
  BY <1>11, <1>12, FeedQueue
<1>14. SerialTypeOK' BY <1>2, <1>3, <1>13, SerialFacts, SerialTyped DEF Threads
<1>15. Unwrapped'
  <2>1. SUFFICES ASSUME tx_dma.pushes < IndexWrap
                 PROVE  /\ q.put = q.pushes /\ q.get <= q.put /\ q.put - q.get <= Size
                        /\ m => q.get # q.put
    BY <1>10, <1>11, <1>13 DEF Unwrapped
  <2>2. /\ tx_dma.put = tx_dma.pushes /\ tx_dma.get <= tx_dma.put
        /\ tx_dma.put - tx_dma.get <= Size
        /\ tx_dma.waiting_lwm => tx_dma.get # tx_dma.put
    BY <1>4, <2>1 DEF Unwrapped
  <2>3. ASSUME m PROVE q.get # q.put
    <3>1. tx_dma.waiting_lwm /\ ~AtMark(tx_dma) /\ tx_dma.get # tx_dma.put
      BY <1>6, <1>7, <2>2, <2>3
    <3>2. ~(p.put - p.get <= Lwm) BY <1>8, <3>1 DEF AtMark, Count
    <3> QED BY <1>4, <1>10, <1>11, <2>2, <3>1, <3>2
  <2>4. q.put = q.pushes /\ q.get <= q.put /\ q.put - q.get <= Size
    BY <1>4, <1>10, <1>11, <2>2
  <2> QED BY <2>3, <2>4
<1>16. m => Asleep("push")' # {} BY <1>3, <1>5, <1>7, SerialFacts
<1>17. Asleep("push")' # {} => m \/ Awake'
  <2>1. CASE ~wake
    <3>1. sys' = sys /\ Asleep("push")' = Asleep("push") BY <1>2, <1>3, <2>1, SerialFacts
    <3>2. m = tx_dma.waiting_lwm BY <1>4, <1>7, <2>1
    <3> QED BY <3>1, <3>2 DEF SerialInv, Channel, Awake
  <2>2. CASE wake
    <3>1. PICK t \in Asleep("push") : sys'.stat[t] = "READY" BY <1>3, <2>2
    <3>2. t \in Writer BY <3>1, SerialFacts DEF SerialInv, SerialWaits
    <3> QED BY <3>1, <3>2 DEF Awake
  <2> QED BY <2>1, <2>2
<1>18. Channel' BY <1>13, <1>15, <1>16, <1>17 DEF Channel
<1>19. Asleep("done")' = Asleep("done") /\ Asleep("rx")' = Asleep("rx")
  <2>1. \A t \in Asleep("push") : t \notin Asleep("done") /\ t \notin Asleep("rx")
    BY DEF SerialInv, SerialWaits
  <2>2. CASE ~wake BY <1>3, <2>2, SerialFacts
  <2>3. CASE wake
    <3>1. PICK t \in Asleep("push") : \A v \in WaitList : Asleep(v)' = Asleep(v) \ {t}
      BY <1>3, <2>3
    <3>2. /\ Asleep("done")' = Asleep("done") \ {t} /\ Asleep("rx")' = Asleep("rx") \ {t}
      BY <3>1, SerialFacts
    <3>3. t \notin Asleep("done") /\ t \notin Asleep("rx") BY <2>1, <3>1
    <3> QED BY <3>2, <3>3
  <2> QED BY <2>2, <2>3
<1>20. Register' /\ Reader' BY <1>2, <1>19, RegisterKept, ReaderKept
<1> QED BY <1>3, <1>14, <1>18, <1>20 DEF SerialInv, Threads

-----------------------------------------------------------------------------
(* Writing by interrupt *)

LEMMA SerialIntTxOK ==
  ASSUME SerialInv, NEW c \in Thread, _serial_int_tx(c)
  PROVE  SerialInv'
<1>1. /\ c \in Writer /\ sys.cur = c /\ pc[c] = "run" /\ Goto(c, "putc") /\ path = "int"
      /\ UNCHANGED <<sys, path, value, tx_dma, reg, rx_fifo>>
  BY DEF _serial_int_tx, Running, At
<1>2. Belongs(c, "putc") BY <1>1 DEF Belongs, SerialPC, Fits
<1>3. /\ Threads' /\ pc'[c] = "putc" /\ \A t \in Thread \ {c} : pc'[t] = pc[t]
      /\ pc' \in [Thread -> SerialPC]
      /\ \A w \in WaitList : Asleep(w)' = Asleep(w) /\ c \notin Asleep(w)
  BY <1>1, <1>2, SerialStep
<1>4. SerialTypeOK' BY <1>1, <1>3, SerialFacts, SerialTyped DEF Threads
<1>5. Channel' BY <1>1, <1>3, SerialFacts, ChannelKept
<1>6. Register' /\ Reader' BY <1>1, <1>3, SerialFacts, RegisterKept, ReaderKept
<1> QED BY <1>3, <1>4, <1>5, <1>6 DEF SerialInv, Threads

LEMMA SerialPutcOK ==
  ASSUME SerialInv, NEW c \in Thread, Putc(c)
  PROVE  SerialInv'
<1>1. PICK l : l = IF reg.full THEN "full" ELSE "run" OBVIOUS
<1>2. /\ sys.cur = c /\ pc[c] = "putc" /\ reg' = [reg EXCEPT !.full = TRUE] /\ Goto(c, l)
      /\ UNCHANGED <<sys, path, value, tx_dma, rx_fifo>>
  BY <1>1 DEF Putc, At
<1>3. Belongs(c, l) BY <1>1, <1>2 DEF Belongs, SerialPC, SerialInv, SerialWaits, Fits
<1>4. /\ Threads' /\ pc'[c] = l /\ \A t \in Thread \ {c} : pc'[t] = pc[t]
      /\ pc' \in [Thread -> SerialPC]
      /\ \A w \in WaitList : Asleep(w)' = Asleep(w) /\ c \notin Asleep(w)
  BY <1>2, <1>3, SerialStep
<1>5. reg' \in RegRecord /\ reg'.full = TRUE /\ reg'.flag = reg.flag
  BY <1>2, SerialFacts DEF RegRecord
<1>6. SerialTypeOK' BY <1>2, <1>4, <1>5, SerialFacts, SerialTyped DEF Threads
<1>7. Channel' BY <1>1, <1>2, <1>4, SerialFacts, ChannelKept
<1>8. Asleep("done")' = Asleep("done") BY <1>4, SerialFacts
<1>9. Register' BY <1>5, <1>8 DEF SerialInv, Register
<1>10. Reader' BY <1>1, <1>2, <1>4, SerialFacts, ReaderKept
<1> QED BY <1>4, <1>6, <1>7, <1>9, <1>10 DEF SerialInv, Threads

LEMMA SerialCompletionOK ==
  ASSUME SerialInv, NEW c \in Thread \ {Idle}, rt_completion_wait(c)
  PROVE  SerialInv'
<1>1. /\ sys.cur = c /\ pc[c] = "full" /\ UNCHANGED <<path, value, tx_dma, rx_fifo>>
  BY DEF rt_completion_wait, At
<1>2. c \in Writer /\ path = "int" BY <1>1 DEF SerialInv, SerialWaits, Fits
<1>3. Belongs(c, "putc") /\ Belongs(c, "wait") /\ Belongs(c, "halt")
  BY <1>2 DEF Belongs, SerialPC, Fits
<1>4. Asleep("push") = {} BY <1>2, OnThePath
<1>5. CASE reg.flag /\ reg' = [reg EXCEPT !.flag = FALSE] /\ Goto(c, "putc") /\ UNCHANGED sys
  <2>1. /\ Threads' /\ pc'[c] = "putc" /\ \A t \in Thread \ {c} : pc'[t] = pc[t]
        /\ pc' \in [Thread -> SerialPC]
        /\ \A w \in WaitList : Asleep(w)' = Asleep(w) /\ c \notin Asleep(w)
    BY <1>1, <1>3, <1>5, SerialStep
  <2>2. reg' \in RegRecord /\ reg'.full = reg.full /\ reg'.flag = FALSE
    BY <1>5, SerialFacts DEF RegRecord
  <2>3. SerialTypeOK' BY <1>1, <2>1, <2>2, SerialFacts, SerialTyped DEF Threads
  <2>4. Channel' BY <1>1, <1>4, <2>1, SerialFacts, ChannelKept
  <2>5. Filling' BY <2>1 DEF Filling
  <2>6. Asleep("done")' = {} BY <1>5, <2>1, SerialFacts DEF SerialInv, Register
  <2>7. Register' BY <2>5, <2>6 DEF Register
  <2>8. Reader' BY <1>1, <2>1, SerialFacts, ReaderKept
  <2> QED BY <2>1, <2>3, <2>4, <2>7, <2>8 DEF SerialInv, Threads
<1>6. CASE /\ ~reg.flag /\ sys.wait["done"] = <<>>
           /\ sys' = WaitOn(sys, "done", c, "FIFO", "forever") /\ Goto(c, "wait")
           /\ UNCHANGED reg
  <2>1. /\ Threads' /\ pc'[c] = "wait" /\ \A t \in Thread \ {c} : pc'[t] = pc[t]
        /\ pc' \in [Thread -> SerialPC] /\ Asleep("done")' = Asleep("done") \cup {c}
        /\ \A v \in WaitList \ {"done"} : Asleep(v)' = Asleep(v)
    BY <1>1, <1>3, <1>6, SerialBlock
  <2>2. SerialTypeOK' BY <1>1, <1>6, <2>1, SerialFacts, SerialTyped DEF Threads
  <2>3. Channel' BY <1>1, <1>4, <2>1, SerialFacts, ChannelKept
  <2>4. reg.full \/ Filling BY <1>1, <1>6 DEF SerialInv, Register
  <2>5. Filling => Filling' BY <1>1, <2>1 DEF Filling
  <2>6. Asleep("done")' = {c} BY <1>6, <2>1, SerialFacts
  <2>7. \A t \in Thread : pc'[t] = "full" => pc[t] = "full" BY <2>1
  <2>8. Register' BY <1>6, <2>4, <2>5, <2>6, <2>7 DEF Register, SerialInv
  <2>9. Reader' BY <1>1, <2>1, SerialFacts, ReaderKept
  <2> QED BY <2>1, <2>2, <2>3, <2>8, <2>9 DEF SerialInv, Threads
<1>7. CASE /\ ~reg.flag /\ sys.wait["done"] # <<>> /\ Goto(c, "halt")
           /\ UNCHANGED <<sys, reg>>
  <2>1. /\ Threads' /\ pc'[c] = "halt" /\ \A t \in Thread \ {c} : pc'[t] = pc[t]
        /\ pc' \in [Thread -> SerialPC]
        /\ \A w \in WaitList : Asleep(w)' = Asleep(w) /\ c \notin Asleep(w)
    BY <1>1, <1>3, <1>7, SerialStep
  <2>2. SerialTypeOK' BY <1>1, <1>7, <2>1, SerialFacts, SerialTyped DEF Threads
  <2>3. Channel' BY <1>1, <1>4, <2>1, SerialFacts, ChannelKept
  <2>4. Register' /\ Reader' BY <1>1, <1>7, <2>1, SerialFacts, RegisterKept, ReaderKept
  <2> QED BY <2>1, <2>2, <2>3, <2>4 DEF SerialInv, Threads
<1> QED BY <1>5, <1>6, <1>7 DEF rt_completion_wait

LEMMA SerialWaitReturnOK ==
  ASSUME SerialInv, NEW c \in Thread, WaitReturn(c)
  PROVE  SerialInv'
<1>1. /\ sys.cur = c /\ pc[c] = "woken" /\ reg' = [reg EXCEPT !.flag = FALSE] /\ Goto(c, "putc")
      /\ UNCHANGED <<sys, path, value, tx_dma, rx_fifo>>
  BY DEF WaitReturn, At
<1>2. c \in Writer /\ path = "int" BY <1>1 DEF SerialInv, SerialWaits, Fits
<1>3. Belongs(c, "putc") BY <1>2 DEF Belongs, SerialPC, Fits
<1>4. /\ Threads' /\ pc'[c] = "putc" /\ \A t \in Thread \ {c} : pc'[t] = pc[t]
      /\ pc' \in [Thread -> SerialPC]
      /\ \A w \in WaitList : Asleep(w)' = Asleep(w) /\ c \notin Asleep(w)
  BY <1>1, <1>3, SerialStep
<1>5. reg' \in RegRecord /\ reg'.full = reg.full /\ reg'.flag = FALSE
  BY <1>1, SerialFacts DEF RegRecord
<1>6. SerialTypeOK' BY <1>1, <1>4, <1>5, SerialFacts, SerialTyped DEF Threads
<1>7. Channel' BY <1>1, <1>4, SerialFacts, ChannelKept
<1>8. Filling' BY <1>4 DEF Filling
<1>9. Asleep("done")' = Asleep("done") BY <1>4, SerialFacts
<1>10. Register' BY <1>5, <1>8, <1>9 DEF SerialInv, Register
<1>11. Reader' BY <1>1, <1>4, SerialFacts, ReaderKept
<1> QED BY <1>4, <1>6, <1>7, <1>10, <1>11 DEF SerialInv, Threads

LEMMA SerialTxDoneOK ==
  ASSUME SerialInv, TxDone
  PROVE  SerialInv'
<1>1. PICK wake \in BOOLEAN : wake = (~reg.flag /\ sys.wait["done"] # <<>>) OBVIOUS
<1>2. /\ sys.cur # NoThread /\ pc' = pc /\ UNCHANGED <<path, value, tx_dma, rx_fifo>>
      /\ sys' = IF wake THEN rt_schedule(rt_ipc_list_resume(sys, "done")) ELSE sys
      /\ reg' = [full |-> FALSE, flag |-> TRUE]
  BY <1>1 DEF TxDone
<1>3. /\ Threads'
      /\ \/ ~wake /\ \A v \in WaitList : Asleep(v)' = Asleep(v)
         \/ wake /\ \E t \in Asleep("done") :
                      /\ sys'.stat[t] = "READY"
                      /\ \A v \in WaitList : Asleep(v)' = Asleep(v) \ {t}
  BY <1>1, <1>2, SerialFacts, SerialWake
<1>4. Asleep("done")' = {}
  <2>1. CASE ~wake
    <3>1. Asleep("done")' = Asleep("done") BY <1>3, <2>1, SerialFacts
    <3> QED BY <1>1, <2>1, <3>1, SerialFacts DEF SerialInv, Register
  <2>2. CASE wake
    <3>1. PICK t \in Asleep("done") : Asleep("done")' = Asleep("done") \ {t}
      BY <1>3, <2>2, SerialFacts
    <3> QED BY <3>1 DEF SerialInv, Register
  <2> QED BY <2>1, <2>2
<1>5. Asleep("push")' = Asleep("push") /\ Asleep("rx")' = Asleep("rx")
  <2>1. \A t \in Asleep("done") : t \notin Asleep("push") /\ t \notin Asleep("rx")
    BY DEF SerialInv, SerialWaits
  <2>2. CASE ~wake BY <1>3, <2>2, SerialFacts
  <2>3. CASE wake
    <3>1. PICK t \in Asleep("done") : \A v \in WaitList : Asleep(v)' = Asleep(v) \ {t}
      BY <1>3, <2>3
    <3>2. /\ Asleep("push")' = Asleep("push") \ {t} /\ Asleep("rx")' = Asleep("rx") \ {t}
      BY <3>1, SerialFacts
    <3>3. t \notin Asleep("push") /\ t \notin Asleep("rx") BY <2>1, <3>1
    <3> QED BY <3>2, <3>3
  <2> QED BY <2>2, <2>3
<1>6. reg' \in RegRecord /\ reg'.flag = TRUE BY <1>2 DEF RegRecord
<1>7. SerialTypeOK' BY <1>2, <1>3, <1>6, SerialFacts, SerialTyped DEF Threads
<1>8. Register' BY <1>4, <1>6 DEF Register
<1>9. Asleep("push") = {} \/ sys' = sys
  <2>1. CASE ~wake BY <1>2, <2>1
  <2>2. CASE wake
    <3>1. PICK t \in Asleep("done") : TRUE BY <1>3, <2>2
    <3>2. path # "dma" BY <3>1, OnThePath
    <3> QED BY <3>2, OnThePath
  <2> QED BY <2>1, <2>2
<1>10. Channel' /\ Reader' BY <1>2, <1>5, <1>9, ChannelKept, ReaderKept
<1> QED BY <1>3, <1>7, <1>8, <1>10 DEF SerialInv, Threads

-----------------------------------------------------------------------------
(* Reception *)

\* Each time that the handler indicates a character has arrived before.
Received ==
  /\ rx_fifo \in RxRecord
  /\ rx_fifo.sem + (IF rx_fifo.isr = "rx" \/ rx_fifo.dr # Nothing THEN 1 ELSE 0)
       <= rx_fifo.arrived

\* The ring is left alone.
RingKept ==
  /\ rx_fifo'.put = rx_fifo.put /\ rx_fifo'.get = rx_fifo.get
  /\ rx_fifo'.buffer = rx_fifo.buffer

LEMMA RxNumbers ==
  ASSUME Received
  PROVE  /\ rx_fifo.arrived \in Nat /\ rx_fifo.sem \in Nat /\ rx_fifo.dr \in Nat
         /\ rx_fifo.arrived <= MaxChar /\ MaxChar \in Nat /\ BufSize \in Nat /\ BufSize > 1
         /\ rx_fifo.put \in 0 .. BufSize - 1 /\ rx_fifo.get \in 0 .. BufSize - 1
         /\ rx_fifo.buffer \in [0 .. BufSize - 1 -> 0 .. MaxChar]
         /\ Nothing = 0
BY SerialNumbers DEF Received, RxRecord

LEMMA Next1Place ==
  ASSUME NEW i \in 0 .. BufSize - 1
  PROVE  Next1(i) \in 0 .. BufSize - 1 /\ Next1(i) = RingPlace(BufSize, i, 1)
<1>1. Next1(i) = IF i + 1 >= BufSize THEN 0 ELSE i + 1 BY DEF Next1
<1>2. BufSize \in Nat /\ BufSize > 1 BY SerialNumbers
<1> QED BY <1>1, <1>2 DEF RingPlace

LEMMA ArriveStep ==
  ASSUME Received, Arrive
  PROVE  /\ Received' /\ RingKept /\ rx_fifo'.isr = rx_fifo.isr /\ rx_fifo'.sem = rx_fifo.sem
<1>1. PICK d, o : /\ d = IF rx_fifo.dr = Nothing THEN rx_fifo.arrived + 1 ELSE rx_fifo.dr
                  /\ o = (rx_fifo.ore \/ rx_fifo.dr # Nothing)
  OBVIOUS
<1>2. rx_fifo.arrived < MaxChar /\ rx_fifo' = [rx_fifo EXCEPT !.arrived = rx_fifo.arrived + 1,
                                                            !.dr = d, !.ore = o]
  BY <1>1 DEF Arrive
<1>3. /\ d \in 0 .. MaxChar /\ o \in BOOLEAN /\ rx_fifo.arrived + 1 \in 0 .. MaxChar
  BY <1>1, <1>2, RxNumbers DEF Received, RxRecord
<1>4. /\ rx_fifo' \in RxRecord /\ RingKept /\ rx_fifo'.isr = rx_fifo.isr
      /\ rx_fifo'.sem = rx_fifo.sem /\ rx_fifo'.arrived = rx_fifo.arrived + 1
  BY <1>2, <1>3 DEF Received, RxRecord, RingKept
<1>5. rx_fifo'.sem + 1 <= rx_fifo'.arrived
  <2>1. rx_fifo.sem <= rx_fifo.arrived BY RxNumbers DEF Received
  <2> QED BY <1>4, <2>1, RxNumbers
<1>6. Received' BY <1>4, <1>5, RxNumbers DEF Received
<1> QED BY <1>4, <1>6

LEMMA EntryStep ==
  ASSUME Received, USART_IRQHandler
  PROVE  /\ Received' /\ RingKept /\ rx_fifo'.isr = "rx" /\ rx_fifo'.sem = rx_fifo.sem
<1>1. rx_fifo.dr # Nothing /\ rx_fifo' = [rx_fifo EXCEPT !.isr = "rx"] BY DEF USART_IRQHandler
<1>2. /\ rx_fifo' \in RxRecord /\ RingKept /\ rx_fifo'.isr = "rx"
      /\ rx_fifo'.sem = rx_fifo.sem /\ rx_fifo'.arrived = rx_fifo.arrived
  BY <1>1 DEF Received, RxRecord, RingKept
<1>3. Received' BY <1>1, <1>2 DEF Received
<1> QED BY <1>2, <1>3

LEMMA StoreStep ==
  ASSUME Received, RxStore
  PROVE  /\ Received' /\ rx_fifo'.isr = "rx" /\ rx_fifo'.sem = rx_fifo.sem
         /\ rx_fifo'.buffer = [rx_fifo.buffer EXCEPT ![rx_fifo.put] = rx_fifo.dr]
         /\ rx_fifo'.put = Next1(rx_fifo.put)
         /\ rx_fifo'.get = IF rx_fifo.get = Next1(rx_fifo.put) THEN Next1(rx_fifo.get)
                                                             ELSE rx_fifo.get
<1>1. PICK p, g, b : /\ p = Next1(rx_fifo.put)
                     /\ g = IF rx_fifo.get = p THEN Next1(rx_fifo.get) ELSE rx_fifo.get
                     /\ b = [rx_fifo.buffer EXCEPT ![rx_fifo.put] = rx_fifo.dr]
  OBVIOUS
<1>2. rx_fifo.isr = "rx"
      /\ rx_fifo' = [rx_fifo EXCEPT !.buffer = b, !.put = p, !.dr = Nothing, !.ore = FALSE, !.get = g]
  BY <1>1 DEF RxStore, Store
<1>3. p \in 0 .. BufSize - 1 /\ g \in 0 .. BufSize - 1 BY <1>1, RxNumbers, Next1Place
<1>4. b \in [0 .. BufSize - 1 -> 0 .. MaxChar] BY <1>1, RxNumbers DEF Received, RxRecord
<1>5. Nothing \in 0 .. MaxChar BY RxNumbers
<1>6. /\ rx_fifo' \in RxRecord /\ rx_fifo'.isr = "rx" /\ rx_fifo'.sem = rx_fifo.sem
      /\ rx_fifo'.arrived = rx_fifo.arrived
      /\ rx_fifo'.buffer = b /\ rx_fifo'.put = p /\ rx_fifo'.get = g
  BY <1>2, <1>3, <1>4, <1>5 DEF Received, RxRecord
<1>7. Received' BY <1>2, <1>6 DEF Received
<1> QED BY <1>1, <1>6, <1>7

LEMMA IndicateStep ==
  ASSUME Received, RxIndicate
  PROVE  /\ Received' /\ RingKept /\ rx_fifo'.isr = "clear"
         /\ rx_fifo'.sem = IF sys.wait["rx"] # <<>> THEN rx_fifo.sem ELSE rx_fifo.sem + 1
<1>1. PICK n : n = IF sys.wait["rx"] # <<>> THEN rx_fifo.sem ELSE rx_fifo.sem + 1 OBVIOUS
<1>2. /\ rx_fifo.isr = "rx" /\ rx_fifo.dr = Nothing
      /\ rx_fifo' = [rx_fifo EXCEPT !.isr = "clear", !.sem = n]
  BY <1>1 DEF RxIndicate
<1>3. n \in 0 .. MaxChar /\ n <= rx_fifo.arrived
  <2>1. rx_fifo.sem + 1 <= rx_fifo.arrived BY <1>2 DEF Received
  <2> QED BY <1>1, <2>1, RxNumbers
<1>4. /\ rx_fifo' \in RxRecord /\ RingKept /\ rx_fifo'.isr = "clear" /\ rx_fifo'.dr = Nothing
      /\ rx_fifo'.sem = n /\ rx_fifo'.arrived = rx_fifo.arrived
  BY <1>2, <1>3 DEF Received, RxRecord, RingKept
<1>5. Received' BY <1>3, <1>4, RxNumbers DEF Received
<1> QED BY <1>1, <1>4, <1>5

LEMMA ClearStep ==
  ASSUME Received, RxClear \/ RxLeave
  PROVE  /\ Received' /\ RingKept /\ rx_fifo.isr # "rx" /\ rx_fifo'.sem = rx_fifo.sem
<1>1. PICK d, o, i : /\ d \in {Nothing, rx_fifo.dr} /\ o \in BOOLEAN /\ i \in {"ore", "none"}
                     /\ rx_fifo' = [rx_fifo EXCEPT !.isr = i, !.ore = o, !.dr = d]
                     /\ rx_fifo.isr # "rx"
  <2>1. CASE RxClear
    <3>1. rx_fifo.isr # "rx" /\ rx_fifo' = [rx_fifo EXCEPT !.isr = "ore", !.dr = Nothing]
      BY <2>1 DEF RxClear
    <3>2. rx_fifo' = [rx_fifo EXCEPT !.isr = "ore", !.ore = rx_fifo.ore, !.dr = Nothing]
      BY <3>1 DEF Received, RxRecord
    <3>3. rx_fifo.ore \in BOOLEAN BY DEF Received, RxRecord
    <3> QED BY <3>1, <3>2, <3>3
  <2>2. CASE RxLeave
    <3>1. PICK d : d = IF rx_fifo.ore THEN Nothing ELSE rx_fifo.dr OBVIOUS
    <3>2. rx_fifo.isr # "rx" /\ rx_fifo' = [rx_fifo EXCEPT !.isr = "none", !.ore = FALSE, !.dr = d]
      BY <2>2, <3>1 DEF RxLeave
    <3>3. d \in {Nothing, rx_fifo.dr} BY <3>1
    <3> QED BY <3>2, <3>3
  <2> QED BY <2>1, <2>2
<1>2. d \in 0 .. MaxChar BY <1>1, RxNumbers DEF Received, RxRecord
<1>3. /\ rx_fifo' \in RxRecord /\ RingKept /\ rx_fifo'.isr = i /\ rx_fifo'.dr = d
      /\ rx_fifo'.sem = rx_fifo.sem /\ rx_fifo'.arrived = rx_fifo.arrived
  BY <1>1, <1>2 DEF Received, RxRecord, RingKept
<1>4. Received' BY <1>1, <1>3, RxNumbers DEF Received
<1> QED BY <1>1, <1>3, <1>4

LEMMA TakeStep ==
  ASSUME Received, rx_fifo.sem > 0, rx_fifo' = [rx_fifo EXCEPT !.sem = rx_fifo.sem - 1]
  PROVE  /\ Received' /\ RingKept /\ rx_fifo'.isr = rx_fifo.isr
<1>1. rx_fifo.sem - 1 \in 0 .. MaxChar BY RxNumbers DEF Received, RxRecord
<1>2. /\ rx_fifo' \in RxRecord /\ RingKept /\ rx_fifo'.isr = rx_fifo.isr /\ rx_fifo'.dr = rx_fifo.dr
      /\ rx_fifo'.sem = rx_fifo.sem - 1 /\ rx_fifo'.arrived = rx_fifo.arrived
  BY <1>1 DEF Received, RxRecord, RingKept
<1>3. Received' BY <1>2, RxNumbers DEF Received
<1> QED BY <1>2, <1>3

LEMMA ReadStep ==
  ASSUME Received,
         rx_fifo' = [rx_fifo EXCEPT !.last = rx_fifo.buffer[rx_fifo.get], !.get = Next1(@)]
  PROVE  /\ Received' /\ rx_fifo'.isr = rx_fifo.isr /\ rx_fifo'.sem = rx_fifo.sem
         /\ rx_fifo'.buffer = rx_fifo.buffer /\ rx_fifo'.put = rx_fifo.put
         /\ rx_fifo'.get = Next1(rx_fifo.get)
         /\ rx_fifo'.last = rx_fifo.buffer[rx_fifo.get]
<1>1. PICK a, g : a = rx_fifo.buffer[rx_fifo.get] /\ g = Next1(rx_fifo.get) OBVIOUS
<1>2. rx_fifo' = [rx_fifo EXCEPT !.last = a, !.get = g] BY <1>1
<1>3. a \in 0 .. MaxChar /\ g \in 0 .. BufSize - 1 BY <1>1, RxNumbers, Next1Place
<1>4. /\ rx_fifo' \in RxRecord /\ rx_fifo'.isr = rx_fifo.isr /\ rx_fifo'.dr = rx_fifo.dr
      /\ rx_fifo'.sem = rx_fifo.sem /\ rx_fifo'.arrived = rx_fifo.arrived
      /\ rx_fifo'.buffer = rx_fifo.buffer /\ rx_fifo'.put = rx_fifo.put
      /\ rx_fifo'.get = g /\ rx_fifo'.last = a
  BY <1>2, <1>3 DEF Received, RxRecord
<1>5. Received' BY <1>4 DEF Received
<1> QED BY <1>1, <1>4, <1>5

-----------------------------------------------------------------------------
(* The ring as a sequence *)

\* How many places lie between two places of a ring.
LEMMA RingDistance ==
  ASSUME NEW s \in Nat, s > 0, NEW a \in 0 .. s - 1, NEW b \in 0 .. s - 1
  PROVE  \E n \in 0 .. s - 1 : b = RingPlace(s, a, n)
<1>1. CASE b >= a
  <2>1. b - a \in 0 .. s - 1 /\ b = RingPlace(s, a, b - a) BY <1>1 DEF RingPlace
  <2> QED BY <2>1
<1>2. CASE ~(b >= a)
  <2>1. b - a + s \in 0 .. s - 1 /\ b = RingPlace(s, a, b - a + s) BY <1>2 DEF RingPlace
  <2> QED BY <2>1
<1> QED BY <1>1, <1>2

\* The characters of b from place g up to place p.
Chars(b, g, p) == [i \in 1 .. (p - g + BufSize) % BufSize |-> b[(g + i - 1) % BufSize]]

\* The places of the ring that hold characters: place p is n places behind g.
RingShape(b, g, n, p, q) ==
  /\ g \in 0 .. BufSize - 1 /\ n \in 0 .. BufSize - 1 /\ p = RingPlace(BufSize, g, n)
  /\ b \in [0 .. BufSize - 1 -> 0 .. MaxChar] /\ q = Chars(b, g, p)
RingHolds(b, g, n, q) ==
  /\ q \in [1 .. n -> 0 .. MaxChar]
  /\ \A i \in 1 .. n : q[i] = b[RingPlace(BufSize, g, i - 1)]

LEMMA RingHeld ==
  ASSUME NEW b, NEW g, NEW n, NEW p, NEW q, RingShape(b, g, n, p, q)
  PROVE  RingHolds(b, g, n, q)
<1>s. PICK s : s = BufSize /\ s \in Nat /\ s > 1 BY SerialNumbers
<1>0. /\ g \in 0 .. s - 1 /\ n \in 0 .. s - 1 /\ p = RingPlace(s, g, n) /\ s > 0 /\ s \in Nat
      /\ b \in [0 .. s - 1 -> 0 .. MaxChar] /\ q = Chars(b, g, p)
  BY <1>s DEF RingShape
<1>1. (p - g + s) % s = n
  <2>1. PICK x \in Int : x = p - g + s BY <1>0 DEF RingPlace
  <2>2. x = n + s \/ x = n BY <1>0, <2>1 DEF RingPlace
  <2>3. x % s = n
    <3>1. CASE x = n + s
      <4>1. x \in s .. 2 * s - 1 BY <1>0, <3>1
      <4>2. x % s = x - s BY <1>0, <4>1, Offsets
      <4> QED BY <1>0, <3>1, <4>2
    <3>2. CASE x = n
      <4>1. x \in 0 .. s - 1 BY <1>0, <3>2
      <4>2. x % s = x BY <1>0, <4>1, Offsets
      <4> QED BY <3>2, <4>2
    <3> QED BY <2>2, <3>1, <3>2
  <2> QED BY <2>1, <2>3
<1>2. q = [i \in 1 .. n |-> b[(g + i - 1) % s]] BY <1>s, <1>0, <1>1 DEF Chars
<1>3. ASSUME NEW i \in 1 .. n
      PROVE  /\ q[i] = b[RingPlace(s, g, i - 1)] /\ q[i] \in 0 .. MaxChar
  <2>1. i - 1 \in 0 .. s - 1 /\ i - 1 \in 0 .. s /\ g + i - 1 = g + (i - 1) BY <1>0
  <2>2. (g + (i - 1)) % s = RingPlace(s, g, i - 1) /\ (g + (i - 1)) % s \in 0 .. s - 1
    BY <1>0, <2>1, OnRing
  <2> QED BY <1>0, <1>2, <2>1, <2>2
<1> QED BY <1>s, <1>2, <1>3 DEF RingHolds

\* A step that leaves the ring alone.
LEMMA RingSame == ASSUME RingKept PROVE Ring' = Ring
BY DEF RingKept, Ring

\* The shell takes the oldest character.
LEMMA RingRead ==
  ASSUME Received, Received', rx_fifo.get # rx_fifo.put,
         rx_fifo'.buffer = rx_fifo.buffer, rx_fifo'.put = rx_fifo.put,
         rx_fifo'.get = Next1(rx_fifo.get), rx_fifo'.last = rx_fifo.buffer[rx_fifo.get]
  PROVE  Ring # <<>> /\ Ring' = Tail(Ring) /\ rx_fifo'.last = Head(Ring)
<1>1. PICK s \in Nat : s = BufSize /\ s > 1 /\ s > 0 BY RxNumbers
<1>2. PICK g \in 0 .. s - 1, p \in 0 .. s - 1 : g = rx_fifo.get /\ p = rx_fifo.put
  BY <1>1, RxNumbers
<1>3. PICK b : b = rx_fifo.buffer /\ b \in [0 .. s - 1 -> 0 .. MaxChar] BY <1>1, RxNumbers
<1>4. PICK n \in 0 .. s - 1 : p = RingPlace(s, g, n) BY <1>1, RingDistance
<1>5. n > 0
  <2>1. RingPlace(s, g, 0) = g BY DEF RingPlace
  <2> QED BY <1>2, <1>4, <2>1
<1>6. PICK h \in 0 .. s - 1 : h = Next1(g) /\ h = RingPlace(s, g, 1) BY <1>1, Next1Place
<1>7. n - 1 \in 0 .. s - 1 /\ (n - 1) + 1 = n /\ s > 0 BY <1>1, <1>5
<1>8. p = RingPlace(s, h, n - 1)
  <2>1. PICK m \in 0 .. s - 1 : m = n - 1 BY <1>7
  <2>2. RingPlace(s, RingPlace(s, g, 1), m) = RingPlace(s, g, m + 1) BY <1>7, NextPlace
  <2> QED BY <1>4, <1>6, <1>7, <2>1, <2>2
<1>9. PICK q, r : q = Ring /\ r = Ring' OBVIOUS
<1>10. q = Chars(b, g, p)
  BY <1>2, <1>3, <1>9 DEF Ring, Chars
<1>11. r = Chars(b, h, p)
  BY <1>2, <1>3, <1>6, <1>9 DEF Ring, Chars
<1>12. /\ q \in [1 .. n -> 0 .. MaxChar] /\ \A i \in 1 .. n : q[i] = b[RingPlace(s, g, i - 1)]
  <2>1. RingShape(b, g, n, p, q) BY <1>1, <1>2, <1>3, <1>4, <1>10 DEF RingShape
  <2>2. RingHolds(b, g, n, q) BY <2>1, RingHeld
  <2> QED BY <1>1, <2>2 DEF RingHolds
<1>13. /\ r \in [1 .. n - 1 -> 0 .. MaxChar]
       /\ \A i \in 1 .. n - 1 : r[i] = b[RingPlace(s, h, i - 1)]
  <2>1. RingShape(b, h, n - 1, p, r) BY <1>1, <1>3, <1>6, <1>7, <1>8, <1>11 DEF RingShape
  <2>2. RingHolds(b, h, n - 1, r) BY <2>1, RingHeld
  <2> QED BY <1>1, <2>2 DEF RingHolds
<1>14. ASSUME NEW i \in 1 .. n - 1 PROVE r[i] = q[i + 1]
  <2>1. PICK m \in 0 .. s - 1 : m = i - 1 /\ m + 1 = i BY <1>1, <1>4
  <2>2. RingPlace(s, RingPlace(s, g, 1), m) = RingPlace(s, g, m + 1) BY <1>1, <1>2, <2>1, NextPlace
  <2>5. RingPlace(s, h, m) = RingPlace(s, g, m + 1) BY <1>6, <2>2
  <2>3. i + 1 \in 1 .. n /\ (i + 1) - 1 = m + 1 BY <2>1
  <2>4. q[i + 1] = b[RingPlace(s, g, (i + 1) - 1)] BY <1>12, <2>3
  <2> QED BY <1>13, <2>1, <2>5, <2>3, <2>4
<1>15. q \in Seq(0 .. MaxChar) /\ q # <<>> /\ r = Tail(q)
  <2>1. n \in Nat /\ n > 0 BY <1>1, <1>4, <1>5
  <2>2. PICK S : S = 0 .. MaxChar OBVIOUS
  <2>3. q \in [1 .. n -> S] /\ r \in [1 .. n - 1 -> S] BY <1>12, <1>13, <2>2
  <2>4. q \in Seq(S) /\ q # <<>> /\ r = Tail(q) BY <1>14, <2>1, <2>3, GivenTail
  <2> QED BY <2>2, <2>4
<1>16. Head(q) = b[g]
  <2>1. 1 \in 1 .. n /\ 1 - 1 = 0 BY <1>5
  <2>2. q[1] = b[RingPlace(s, g, 1 - 1)] BY <1>12, <2>1
  <2>3. RingPlace(s, g, 0) = g BY DEF RingPlace
  <2> QED BY <1>15, <2>1, <2>2, <2>3
<1> QED BY <1>2, <1>3, <1>9, <1>15, <1>16

\* A character is stored behind the others; the oldest one makes room for it.
LEMMA RingStore ==
  ASSUME Received, rx_fifo.dr \in 0 .. MaxChar,
         rx_fifo'.buffer = [rx_fifo.buffer EXCEPT ![rx_fifo.put] = rx_fifo.dr],
         rx_fifo'.put = Next1(rx_fifo.put),
         rx_fifo'.get = IF rx_fifo.get = Next1(rx_fifo.put) THEN Next1(rx_fifo.get)
                                                         ELSE rx_fifo.get
  PROVE  Ring' = Append(IF Len(Ring) = BufSize - 1 THEN Tail(Ring) ELSE Ring, rx_fifo.dr)
<1>1. PICK s \in Nat : s = BufSize /\ s > 1 /\ s > 0 BY RxNumbers
<1>2. PICK g \in 0 .. s - 1, p \in 0 .. s - 1 : g = rx_fifo.get /\ p = rx_fifo.put
  BY <1>1, RxNumbers
<1>3. PICK b : b = rx_fifo.buffer /\ b \in [0 .. s - 1 -> 0 .. MaxChar] BY <1>1, RxNumbers
<1>4. PICK d \in 0 .. MaxChar : d = rx_fifo.dr OBVIOUS
<1>5. PICK c : c = [b EXCEPT ![p] = d] OBVIOUS
<1>6. /\ c \in [0 .. s - 1 -> 0 .. MaxChar] /\ c[p] = d
      /\ \A j \in 0 .. s - 1 : j # p => c[j] = b[j]
  BY <1>3, <1>5
<1>7. PICK n \in 0 .. s - 1 : p = RingPlace(s, g, n) BY <1>1, RingDistance
<1>8. PICK t \in 0 .. s - 1 : t = Next1(p) /\ t = RingPlace(s, p, 1) BY <1>1, Next1Place
<1>9. t = RingPlace(s, g, n + 1) BY <1>1, <1>7, <1>8, NextPlace
<1>10. PICK q, r : q = Ring /\ r = Ring' OBVIOUS
<1>11. q = Chars(b, g, p)
  BY <1>2, <1>3, <1>10 DEF Ring, Chars
<1>12. /\ q \in [1 .. n -> 0 .. MaxChar] /\ \A i \in 1 .. n : q[i] = b[RingPlace(s, g, i - 1)]
  <2>1. RingShape(b, g, n, p, q) BY <1>1, <1>2, <1>3, <1>7, <1>11 DEF RingShape
  <2>2. RingHolds(b, g, n, q) BY <2>1, RingHeld
  <2> QED BY <1>1, <2>2 DEF RingHolds
<1>13. q \in Seq(0 .. MaxChar) /\ Len(q) = n
  <2>1. n \in Nat BY <1>1, <1>7
  <2>2. PICK S : S = 0 .. MaxChar OBVIOUS
  <2>3. q \in [1 .. n -> S] BY <1>12, <2>2
  <2>4. q \in Seq(S) /\ Len(q) = n BY <2>1, <2>3
  <2> QED BY <2>2, <2>4
<1>14. ASSUME NEW m \in 0 .. s - 1, m # n
       PROVE  c[RingPlace(s, g, m)] = b[RingPlace(s, g, m)]
  <2>1. RingPlace(s, g, m) # p /\ RingPlace(s, g, m) \in 0 .. s - 1
    BY <1>1, <1>2, <1>7, <1>14 DEF RingPlace
  <2> QED BY <1>6, <2>1
<1>15. CASE n # s - 1
  <2>1. n + 1 \in 0 .. s - 1 /\ 0 \in 0 .. s - 1 /\ n + 1 # 0 BY <1>1, <1>15
  <2>2. t # g
    <3>1. RingPlace(s, g, 0) = g BY DEF RingPlace
    <3>2. RingPlace(s, g, n + 1) # RingPlace(s, g, 0) BY <1>1, <2>1, OtherPlace
    <3> QED BY <1>9, <3>1, <3>2
  <2>3. r = Chars(c, g, t)
    BY <1>2, <1>3, <1>4, <1>5, <1>8, <1>10, <2>2 DEF Ring, Chars
  <2>4. /\ r \in [1 .. n + 1 -> 0 .. MaxChar]
        /\ \A i \in 1 .. n + 1 : r[i] = c[RingPlace(s, g, i - 1)]
    <3>1. RingShape(c, g, n + 1, t, r) BY <1>1, <1>2, <1>6, <1>9, <2>1, <2>3 DEF RingShape
    <3>2. RingHolds(c, g, n + 1, r) BY <3>1, RingHeld
    <3> QED BY <1>1, <3>2 DEF RingHolds
  <2>5. ASSUME NEW i \in 1 .. n PROVE r[i] = q[i]
    <3>1. i - 1 \in 0 .. s - 1 /\ i - 1 # n /\ i \in 1 .. n + 1 BY <1>1, <1>7
    <3>2. c[RingPlace(s, g, i - 1)] = b[RingPlace(s, g, i - 1)] BY <1>14, <3>1
    <3> QED BY <1>12, <2>4, <3>1, <3>2
  <2>6. r[n + 1] = d
    <3>1. n + 1 \in 1 .. n + 1 /\ (n + 1) - 1 = n BY <1>1, <1>7
    <3> QED BY <1>6, <1>7, <2>4, <3>1
  <2>7. r = Append(q, d)
    <3>1. n \in Nat BY <1>1, <1>7
    <3> QED BY <1>4, <1>12, <2>4, <2>5, <2>6, <3>1, GivenAppend
  <2> QED BY <1>1, <1>4, <1>10, <1>13, <1>15, <2>7
<1>16. CASE n = s - 1
  <2>1. t = g BY <1>1, <1>9, <1>16 DEF RingPlace
  <2>2. PICK h \in 0 .. s - 1 : h = Next1(g) /\ h = RingPlace(s, g, 1) BY <1>1, Next1Place
  <2>3. t = RingPlace(s, h, n)
    <3>1. RingPlace(s, RingPlace(s, g, 1), n) = RingPlace(s, g, n + 1) BY <1>1, NextPlace
    <3> QED BY <1>9, <2>2, <3>1
  <2>4. r = Chars(c, h, t)
    BY <1>2, <1>3, <1>4, <1>5, <1>8, <1>10, <2>1, <2>2 DEF Ring, Chars
  <2>5. /\ r \in [1 .. n -> 0 .. MaxChar]
        /\ \A i \in 1 .. n : r[i] = c[RingPlace(s, h, i - 1)]
    <3>1. RingShape(c, h, n, t, r) BY <1>1, <1>6, <1>7, <2>2, <2>3, <2>4 DEF RingShape
    <3>2. RingHolds(c, h, n, r) BY <3>1, RingHeld
    <3> QED BY <1>1, <3>2 DEF RingHolds
  <2>6. ASSUME NEW i \in 1 .. n PROVE r[i] = c[RingPlace(s, g, i)]
    <3>1. PICK m \in 0 .. s - 1 : m = i - 1 /\ m + 1 = i BY <1>1, <1>7
    <3>3. RingPlace(s, RingPlace(s, g, 1), m) = RingPlace(s, g, m + 1)
      <4>1. s \in Nat /\ s > 0 /\ g \in 0 .. s - 1 /\ m \in 0 .. s - 1 BY <1>1, <1>2, <3>1
      <4> QED BY <4>1, NextPlace
    <3>2. RingPlace(s, h, m) = RingPlace(s, g, m + 1) BY <2>2, <3>3
    <3> QED BY <2>5, <3>1, <3>2
  <2>7. PICK k \in Nat : k = n - 1 /\ k + 1 = n BY <1>1, <1>16
  <2>8. PICK u : u = [i \in 1 .. k |-> q[i + 1]] OBVIOUS
  <2>9. u \in [1 .. k -> 0 .. MaxChar] /\ \A i \in 1 .. k : u[i] = q[i + 1]
    <3>1. \A i \in 1 .. k : i + 1 \in 1 .. n BY <2>7
    <3> QED BY <1>12, <2>8, <3>1
  <2>10. n > 0 /\ n \in Nat BY <2>7
  <2>11. u = Tail(q)
    <3>1. u \in [1 .. n - 1 -> 0 .. MaxChar] /\ \A i \in 1 .. n - 1 : u[i] = q[i + 1]
      BY <2>7, <2>9
    <3>2. PICK S : S = 0 .. MaxChar OBVIOUS
    <3>3. q \in [1 .. n -> S] /\ u \in [1 .. n - 1 -> S] BY <1>12, <3>1, <3>2
    <3> QED BY <2>10, <3>1, <3>3, GivenTail
  <2>12. ASSUME NEW i \in 1 .. k PROVE r[i] = u[i]
    <3>1. i \in 0 .. s - 1 /\ i # n /\ i \in 1 .. n /\ i + 1 \in 1 .. n /\ (i + 1) - 1 = i BY <1>16, <2>7
    <3>2. c[RingPlace(s, g, i)] = b[RingPlace(s, g, i)] BY <1>14, <3>1
    <3>3. q[i + 1] = b[RingPlace(s, g, i)] BY <1>12, <3>1
    <3> QED BY <2>6, <2>9, <3>1, <3>2, <3>3
  <2>13. r[k + 1] = d
    <3>1. n \in 1 .. n BY <2>7
    <3> QED BY <1>6, <1>7, <2>6, <2>7, <3>1
  <2>14. r \in [1 .. k + 1 -> 0 .. MaxChar] BY <2>5, <2>7
  <2>15. r = Append(u, d) BY <1>4, <2>7, <2>9, <2>12, <2>13, <2>14, GivenAppend
  <2> QED BY <1>1, <1>4, <1>10, <1>13, <1>16, <2>11, <2>15
<1> QED BY <1>15, <1>16

\* A step of the ring: nothing, a read or a store.
Dropping ==
  \/ Ring' = Ring
  \/ Ring # <<>> /\ Ring' = Tail(Ring) /\ rx_fifo'.last = Head(Ring)
  \/ Ring' = Append(IF Len(Ring) = BufSize - 1 THEN Tail(Ring) ELSE Ring, rx_fifo.dr)

LEMMA ReceivedInit == ASSUME SerialInit PROVE Received
<1>1. PICK b : b = [i \in 0 .. BufSize - 1 |-> Nothing] OBVIOUS
<1>2. rx_fifo = [dr |-> Nothing, ore |-> FALSE, put |-> 0, get |-> 0,
                 buffer |-> b, sem |-> 0, isr |-> "none", arrived |-> 0, last |-> 0]
  BY <1>1 DEF SerialInit
<1>3. b \in [0 .. BufSize - 1 -> 0 .. MaxChar] /\ 0 \in 0 .. BufSize - 1 /\ 0 \in 0 .. MaxChar
  BY <1>1, SerialNumbers
<1> QED BY <1>2, <1>3, SerialNumbers DEF Received, RxRecord

LEMMA ReceivedNext == ASSUME Received, [SerialNext]_serialVars PROVE Received' /\ Dropping
<1>1. CASE rx_fifo' = rx_fifo
  BY <1>1 DEF Received, Dropping, Ring
<1>2. CASE Arrive BY <1>2, ArriveStep, RingSame DEF Dropping
<1>3. CASE USART_IRQHandler BY <1>3, EntryStep, RingSame DEF Dropping
<1>4. CASE RxStore
  <2>1. rx_fifo.dr \in 0 .. MaxChar BY DEF Received, RxRecord
  <2> QED BY <1>4, <2>1, StoreStep, RingStore DEF Dropping
<1>5. CASE RxIndicate BY <1>5, IndicateStep, RingSame DEF Dropping
<1>6. CASE RxClear \/ RxLeave BY <1>6, ClearStep, RingSame DEF Dropping
<1>7. ASSUME NEW c \in Thread, TakeRxSem(c) PROVE Received' /\ Dropping
  <2>1. CASE rx_fifo' = rx_fifo BY <1>1, <2>1
  <2>2. CASE rx_fifo.sem > 0 /\ rx_fifo' = [rx_fifo EXCEPT !.sem = rx_fifo.sem - 1]
    BY <2>2, TakeStep, RingSame DEF Dropping
  <2> QED BY <1>7, <2>1, <2>2 DEF TakeRxSem
<1>8. ASSUME NEW c \in Thread, _serial_int_rx(c) PROVE Received' /\ Dropping
  <2>1. CASE rx_fifo' = rx_fifo BY <1>1, <2>1
  <2>2. CASE /\ rx_fifo.get # rx_fifo.put
             /\ rx_fifo' = [rx_fifo EXCEPT !.last = rx_fifo.buffer[rx_fifo.get], !.get = Next1(@)]
    BY <2>2, ReadStep, RingRead DEF Dropping
  <2> QED BY <1>8, <2>1, <2>2 DEF _serial_int_rx
<1>9. ASSUME NEW c \in Thread, Call(c) PROVE Received' /\ Dropping
  <2>1. TakeRxSem(c) \/ _serial_int_rx(c) \/ rx_fifo' = rx_fifo
    BY <1>9 DEF Call, Continue, _serial_dma_tx, PushAgain, Push, Activate, Kick, _serial_int_tx, Putc,
                rt_completion_wait, WaitReturn, SerialSchedule
  <2> QED BY <1>1, <1>7, <1>8, <2>1
<1>10. CASE (Boot \/ Tick) /\ UNCHANGED <<path, value, tx_dma, reg, rx_fifo>> BY <1>1, <1>10
<1>11. CASE DmaDone \/ TxDone BY <1>1, <1>11 DEF DmaDone, TxDone
<1>12. CASE UNCHANGED serialVars BY <1>1, <1>12 DEF serialVars
<1> QED BY <1>2, <1>3, <1>4, <1>5, <1>6, <1>9, <1>10, <1>11, <1>12 DEF SerialNext, Handler

\* For every size of the ring and any number of characters and threads: the
\* shell reads the oldest character of the ring, and a character that is stored
\* comes behind the others and drops the oldest one of a full ring only.
THEOREM OldestDropped == SerialSpec => DropsOldest
<1>1. Received /\ [SerialNext]_serialVars =>
        [\/ Ring' = Ring
         \/ Ring # <<>> /\ Ring' = Tail(Ring) /\ rx_fifo'.last = Head(Ring)
         \/ Ring' = Append(IF Len(Ring) = BufSize - 1 THEN Tail(Ring) ELSE Ring, rx_fifo.dr)
        ]_serialVars
  BY ReceivedNext DEF Dropping
<1>2. Received /\ [SerialNext]_serialVars => Received' BY ReceivedNext
<1>3. SerialInit => Received BY ReceivedInit
<1> QED BY <1>1, <1>2, <1>3, PTL DEF SerialSpec, DropsOldest

-----------------------------------------------------------------------------
(* Reception keeps the invariant *)

LEMMA SerialReceived == ASSUME SerialInv PROVE Received
BY SerialFacts DEF SerialInv, Reader, Received

\* A step of the handler that concerns no thread.
LEMMA SerialRx ==
  ASSUME SerialInv, UNCHANGED <<sys, pc, path, value, tx_dma, reg>>, Received',
         Asleep("rx") # {} /\ rx_fifo'.get # rx_fifo'.put => rx_fifo'.isr = "rx",
         pc[Shell] \notin {"take", "took"} /\ rx_fifo'.get # rx_fifo'.put
           => rx_fifo'.isr = "rx" \/ rx_fifo'.sem > 0
  PROVE  SerialInv'
<1>1. \A w \in WaitList : Asleep(w)' = Asleep(w) BY DEF Asleep
<1>2. Base(sys') BY SerialFacts
<1>3. SerialCurrent' BY DEF SerialInv, SerialCurrent
<1>4. SerialWaits' BY <1>1, SerialFacts DEF SerialInv, SerialWaits, Fits
<1>5. SerialTypeOK' BY <1>2, SerialFacts, SerialTyped DEF Received
<1>6. Channel' BY <1>1, SerialFacts, ChannelKept
<1>7. Register' BY <1>1, SerialFacts, RegisterKept
<1>8. Reader' BY <1>1, SerialFacts DEF Reader, Received
<1> QED BY <1>2, <1>3, <1>4, <1>5, <1>6, <1>7, <1>8 DEF SerialInv

LEMMA SerialArriveOK ==
  ASSUME SerialInv, Arrive \/ USART_IRQHandler \/ RxStore \/ RxClear \/ RxLeave
  PROVE  SerialInv'
<1>1. Received BY SerialReceived
<1>2. UNCHANGED <<sys, pc, path, value, tx_dma, reg>>
  BY DEF Arrive, USART_IRQHandler, RxStore, RxClear, RxLeave
<1>3. /\ Asleep("rx") # {} /\ rx_fifo.get # rx_fifo.put => rx_fifo.isr = "rx"
      /\ pc[Shell] \notin {"take", "took"} /\ rx_fifo.get # rx_fifo.put
           => rx_fifo.isr = "rx" \/ rx_fifo.sem > 0
  BY DEF SerialInv, Reader
<1>4. CASE Arrive
  <2>1. Received' /\ RingKept /\ rx_fifo'.isr = rx_fifo.isr /\ rx_fifo'.sem = rx_fifo.sem
    BY <1>1, <1>4, ArriveStep
  <2> QED BY <1>2, <1>3, <2>1, SerialRx DEF RingKept
<1>5. CASE USART_IRQHandler
  <2>1. Received' /\ rx_fifo'.isr = "rx" BY <1>1, <1>5, EntryStep
  <2> QED BY <1>2, <2>1, SerialRx
<1>6. CASE RxStore
  <2>1. Received' /\ rx_fifo'.isr = "rx" BY <1>1, <1>6, StoreStep
  <2> QED BY <1>2, <2>1, SerialRx
<1>7. CASE RxClear \/ RxLeave
  <2>1. Received' /\ RingKept /\ rx_fifo.isr # "rx" /\ rx_fifo'.sem = rx_fifo.sem
    BY <1>1, <1>7, ClearStep
  <2> QED BY <1>2, <1>3, <2>1, SerialRx DEF RingKept
<1> QED BY <1>4, <1>5, <1>6, <1>7

LEMMA SerialIndicateOK ==
  ASSUME SerialInv, RxIndicate
  PROVE  SerialInv'
<1>1. PICK wake \in BOOLEAN : wake = (sys.wait["rx"] # <<>>) OBVIOUS
<1>2. /\ pc' = pc /\ UNCHANGED <<path, value, tx_dma, reg>>
      /\ sys' = IF wake THEN rt_schedule(rt_ipc_list_resume(sys, "rx")) ELSE sys
  BY <1>1 DEF RxIndicate
<1>3. /\ Received' /\ RingKept /\ rx_fifo'.isr = "clear"
      /\ rx_fifo'.sem = IF wake THEN rx_fifo.sem ELSE rx_fifo.sem + 1
  BY <1>1, SerialReceived, IndicateStep
<1>4. \A t \in Asleep("rx") : t = Shell /\ pc[t] \in {"take", "took"}
  BY SerialFacts DEF SerialInv, SerialWaits
<1>5. CASE ~wake
  <2>1. Asleep("rx") = {} BY <1>1, <1>5, SerialFacts
  <2>2. rx_fifo'.sem > 0 BY <1>3, <1>5, SerialReceived, RxNumbers
  <2>3. sys' = sys BY <1>2, <1>5
  <2> QED BY <1>2, <1>3, <2>1, <2>2, <2>3, SerialRx
<1>6. CASE wake
  <2>1. Asleep("rx") # {} BY <1>1, <1>6, SerialFacts
  <2>2. pc[Shell] \in {"take", "took"} BY <1>4, <2>1
  <2>3. sys.cur # NoThread BY <2>2, SerialFacts DEF SerialInv, SerialCurrent
  <2>4. /\ Threads'
        /\ \E t \in Asleep("rx") : /\ sys'.stat[t] = "READY"
                                   /\ \A v \in WaitList : Asleep(v)' = Asleep(v) \ {t}
    BY <1>1, <1>2, <1>6, <2>3, SerialFacts, SerialWake
  <2>5. PICK t \in Asleep("rx") : \A v \in WaitList : Asleep(v)' = Asleep(v) \ {t} BY <2>4
  <2>6. t \notin Asleep("push") /\ t \notin Asleep("done")
    BY <1>4, <2>5 DEF SerialInv, SerialWaits
  <2>7. /\ Asleep("push")' = Asleep("push") /\ Asleep("done")' = Asleep("done")
        /\ Asleep("rx")' = {}
    <3>1. /\ Asleep("push")' = Asleep("push") \ {t} /\ Asleep("done")' = Asleep("done") \ {t}
          /\ Asleep("rx")' = Asleep("rx") \ {t}
      BY <2>5, SerialFacts
    <3>2. Asleep("rx") \ {t} = {} BY <1>4, <2>5
    <3> QED BY <2>6, <3>1, <3>2
  <2>8. SerialTypeOK' BY <1>2, <1>3, <2>4, SerialFacts, SerialTyped DEF Threads, Received
  <2>9. Channel'
    <3>1. Asleep("push") = {} BY <2>1, OnThePath
    <3> QED BY <1>2, <2>7, <3>1, ChannelKept
  <2>10. Register' BY <1>2, <2>7, RegisterKept
  <2>11. Reader' BY <1>2, <1>3, <2>2, <2>7 DEF Reader, Received
  <2> QED BY <2>4, <2>8, <2>9, <2>10, <2>11 DEF SerialInv, Threads
<1> QED BY <1>5, <1>6

LEMMA SerialTakeOK ==
  ASSUME SerialInv, NEW c \in Thread \ {Idle}, TakeRxSem(c)
  PROVE  SerialInv'
<1>1. /\ c = Shell /\ sys.cur = c /\ pc[c] = "run" /\ UNCHANGED <<path, value, tx_dma, reg>>
      /\ path = "rx"
  BY DEF TakeRxSem, Running, At
<1>2. Belongs(c, "took") /\ Belongs(c, "take") BY <1>1 DEF Belongs, SerialPC, Fits
<1>3. CASE /\ rx_fifo.sem > 0 /\ rx_fifo' = [rx_fifo EXCEPT !.sem = @ - 1] /\ Goto(c, "took")
           /\ UNCHANGED sys
  <2>1. /\ Threads' /\ pc'[c] = "took" /\ \A t \in Thread \ {c} : pc'[t] = pc[t]
        /\ pc' \in [Thread -> SerialPC]
        /\ \A w \in WaitList : Asleep(w)' = Asleep(w) /\ c \notin Asleep(w)
    BY <1>1, <1>2, <1>3, SerialStep
  <2>2. rx_fifo' = [rx_fifo EXCEPT !.sem = rx_fifo.sem - 1] BY <1>3
  <2>3. Received' /\ RingKept /\ rx_fifo'.isr = rx_fifo.isr
    BY <1>3, <2>2, SerialReceived, TakeStep
  <2>4. SerialTypeOK' BY <1>1, <2>1, <2>3, SerialFacts, SerialTyped DEF Threads, Received
  <2>5. Channel'
    <3>1. sys'.stat = sys.stat BY <1>3
    <3>2. Asleep("push")' = Asleep("push") BY <2>1, SerialFacts
    <3>3. \A t \in Thread : pc[t] \in {"pushed", "kick"} => pc'[t] = pc[t] BY <1>1, <2>1
    <3> QED BY <1>1, <3>1, <3>2, <3>3, ChannelKept
  <2>6. Register' BY <1>1, <2>1, SerialFacts, RegisterKept
  <2>7. Asleep("rx")' = Asleep("rx") /\ pc'[Shell] = "took" BY <1>1, <2>1, SerialFacts
  <2>8. Reader' BY <2>3, <2>7 DEF SerialInv, Reader, Received, RingKept
  <2> QED BY <2>1, <2>4, <2>5, <2>6, <2>8 DEF SerialInv, Threads
<1>4. CASE /\ rx_fifo.sem = 0 /\ sys' = WaitOn(sys, "rx", c, "FIFO", "forever") /\ Goto(c, "take")
           /\ UNCHANGED rx_fifo
  <2>1. /\ Threads' /\ pc'[c] = "take" /\ \A t \in Thread \ {c} : pc'[t] = pc[t]
        /\ pc' \in [Thread -> SerialPC] /\ Asleep("rx")' = Asleep("rx") \cup {c}
        /\ \A v \in WaitList \ {"rx"} : Asleep(v)' = Asleep(v)
    BY <1>1, <1>2, <1>4, SerialBlock
  <2>2. SerialTypeOK' BY <1>1, <1>4, <2>1, SerialFacts, SerialTyped DEF Threads
  <2>3. Channel'
    <3>1. path # "dma" BY <1>1
    <3>2. Asleep("push") = {} BY <3>1, OnThePath
    <3>3. Asleep("push")' = Asleep("push") BY <2>1, SerialFacts
    <3>4. \A t \in Thread : pc[t] \in {"pushed", "kick"} => pc'[t] = pc[t] BY <1>1, <2>1
    <3> QED BY <1>1, <3>2, <3>3, <3>4, ChannelKept
  <2>4. Register' BY <1>1, <2>1, SerialFacts, RegisterKept
  <2>5. rx_fifo.get # rx_fifo.put => rx_fifo.isr = "rx"
    BY <1>1, <1>4 DEF SerialInv, Reader
  <2>6. Reader' BY <1>4, <2>5 DEF SerialInv, Reader
  <2> QED BY <2>1, <2>2, <2>3, <2>4, <2>6 DEF SerialInv, Threads
<1> QED BY <1>3, <1>4 DEF TakeRxSem

LEMMA SerialReadOK ==
  ASSUME SerialInv, NEW c \in Thread, _serial_int_rx(c)
  PROVE  SerialInv'
<1>1. /\ sys.cur = c /\ pc[c] = "took" /\ UNCHANGED <<sys, path, value, tx_dma, reg>>
  BY DEF _serial_int_rx, At
<1>2. c = Shell BY <1>1 DEF SerialInv, SerialWaits
<1>3. CASE /\ rx_fifo.get # rx_fifo.put /\ UNCHANGED pc
           /\ rx_fifo' = [rx_fifo EXCEPT !.last = rx_fifo.buffer[rx_fifo.get], !.get = Next1(@)]
  <2>1. Received' BY <1>3, SerialReceived, ReadStep
  <2>2. Asleep("rx") = {}
    <3>1. c \notin Asleep("rx") BY <1>1, SerialFacts, SerialCaller
    <3>2. \A t \in Asleep("rx") : t = Shell BY SerialFacts DEF SerialInv, SerialWaits
    <3> QED BY <1>2, <3>1, <3>2
  <2> QED BY <1>1, <1>2, <1>3, <2>1, <2>2, SerialRx
<1>4. CASE rx_fifo.get = rx_fifo.put /\ Goto(c, "run") /\ UNCHANGED rx_fifo
  <2>1. Belongs(c, "run") BY DEF Belongs, SerialPC, Fits
  <2>2. /\ Threads' /\ pc'[c] = "run" /\ \A t \in Thread \ {c} : pc'[t] = pc[t]
        /\ pc' \in [Thread -> SerialPC]
        /\ \A w \in WaitList : Asleep(w)' = Asleep(w) /\ c \notin Asleep(w)
    BY <1>1, <1>4, <2>1, SerialStep
  <2>3. SerialTypeOK' BY <1>1, <1>4, <2>2, SerialFacts, SerialTyped DEF Threads
  <2>4. Channel' BY <1>1, <2>2, SerialFacts, ChannelKept
  <2>5. Register' BY <1>1, <2>2, SerialFacts, RegisterKept
  <2>6. Reader' BY <1>4 DEF SerialInv, Reader
  <2> QED BY <2>2, <2>3, <2>4, <2>5, <2>6 DEF SerialInv, Threads
<1> QED BY <1>3, <1>4 DEF _serial_int_rx

-----------------------------------------------------------------------------
(* The invariant *)

LEMMA SerialInitOK == ASSUME SerialInit PROVE SerialInv
<1>1. PICK d \in Data :
        /\ value = [t \in Thread |-> d]
        /\ tx_dma = [put |-> 0, get |-> 0, waiting_lwm |-> FALSE,
                     item |-> [i \in 0 .. Size - 1 |-> d],
                     activated |-> FALSE, dma |-> Nothing, pushes |-> 0]
  BY DEF SerialInit
<1>2. /\ sys = KernelInit /\ pc = [t \in Thread |-> "run"] /\ path \in {"dma", "int", "rx"}
      /\ reg = [full |-> FALSE, flag |-> FALSE]
  BY DEF SerialInit
<1>3. Base(sys) /\ sys.timer = {} /\ sys.cur = NoThread /\ \A w \in WaitList : Asleep(w) = {}
  BY <1>2, KernelInitSound DEF Base, Asleep
<1>4. Received BY ReceivedInit
<1>5. rx_fifo.get = rx_fifo.put
  <2>1. PICK b : b = [i \in 0 .. BufSize - 1 |-> Nothing] OBVIOUS
  <2>2. rx_fifo = [dr |-> Nothing, ore |-> FALSE, put |-> 0, get |-> 0,
                   buffer |-> b, sem |-> 0, isr |-> "none", arrived |-> 0, last |-> 0]
    BY <2>1 DEF SerialInit
  <2> QED BY <2>2
<1>6. tx_dma \in TxRecord
  <2>1. PICK b : b = [i \in 0 .. Size - 1 |-> d] OBVIOUS
  <2>2. b \in [0 .. Size - 1 -> Data] BY <2>1
  <2>3. tx_dma = [put |-> 0, get |-> 0, waiting_lwm |-> FALSE, item |-> b,
                  activated |-> FALSE, dma |-> Nothing, pushes |-> 0]
    BY <1>1, <2>1
  <2>4. 0 \in 0 .. IndexWrap - 1 /\ 0 \in Nat BY SerialNumbers
  <2> QED BY <2>2, <2>3, <2>4 DEF TxRecord
<1>7. /\ tx_dma.put = 0 /\ tx_dma.get = 0 /\ tx_dma.waiting_lwm = FALSE /\ tx_dma.activated = FALSE
      /\ tx_dma.pushes = 0
  BY <1>1
<1>8. "push" \in WaitList /\ "done" \in WaitList /\ "rx" \in WaitList /\ Shell \in Thread
  BY SerialAssumption
<1>9. \A t \in Thread : pc[t] = "run" BY <1>2
<1>10. pc \in [Thread -> SerialPC] /\ value \in [Thread -> Data] /\ reg \in RegRecord
  BY <1>1, <1>2 DEF SerialPC, RegRecord
<1>11. SerialTypeOK
  BY <1>2, <1>3, <1>4, <1>6, <1>10
  DEF SerialTypeOK, Base, Sound, SerialPC, TxRecord, RxRecord, RegRecord, Received
<1>12. SerialCurrent /\ SerialWaits BY <1>3, <1>8, <1>9 DEF SerialCurrent, SerialWaits, Fits
<1>13. Channel BY <1>3, <1>7, <1>8, <1>9, SerialNumbers DEF Channel, Unwrapped
<1>14. Register BY <1>3, <1>8, <1>9 DEF Register
<1>15. Reader BY <1>3, <1>4, <1>5, <1>8 DEF Reader, Received
<1> QED BY <1>3, <1>11, <1>12, <1>13, <1>14, <1>15 DEF SerialInv

LEMMA SerialNextOK ==
  ASSUME SerialInv, [SerialNext]_serialVars
  PROVE  SerialInv'
<1>1. CASE Boot /\ UNCHANGED <<path, value, tx_dma, reg, rx_fifo>> BY <1>1, SerialBootOK
<1>2. CASE Tick /\ UNCHANGED <<path, value, tx_dma, reg, rx_fifo>> BY <1>2, SerialTickOK
<1>3. CASE DmaDone \/ TxDone BY <1>3, SerialDmaDoneOK, SerialTxDoneOK
<1>4. CASE Arrive \/ Handler BY <1>4, SerialArriveOK, SerialIndicateOK DEF Handler
<1>5. ASSUME NEW c \in Thread \ {Idle}, Call(c) PROVE SerialInv'
  <2>1. c \in Thread OBVIOUS
  <2>2. CASE \E d \in Data : _serial_dma_tx(c, d) BY <2>1, <2>2, SerialDmaTxOK
  <2>3. CASE _serial_int_tx(c) BY <2>1, <2>3, SerialIntTxOK
  <2>4. CASE PushAgain(c) \/ Activate(c) \/ Kick(c)
    BY <2>1, <2>4, SerialPushAgainOK, SerialActivateOK, SerialKickOK
  <2>5. CASE Putc(c) \/ rt_completion_wait(c) \/ WaitReturn(c)
    BY <1>5, <2>1, <2>5, SerialPutcOK, SerialCompletionOK, SerialWaitReturnOK
  <2>6. CASE TakeRxSem(c) \/ _serial_int_rx(c) BY <1>5, <2>1, <2>6, SerialTakeOK, SerialReadOK
  <2>7. CASE SerialSchedule(c) BY <2>1, <2>7, SerialScheduleOK
  <2> QED BY <1>5, <2>2, <2>3, <2>4, <2>5, <2>6, <2>7 DEF Call, Continue
<1>6. CASE UNCHANGED serialVars
  <2>1. Asleep("push")' = Asleep("push") /\ Asleep("done")' = Asleep("done")
        /\ Asleep("rx")' = Asleep("rx")
    BY <1>6 DEF serialVars, Asleep
  <2> QED BY <1>6, <2>1 DEF serialVars, SerialInv, SerialTypeOK, SerialCurrent, SerialWaits,
                            Fits, Channel, Unwrapped, Awake, Register, Filling, Reader
<1> QED BY <1>1, <1>2, <1>3, <1>4, <1>5, <1>6 DEF SerialNext

LEMMA SerialWakes == ASSUME SerialInv PROVE NoLostWakeup
<1>1. /\ (sys.wait["push"] # <<>>) = (Asleep("push") # {})
      /\ (sys.wait["done"] # <<>>) = (Asleep("done") # {})
      /\ (sys.wait["rx"] # <<>>) = (Asleep("rx") # {})
  BY SerialFacts
<1>2. \A t \in Thread : pc[t] \in {"pushed", "kick", "putc"} => t \in Writer
  BY DEF SerialInv, SerialWaits
<1>3. tx_dma.get # tx_dma.put =>
        tx_dma.dma # Nothing \/ \E c \in Writer : pc[c] \in {"pushed", "kick"}
  BY <1>2 DEF SerialInv, Channel
<1>4. /\ tx_dma.waiting_lwm => Asleep("push") # {}
      /\ Asleep("push") # {} => tx_dma.waiting_lwm \/ \E c \in Writer : sys.stat[c] = "READY"
  BY DEF SerialInv, Channel, Awake
<1>5. tx_dma.pushes < IndexWrap =>
        /\ tx_dma.put - tx_dma.get \in 0 .. Size
        /\ tx_dma.waiting_lwm => tx_dma.get # tx_dma.put
  <2>1. tx_dma.put \in Nat /\ tx_dma.get \in Nat /\ Size \in Nat
    BY SerialFacts, SerialNumbers DEF TxRecord
  <2> QED BY <2>1 DEF SerialInv, Channel, Unwrapped
<1>6. Asleep("done") # {} => reg.full \/ \E c \in Writer : pc[c] = "putc"
  BY <1>2 DEF SerialInv, Register, Filling
<1>7. Asleep("rx") # {} /\ rx_fifo.get # rx_fifo.put => rx_fifo.isr = "rx"
  BY DEF SerialInv, Reader
<1>8. SerialTypeOK BY DEF SerialInv
<1> QED BY <1>1, <1>3, <1>4, <1>5, <1>6, <1>7, <1>8 DEF NoLostWakeup

\* For any number of writers, pushes and characters and every size, mark and
\* width of the indices: nobody sleeps on the serial device for want of a step
\* that is under way or owed by a writer that can run, and the handler never
\* finds the mark armed with nobody to wake.
THEOREM NobodySleepsOnSerial == SerialSpec => []NoLostWakeup
<1>1. SerialInit => SerialInv BY SerialInitOK
<1>2. SerialInv /\ [SerialNext]_serialVars => SerialInv' BY SerialNextOK
<1>3. SerialInv => NoLostWakeup BY SerialWakes
<1> QED BY <1>1, <1>2, <1>3, PTL DEF SerialSpec
=============================================================================
