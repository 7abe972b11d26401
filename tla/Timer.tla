------------------------------- MODULE Timer -------------------------------
(***************************************************************************)
(* The timers of src/src/timer.c and the tick of src/src/clock.c, with     *)
(* RT_TIMER_SKIP_LIST_LEVEL 1 and no soft timers, as configured.  Each     *)
(* timer has one owner, the thread that starts, stops and configures it,   *)
(* which may be interrupted wherever interrupts are enabled; its callback  *)
(* runs in the tick interrupt and may stop or restart the timer.  Ticks    *)
(* wrap around and are compared modulo TicksWrap.  Places of an owner:     *)
(*   none     the timer is not initialised      idle   outside of a call   *)
(*   start    removed, rt_tick_get() is next    insert the list is next    *)
(*   stop     found activated, removal is next  clear  the flag is next    *)
(*   store    the flag byte was read, the write is next                    *)
(***************************************************************************)
EXTENDS Lists

CONSTANTS
  Timer,          \* the timers
  TicksWrap,      \* number of values of rt_tick_t, 2^32 in the code
  Time,           \* values of init_tick
  Delay,          \* ticks an owner may be kept from the processor at "insert"
  OneShotRestart  \* whether a one-shot timer's callback restarts its timer

RT_TICK_MAX == TicksWrap - 1
Half        == RT_TICK_MAX \div 2

\* The assertion of rt_timer_start, sharpened by the delay: a deadline that is
\* late when it is inserted still compares correctly.  A periodic timer of
\* zero ticks would keep rt_timer_check busy for ever.
ASSUME TimerAssumption ==
  /\ TicksWrap \in Nat \ {0} /\ Delay \in Nat /\ OneShotRestart \in BOOLEAN
  /\ Time \subseteq 1 .. Half - 1 /\ \A d \in Time : d + Delay < Half

VARIABLES
  rt_tick,        \* the tick
  rt_timer_list,  \* the timers in the list, in list order
  timer,          \* timeout_tick, init_tick and the two flags of each timer
  read,           \* the ACTIVATED bit of the flag byte an owner has read
  checking,       \* rt_timer_check is running
  pc,             \* places of the owners
  order           \* history: the timers in the list, in the order of starting
vars == <<rt_tick, rt_timer_list, timer, read, checking, pc, order>>

Tick  == 0 .. RT_TICK_MAX
Place == {"none", "idle", "start", "insert", "stop", "clear", "store"}

TypeOK ==
  /\ rt_tick \in Tick /\ checking \in BOOLEAN
  /\ rt_timer_list \in Seq(Timer) /\ order \in Seq(Timer)
  /\ timer \in [Timer -> [timeout_tick : Tick, init_tick : Time,
                          activated : BOOLEAN, periodic : BOOLEAN]]
  /\ read \in [Timer -> BOOLEAN] /\ pc \in [Timer -> Place]

\* _rt_timer_init
NewTimer(d, periodic) ==
  [timeout_tick |-> 0, init_tick |-> d, activated |-> FALSE, periodic |-> periodic]

Init ==
  /\ rt_tick = 0 /\ rt_timer_list = <<>> /\ order = <<>> /\ checking = FALSE
  /\ timer \in {[t \in Timer |-> NewTimer(d, FALSE)] : d \in Time}
  /\ read = [t \in Timer |-> FALSE] /\ pc = [t \in Timer |-> "none"]

-----------------------------------------------------------------------------
(* The timer list.  A state of it is a record l of the list, the timers    *)
(* and the history, so that rt_timer_check can compose the functions.      *)

Ago(a, b) == (a - b) % TicksWrap   \* a - b in rt_tick_t

State     == [list |-> rt_timer_list, timer |-> timer, order |-> order]
Become(l) == rt_timer_list' = l.list /\ timer' = l.timer /\ order' = l.order

\* The deadline of a timer outside the list is assigned before it is next
\* read: it is forgotten here.
_rt_timer_remove(l, t) ==
  [l EXCEPT !.list = Unlink(@, t), !.order = Unlink(@, t), !.timer[t].timeout_tick = 0]

Deactivate(l, t) == [l EXCEPT !.timer[t].activated = FALSE]

\* Fault: the period is not added.
TimeoutNow(l, t) == [l EXCEPT !.timer[t].timeout_tick = rt_tick]

SetTimeout(l, t) ==
  [l EXCEPT !.timer[t].timeout_tick = (rt_tick + l.timer[t].init_tick) % TicksWrap]

\* Linked into the list at place i, and activated.
Link(l, i, t) ==
  [l EXCEPT !.list = LinkAt(@, i, t), !.order = Append(@, t), !.timer[t].activated = TRUE]

\* Fault: deadlines are compared as unsigned numbers.
InsertUnsigned(l, t) ==
  Link(l, SelectInSeq(l.list, LAMBDA u : l.timer[u].timeout_tick > l.timer[t].timeout_tick), t)

\* Before the first timer with a later deadline, after those with the same.
Insert(l, t) ==
  Link(l, SelectInSeq(l.list, LAMBDA u :
            Ago(l.timer[u].timeout_tick, l.timer[t].timeout_tick) \in 1 .. Half - 1), t)

\* rt_timer_start inside the interrupt, where nothing comes in between.
StartNow(l, t) == Insert(SetTimeout(Deactivate(_rt_timer_remove(l, t), t), t), t)

\* rt_timer_stop inside the interrupt.
StopNow(l, t) ==
  IF l.timer[t].activated THEN Deactivate(_rt_timer_remove(l, t), t) ELSE l

-----------------------------------------------------------------------------
(* The calls of the owner of t *)

OwnerAt(t, from, to) ==
  /\ ~checking /\ pc[t] = from
  /\ pc' = [pc EXCEPT ![t] = to]
  /\ UNCHANGED <<rt_tick, checking>>

rt_timer_init(t, d, periodic) ==
  /\ OwnerAt(t, "none", "idle")
  /\ Become([State EXCEPT !.timer[t] = NewTimer(d, periodic)])
  /\ UNCHANGED read

rt_timer_detach(t) ==
  /\ OwnerAt(t, "idle", "none")
  /\ Become(_rt_timer_remove(State, t))
  /\ UNCHANGED read

rt_timer_start(t) ==
  /\ OwnerAt(t, "idle", "start")
  /\ Become(Deactivate(_rt_timer_remove(State, t), t))
  /\ UNCHANGED read

StartTimeout(t) ==
  /\ OwnerAt(t, "start", "insert")
  /\ Become(SetTimeout(State, t))
  /\ UNCHANGED read

StartInsert(t) ==
  /\ OwnerAt(t, "insert", "idle")
  /\ Become(Insert(State, t))
  /\ UNCHANGED read

\* Without the flag the call returns -RT_ERROR and changes nothing.
rt_timer_stop(t) ==
  /\ OwnerAt(t, "idle", "stop")
  /\ timer[t].activated
  /\ UNCHANGED <<rt_timer_list, timer, order, read>>

\* Fault: the timer stays in the list, only the flag is cleared.
StopFlagOnly(t) ==
  /\ OwnerAt(t, "stop", "clear")
  /\ UNCHANGED <<rt_timer_list, timer, order, read>>

StopRemove(t) ==
  /\ OwnerAt(t, "stop", "clear")
  /\ Become(_rt_timer_remove(State, t))
  /\ UNCHANGED read

StopClear(t) ==
  /\ OwnerAt(t, "clear", "idle")
  /\ Become(Deactivate(State, t))
  /\ UNCHANGED read

\* RT_TIMER_CTRL_SET_TIME
rt_timer_control(t, d) ==
  /\ OwnerAt(t, "idle", "idle")
  /\ Become([State EXCEPT !.timer[t].init_tick = d])
  /\ UNCHANGED read

\* RT_TIMER_CTRL_SET_ONESHOT and _SET_PERIODIC read the flag byte, change one
\* bit and write it back, with interrupts enabled.
ControlRead(t) ==
  /\ OwnerAt(t, "idle", "store")
  /\ read' = [read EXCEPT ![t] = timer[t].activated]
  /\ UNCHANGED <<rt_timer_list, timer, order>>

ControlWrite(t, periodic) ==
  /\ OwnerAt(t, "store", "idle")
  /\ Become([State EXCEPT !.timer[t].activated = read[t], !.timer[t].periodic = periodic])
  /\ read' = [read EXCEPT ![t] = FALSE]

Begin(t) ==
  \/ rt_timer_detach(t) \/ rt_timer_start(t) \/ rt_timer_stop(t) \/ ControlRead(t)
  \/ \E d \in Time : rt_timer_control(t, d) \/ \E b \in BOOLEAN : rt_timer_init(t, d, b)

Continue(t) ==
  \/ StartTimeout(t) \/ StartInsert(t) \/ StopRemove(t) \/ StopClear(t)
  \/ \E b \in BOOLEAN : ControlWrite(t, b)

-----------------------------------------------------------------------------
(* The tick interrupt, which no owner interrupts *)

\* No owner is kept waiting with its deadline computed for more than Delay.
rt_tick_increase ==
  /\ ~checking
  /\ \A t \in Timer : pc[t] = "insert"
       => Ago(rt_tick + timer[t].init_tick, timer[t].timeout_tick) < Delay
  /\ rt_tick' = (rt_tick + 1) % TicksWrap
  /\ checking' = TRUE
  /\ UNCHANGED <<rt_timer_list, timer, read, pc, order>>

Due(t) == Ago(rt_tick, timer[t].timeout_tick) < Half

\* What timeout_func may do to its own timer.
Callback(l, t, call) ==
  CASE call = "none"  -> l
    [] call = "stop"  -> StopNow(l, t)
    [] call = "start" -> StartNow(l, t)

\* After the callback: a periodic timer that was not stopped starts again.
Finished(l, t) ==
  IF l.timer[t].periodic /\ l.timer[t].activated
  THEN StartNow(Deactivate(l, t), t)
  ELSE Deactivate(l, t)

\* One turn of the loop of rt_timer_check.
Expire(t, call) ==
  /\ checking /\ rt_timer_list # <<>> /\ t = Head(rt_timer_list) /\ Due(t)
  /\ call = "start" => timer[t].periodic \/ OneShotRestart
  /\ Become(Finished(Callback(_rt_timer_remove(State, t), t, call), t))
  /\ UNCHANGED <<rt_tick, read, checking, pc>>

CheckEnd ==
  /\ checking /\ (rt_timer_list # <<>> => ~Due(Head(rt_timer_list)))
  /\ checking' = FALSE
  /\ UNCHANGED <<rt_tick, rt_timer_list, timer, read, pc, order>>

rt_timer_check ==
  CheckEnd \/ \E t \in Timer : \E call \in {"none", "stop", "start"} : Expire(t, call)

-----------------------------------------------------------------------------
Next == rt_tick_increase \/ rt_timer_check \/ \E t \in Timer : Begin(t) \/ Continue(t)

Spec == Init /\ [][Next]_vars

\* An interrupt handler that was entered runs on.  Nothing is assumed of the
\* owners, nor that the clock ticks.
FairSpec == Spec /\ WF_vars(rt_timer_check)

-----------------------------------------------------------------------------
(* Properties *)

\* The ticks to go, as a signed number, of a timer in the list.
Left(t) ==
  LET d == Ago(timer[t].timeout_tick, rt_tick)
  IN IF d <= Half THEN d ELSE d - TicksWrap

\* Timers go off on time, in order, whatever the callbacks and the owners do
\* meanwhile and wherever the tick counter wraps around.
Clock == INSTANCE AlarmClock
           WITH left <- [t \in Timer |-> IF t \in ToSet(rt_timer_list) THEN Left(t) ELSE TicksWrap],
                Off <- TicksWrap, MaxTime <- Half
FiresOnTime == Clock!Spec

\* A timer that will go off is marked as activated whenever its owner may call
\* rt_timer_stop, which does nothing for a timer that is not: a pending timer
\* can be stopped.
PendingCanBeStopped ==
  TypeOK /\ \A t \in ToSet(rt_timer_list) : pc[t] = "idle" => timer[t].activated

\* The tick interrupt returns: restarted timers never keep rt_timer_check in
\* its loop.
CheckEnds == checking ~> ~checking
=============================================================================
