---------------------------- MODULE TimerProofs ----------------------------
(***************************************************************************)
(* Proofs about Timer, for any width of the tick, any timers and periods:  *)
(* it implements AlarmClock, and a pending timer can be stopped.           *)
(***************************************************************************)
EXTENDS Timer, ListProofs

-----------------------------------------------------------------------------
(* Ticks modulo TicksWrap *)

\* What TimerAssumption says of the constants, in the form the provers use.
LEMMA Numbers ==
  /\ TicksWrap \in Nat /\ TicksWrap > 0 /\ Half \in Nat /\ 2 * Half < TicksWrap
  /\ Delay \in Nat /\ Time \subseteq Nat
  /\ \A d \in Time : 1 <= d /\ d + Delay < Half
<1>1. TicksWrap \in Nat /\ TicksWrap > 0 /\ Delay \in Nat BY TimerAssumption
<1>2. Half \in Nat /\ 2 * Half < TicksWrap
  <2>1. PICK m \in Nat : m = TicksWrap - 1 BY <1>1
  <2>2. Half = m \div 2 BY <2>1 DEF Half, RT_TICK_MAX
  <2>3. m \div 2 \in Nat /\ 2 * (m \div 2) <= m BY <2>1
  <2> QED BY <1>1, <2>1, <2>2, <2>3
<1>3. ASSUME NEW d \in Time PROVE d \in Nat /\ 1 <= d /\ d + Delay < Half
  <2>1. d \in 1 .. Half - 1 /\ d + Delay < Half BY TimerAssumption
  <2> QED BY <1>2, <2>1
<1> QED BY <1>1, <1>2, <1>3

\* What the remainder is of a number that is off by one turn at most.
LEMMA Wrap ==
  ASSUME NEW w \in Nat, w > 0, NEW x \in Int
  PROVE  /\ x % w \in 0 .. w - 1
         /\ x \in 0 .. w - 1 => x % w = x
         /\ x \in w .. 2 * w - 1 => x % w = x - w
         /\ -w <= x /\ x < 0 => x % w = x + w
<1>1. x % w \in 0 .. w - 1 OBVIOUS
<1>2. ASSUME x \in 0 .. w - 1 PROVE x % w = x BY <1>2
<1>3. ASSUME x \in w .. 2 * w - 1 PROVE x % w = x - w BY <1>3
<1>4. ASSUME -w <= x, x < 0 PROVE x % w = x + w BY <1>4
<1> QED BY <1>1, <1>2, <1>3, <1>4

\* The signed distance of a deadline from a tick.
LeftOf(deadline, now) ==
  LET d == Ago(deadline, now) IN IF d <= Half THEN d ELSE d - TicksWrap

\* It is the only number within half a turn that leads from the tick to the
\* deadline.
LEMMA LeftOfIs ==
  ASSUME NEW a \in Tick, NEW now \in Tick, NEW x \in Int, -Half <= x, x <= Half
  PROVE  LeftOf(a, now) = x <=> a = (now + x) % TicksWrap
<1> DEFINE w == TicksWrap
<1>1. w \in Nat /\ w > 0 /\ Half \in Nat /\ 2 * Half < w BY Numbers
<1>2. a \in 0 .. w - 1 /\ now \in 0 .. w - 1 BY DEF Tick, RT_TICK_MAX
<1> HIDE DEF w
<1>3. (a - now) % w = IF a < now THEN a - now + w ELSE a - now
  BY <1>1, <1>2, Wrap
<1>4. (now + x) % w = IF now + x < 0 THEN now + x + w
                      ELSE IF now + x < w THEN now + x ELSE now + x - w
  BY <1>1, <1>2, Wrap
<1>5. LeftOf(a, now) = IF (a - now) % w <= Half THEN (a - now) % w ELSE ((a - now) % w) - w
  BY DEF LeftOf, Ago, w
<1>6. LeftOf(a, now) = x <=> a = (now + x) % w
  BY <1>1, <1>2, <1>3, <1>4, <1>5
<1> QED BY <1>6 DEF w

\* A sum or difference of ticks is a tick again, modulo the width.
LEMMA TickType ==
  /\ Tick = 0 .. TicksWrap - 1 /\ 0 \in Tick
  /\ \A x \in Int : x % TicksWrap \in Tick
<1>1. TicksWrap \in Nat /\ TicksWrap > 0 BY Numbers
<1>2. Tick = 0 .. TicksWrap - 1 BY DEF Tick, RT_TICK_MAX
<1>3. PICK w \in Nat : w = TicksWrap /\ w > 0 BY <1>1
<1>4. \A x \in Int : x % w \in 0 .. w - 1 BY <1>3, Wrap
<1> QED BY <1>2, <1>3, <1>4

\* The signed distance is never TicksWrap, which stands for a timer that is off.
LEMMA LeftOfRange ==
  ASSUME NEW a \in Tick, NEW now \in Tick
  PROVE  LeftOf(a, now) \in Int /\ LeftOf(a, now) <= Half /\ LeftOf(a, now) # TicksWrap
<1>1. PICK w \in Nat : w = TicksWrap /\ w > 0 /\ Half \in Nat /\ 2 * Half < w BY Numbers
<1>2. a \in 0 .. w - 1 /\ now \in 0 .. w - 1 BY <1>1, TickType
<1>3. (a - now) % w \in 0 .. w - 1 BY <1>1, <1>2, Wrap
<1>4. LeftOf(a, now) = IF (a - now) % w <= Half THEN (a - now) % w ELSE ((a - now) % w) - w
  BY <1>1 DEF LeftOf, Ago
<1>5. LeftOf(a, now) \in Int /\ LeftOf(a, now) <= Half /\ LeftOf(a, now) # w
  BY <1>1, <1>3, <1>4
<1> QED BY <1>1, <1>5

\* A tick brings a deadline nearer by one.
LEMMA OneTickLess ==
  ASSUME NEW a \in Tick, NEW now \in Tick, -Half < LeftOf(a, now)
  PROVE  LeftOf(a, (now + 1) % TicksWrap) = LeftOf(a, now) - 1
<1>1. PICK w \in Nat : w = TicksWrap /\ w > 0 /\ Half \in Nat /\ 2 * Half < w BY Numbers
<1>2. PICK x \in Int : x = LeftOf(a, now) /\ x <= Half /\ -Half < x BY LeftOfRange
<1>3. PICK n \in Tick : n = (now + 1) % w
  <2>1. now + 1 \in Int BY <1>1, TickType
  <2> QED BY <1>1, <2>1, TickType
<1>4. a \in 0 .. w - 1 /\ now \in 0 .. w - 1 BY <1>1, TickType
<1>5. a = (now + x) % w BY <1>1, <1>2, LeftOfIs
<1>6. a = IF now + x < 0 THEN now + x + w ELSE IF now + x < w THEN now + x ELSE now + x - w
  BY <1>1, <1>2, <1>4, <1>5, Wrap
<1>7. n = IF now + 1 < w THEN now + 1 ELSE now + 1 - w BY <1>1, <1>3, <1>4, Wrap
<1>8. PICK z \in Int : z = n + (x - 1) /\ -w <= z /\ z <= 2 * w - 1
  <2>1. n \in 0 .. w - 1 BY <1>1, <1>3, TickType
  <2> QED BY <1>1, <1>2, <2>1
<1>9. a = (n + (x - 1)) % w
  <2>1. z % w = IF z < 0 THEN z + w ELSE IF z < w THEN z ELSE z - w BY <1>1, <1>8, Wrap
  <2>2. a = IF z < 0 THEN z + w ELSE IF z < w THEN z ELSE z - w
    <3>1. CASE now + 1 < w
      <4>1. z = now + x BY <1>1, <1>2, <1>4, <1>7, <1>8, <3>1
      <4> QED BY <1>6, <4>1
    <3>2. CASE now = w - 1
      <4>1. z = x - 1 BY <1>1, <1>2, <1>7, <1>8, <3>2
      <4>2. now + x = w + z BY <1>1, <1>2, <3>2, <4>1
      <4>3. z < w /\ -w <= z BY <1>1, <1>2, <4>1
      <4> QED BY <1>1, <1>2, <1>6, <1>8, <4>2, <4>3
    <3> QED BY <1>1, <1>4, <3>1, <3>2
  <2>3. a = z % w BY <2>1, <2>2, Zenon
  <2> QED BY <1>8, <2>3
<1>10. x - 1 \in Int /\ -Half <= x - 1 /\ x - 1 <= Half BY <1>1, <1>2
<1>11. LeftOf(a, n) = x - 1 BY <1>1, <1>9, <1>10, LeftOfIs
<1> QED BY <1>1, <1>2, <1>3, <1>11

\* The comparison of rt_timer_start tells which of two deadlines is later.
LEMMA ComparesDeadlines ==
  ASSUME NEW a \in Tick, NEW b \in Tick, NEW now \in Tick,
         -Half <= LeftOf(a, now), -Half <= LeftOf(b, now),
         LeftOf(a, now) - LeftOf(b, now) \in 1 - Half .. Half - 1
  PROVE  Ago(a, b) \in 1 .. Half - 1 <=> LeftOf(a, now) > LeftOf(b, now)
<1>1. PICK w \in Nat : w = TicksWrap /\ w > 0 /\ Half \in Nat /\ 2 * Half < w BY Numbers
<1>2. PICK x \in Int : x = LeftOf(a, now) /\ x <= Half /\ -Half <= x BY LeftOfRange
<1>3. PICK y \in Int : y = LeftOf(b, now) /\ y <= Half /\ -Half <= y BY LeftOfRange
<1>4. a \in 0 .. w - 1 /\ b \in 0 .. w - 1 /\ now \in 0 .. w - 1 BY <1>1, TickType
<1>5. a = (now + x) % w /\ b = (now + y) % w BY <1>1, <1>2, <1>3, LeftOfIs
<1>6. a = IF now + x < 0 THEN now + x + w ELSE IF now + x < w THEN now + x ELSE now + x - w
  BY <1>1, <1>2, <1>4, <1>5, Wrap
<1>7. b = IF now + y < 0 THEN now + y + w ELSE IF now + y < w THEN now + y ELSE now + y - w
  BY <1>1, <1>3, <1>4, <1>5, Wrap
<1>8. (a - b) % w = IF a < b THEN a - b + w ELSE a - b
  <2>1. a - b \in Int /\ -w <= a - b /\ a - b <= w - 1 BY <1>1, <1>4
  <2> QED BY <1>1, <1>4, <2>1, Wrap
<1>9. x - y \in 1 - Half .. Half - 1 BY <1>2, <1>3
<1>10. (a - b) % w \in 1 .. Half - 1 <=> x > y
  BY <1>1, <1>2, <1>3, <1>4, <1>6, <1>7, <1>8, <1>9
<1> QED BY <1>1, <1>2, <1>3, <1>10 DEF Ago

\* rt_timer_check takes exactly the deadlines that have passed.
LEMMA DueIsPast ==
  ASSUME NEW a \in Tick, NEW now \in Tick, -Half < LeftOf(a, now)
  PROVE  Ago(now, a) < Half <=> LeftOf(a, now) <= 0
<1>1. PICK w \in Nat : w = TicksWrap /\ w > 0 /\ Half \in Nat /\ 2 * Half < w BY Numbers
<1>2. PICK x \in Int : x = LeftOf(a, now) /\ x <= Half /\ -Half < x BY LeftOfRange
<1>3. a \in 0 .. w - 1 /\ now \in 0 .. w - 1 BY <1>1, TickType
<1>4. (a - now) % w = IF a < now THEN a - now + w ELSE a - now
  <2>1. a - now \in Int /\ -w <= a - now /\ a - now <= w - 1 BY <1>1, <1>3
  <2> QED BY <1>1, <1>3, <2>1, Wrap
<1>5. (now - a) % w = IF now < a THEN now - a + w ELSE now - a
  <2>1. now - a \in Int /\ -w <= now - a /\ now - a <= w - 1 BY <1>1, <1>3
  <2> QED BY <1>1, <1>3, <2>1, Wrap
<1>6. x = IF (a - now) % w <= Half THEN (a - now) % w ELSE ((a - now) % w) - w
  BY <1>1, <1>2 DEF LeftOf, Ago
<1>7. (now - a) % w < Half <=> x <= 0
  <2>1. CASE a < now BY <1>1, <1>2, <1>3, <1>4, <1>5, <1>6, <2>1
  <2>2. CASE a >= now BY <1>1, <1>2, <1>3, <1>4, <1>5, <1>6, <2>2
  <2> QED BY <1>3, <2>1, <2>2
<1> QED BY <1>1, <1>2, <1>7 DEF Ago

\* Ago is a remainder, whatever form its argument has.
LEMMA AgoIs ==
  ASSUME NEW a, NEW b, NEW y, y = a - b
  PROVE  Ago(a, b) = y % TicksWrap
BY DEF Ago

\* A deadline computed a while ago.
LEMMA SetLate ==
  ASSUME NEW d \in Time, NEW a \in Tick, NEW now \in Tick, Ago(now + d, a) \in 0 .. Delay
  PROVE  LeftOf(a, now) = d - Ago(now + d, a)
<1>1. PICK w \in Nat : w = TicksWrap /\ w > 0 /\ Half \in Nat /\ 2 * Half < w BY Numbers
<1>2. d \in Nat /\ 1 <= d /\ d + Delay < Half /\ Delay \in Nat BY Numbers
<1>3. a \in 0 .. w - 1 /\ now \in 0 .. w - 1 BY <1>1, TickType
<1>4. PICK e \in 0 .. Delay : e = Ago(now + d, a) OBVIOUS
<1>5. PICK y \in Int : y = (now + d) - a /\ -w <= y /\ y <= 2 * w - 1 BY <1>1, <1>2, <1>3
<1>6. e = IF y < 0 THEN y + w ELSE IF y < w THEN y ELSE y - w
  <2>1. e = y % w BY <1>1, <1>4, <1>5, AgoIs, Zenon
  <2> QED BY <1>1, <1>5, <2>1, Wrap
<1>7. PICK z \in Int : z = now + (d - e) /\ -w <= z /\ z <= 2 * w - 1
  BY <1>1, <1>2, <1>3, <1>4
<1>8. a = (now + (d - e)) % w
  <2>1. z % w = IF z < 0 THEN z + w ELSE IF z < w THEN z ELSE z - w BY <1>1, <1>7, Wrap
  <2>2. a = z % w BY <1>1, <1>2, <1>3, <1>5, <1>6, <1>7, <2>1
  <2> QED BY <1>7, <2>2
<1>9. d - e \in Int /\ -Half <= d - e /\ d - e <= Half BY <1>1, <1>2, <1>4
<1>10. LeftOf(a, now) = d - e BY <1>1, <1>8, <1>9, LeftOfIs
<1> QED BY <1>4, <1>10

\* A tick makes a deadline that is yet to be inserted later by one.
LEMMA OneTickLater ==
  ASSUME NEW d \in Time, NEW a \in Tick, NEW now \in Tick,
         Ago(now + d, a) \in 0 .. Delay, Ago(now + d, a) < Delay
  PROVE  Ago(((now + 1) % TicksWrap) + d, a) \in 0 .. Delay
<1>1. PICK w \in Nat : w = TicksWrap /\ w > 0 /\ Half \in Nat /\ 2 * Half < w BY Numbers
<1>2. d \in Nat /\ 1 <= d /\ d + Delay < Half /\ Delay \in Nat BY Numbers
<1>3. a \in 0 .. w - 1 /\ now \in 0 .. w - 1 BY <1>1, TickType
<1>4. PICK e \in 0 .. Delay : e = Ago(now + d, a) /\ e < Delay OBVIOUS
<1>5. PICK n : n = (now + 1) % w OBVIOUS
<1>6. n = IF now + 1 < w THEN now + 1 ELSE now + 1 - w BY <1>1, <1>3, <1>5, Wrap
<1>7. PICK y \in Int : y = (now + d) - a /\ -w <= y /\ y <= 2 * w - 1 BY <1>1, <1>2, <1>3
<1>8. e = IF y < 0 THEN y + w ELSE IF y < w THEN y ELSE y - w
  <2>1. e = y % w BY <1>1, <1>4, <1>7, AgoIs, Zenon
  <2> QED BY <1>1, <1>7, <2>1, Wrap
<1>9. PICK z \in Int : z = (n + d) - a /\ -w <= z /\ z <= 2 * w - 1
  BY <1>1, <1>2, <1>3, <1>6
<1>10. z % w = IF z < 0 THEN z + w ELSE IF z < w THEN z ELSE z - w BY <1>1, <1>9, Wrap
<1>11. z % w = e + 1
  BY <1>1, <1>2, <1>3, <1>4, <1>6, <1>7, <1>8, <1>9, <1>10
<1>12. z % w \in 0 .. Delay BY <1>2, <1>4, <1>11
<1>13. Ago(n + d, a) = z % w BY <1>1, <1>9, AgoIs, Zenon
<1>14. n = (now + 1) % TicksWrap BY <1>1, <1>5, Zenon
<1> QED BY <1>12, <1>13, <1>14, Zenon

\* A deadline computed now.
LEMMA SetNow ==
  ASSUME NEW d \in Time, NEW now \in Tick, NEW a, a = (now + d) % TicksWrap
  PROVE  a \in Tick /\ Ago(now + d, a) = 0 /\ LeftOf(a, now) = d
<1>1. PICK w \in Nat : w = TicksWrap /\ w > 0 /\ Half \in Nat /\ 2 * Half < w BY Numbers
<1>2. d \in Nat /\ 1 <= d /\ d + Delay < Half /\ Delay \in Nat BY Numbers
<1>3. now \in 0 .. w - 1 /\ now + d \in 0 .. 2 * w - 1 BY <1>1, <1>2, TickType
<1>4. a \in Tick BY <1>3, TickType
<1>5. LeftOf(a, now) = d
  <2>1. d \in Int /\ -Half <= d /\ d <= Half BY <1>1, <1>2
  <2> QED BY <1>4, <2>1, LeftOfIs
<1>6. PICK y \in 0 .. 2 * w - 1 : y = now + d BY <1>3
<1>7. a = y % w BY <1>1, <1>6
<1>8. a = IF y < w THEN y ELSE y - w BY <1>1, <1>6, <1>7, Wrap
<1>9. PICK z \in Int : z = y - a /\ (z = 0 \/ z = w) BY <1>1, <1>6, <1>8
<1>10. z % w = 0 BY <1>1, <1>9, Wrap
<1>11. Ago(now + d, a) = 0 BY <1>1, <1>6, <1>9, <1>10, Zenon DEF Ago
<1> QED BY <1>4, <1>5, <1>11

-----------------------------------------------------------------------------
(* The functions of the timer list, on any state l of it at the tick now   *)

TimerRecord == [timeout_tick : Tick, init_tick : Time, activated : BOOLEAN, periodic : BOOLEAN]
TimerState  == [list : Seq(Timer), timer : [Timer -> TimerRecord], order : Seq(Timer)]

\* What a function leaves alone: the other timers, and of t all but the
\* deadline and the flag.
Others(l, r, t) ==
  /\ \A u \in Timer : u # t => r.timer[u] = l.timer[u]
  /\ r.timer[t].init_tick = l.timer[t].init_tick
  /\ r.timer[t].periodic = l.timer[t].periodic

\* _rt_timer_remove.
LEMMA RemoveEffect ==
  ASSUME NEW l \in TimerState, NEW t \in Timer, NoDup(l.list), NoDup(l.order),
         NEW r, r = _rt_timer_remove(l, t)
  PROVE  /\ r \in TimerState /\ Others(l, r, t)
         /\ r.list = Unlink(l.list, t) /\ r.order = Unlink(l.order, t)
         /\ r.timer[t].activated = l.timer[t].activated
<1>1. l.list \in Seq(Timer) /\ l.order \in Seq(Timer) BY DEF TimerState
<1>2. Unlink(l.list, t) \in Seq(Timer) /\ Unlink(l.order, t) \in Seq(Timer)
  BY <1>1, UnlinkList
<1>3. 0 \in Tick BY TickType
<1>4. /\ r \in TimerState
      /\ r.list = Unlink(l.list, t) /\ r.order = Unlink(l.order, t)
      /\ r.timer = [l.timer EXCEPT ![t].timeout_tick = 0]
  <2>1. [l.timer EXCEPT ![t].timeout_tick = 0] \in [Timer -> TimerRecord]
    BY <1>3 DEF TimerState, TimerRecord
  <2>2. PICK tm \in [Timer -> TimerRecord] : tm = [l.timer EXCEPT ![t].timeout_tick = 0]
    BY <2>1
  <2>3. PICK s \in Seq(Timer), o \in Seq(Timer) :
          s = Unlink(l.list, t) /\ o = Unlink(l.order, t)
    BY <1>2
  <2>4. r = [l EXCEPT !.list = s, !.order = o, !.timer = tm]
    BY <2>2, <2>3 DEF _rt_timer_remove
  <2> QED BY <2>2, <2>3, <2>4 DEF TimerState
<1>5. l.timer \in [Timer -> TimerRecord] BY DEF TimerState
<1> QED BY <1>4, <1>5 DEF Others, TimerRecord

\* The change of the flag.
LEMMA DeactivateEffect ==
  ASSUME NEW l \in TimerState, NEW t \in Timer,
         NEW r, r = Deactivate(l, t)
  PROVE  /\ r \in TimerState /\ Others(l, r, t)
         /\ r.list = l.list /\ r.order = l.order
         /\ r.timer[t].timeout_tick = l.timer[t].timeout_tick
<1>1. /\ r \in TimerState /\ r.list = l.list /\ r.order = l.order
      /\ r.timer = [l.timer EXCEPT ![t].activated = FALSE]
  BY DEF Deactivate, TimerState, TimerRecord
<1>2. l.timer \in [Timer -> TimerRecord] BY DEF TimerState
<1> QED BY <1>1, <1>2 DEF Others, TimerRecord

\* The deadline of a timer that starts.
LEMMA SetTimeoutEffect ==
  ASSUME NEW l \in TimerState, NEW t \in Timer, rt_tick \in Tick, NEW r, r = SetTimeout(l, t)
  PROVE  /\ r \in TimerState /\ Others(l, r, t)
         /\ r.list = l.list /\ r.order = l.order
         /\ r.timer[t].activated = l.timer[t].activated
         /\ r.timer[t].timeout_tick = (rt_tick + l.timer[t].init_tick) % TicksWrap
<1> DEFINE n == (rt_tick + l.timer[t].init_tick) % TicksWrap
<1>1. n \in Tick
  <2>1. l.timer[t].init_tick \in Time BY DEF TimerState, TimerRecord
  <2> QED BY <2>1, SetNow
<1> HIDE DEF n
<1>2. r = [l EXCEPT !.timer[t].timeout_tick = n] BY DEF SetTimeout, n
<1>3. /\ r \in TimerState /\ r.list = l.list /\ r.order = l.order
      /\ r.timer = [l.timer EXCEPT ![t].timeout_tick = n]
  <2>1. [l.timer EXCEPT ![t].timeout_tick = n] \in [Timer -> TimerRecord]
    BY <1>1 DEF TimerState, TimerRecord
  <2>2. PICK tm \in [Timer -> TimerRecord] : tm = [l.timer EXCEPT ![t].timeout_tick = n]
    BY <2>1
  <2>3. r = [l EXCEPT !.timer = tm] BY <1>2, <2>2
  <2> QED BY <2>2, <2>3 DEF TimerState
<1>4. l.timer \in [Timer -> TimerRecord] BY DEF TimerState
<1> QED BY <1>3, <1>4 DEF Others, TimerRecord, n

\* The insertion at a place of the list.
LEMMA LinkEffect ==
  ASSUME NEW l \in TimerState, NEW t \in Timer, NEW i \in 0 .. Len(l.list),
         NEW r, r = Link(l, i, t)
  PROVE  /\ r \in TimerState /\ Others(l, r, t)
         /\ r.list = LinkAt(l.list, i, t) /\ r.order = Append(l.order, t)
         /\ r.timer[t].activated = TRUE
         /\ r.timer[t].timeout_tick = l.timer[t].timeout_tick
<1>1. l.list \in Seq(Timer) /\ l.order \in Seq(Timer) BY DEF TimerState
<1>2. LinkAt(l.list, i, t) \in Seq(Timer) /\ Append(l.order, t) \in Seq(Timer)
  BY <1>1, LinkAtList, AppendList
<1>3. /\ r \in TimerState
      /\ r.list = LinkAt(l.list, i, t) /\ r.order = Append(l.order, t)
      /\ r.timer = [l.timer EXCEPT ![t].activated = TRUE]
  <2>1. [l.timer EXCEPT ![t].activated = TRUE] \in [Timer -> TimerRecord]
    BY DEF TimerState, TimerRecord
  <2>2. PICK tm \in [Timer -> TimerRecord] : tm = [l.timer EXCEPT ![t].activated = TRUE]
    BY <2>1
  <2>3. PICK s \in Seq(Timer), o \in Seq(Timer) :
          s = LinkAt(l.list, i, t) /\ o = Append(l.order, t)
    BY <1>2
  <2>4. r = [l EXCEPT !.list = s, !.order = o, !.timer = tm] BY <2>2, <2>3 DEF Link
  <2> QED BY <2>2, <2>3, <2>4 DEF TimerState
<1>4. l.timer \in [Timer -> TimerRecord] BY DEF TimerState
<1> QED BY <1>3, <1>4 DEF Others, TimerRecord

-----------------------------------------------------------------------------
(* The list is sorted by the time left, and by the order of starting where *)
(* that is the same; of no timer less than lo is left.                     *)

Key(l, now) == [u \in Timer |-> LeftOf(l.timer[u].timeout_tick, now)]

Ranked(s, key, o) ==
  \A a, b : Precedes(s, a, b) => key[a] < key[b] \/ (key[a] = key[b] /\ Precedes(o, a, b))

Latest == Half - 1 - Delay

Linked(l, now, lo) ==
  /\ l \in TimerState
  /\ NoDup(l.list) /\ NoDup(l.order) /\ ToSet(l.list) = ToSet(l.order)
  /\ \A u \in ToSet(l.list) : Key(l, now)[u] \in lo .. Latest
  /\ Ranked(l.list, Key(l, now), l.order)

Lowest(lo) == lo \in Int /\ -Delay <= lo /\ lo <= 1

\* The key by which the list is sorted is a number.
LEMMA KeyType ==
  ASSUME NEW l \in TimerState, NEW now \in Tick, NEW key, key = Key(l, now)
  PROVE  /\ key \in [Timer -> Int]
         /\ \A u \in Timer : /\ l.timer[u].timeout_tick \in Tick
                             /\ key[u] = LeftOf(l.timer[u].timeout_tick, now)
<1>1. \A u \in Timer : l.timer[u].timeout_tick \in Tick BY DEF TimerState, TimerRecord
<1>2. \A u \in Timer : LeftOf(l.timer[u].timeout_tick, now) \in Int BY <1>1, LeftOfRange
<1> QED BY <1>1, <1>2 DEF Key

\* Only elements of a list precede one another in it.
LEMMA PrecedesIn ==
  ASSUME NEW T, NEW s \in Seq(T), NEW a, NEW b, Precedes(s, a, b)
  PROVE  a \in ToSet(s) /\ b \in ToSet(s) /\ a \in T /\ b \in T
<1>1. a \in ToSet(s) /\ b \in ToSet(s) BY InToSet DEF Precedes
<1> QED BY <1>1, EmptyList

\* The deadlines of the timers in the list are all that matters.
LEMMA LinkedSame ==
  ASSUME NEW l, NEW r \in TimerState, NEW now \in Tick, NEW lo, Linked(l, now, lo),
         r.list = l.list, r.order = l.order,
         \A u \in ToSet(l.list) : r.timer[u].timeout_tick = l.timer[u].timeout_tick
  PROVE  Linked(r, now, lo)
<1>1. l \in TimerState /\ l.list \in Seq(Timer) BY DEF Linked, TimerState
<1>2. PICK key : key = Key(l, now) OBVIOUS
<1>3. PICK new : new = Key(r, now) OBVIOUS
<1>4. \A u \in ToSet(l.list) : u \in Timer BY <1>1, EmptyList
<1>5. \A u \in ToSet(l.list) : new[u] = key[u]
  <2>1. \A u \in Timer : key[u] = LeftOf(l.timer[u].timeout_tick, now) BY <1>1, <1>2, KeyType
  <2>2. \A u \in Timer : new[u] = LeftOf(r.timer[u].timeout_tick, now) BY <1>3, KeyType
  <2> QED BY <1>4, <2>1, <2>2
<1>6. Ranked(l.list, key, l.order) BY <1>2 DEF Linked
<1>7. Ranked(l.list, new, l.order)
  <2> SUFFICES ASSUME NEW a, NEW b, Precedes(l.list, a, b)
               PROVE  \/ new[a] < new[b]
                      \/ new[a] = new[b] /\ Precedes(l.order, a, b)
    BY DEF Ranked
  <2>1. a \in ToSet(l.list) /\ b \in ToSet(l.list) BY <1>1, PrecedesIn
  <2>2. new[a] = key[a] /\ new[b] = key[b] BY <1>5, <2>1
  <2> QED BY <1>6, <2>2 DEF Ranked
<1>8. \A u \in ToSet(l.list) : new[u] \in lo .. Latest BY <1>2, <1>5 DEF Linked
<1> QED BY <1>3, <1>7, <1>8, Zenon DEF Linked

\* _rt_timer_remove keeps the order of the others.
LEMMA RemoveLinked ==
  ASSUME NEW l, NEW t \in Timer, NEW now \in Tick, NEW lo, Linked(l, now, lo),
         NEW r, r = _rt_timer_remove(l, t)
  PROVE  /\ Linked(r, now, lo) /\ Others(l, r, t)
         /\ ToSet(r.list) = ToSet(l.list) \ {t} /\ r.order = Unlink(l.order, t)
         /\ r.timer[t].activated = l.timer[t].activated
<1>1. /\ l \in TimerState /\ l.list \in Seq(Timer) /\ l.order \in Seq(Timer)
      /\ NoDup(l.list) /\ NoDup(l.order) /\ ToSet(l.list) = ToSet(l.order)
  BY DEF Linked, TimerState
<1>2. /\ r \in TimerState /\ Others(l, r, t)
      /\ r.list = Unlink(l.list, t) /\ r.order = Unlink(l.order, t)
      /\ r.timer[t].activated = l.timer[t].activated
  BY <1>1, RemoveEffect
<1>3. /\ ToSet(r.list) = ToSet(l.list) \ {t} /\ NoDup(r.list)
      /\ ToSet(r.order) = ToSet(l.order) \ {t} /\ NoDup(r.order)
  BY <1>1, <1>2, UnlinkList
<1>4. PICK key : key = Key(l, now) OBVIOUS
<1>5. PICK new : new = Key(r, now) OBVIOUS
<1>6. \A u \in ToSet(r.list) : u \in ToSet(l.list) /\ u \in Timer /\ u # t
  BY <1>1, <1>3, EmptyList
<1>7. \A u \in ToSet(r.list) : new[u] = key[u]
  <2>1. \A u \in Timer : u # t => r.timer[u] = l.timer[u] BY <1>2 DEF Others
  <2>2. \A u \in Timer : key[u] = LeftOf(l.timer[u].timeout_tick, now) BY <1>1, <1>4, KeyType
  <2>3. \A u \in Timer : new[u] = LeftOf(r.timer[u].timeout_tick, now) BY <1>2, <1>5, KeyType
  <2> QED BY <1>6, <2>1, <2>2, <2>3
<1>8. Ranked(l.list, key, l.order) BY <1>4 DEF Linked
<1>9. Ranked(r.list, new, r.order)
  <2> SUFFICES ASSUME NEW a, NEW b, Precedes(r.list, a, b)
               PROVE  \/ new[a] < new[b]
                      \/ new[a] = new[b] /\ Precedes(r.order, a, b)
    BY DEF Ranked
  <2>1. a \in ToSet(r.list) /\ b \in ToSet(r.list)
    <3>1. r.list \in Seq(Timer) BY <1>2 DEF TimerState
    <3> QED BY <3>1, PrecedesIn
  <2>2. new[a] = key[a] /\ new[b] = key[b] BY <1>7, <2>1
  <2>3. Precedes(l.list, a, b) /\ a # t /\ b # t
    <3>1. Precedes(Unlink(l.list, t), a, b) BY <1>2
    <3> QED BY <1>1, <3>1, UnlinkPrecedes
  <2>4. ASSUME Precedes(l.order, a, b) PROVE Precedes(r.order, a, b)
    <3>1. Precedes(Unlink(l.order, t), a, b) BY <1>1, <2>3, <2>4, UnlinkPrecedes
    <3> QED BY <1>2, <3>1
  <2> QED BY <1>8, <2>2, <2>3, <2>4 DEF Ranked
<1>10. \A u \in ToSet(r.list) : new[u] \in lo .. Latest
  BY <1>4, <1>6, <1>7 DEF Linked
<1>11. Linked(r, now, lo)
  BY <1>1, <1>2, <1>3, <1>5, <1>9, <1>10, Zenon DEF Linked
<1> QED BY <1>2, <1>3, <1>11

\* A period and the delay together are less than half a turn.
LEMMA DelayShort ==
  ASSUME NEW l \in TimerState, NEW t \in Timer
  PROVE  /\ l.timer[t].init_tick \in Time /\ Delay < Half /\ Half \in Nat /\ Delay \in Nat
         /\ Latest \in Int /\ Latest = Half - 1 - Delay
<1>1. l.timer[t].init_tick \in Time BY DEF TimerState, TimerRecord
<1>2. PICK d : d = l.timer[t].init_tick OBVIOUS
<1>3. /\ d \in Nat /\ 1 <= d /\ d + Delay < Half
      /\ Half \in Nat /\ Delay \in Nat
  BY <1>1, <1>2, Numbers
<1>4. Delay < Half BY <1>3
<1>5. Latest = Half - 1 - Delay BY DEF Latest
<1> QED BY <1>1, <1>3, <1>4, <1>5

\* The place that rt_timer_start finds: the timers before it are due no later
\* than t, the one at it later.
LEMMA PlaceFound ==
  ASSUME NEW l \in TimerState, NEW t \in Timer, NEW now \in Tick,
         NEW lo, Lowest(lo), NEW key, key = Key(l, now), key[t] \in lo .. Latest,
         \A u \in ToSet(l.list) : key[u] \in lo .. Latest
  PROVE  \E n \in 0 .. Len(l.list) :
           /\ Insert(l, t) = Link(l, n, t)
           /\ \A i \in 1 .. Len(l.list) : n = 0 \/ i < n => key[l.list[i]] <= key[t]
           /\ n # 0 => key[t] < key[l.list[n]]
<1>2. PICK s \in Seq(Timer) : s = l.list BY DEF TimerState
<1> DEFINE I == {i \in 1 .. Len(s) :
                   Ago(l.timer[s[i]].timeout_tick, l.timer[t].timeout_tick) \in 1 .. Half - 1}
           p == IF I # {} THEN Min(I) ELSE 0
<1>1. Insert(l, t) = Link(l, p, t)
  <2>1. p = SelectInSeq(s, LAMBDA u :
              Ago(l.timer[u].timeout_tick, l.timer[t].timeout_tick) \in 1 .. Half - 1)
    BY DEF SelectInSeq
  <2> QED BY <1>2, <2>1 DEF Insert
<1>3. ASSUME NEW i \in 1 .. Len(s)
      PROVE  /\ key[s[i]] \in Int /\ key[t] \in Int
             /\ i \in I <=> key[t] < key[s[i]]
  <2>1. s[i] \in ToSet(s) /\ s[i] \in Timer BY InToSet
  <2>2. PICK a \in Tick : a = l.timer[s[i]].timeout_tick /\ key[s[i]] = LeftOf(a, now)
    BY <2>1, KeyType
  <2>3. PICK b \in Tick : b = l.timer[t].timeout_tick /\ key[t] = LeftOf(b, now)
    BY KeyType
  <2>4. key[s[i]] \in lo .. Latest BY <1>2, <2>1
  <2>5. lo \in Int /\ -Delay <= lo BY DEF Lowest
  <2>6. Delay < Half /\ Half \in Nat /\ Delay \in Nat /\ Latest = Half - 1 - Delay BY DelayShort
  <2>7. key[s[i]] \in Int /\ key[t] \in Int BY <2>4, <2>5, <2>6
  <2>8. /\ -Half <= key[s[i]] /\ -Half <= key[t]
        /\ key[s[i]] - key[t] \in 1 - Half .. Half - 1
    BY <2>4, <2>5, <2>6, <2>7
  <2>9. Ago(a, b) \in 1 .. Half - 1 <=> key[s[i]] > key[t]
    BY <2>2, <2>3, <2>8, ComparesDeadlines
  <2>10. i \in I <=> Ago(a, b) \in 1 .. Half - 1 BY <2>2, <2>3
  <2> QED BY <2>7, <2>9, <2>10
<1>4. PICK J : J = I OBVIOUS
<1>5. PICK n : n = p /\ n = IF J # {} THEN Min(J) ELSE 0 BY <1>4
<1>6. \A i \in 1 .. Len(s) : /\ key[s[i]] \in Int /\ key[t] \in Int
                             /\ i \in J <=> key[t] < key[s[i]]
  BY <1>3, <1>4
<1> HIDE DEF p
<1>7. /\ n \in 0 .. Len(s)
      /\ n = 0 => J = {}
      /\ n # 0 => n \in J /\ \A i \in J : n <= i
  <2>1. Len(s) \in Nat /\ J \subseteq 1 .. Len(s) BY <1>4
  <2> QED BY <1>5, <2>1, FirstPlace, Zenon
<1>8. ASSUME NEW i \in 1 .. Len(s), n = 0 \/ i < n PROVE key[s[i]] <= key[t]
  <2>1. i \in Nat /\ n \in Nat BY <1>7
  <2>2. i \notin J BY <1>7, <1>8, <2>1
  <2> QED BY <1>6, <2>2
<1>9. ASSUME n # 0 PROVE key[t] < key[s[n]]
  <2>1. n \in J /\ n \in 1 .. Len(s) BY <1>4, <1>7, <1>9
  <2> QED BY <1>6, <2>1
<1> QED BY <1>1, <1>2, <1>5, <1>7, <1>8, <1>9, Zenon

\* A timer that can be linked, with its deadline set, and what its linking does.
Linkable(l, t, now, lo) ==
  Linked(l, now, lo) /\ t \notin ToSet(l.list) /\ Key(l, now)[t] \in lo .. Latest

Inserted(l, r, t) ==
  /\ Others(l, r, t)
  /\ ToSet(r.list) = ToSet(l.list) \cup {t} /\ r.order = Append(l.order, t)
  /\ r.timer[t].activated = TRUE
  /\ r.timer[t].timeout_tick = l.timer[t].timeout_tick

\* rt_timer_start links a timer into the sorted list.
LEMMA InsertLinked ==
  ASSUME NEW l, NEW t \in Timer, NEW now \in Tick, NEW lo, Lowest(lo),
         Linkable(l, t, now, lo), NEW r, r = Insert(l, t)
  PROVE  Linked(r, now, lo) /\ Inserted(l, r, t)
<1>0. Linked(l, now, lo) /\ t \notin ToSet(l.list) /\ Key(l, now)[t] \in lo .. Latest
  BY DEF Linkable
<1>1. /\ l \in TimerState /\ l.list \in Seq(Timer) /\ l.order \in Seq(Timer)
      /\ NoDup(l.list) /\ NoDup(l.order) /\ ToSet(l.list) = ToSet(l.order)
  BY <1>0 DEF Linked, TimerState
<1>2. PICK key : key = Key(l, now) OBVIOUS
<1>3. PICK new : new = Key(r, now) OBVIOUS
<1>4. /\ key[t] \in lo .. Latest /\ Ranked(l.list, key, l.order)
      /\ \A u \in ToSet(l.list) : key[u] \in lo .. Latest
  BY <1>0, <1>2 DEF Linked
<1>5. PICK n \in 0 .. Len(l.list) :
        /\ Insert(l, t) = Link(l, n, t)
        /\ \A i \in 1 .. Len(l.list) : n = 0 \/ i < n => key[l.list[i]] <= key[t]
        /\ n # 0 => key[t] < key[l.list[n]]
  BY <1>1, <1>2, <1>4, PlaceFound
<1>6. /\ r \in TimerState /\ Others(l, r, t)
      /\ r.list = LinkAt(l.list, n, t) /\ r.order = Append(l.order, t)
      /\ r.timer[t].activated = TRUE
      /\ r.timer[t].timeout_tick = l.timer[t].timeout_tick
  BY <1>1, <1>5, LinkEffect
<1>7. /\ ToSet(r.list) = ToSet(l.list) \cup {t} /\ NoDup(r.list)
      /\ ToSet(r.order) = ToSet(l.order) \cup {t} /\ NoDup(r.order)
  BY <1>0, <1>1, <1>6, LinkAtList, AppendList
<1>8. key \in [Timer -> Int] BY <1>1, <1>2, KeyType
<1>9. \A u \in Timer : new[u] = key[u]
  <2>1. \A u \in Timer : key[u] = LeftOf(l.timer[u].timeout_tick, now) BY <1>1, <1>2, KeyType
  <2>2. \A u \in Timer : new[u] = LeftOf(r.timer[u].timeout_tick, now) BY <1>3, <1>6, KeyType
  <2>3. \A u \in Timer : r.timer[u].timeout_tick = l.timer[u].timeout_tick
    BY <1>6 DEF Others
  <2> QED BY <2>1, <2>2, <2>3
<1>10. Ranked(r.list, new, r.order)
  <2> SUFFICES ASSUME NEW a, NEW b, Precedes(r.list, a, b)
               PROVE  \/ new[a] < new[b]
                      \/ new[a] = new[b] /\ Precedes(r.order, a, b)
    BY DEF Ranked
  <2>1. a \in Timer /\ b \in Timer
    <3>1. r.list \in Seq(Timer) BY <1>6 DEF TimerState
    <3> QED BY <3>1, PrecedesIn
  <2>2. new[a] = key[a] /\ new[b] = key[b] /\ key[a] \in Int /\ key[b] \in Int
    BY <1>8, <1>9, <2>1
  <2>3. \/ Precedes(l.list, a, b)
        \/ b = t /\ \E i \in 1 .. Len(l.list) : (n = 0 \/ i < n) /\ l.list[i] = a
        \/ a = t /\ n # 0 /\ (b = l.list[n] \/ Precedes(l.list, l.list[n], b))
    BY <1>1, <1>6, LinkPrecedes
  <2>4. CASE Precedes(l.list, a, b)
    <3>1. Precedes(l.order, a, b) => Precedes(r.order, a, b)
      BY <1>1, <1>6, AppendPrecedes
    <3> QED BY <1>4, <2>2, <2>4, <3>1 DEF Ranked
  <2>5. CASE b = t /\ \E i \in 1 .. Len(l.list) : (n = 0 \/ i < n) /\ l.list[i] = a
    <3>1. key[a] <= key[b] BY <1>5, <2>5
    <3>2. a \in ToSet(l.order) BY <1>1, <2>5, InToSet
    <3>3. Precedes(r.order, a, b) BY <1>1, <1>6, <2>5, <3>2, AppendPrecedes
    <3> QED BY <2>2, <3>1, <3>3
  <2>6. CASE a = t /\ n # 0 /\ (b = l.list[n] \/ Precedes(l.list, l.list[n], b))
    <3>1. key[a] < key[l.list[n]] BY <1>5, <2>6
    <3>2. l.list[n] \in Timer BY <1>1, <2>6
    <3>3. key[l.list[n]] \in Int BY <1>8, <3>2
    <3>4. key[l.list[n]] <= key[b]
      <4>1. CASE b = l.list[n] BY <2>2, <4>1
      <4>2. CASE Precedes(l.list, l.list[n], b) BY <1>4, <2>2, <3>3, <4>2 DEF Ranked
      <4> QED BY <2>6, <4>1, <4>2
    <3> QED BY <2>2, <3>1, <3>3, <3>4
  <2> QED BY <2>3, <2>4, <2>5, <2>6
<1>11. \A u \in ToSet(r.list) : new[u] \in lo .. Latest
  <2>1. ToSet(l.list) \subseteq Timer BY <1>1, EmptyList
  <2> QED BY <1>4, <1>7, <1>9, <2>1
<1>12. ToSet(r.list) = ToSet(r.order) BY <1>1, <1>7
<1>13. Linked(r, now, lo)
  BY <1>3, <1>6, <1>7, <1>10, <1>11, <1>12, Zenon DEF Linked
<1> QED BY <1>6, <1>7, <1>13, Zenon DEF Inserted

-----------------------------------------------------------------------------
(* Starting and stopping a timer within the tick interrupt *)

Stopped(l, r, t) ==
  /\ Others(l, r, t)
  /\ ToSet(r.list) = ToSet(l.list) \ {t} /\ r.order = Unlink(l.order, t)

Started(l, r, t) ==
  /\ Others(l, r, t)
  /\ ToSet(r.list) = ToSet(l.list) \cup {t} /\ r.order = Append(Unlink(l.order, t), t)
  /\ Key(r, rt_tick)[t] = l.timer[t].init_tick

\* Clearing the flag leaves the list sorted.
LEMMA DeactivateLinked ==
  ASSUME NEW l, NEW t \in Timer, NEW now \in Tick, NEW lo,
         Linked(l, now, lo), NEW r, r = Deactivate(l, t)
  PROVE  /\ Linked(r, now, lo) /\ Others(l, r, t)
         /\ r.list = l.list /\ r.order = l.order
         /\ r.timer[t].timeout_tick = l.timer[t].timeout_tick
<1>1. l \in TimerState /\ l.list \in Seq(Timer) BY DEF Linked, TimerState
<1>2. /\ r \in TimerState /\ Others(l, r, t)
      /\ r.list = l.list /\ r.order = l.order
      /\ r.timer[t].timeout_tick = l.timer[t].timeout_tick
  BY <1>1, DeactivateEffect
<1>3. \A u \in Timer : r.timer[u].timeout_tick = l.timer[u].timeout_tick
  BY <1>2 DEF Others
<1>4. \A u \in ToSet(l.list) : r.timer[u].timeout_tick = l.timer[u].timeout_tick
  BY <1>1, <1>3, EmptyList
<1> QED BY <1>2, <1>4, LinkedSame

\* A timer outside the list gets its deadline, one period from now.
LEMMA SetTimeoutLinked ==
  ASSUME NEW l, NEW t \in Timer, rt_tick \in Tick, NEW lo,
         Linked(l, rt_tick, lo), t \notin ToSet(l.list), NEW r, r = SetTimeout(l, t)
  PROVE  /\ Linked(r, rt_tick, lo) /\ Others(l, r, t)
         /\ r.list = l.list /\ r.order = l.order
         /\ r.timer[t].activated = l.timer[t].activated
         /\ Key(r, rt_tick)[t] = l.timer[t].init_tick
         /\ Ago(rt_tick + r.timer[t].init_tick, r.timer[t].timeout_tick) = 0
<1>1. l \in TimerState /\ l.list \in Seq(Timer) BY DEF Linked, TimerState
<1>2. /\ r \in TimerState /\ Others(l, r, t)
      /\ r.list = l.list /\ r.order = l.order
      /\ r.timer[t].activated = l.timer[t].activated
      /\ r.timer[t].timeout_tick = (rt_tick + l.timer[t].init_tick) % TicksWrap
  BY <1>1, SetTimeoutEffect
<1>3. \A u \in ToSet(l.list) : r.timer[u].timeout_tick = l.timer[u].timeout_tick
  <2>1. \A u \in ToSet(l.list) : u \in Timer /\ u # t BY <1>1, EmptyList
  <2> QED BY <1>2, <2>1 DEF Others
<1>4. Linked(r, rt_tick, lo) BY <1>2, <1>3, LinkedSame
<1>5. PICK d \in Time : d = l.timer[t].init_tick /\ d = r.timer[t].init_tick
  <2>1. l.timer[t].init_tick \in Time BY <1>1 DEF TimerState, TimerRecord
  <2> QED BY <1>2, <2>1 DEF Others
<1>6. PICK a : a = r.timer[t].timeout_tick /\ a = (rt_tick + d) % TicksWrap BY <1>2, <1>5
<1>7. Ago(rt_tick + d, a) = 0 /\ LeftOf(a, rt_tick) = d BY <1>6, SetNow
<1>8. Key(r, rt_tick)[t] = LeftOf(a, rt_tick) BY <1>2, <1>6, KeyType
<1> QED BY <1>2, <1>4, <1>5, <1>6, <1>7, <1>8

\* A whole call of rt_timer_start.
LEMMA StartNowLinked ==
  ASSUME NEW l, NEW t \in Timer, rt_tick \in Tick, NEW lo, Lowest(lo),
         Linked(l, rt_tick, lo), NEW r, r = StartNow(l, t)
  PROVE  Linked(r, rt_tick, lo) /\ Started(l, r, t) /\ r.timer[t].activated = TRUE
<1>1. PICK l1 : l1 = _rt_timer_remove(l, t) OBVIOUS
<1>2. PICK l2 : l2 = Deactivate(l1, t) OBVIOUS
<1>3. PICK l3 : l3 = SetTimeout(l2, t) OBVIOUS
<1>4. r = Insert(l3, t) BY <1>1, <1>2, <1>3, Zenon DEF StartNow
<1>5. /\ Linked(l1, rt_tick, lo) /\ Others(l, l1, t)
      /\ ToSet(l1.list) = ToSet(l.list) \ {t} /\ l1.order = Unlink(l.order, t)
  BY <1>1, RemoveLinked
<1>6. /\ Linked(l2, rt_tick, lo) /\ Others(l1, l2, t)
      /\ l2.list = l1.list /\ l2.order = l1.order
  <2>1. Linked(l1, rt_tick, lo) BY <1>5
  <2> QED BY <1>2, <2>1, DeactivateLinked
<1>7. t \notin ToSet(l2.list) BY <1>5, <1>6
<1>8. /\ Linked(l3, rt_tick, lo) /\ Others(l2, l3, t)
      /\ l3.list = l2.list /\ l3.order = l2.order
      /\ Key(l3, rt_tick)[t] = l2.timer[t].init_tick
  BY <1>3, <1>6, <1>7, SetTimeoutLinked
<1>9. /\ l2.timer[t].init_tick = l.timer[t].init_tick
      /\ l3.timer[t].init_tick = l.timer[t].init_tick
  BY <1>5, <1>6, <1>8 DEF Others
<1>10. Key(l3, rt_tick)[t] \in lo .. Latest
  <2>1. l3 \in TimerState BY <1>8 DEF Linked
  <2>2. PICK d \in Time : d = l3.timer[t].init_tick BY <2>1, DelayShort
  <2>3. d \in Nat /\ 1 <= d /\ d + Delay < Half BY Numbers
  <2>4. Half \in Nat /\ Delay \in Nat /\ Latest = Half - 1 - Delay BY <2>1, DelayShort
  <2>5. d \in lo .. Latest BY <2>3, <2>4 DEF Lowest
  <2> QED BY <1>8, <1>9, <2>2, <2>5
<1>11. t \notin ToSet(l3.list) BY <1>7, <1>8
<1>12. Linked(r, rt_tick, lo) /\ Inserted(l3, r, t)
  <2>1. Linkable(l3, t, rt_tick, lo) BY <1>8, <1>10, <1>11 DEF Linkable
  <2> QED BY <1>4, <2>1, InsertLinked
<1>13. Others(l, r, t) BY <1>5, <1>6, <1>8, <1>12 DEF Others, Inserted
<1>14. Key(r, rt_tick)[t] = l.timer[t].init_tick
  <2>1. l3 \in TimerState /\ r \in TimerState BY <1>8, <1>12 DEF Linked
  <2>2. Key(r, rt_tick)[t] = LeftOf(r.timer[t].timeout_tick, rt_tick) BY <2>1, KeyType
  <2>3. Key(l3, rt_tick)[t] = LeftOf(l3.timer[t].timeout_tick, rt_tick) BY <2>1, KeyType
  <2> QED BY <1>8, <1>9, <1>12, <2>2, <2>3 DEF Inserted
<1>15. ToSet(r.list) = ToSet(l.list) \cup {t} BY <1>5, <1>6, <1>8, <1>12 DEF Inserted
<1>16. r.order = Append(Unlink(l.order, t), t) BY <1>5, <1>6, <1>8, <1>12 DEF Inserted
<1> QED BY <1>12, <1>13, <1>14, <1>15, <1>16 DEF Started, Inserted

\* Deactivating changes nothing that Linked looks at.
LEMMA RestartLinked ==
  ASSUME NEW l, NEW t \in Timer, rt_tick \in Tick, NEW lo, Lowest(lo),
         Linked(l, rt_tick, lo), NEW r, r = StartNow(Deactivate(l, t), t)
  PROVE  Linked(r, rt_tick, lo) /\ Started(l, r, t) /\ r.timer[t].activated = TRUE
<1>1. PICK m : m = Deactivate(l, t) OBVIOUS
<1>2. /\ Linked(m, rt_tick, lo) /\ Others(l, m, t)
      /\ m.list = l.list /\ m.order = l.order
  BY <1>1, DeactivateLinked
<1>3. Linked(r, rt_tick, lo) /\ Started(m, r, t) /\ r.timer[t].activated = TRUE
  <2>1. r = StartNow(m, t) BY <1>1
  <2>2. Linked(m, rt_tick, lo) BY <1>2
  <2> QED BY <2>1, <2>2, StartNowLinked
<1>4. Started(l, r, t) BY <1>2, <1>3 DEF Started, Others
<1> QED BY <1>3, <1>4

\* The two branches of rt_timer_check after the callback.
LEMMA FinishedIs ==
  ASSUME NEW l, NEW t
  PROVE  \/ /\ l.timer[t].periodic /\ l.timer[t].activated
            /\ Finished(l, t) = StartNow(Deactivate(l, t), t)
         \/ /\ ~(l.timer[t].periodic /\ l.timer[t].activated)
            /\ Finished(l, t) = Deactivate(l, t)
BY DEF Finished

\* The two branches of rt_timer_stop.
LEMMA StopNowIs ==
  ASSUME NEW l, NEW t
  PROVE  StopNow(l, t) \in {Deactivate(_rt_timer_remove(l, t), t), l}
BY DEF StopNow

CalledBack(l, r, t, o, call) ==
  /\ Others(l, r, t)
  /\ \/ ToSet(r.list) = ToSet(l.list) /\ r.order = o
     \/ /\ call = "start" /\ r.timer[t].activated = TRUE
        /\ ToSet(r.list) = ToSet(l.list) \cup {t} /\ r.order = Append(o, t)
        /\ Key(r, rt_tick)[t] = l.timer[t].init_tick

\* What the callback of a timer that was taken from the list leaves: the timer
\* is started again or not.
LEMMA CallbackLinked ==
  ASSUME NEW l, NEW t \in Timer, rt_tick \in Tick, NEW lo, Lowest(lo),
         Linked(l, rt_tick, lo), t \notin ToSet(l.list), NEW o \in Seq(Timer), l.order = o,
         NEW call \in {"none", "stop", "start"}, NEW r, r = Callback(l, t, call)
  PROVE  Linked(r, rt_tick, lo) /\ CalledBack(l, r, t, o, call)
<1>1. t \notin ToSet(o) BY DEF Linked
<1>2. Unlink(o, t) = o BY <1>1 DEF Unlink
<1>3. CASE call = "none"
  <2>1. r = l BY <1>3 DEF Callback
  <2> QED BY <2>1 DEF Others, CalledBack
<1>4. CASE call = "stop"
  <2>1. r = StopNow(l, t) BY <1>4 DEF Callback
  <2>2. CASE r = l BY <2>2 DEF Others, CalledBack
  <2>3. CASE r = Deactivate(_rt_timer_remove(l, t), t)
    <3>1. PICK m : m = _rt_timer_remove(l, t) OBVIOUS
    <3>2. /\ Linked(m, rt_tick, lo) /\ Others(l, m, t)
          /\ ToSet(m.list) = ToSet(l.list) \ {t} /\ m.order = Unlink(l.order, t)
      BY <3>1, RemoveLinked
    <3>3. /\ Linked(r, rt_tick, lo) /\ Others(m, r, t)
          /\ r.list = m.list /\ r.order = m.order
      <4>1. Linked(m, rt_tick, lo) BY <3>2
      <4>2. r = Deactivate(m, t) BY <2>3, <3>1
      <4> QED BY <4>1, <4>2, DeactivateLinked
    <3>4. Others(l, r, t) BY <3>2, <3>3 DEF Others
    <3>5. ToSet(r.list) = ToSet(l.list) /\ r.order = o BY <1>2, <3>2, <3>3
    <3> QED BY <3>3, <3>4, <3>5 DEF CalledBack
  <2> QED BY <2>1, <2>2, <2>3, StopNowIs
<1>5. CASE call = "start"
  <2>1. r = StartNow(l, t) BY <1>5 DEF Callback
  <2>2. Linked(r, rt_tick, lo) /\ Started(l, r, t) /\ r.timer[t].activated = TRUE
    BY <2>1, StartNowLinked
  <2> QED BY <1>2, <1>5, <2>2 DEF Started, CalledBack
<1> QED BY <1>3, <1>4, <1>5

\* One turn of the loop of rt_timer_check: the timer is off the list, or it is
\* started from now.
LEMMA ExpiredLinked ==
  ASSUME NEW l, NEW t \in Timer, rt_tick \in Tick, NEW lo, Lowest(lo),
         Linked(l, rt_tick, lo), NEW call \in {"none", "stop", "start"},
         NEW r, r = Finished(Callback(_rt_timer_remove(l, t), t, call), t)
  PROVE  /\ Linked(r, rt_tick, lo)
         /\ Stopped(l, r, t) \/ Started(l, r, t)
         /\ t \in ToSet(r.list) /\ (call = "start" => l.timer[t].periodic)
              => r.timer[t].activated = TRUE
<1>1. PICK l1 : l1 = _rt_timer_remove(l, t) OBVIOUS
<1>2. PICK l2 : l2 = Callback(l1, t, call) OBVIOUS
<1>3. r = Finished(l2, t) BY <1>1, <1>2
<1>4. /\ Linked(l1, rt_tick, lo) /\ Others(l, l1, t)
      /\ ToSet(l1.list) = ToSet(l.list) \ {t} /\ l1.order = Unlink(l.order, t)
  BY <1>1, RemoveLinked
<1>5. PICK o \in Seq(Timer) : o = l1.order BY <1>4 DEF Linked, TimerState
<1>6. t \notin ToSet(l1.list) /\ t \notin ToSet(o) BY <1>4, <1>5 DEF Linked
<1>7. Unlink(o, t) = o BY <1>6 DEF Unlink
<1>8. Unlink(Append(o, t), t) = o BY <1>6, UnlinkAppended
<1>9. /\ Linked(l2, rt_tick, lo) /\ Others(l1, l2, t)
      /\ \/ ToSet(l2.list) = ToSet(l1.list) /\ l2.order = o
         \/ /\ call = "start" /\ l2.timer[t].activated = TRUE
            /\ ToSet(l2.list) = ToSet(l1.list) \cup {t} /\ l2.order = Append(o, t)
            /\ Key(l2, rt_tick)[t] = l1.timer[t].init_tick
  <2>1. Linked(l1, rt_tick, lo) /\ l1.order = o /\ t \notin ToSet(l1.list)
    BY <1>4, <1>5, <1>6
  <2>2. Linked(l2, rt_tick, lo) /\ CalledBack(l1, l2, t, o, call)
    BY <1>2, <2>1, CallbackLinked
  <2> QED BY <2>2 DEF CalledBack
<1>10. Unlink(l2.order, t) = o BY <1>7, <1>8, <1>9
<1>11. Linked(l2, rt_tick, lo) /\ Others(l, l2, t) BY <1>4, <1>9 DEF Others
<1>12. CASE /\ l2.timer[t].periodic /\ l2.timer[t].activated
            /\ r = StartNow(Deactivate(l2, t), t)
  <2>1. Linked(r, rt_tick, lo) /\ Started(l2, r, t) /\ r.timer[t].activated = TRUE
    BY <1>11, <1>12, RestartLinked
  <2>2. Others(l, r, t) /\ l2.timer[t].init_tick = l.timer[t].init_tick
    BY <1>11, <2>1 DEF Started, Others
  <2>3. ToSet(r.list) = ToSet(l.list) \cup {t} BY <1>4, <1>9, <2>1 DEF Started
  <2>4. r.order = Append(Unlink(l.order, t), t) BY <1>4, <1>5, <1>10, <2>1 DEF Started
  <2>5. Started(l, r, t) BY <2>1, <2>2, <2>3, <2>4 DEF Started
  <2> QED BY <2>1, <2>5
<1>13. CASE /\ ~(l2.timer[t].periodic /\ l2.timer[t].activated)
            /\ r = Deactivate(l2, t)
  <2>1. /\ Linked(r, rt_tick, lo) /\ Others(l2, r, t)
        /\ r.list = l2.list /\ r.order = l2.order
        /\ r.timer[t].timeout_tick = l2.timer[t].timeout_tick
    BY <1>11, <1>13, DeactivateLinked
  <2>2. Others(l, r, t) BY <1>11, <2>1 DEF Others
  <2>3. CASE ToSet(l2.list) = ToSet(l1.list) /\ l2.order = o
    <3>1. Stopped(l, r, t) BY <1>4, <1>5, <2>1, <2>2, <2>3 DEF Stopped
    <3>2. t \notin ToSet(r.list) BY <1>6, <2>1, <2>3
    <3> QED BY <2>1, <3>1, <3>2
  <2>4. CASE /\ call = "start" /\ l2.timer[t].activated = TRUE
             /\ ToSet(l2.list) = ToSet(l1.list) \cup {t} /\ l2.order = Append(o, t)
             /\ Key(l2, rt_tick)[t] = l1.timer[t].init_tick
    <3>1. ~l2.timer[t].periodic BY <1>13, <2>4
    <3>2. l2.timer[t].periodic = l.timer[t].periodic BY <1>11 DEF Others
    <3>3. Key(r, rt_tick)[t] = Key(l2, rt_tick)[t] BY <2>1 DEF Key
    <3>4. l1.timer[t].init_tick = l.timer[t].init_tick BY <1>4 DEF Others
    <3>5. Started(l, r, t)
      BY <1>4, <1>5, <2>1, <2>2, <2>4, <3>3, <3>4 DEF Started
    <3>6. ~l.timer[t].periodic BY <3>1, <3>2
    <3> QED BY <2>1, <2>4, <3>5, <3>6
  <2> QED BY <1>9, <2>3, <2>4
<1> QED BY <1>3, <1>12, <1>13, FinishedIs

-----------------------------------------------------------------------------
(* The time left, as AlarmClock has it *)

LeftOn(l, now) ==
  [u \in Timer |-> IF u \in ToSet(l.list) THEN Key(l, now)[u] ELSE TicksWrap]

\* The states of a step, and the time left in them.
LEMMA LeftIs ==
  ASSUME NEW l, l = State
  PROVE  LeftOn(l, rt_tick)
           = [t \in Timer |-> IF t \in ToSet(rt_timer_list) THEN Left(t) ELSE TicksWrap]
<1>1. l.list = rt_timer_list /\ l.timer = timer BY DEF State
<1>2. \A u \in Timer : Key(l, rt_tick)[u] = Left(u) BY <1>1 DEF Key, LeftOf, Left
<1> QED BY <1>1, <1>2 DEF LeftOn

\* The time left depends on the list and on the deadlines in it only.
LEMMA LeftSame ==
  ASSUME NEW l \in TimerState, NEW r \in TimerState, NEW now \in Tick, r.list = l.list,
         \A u \in ToSet(l.list) : r.timer[u].timeout_tick = l.timer[u].timeout_tick
  PROVE  LeftOn(r, now) = LeftOn(l, now)
<1>1. \A u \in Timer : u \in ToSet(l.list) => Key(r, now)[u] = Key(l, now)[u] BY DEF Key
<1> QED BY <1>1 DEF LeftOn

\* A timer taken from the list is off, and the time left of the others stays.
LEMMA LeftStopped ==
  ASSUME NEW l \in TimerState, NEW r \in TimerState, NEW now \in Tick, NEW t \in Timer,
         Stopped(l, r, t)
  PROVE  LeftOn(r, now) = [LeftOn(l, now) EXCEPT ![t] = TicksWrap]
<1>1. \A u \in Timer : u # t => Key(r, now)[u] = Key(l, now)[u] BY DEF Key, Stopped, Others
<1>2. \A u \in Timer : u \in ToSet(r.list) <=> u \in ToSet(l.list) /\ u # t BY DEF Stopped
<1> QED BY <1>1, <1>2 DEF LeftOn

\* A timer put into the list has its time left, and that of the others stays.
LEMMA LeftStarted ==
  ASSUME NEW l \in TimerState, NEW r \in TimerState, NEW now \in Tick, NEW t \in Timer,
         Others(l, r, t), ToSet(r.list) = ToSet(l.list) \cup {t}, NEW d, Key(r, now)[t] = d
  PROVE  LeftOn(r, now) = [LeftOn(l, now) EXCEPT ![t] = d]
<1>1. \A u \in Timer : u # t => Key(r, now)[u] = Key(l, now)[u] BY DEF Key, Others
<1> QED BY <1>1 DEF LeftOn

\* A tick takes one from the time left of every timer in the list.
LEMMA LeftTicked ==
  ASSUME NEW l, NEW now \in Tick, Linked(l, now, 1 - Delay),
         NEW new, new = (now + 1) % TicksWrap
  PROVE  /\ new \in Tick /\ Linked(l, new, -Delay)
         /\ LeftOn(l, new) = [u \in Timer |-> IF LeftOn(l, now)[u] = TicksWrap THEN TicksWrap
                                              ELSE LeftOn(l, now)[u] - 1]
<1>1. l \in TimerState /\ l.list \in Seq(Timer) BY DEF Linked, TimerState
<1>2. new \in Tick
  <2>1. now + 1 \in Int BY TickType
  <2> QED BY <2>1, TickType
<1>3. PICK key : key = Key(l, now) OBVIOUS
<1>4. PICK nkey : nkey = Key(l, new) OBVIOUS
<1>5. \A u \in ToSet(l.list) : u \in Timer BY <1>1, EmptyList
<1>6. ASSUME NEW u \in ToSet(l.list)
      PROVE  /\ key[u] \in 1 - Delay .. Latest /\ key[u] \in Int
             /\ nkey[u] = key[u] - 1 /\ nkey[u] \in -Delay .. Latest
             /\ key[u] # TicksWrap
  <2>1. u \in Timer BY <1>5
  <2>2. PICK a \in Tick : a = l.timer[u].timeout_tick BY <1>1, <2>1, KeyType
  <2>3. key[u] = LeftOf(a, now) /\ nkey[u] = LeftOf(a, new)
    <3>1. key[u] = LeftOf(l.timer[u].timeout_tick, now) BY <1>1, <1>3, <2>1, KeyType
    <3>2. nkey[u] = LeftOf(l.timer[u].timeout_tick, new) BY <1>1, <1>2, <1>4, <2>1, KeyType
    <3> QED BY <2>2, <3>1, <3>2
  <2>4. key[u] \in 1 - Delay .. Latest BY <1>3 DEF Linked
  <2>5. Delay < Half /\ Half \in Nat /\ Delay \in Nat /\ Latest \in Int BY <1>1, <2>1, DelayShort
  <2>6. key[u] \in Int /\ key[u] # TicksWrap BY <2>3, LeftOfRange
  <2>7. -Half < LeftOf(a, now) BY <2>3, <2>4, <2>5, <2>6
  <2>8. nkey[u] = key[u] - 1 BY <2>3, <2>7, OneTickLess
  <2> QED BY <2>4, <2>5, <2>6, <2>8
<1>7. Ranked(l.list, key, l.order) BY <1>3 DEF Linked
<1>8. Ranked(l.list, nkey, l.order)
  <2> SUFFICES ASSUME NEW a, NEW b, Precedes(l.list, a, b)
               PROVE  \/ nkey[a] < nkey[b]
                      \/ nkey[a] = nkey[b] /\ Precedes(l.order, a, b)
    BY DEF Ranked
  <2>1. a \in ToSet(l.list) /\ b \in ToSet(l.list) BY <1>1, PrecedesIn
  <2>2. /\ nkey[a] = key[a] - 1 /\ key[a] \in Int
        /\ nkey[b] = key[b] - 1 /\ key[b] \in Int
    BY <1>6, <2>1
  <2>3. key[a] < key[b] \/ (key[a] = key[b] /\ Precedes(l.order, a, b)) BY <1>7 DEF Ranked
  <2> QED BY <2>2, <2>3
<1>9. Linked(l, new, -Delay)
  <2>1. \A u \in ToSet(l.list) : nkey[u] \in -Delay .. Latest BY <1>6
  <2> QED BY <1>4, <1>8, <2>1, Zenon DEF Linked
<1>10. ASSUME NEW u \in Timer
       PROVE  LeftOn(l, new)[u] = IF LeftOn(l, now)[u] = TicksWrap THEN TicksWrap
                                  ELSE LeftOn(l, now)[u] - 1
  <2>1. CASE u \in ToSet(l.list)
    <3>1. LeftOn(l, new)[u] = nkey[u] /\ LeftOn(l, now)[u] = key[u]
      BY <1>3, <1>4, <2>1 DEF LeftOn
    <3> QED BY <1>6, <2>1, <3>1
  <2>2. CASE u \notin ToSet(l.list) BY <2>2 DEF LeftOn
  <2> QED BY <2>1, <2>2
<1> QED BY <1>2, <1>9, <1>10 DEF LeftOn

-----------------------------------------------------------------------------
(* The inductive invariant *)

\* A timer in the list is between calls of its owner or about to be stopped or
\* configured; a deadline that was computed is Delay ticks old at most.
PlaceOK(t) ==
  /\ t \in ToSet(rt_timer_list) => pc[t] \in {"idle", "stop", "store"}
  /\ pc[t] = "insert" => Ago(rt_tick + timer[t].init_tick, timer[t].timeout_tick) \in 0 .. Delay

Lo(c) == IF c THEN -Delay ELSE 1 - Delay

TimerInv ==
  /\ TypeOK
  /\ Linked(State, rt_tick, Lo(checking))
  /\ \A t \in Timer : PlaceOK(t)

\* During the check a timer may be late by Delay ticks, outside by one less.
LEMMA LoType ==
  ASSUME NEW c \in BOOLEAN
  PROVE  Lowest(Lo(c)) /\ Lo(TRUE) = -Delay /\ Lo(FALSE) = 1 - Delay
<1>1. Delay \in Nat BY Numbers
<1> QED BY <1>1 DEF Lowest, Lo

\* The variables as a state of the list.
LEMMA StateType ==
  ASSUME TypeOK, NEW l, l = State
  PROVE  /\ l \in TimerState /\ rt_tick \in Tick /\ checking \in BOOLEAN
         /\ l.list = rt_timer_list /\ l.timer = timer /\ l.order = order
BY DEF TypeOK, State, TimerState, TimerRecord

\* A state of the list, as the next one.
LEMMA BecomeLinked ==
  ASSUME NEW r, NEW now, NEW lo, Linked(r, now, lo), Become(r), NEW s, s = State'
  PROVE  /\ Linked(s, now, lo)
         /\ s \in TimerState /\ r \in TimerState
         /\ s.list = r.list /\ s.timer = r.timer /\ s.order = r.order
         /\ rt_timer_list' = r.list /\ timer' = r.timer /\ order' = r.order
         /\ rt_timer_list' \in Seq(Timer) /\ order' \in Seq(Timer)
         /\ timer' \in [Timer -> TimerRecord]
<1>1. /\ s.list = r.list /\ s.timer = r.timer /\ s.order = r.order
      /\ rt_timer_list' = r.list /\ timer' = r.timer /\ order' = r.order
  BY DEF Become, State
<1>2. /\ r \in TimerState
      /\ r.list \in Seq(Timer) /\ r.order \in Seq(Timer) /\ r.timer \in [Timer -> TimerRecord]
  BY DEF Linked, TimerState
<1>3. s \in TimerState BY <1>1, <1>2 DEF State, TimerState
<1>4. Key(s, now) = Key(r, now) BY <1>1 DEF Key
<1>5. Linked(s, now, lo) BY <1>1, <1>3, <1>4, Zenon DEF Linked
<1> QED BY <1>1, <1>2, <1>3, <1>5

\* What a step of the owner of t does to the list.
OwnerEffect(l, r, t, to) ==
  /\ Linked(r, rt_tick, 1 - Delay)
  /\ \A u \in Timer : u # t => r.timer[u] = l.timer[u] /\ (u \in ToSet(r.list) <=> u \in ToSet(l.list))
  /\ t \in ToSet(r.list) => to \in {"idle", "stop", "store"}
  /\ to = "insert" => Ago(rt_tick + r.timer[t].init_tick, r.timer[t].timeout_tick) \in 0 .. Delay

\* A step of an owner with this effect keeps the invariant.
LEMMA OwnerStep ==
  ASSUME TimerInv, NEW t \in Timer, NEW from \in Place, NEW to \in Place, OwnerAt(t, from, to),
         NEW l, l = State, NEW r, Become(r), OwnerEffect(l, r, t, to),
         read' \in [Timer -> BOOLEAN]
  PROVE  TimerInv'
<1>1. /\ pc \in [Timer -> Place] /\ pc' = [pc EXCEPT ![t] = to]
      /\ rt_tick' = rt_tick /\ checking' = checking /\ checking = FALSE
      /\ rt_tick \in Tick /\ checking \in BOOLEAN
  BY DEF TimerInv, TypeOK, OwnerAt
<1>2. l.list = rt_timer_list /\ l.timer = timer /\ l.order = order BY DEF State
<1>3. PICK s : s = State' OBVIOUS
<1>4. /\ Linked(s, rt_tick, 1 - Delay)
      /\ rt_timer_list' = r.list /\ timer' = r.timer
      /\ rt_timer_list' \in Seq(Timer) /\ order' \in Seq(Timer)
      /\ timer' \in [Timer -> TimerRecord]
  <2>1. Linked(r, rt_tick, 1 - Delay) BY DEF OwnerEffect
  <2> QED BY <1>3, <2>1, BecomeLinked
<1>5. TypeOK' BY <1>1, <1>4 DEF TypeOK, TimerRecord
<1>6. Linked(State, rt_tick, Lo(checking))'
  <2>1. Lo(checking') = 1 - Delay BY <1>1, LoType
  <2>2. Linked(State', rt_tick', Lo(checking')) BY <1>1, <1>3, <1>4, <2>1
  <2> QED BY <2>2
<1>7. ASSUME NEW u \in Timer PROVE PlaceOK(u)'
  <2>1. PlaceOK(u) BY DEF TimerInv
  <2>2. CASE u # t
    <3>1. /\ timer'[u] = timer[u] /\ pc'[u] = pc[u]
          /\ u \in ToSet(rt_timer_list') <=> u \in ToSet(rt_timer_list)
      BY <1>1, <1>2, <1>4, <2>2 DEF OwnerEffect
    <3> QED BY <1>1, <2>1, <3>1 DEF PlaceOK
  <2>3. CASE u = t
    <3>1. pc'[u] = to BY <1>1, <2>3
    <3>2. /\ t \in ToSet(rt_timer_list') => to \in {"idle", "stop", "store"}
          /\ to = "insert"
               => Ago(rt_tick' + timer'[t].init_tick, timer'[t].timeout_tick) \in 0 .. Delay
      BY <1>1, <1>4 DEF OwnerEffect
    <3> QED BY <2>3, <3>1, <3>2 DEF PlaceOK
  <2> QED BY <2>2, <2>3
<1> QED BY <1>5, <1>6, <1>7 DEF TimerInv

-----------------------------------------------------------------------------
(* The steps of AlarmClock *)

\* The list operations of the abstract clock are those of the timers.
LEMMA SameUnlink ==
  ASSUME NEW s, NEW t
  PROVE  Clock!Unlink(s, t) = Unlink(s, t)
BY DEF Clock!Unlink, Unlink, Clock!ToSet, ToSet, Clock!RemoveAt, RemoveAt

\* The time left in the next state.
LEMMA NextLeft ==
  ASSUME NEW r, Become(r)
  PROVE  LeftOn(r, rt_tick')
           = [t \in Timer |-> IF t \in ToSet(rt_timer_list) THEN Left(t) ELSE TicksWrap]'
<1>1. r.list = rt_timer_list' /\ r.timer = timer' BY DEF Become
<1>2. \A u \in Timer : Key(r, rt_tick')[u] = Left(u)' BY <1>1 DEF Key, LeftOf, Left
<1> QED BY <1>1, <1>2 DEF LeftOn

\* A step that changes no time left is a stutter of the clock.
LEMMA ClockSame ==
  ASSUME NEW l, l = State, NEW r, Become(r), rt_tick' = rt_tick, checking' = checking,
         LeftOn(r, rt_tick) = LeftOn(l, rt_tick), r.order = l.order
  PROVE  UNCHANGED Clock!vars
<1>1. [t \in Timer |-> IF t \in ToSet(rt_timer_list) THEN Left(t) ELSE TicksWrap]'
        = [t \in Timer |-> IF t \in ToSet(rt_timer_list) THEN Left(t) ELSE TicksWrap]
  BY LeftIs, NextLeft
<1>2. order' = order BY DEF Become, State
<1> QED BY <1>1, <1>2 DEF Clock!vars

\* A step that takes t from the list cancels it.
LEMMA ClockCancel ==
  ASSUME NEW l, l = State, NEW r, Become(r), rt_tick' = rt_tick, NEW t \in Timer,
         ~checking, checking' = checking,
         LeftOn(r, rt_tick) = [LeftOn(l, rt_tick) EXCEPT ![t] = TicksWrap],
         r.order = Unlink(l.order, t)
  PROVE  Clock!Cancel(t)
<1>1. PICK f : f = LeftOn(l, rt_tick) OBVIOUS
<1>2. PICK g : g = LeftOn(r, rt_tick') OBVIOUS
<1>3. f = [u \in Timer |-> IF u \in ToSet(rt_timer_list) THEN Left(u) ELSE TicksWrap]
  BY <1>1, LeftIs
<1>4. g = [u \in Timer |-> IF u \in ToSet(rt_timer_list) THEN Left(u) ELSE TicksWrap]'
  BY <1>2, NextLeft
<1>5. g = [f EXCEPT ![t] = TicksWrap] BY <1>1, <1>2
<1>6. order' = Clock!Unlink(order, t) BY SameUnlink DEF Become, State
<1> QED BY <1>3, <1>4, <1>5, <1>6 DEF Clock!Cancel, Clock!Without

\* A step that links t sets it.
LEMMA ClockSet ==
  ASSUME NEW l, l = State, NEW r, Become(r), rt_tick' = rt_tick, NEW t \in Timer,
         ~checking, checking' = checking, NEW d \in -Delay .. Half,
         LeftOn(r, rt_tick) = [LeftOn(l, rt_tick) EXCEPT ![t] = d],
         r.order = Append(Unlink(l.order, t), t)
  PROVE  Clock!Set(t)
<1>1. PICK f : f = LeftOn(l, rt_tick) OBVIOUS
<1>2. PICK g : g = LeftOn(r, rt_tick') OBVIOUS
<1>3. f = [u \in Timer |-> IF u \in ToSet(rt_timer_list) THEN Left(u) ELSE TicksWrap]
  BY <1>1, LeftIs
<1>4. g = [u \in Timer |-> IF u \in ToSet(rt_timer_list) THEN Left(u) ELSE TicksWrap]'
  BY <1>2, NextLeft
<1>5. \E e \in -Delay .. Half : g = [f EXCEPT ![t] = e] BY <1>1, <1>2
<1>6. order' = Append(Clock!Unlink(order, t), t) BY SameUnlink DEF Become, State
<1> QED BY <1>3, <1>4, <1>5, <1>6 DEF Clock!Set, Clock!Without

\* The position of a timer in the order of starting.
LEMMA PositionIs ==
  ASSUME order \in Seq(Timer), NoDup(order), NEW i \in 1 .. Len(order), NEW t, order[i] = t
  PROVE  Clock!Position(t) = i
<1>1. {j \in 1 .. Len(order) : order[j] = t} = {i} BY NoDupByIndex
<1>2. Clock!Min({i}) = i BY DEF Clock!Min
<1> QED BY <1>1, <1>2 DEF Clock!Position, Clock!SelectInSeq

\* The first timer of the list goes first.
LEMMA HeadGoesFirst ==
  ASSUME NEW l, l = State, NEW now, NEW lo, Linked(l, now, lo), now = rt_tick,
         now \in Tick, rt_timer_list # <<>>, NEW t, t = Head(rt_timer_list)
  PROVE  /\ t \in ToSet(rt_timer_list) /\ t \in Timer
         /\ \A u \in ToSet(rt_timer_list) : Left(t) <= Left(u)
         /\ Clock!GoesFirst(t)
<1>1. /\ l \in TimerState /\ l.list = rt_timer_list /\ l.order = order
      /\ rt_timer_list \in Seq(Timer) /\ order \in Seq(Timer)
      /\ NoDup(order) /\ ToSet(order) = ToSet(rt_timer_list)
  BY DEF Linked, TimerState, State
<1>2. t \in ToSet(rt_timer_list) /\ t \in Timer BY <1>1, EmptyList
<1>3. PICK key : key = Key(l, now) OBVIOUS
<1>4. \A u \in Timer : key[u] = Left(u) /\ key[u] \in Int
  <2>1. l.timer = timer BY DEF State
  <2>2. \A u \in Timer : key[u] = Left(u) BY <1>3, <2>1 DEF Key, LeftOf, Left
  <2>3. key \in [Timer -> Int] BY <1>1, <1>3, KeyType
  <2> QED BY <2>2, <2>3
<1>5. ASSUME NEW u \in ToSet(rt_timer_list), u # t
      PROVE  u \in Timer /\ (key[t] < key[u] \/ (key[t] = key[u] /\ Precedes(order, t, u)))
  <2>1. Precedes(rt_timer_list, t, u) BY <1>1, <1>5, HeadPrecedes
  <2>2. Ranked(rt_timer_list, key, order) BY <1>1, <1>3 DEF Linked
  <2>3. u \in Timer BY <1>1, EmptyList
  <2> QED BY <2>1, <2>2, <2>3 DEF Ranked
<1>6. ASSUME NEW u \in ToSet(rt_timer_list) PROVE Left(t) <= Left(u)
  <2>1. CASE u = t BY <1>2, <1>4, <2>1
  <2>2. CASE u # t BY <1>2, <1>4, <1>5, <2>2
  <2> QED BY <2>1, <2>2
<1>7. ASSUME NEW u, Precedes(order, t, u) PROVE Clock!Position(t) < Clock!Position(u)
  <2>1. PICK i \in 1 .. Len(order), j \in 1 .. Len(order) :
          i < j /\ order[i] = t /\ order[j] = u
    BY <1>7 DEF Precedes
  <2>2. Clock!Position(t) = i /\ Clock!Position(u) = j BY <1>1, <2>1, PositionIs
  <2> QED BY <2>1, <2>2
<1>8. Clock!GoesFirst(t)
  <2>1. Clock!ToSet(order) = ToSet(order) BY DEF Clock!ToSet, ToSet
  <2>2. PICK f : f = [u \in Timer |-> IF u \in ToSet(rt_timer_list) THEN Left(u) ELSE TicksWrap]
    OBVIOUS
  <2>3. \A u \in ToSet(rt_timer_list) : f[u] = key[u]
    BY <1>1, <1>4, <2>2, EmptyList
  <2>4. \A u \in ToSet(order) \ {t} :
          f[t] < f[u] \/ (f[t] = f[u] /\ Clock!Position(t) < Clock!Position(u))
    BY <1>1, <1>2, <1>5, <1>7, <2>3
  <2> QED BY <2>1, <2>2, <2>4 DEF Clock!GoesFirst
<1> QED BY <1>2, <1>6, <1>8

-----------------------------------------------------------------------------
(* The calls of an owner: each keeps TimerInv and sets or cancels its timer *)
(* or leaves the time left as it is.                                       *)

ClockStep == [Clock!Next]_(Clock!vars)

\* A timer in the list is marked as activated, also in the flag byte that its
\* owner is about to write back.
ActiveOK ==
  \A t \in ToSet(rt_timer_list) : timer[t].activated = TRUE /\ (pc[t] = "store" => read[t] = TRUE)

ActiveStep == ActiveOK => ActiveOK'

\* How the owner of t, going to a place, leaves the flag and what it read of it.
Flagged(r, t, to) ==
  /\ \A u \in Timer : u # t => read'[u] = read[u]
  /\ ActiveOK /\ t \in ToSet(r.list)
       => r.timer[t].activated = TRUE /\ (to = "store" => read'[t] = TRUE)

\* A step of an owner that treats the flag so keeps ActiveOK.
LEMMA FlagStep ==
  ASSUME TimerInv, NEW t \in Timer, NEW from, NEW to, OwnerAt(t, from, to),
         NEW l, l = State, NEW r, Become(r), OwnerEffect(l, r, t, to), Flagged(r, t, to)
  PROVE  ActiveStep
<1>1. pc \in [Timer -> Place] /\ pc' = [pc EXCEPT ![t] = to]
  BY DEF TimerInv, TypeOK, OwnerAt
<1>2. l.list = rt_timer_list /\ l.timer = timer BY DEF State
<1>3. rt_timer_list' = r.list /\ timer' = r.timer BY DEF Become
<1>4. \A u \in ToSet(r.list) : u \in Timer
  <2>1. r.list \in Seq(Timer) BY DEF OwnerEffect, Linked, TimerState
  <2> QED BY <2>1, EmptyList
<1>5. ASSUME ActiveOK, NEW u \in ToSet(r.list)
      PROVE  r.timer[u].activated = TRUE /\ (pc'[u] = "store" => read'[u] = TRUE)
  <2>1. u \in Timer BY <1>4
  <2>2. CASE u # t
    <3>1. r.timer[u] = l.timer[u] /\ u \in ToSet(l.list) BY <2>1, <2>2 DEF OwnerEffect
    <3>2. pc'[u] = pc[u] /\ read'[u] = read[u] BY <1>1, <2>1, <2>2 DEF Flagged
    <3> QED BY <1>2, <1>5, <3>1, <3>2 DEF ActiveOK
  <2>3. CASE u = t
    <3>1. pc'[u] = to BY <1>1, <2>3
    <3> QED BY <1>5, <2>3, <3>1 DEF Flagged
  <2> QED BY <2>2, <2>3
<1>6. ASSUME ActiveOK PROVE ActiveOK' BY <1>3, <1>5, <1>6 DEF ActiveOK
<1> QED BY <1>6 DEF ActiveStep

\* What is known of the list when the owner of t takes a step.
LEMMA OwnerState ==
  ASSUME TimerInv, NEW t \in Timer, NEW from, NEW to, OwnerAt(t, from, to), NEW l, l = State
  PROVE  /\ Linked(l, rt_tick, 1 - Delay) /\ l \in TimerState
         /\ rt_tick \in Tick /\ Lowest(1 - Delay)
         /\ l.list = rt_timer_list /\ l.timer = timer /\ l.order = order
         /\ pc[t] = from /\ ~checking /\ checking' = checking /\ rt_tick' = rt_tick
         /\ from \notin {"idle", "stop", "store"} => t \notin ToSet(l.list)
<1>1. /\ l \in TimerState /\ rt_tick \in Tick /\ checking \in BOOLEAN
      /\ l.list = rt_timer_list /\ l.timer = timer /\ l.order = order
  BY StateType DEF TimerInv
<1>2. pc[t] = from /\ ~checking /\ checking' = checking /\ rt_tick' = rt_tick
  BY DEF OwnerAt
<1>3. checking = FALSE BY <1>1, <1>2
<1>4. Linked(l, rt_tick, 1 - Delay) /\ Lowest(1 - Delay)
  <2>1. Linked(l, rt_tick, Lo(FALSE)) BY <1>3 DEF TimerInv
  <2>2. Lowest(Lo(FALSE)) /\ Lo(FALSE) = 1 - Delay BY LoType
  <2> QED BY <2>1, <2>2
<1>5. PlaceOK(t) BY DEF TimerInv
<1> QED BY <1>1, <1>2, <1>4, <1>5 DEF PlaceOK

\* A step that leaves the list alone and the deadlines in it.
Kept(l, r, t) ==
  /\ r \in TimerState
  /\ r.list = l.list /\ r.order = l.order
  /\ \A u \in Timer : u # t => r.timer[u] = l.timer[u]
  /\ t \in ToSet(l.list) => r.timer[t].timeout_tick = l.timer[t].timeout_tick

\* Such a step leaves the list sorted and the time left as it was.
LEMMA KeptLinked ==
  ASSUME NEW l, NEW r, NEW t \in Timer, NEW now \in Tick, NEW lo,
         Linked(l, now, lo), Kept(l, r, t)
  PROVE  Linked(r, now, lo) /\ LeftOn(r, now) = LeftOn(l, now)
<1>1. l \in TimerState /\ r \in TimerState /\ l.list \in Seq(Timer)
  BY DEF Linked, Kept, TimerState
<1>2. \A u \in ToSet(l.list) : u \in Timer BY <1>1, EmptyList
<1>3. \A u \in ToSet(l.list) : r.timer[u].timeout_tick = l.timer[u].timeout_tick
  BY <1>2 DEF Kept
<1>4. r.list = l.list /\ r.order = l.order BY DEF Kept
<1>5. Linked(r, now, lo) BY <1>1, <1>3, <1>4, LinkedSame
<1>6. LeftOn(r, now) = LeftOn(l, now) BY <1>1, <1>3, <1>4, LeftSame
<1> QED BY <1>5, <1>6

\* Where an owner may be next.
Allowed(l, r, t, to) ==
  /\ t \in ToSet(l.list) => to \in {"idle", "stop", "store"}
  /\ to = "insert" => Ago(rt_tick + r.timer[t].init_tick, r.timer[t].timeout_tick) \in 0 .. Delay

\* Such a step is a stutter of the clock.
LEMMA KeptStep ==
  ASSUME TimerInv, NEW t \in Timer, NEW from \in Place, NEW to \in Place, OwnerAt(t, from, to),
         NEW l, l = State, NEW r, Become(r), Kept(l, r, t), Allowed(l, r, t, to),
         Flagged(r, t, to), read' \in [Timer -> BOOLEAN]
  PROVE  TimerInv' /\ ClockStep /\ ActiveStep
<1>1. /\ Linked(l, rt_tick, 1 - Delay) /\ rt_tick \in Tick
      /\ checking' = checking /\ rt_tick' = rt_tick
  BY OwnerState
<1>2. Linked(r, rt_tick, 1 - Delay) /\ LeftOn(r, rt_tick) = LeftOn(l, rt_tick)
  BY <1>1, KeptLinked
<1>3. OwnerEffect(l, r, t, to) BY <1>2 DEF OwnerEffect, Kept, Allowed
<1>4. TimerInv' BY <1>3, OwnerStep
<1>5. UNCHANGED Clock!vars BY <1>1, <1>2, ClockSame DEF Kept
<1>6. ActiveStep BY <1>3, FlagStep
<1> QED BY <1>4, <1>5, <1>6 DEF ClockStep

\* A step that takes the timer from the list, if it is on it.
LEMMA CancelStep ==
  ASSUME TimerInv, NEW t \in Timer, NEW from \in Place, NEW to \in Place, OwnerAt(t, from, to),
         to # "insert", NEW l, l = State, NEW r, Become(r), read' = read,
         r = _rt_timer_remove(l, t) \/ r = Deactivate(_rt_timer_remove(l, t), t)
  PROVE  TimerInv' /\ ClockStep /\ ActiveStep
<1>1. /\ Linked(l, rt_tick, 1 - Delay) /\ rt_tick \in Tick /\ l \in TimerState
      /\ ~checking /\ checking' = checking /\ rt_tick' = rt_tick
  BY OwnerState
<1>2. PICK m : m = _rt_timer_remove(l, t) OBVIOUS
<1>3. /\ Linked(m, rt_tick, 1 - Delay) /\ Others(l, m, t)
      /\ ToSet(m.list) = ToSet(l.list) \ {t} /\ m.order = Unlink(l.order, t)
  BY <1>1, <1>2, RemoveLinked
<1>4. Linked(r, rt_tick, 1 - Delay) /\ Stopped(l, r, t)
  <2>1. CASE r = m BY <1>3, <2>1 DEF Stopped
  <2>2. CASE r = Deactivate(m, t)
    <3>1. Linked(m, rt_tick, 1 - Delay) BY <1>3
    <3>2. /\ Linked(r, rt_tick, 1 - Delay) /\ Others(m, r, t)
          /\ r.list = m.list /\ r.order = m.order
      BY <1>1, <2>2, <3>1, DeactivateLinked
    <3> QED BY <1>3, <3>2 DEF Stopped, Others
  <2> QED BY <1>2, <2>1, <2>2
<1>5. OwnerEffect(l, r, t, to) BY <1>4 DEF OwnerEffect, Stopped, Others
<1>6. read' \in [Timer -> BOOLEAN] BY DEF TimerInv, TypeOK
<1>7. TimerInv' BY <1>5, <1>6, OwnerStep
<1>8. r \in TimerState BY <1>4 DEF Linked
<1>9. LeftOn(r, rt_tick) = [LeftOn(l, rt_tick) EXCEPT ![t] = TicksWrap]
  BY <1>1, <1>4, <1>8, LeftStopped
<1>10. Clock!Cancel(t)
  <2>1. r.order = Unlink(l.order, t) BY <1>4 DEF Stopped
  <2> QED BY <1>1, <1>9, <2>1, ClockCancel
<1>11. ActiveStep
  <2>1. t \notin ToSet(r.list) BY <1>4 DEF Stopped
  <2>2. Flagged(r, t, to) BY <2>1 DEF Flagged
  <2> QED BY <1>5, <2>2, FlagStep
<1> QED BY <1>7, <1>10, <1>11 DEF ClockStep, Clock!Next

\* Replacing the record of one timer by one with the same deadline.
LEMMA NewRecordKept ==
  ASSUME NEW l \in TimerState, NEW t \in Timer, NEW x \in TimerRecord,
         t \in ToSet(l.list) => x.timeout_tick = l.timer[t].timeout_tick,
         NEW r, r = [l EXCEPT !.timer = [l.timer EXCEPT ![t] = x]]
  PROVE  Kept(l, r, t)
<1>1. l.timer \in [Timer -> TimerRecord] BY DEF TimerState
<1>2. PICK tm : tm = [l.timer EXCEPT ![t] = x] OBVIOUS
<1>3. /\ tm \in [Timer -> TimerRecord] /\ tm[t] = x
      /\ \A u \in Timer : u # t => tm[u] = l.timer[u]
  BY <1>1, <1>2
<1>4. /\ r \in TimerState /\ r.list = l.list /\ r.order = l.order /\ r.timer = tm
  BY <1>2, <1>3 DEF TimerState
<1> QED BY <1>3, <1>4 DEF Kept

\* rt_timer_init: the timer is in no list.
LEMMA InitStep ==
  ASSUME TimerInv, NEW t \in Timer, NEW d \in Time, NEW periodic \in BOOLEAN,
         rt_timer_init(t, d, periodic)
  PROVE  TimerInv' /\ ClockStep /\ ActiveStep
<1>1. OwnerAt(t, "none", "idle") /\ "none" \in Place /\ "idle" \in Place
  BY DEF rt_timer_init, Place
<1>2. PICK l : l = State OBVIOUS
<1>3. l \in TimerState /\ t \notin ToSet(l.list) BY <1>1, <1>2, OwnerState
<1>4. PICK x \in TimerRecord : x = NewTimer(d, periodic)
  BY TickType DEF NewTimer, TimerRecord
<1>5. PICK r : r = [l EXCEPT !.timer = [l.timer EXCEPT ![t] = x]] OBVIOUS
<1>6. Become(r)
  <2>1. r = [State EXCEPT !.timer[t] = NewTimer(d, periodic)] BY <1>2, <1>4, <1>5
  <2> QED BY <2>1 DEF rt_timer_init
<1>7. Kept(l, r, t) BY <1>3, <1>5, NewRecordKept
<1>8. Allowed(l, r, t, "idle") BY DEF Allowed
<1>9. read' \in [Timer -> BOOLEAN] BY DEF rt_timer_init, TimerInv, TypeOK
<1>10. Flagged(r, t, "idle")
  <2>1. t \notin ToSet(r.list) BY <1>3, <1>7 DEF Kept
  <2> QED BY <2>1 DEF rt_timer_init, Flagged
<1> QED BY <1>1, <1>2, <1>6, <1>7, <1>8, <1>9, <1>10, KeptStep

\* rt_timer_detach cancels the timer.
LEMMA DetachStep ==
  ASSUME TimerInv, NEW t \in Timer, rt_timer_detach(t)
  PROVE  TimerInv' /\ ClockStep /\ ActiveStep
<1>1. OwnerAt(t, "idle", "none") /\ "none" \in Place /\ "idle" \in Place
  BY DEF rt_timer_detach, Place
<1>2. PICK l : l = State OBVIOUS
<1>3. PICK r : r = _rt_timer_remove(l, t) OBVIOUS
<1>4. Become(r) /\ read' = read BY <1>2, <1>3 DEF rt_timer_detach
<1> QED BY <1>1, <1>2, <1>3, <1>4, CancelStep

\* rt_timer_start first cancels the timer.
LEMMA StartStep ==
  ASSUME TimerInv, NEW t \in Timer, rt_timer_start(t)
  PROVE  TimerInv' /\ ClockStep /\ ActiveStep
<1>1. OwnerAt(t, "idle", "start") /\ "start" \in Place /\ "idle" \in Place
  BY DEF rt_timer_start, Place
<1>2. PICK l : l = State OBVIOUS
<1>3. PICK r : r = Deactivate(_rt_timer_remove(l, t), t) OBVIOUS
<1>4. Become(r) /\ read' = read BY <1>2, <1>3 DEF rt_timer_start
<1> QED BY <1>1, <1>2, <1>3, <1>4, CancelStep

\* rt_timer_stop takes the timer from the list.
LEMMA StopRemoveStep ==
  ASSUME TimerInv, NEW t \in Timer, StopRemove(t)
  PROVE  TimerInv' /\ ClockStep /\ ActiveStep
<1>1. OwnerAt(t, "stop", "clear") /\ "stop" \in Place /\ "clear" \in Place
  BY DEF StopRemove, Place
<1>2. PICK l : l = State OBVIOUS
<1>3. PICK r : r = _rt_timer_remove(l, t) OBVIOUS
<1>4. Become(r) /\ read' = read BY <1>2, <1>3 DEF StopRemove
<1> QED BY <1>1, <1>2, <1>3, <1>4, CancelStep

\* rt_timer_start computes the deadline before it links the timer.
LEMMA TimeoutStep ==
  ASSUME TimerInv, NEW t \in Timer, StartTimeout(t)
  PROVE  TimerInv' /\ ClockStep /\ ActiveStep
<1>1. OwnerAt(t, "start", "insert") /\ "start" \in Place /\ "insert" \in Place
  BY DEF StartTimeout, Place
<1>2. PICK l : l = State OBVIOUS
<1>3. Linked(l, rt_tick, 1 - Delay) /\ l \in TimerState /\ rt_tick \in Tick
      /\ t \notin ToSet(l.list)
  BY <1>1, <1>2, OwnerState
<1>4. PICK r : r = SetTimeout(l, t) OBVIOUS
<1>5. Become(r) BY <1>2, <1>4 DEF StartTimeout
<1>6. /\ Linked(r, rt_tick, 1 - Delay) /\ Others(l, r, t)
      /\ r.list = l.list /\ r.order = l.order
      /\ r.timer[t].activated = l.timer[t].activated
      /\ Key(r, rt_tick)[t] = l.timer[t].init_tick
      /\ Ago(rt_tick + r.timer[t].init_tick, r.timer[t].timeout_tick) = 0
  <2>1. Linked(l, rt_tick, 1 - Delay) /\ t \notin ToSet(l.list) BY <1>3
  <2> QED BY <1>3, <1>4, <2>1, SetTimeoutLinked
<1>7. Kept(l, r, t) BY <1>3, <1>6 DEF Kept, Others, Linked
<1>8. Allowed(l, r, t, "insert")
  <2>1. Delay \in Nat BY Numbers
  <2> QED BY <1>3, <1>6, <2>1 DEF Allowed
<1>9. read' \in [Timer -> BOOLEAN] BY DEF StartTimeout, TimerInv, TypeOK
<1>10. Flagged(r, t, "insert")
  <2>1. t \notin ToSet(r.list) BY <1>3, <1>6
  <2> QED BY <2>1 DEF StartTimeout, Flagged
<1> QED BY <1>1, <1>2, <1>5, <1>7, <1>8, <1>9, <1>10, KeptStep

\* rt_timer_stop found the timer activated.
LEMMA StopStep ==
  ASSUME TimerInv, NEW t \in Timer, rt_timer_stop(t)
  PROVE  TimerInv' /\ ClockStep /\ ActiveStep
<1>1. OwnerAt(t, "idle", "stop") /\ "idle" \in Place /\ "stop" \in Place
  BY DEF rt_timer_stop, Place
<1>2. PICK l : l = State OBVIOUS
<1>3. l \in TimerState BY <1>1, <1>2, OwnerState
<1>4. Become(l) BY <1>2 DEF rt_timer_stop, Become, State
<1>5. Kept(l, l, t) BY <1>3 DEF Kept
<1>6. Allowed(l, l, t, "stop") BY DEF Allowed
<1>7. read' \in [Timer -> BOOLEAN] BY DEF rt_timer_stop, TimerInv, TypeOK
<1>8. Flagged(l, t, "stop")
  <2>1. l.list = rt_timer_list /\ l.timer = timer BY <1>2 DEF State
  <2> QED BY <2>1 DEF rt_timer_stop, Flagged, ActiveOK
<1> QED BY <1>1, <1>2, <1>4, <1>5, <1>6, <1>7, <1>8, KeptStep

\* rt_timer_stop clears the flag of a timer that is in no list any more.
LEMMA ClearStep ==
  ASSUME TimerInv, NEW t \in Timer, StopClear(t)
  PROVE  TimerInv' /\ ClockStep /\ ActiveStep
<1>1. OwnerAt(t, "clear", "idle") /\ "idle" \in Place /\ "clear" \in Place
  BY DEF StopClear, Place
<1>2. PICK l : l = State OBVIOUS
<1>3. Linked(l, rt_tick, 1 - Delay) /\ rt_tick \in Tick BY <1>1, <1>2, OwnerState
<1>4. PICK r : r = Deactivate(l, t) OBVIOUS
<1>5. Become(r) BY <1>2, <1>4 DEF StopClear
<1>6. /\ Linked(r, rt_tick, 1 - Delay) /\ Others(l, r, t)
      /\ r.list = l.list /\ r.order = l.order
      /\ r.timer[t].timeout_tick = l.timer[t].timeout_tick
  BY <1>3, <1>4, DeactivateLinked
<1>7. Kept(l, r, t) BY <1>6 DEF Kept, Others, Linked
<1>8. Allowed(l, r, t, "idle") BY DEF Allowed
<1>9. read' \in [Timer -> BOOLEAN] BY DEF StopClear, TimerInv, TypeOK
<1>10. Flagged(r, t, "idle")
  <2>1. t \notin ToSet(l.list) BY <1>1, <1>2, OwnerState
  <2> QED BY <1>6, <2>1 DEF StopClear, Flagged
<1> QED BY <1>1, <1>2, <1>5, <1>7, <1>8, <1>9, <1>10, KeptStep

\* A new period leaves the deadline of a pending timer alone.
LEMMA SetTimeStep ==
  ASSUME TimerInv, NEW t \in Timer, NEW d \in Time, rt_timer_control(t, d)
  PROVE  TimerInv' /\ ClockStep /\ ActiveStep
<1>1. OwnerAt(t, "idle", "idle") /\ "idle" \in Place BY DEF rt_timer_control, Place
<1>2. PICK l : l = State OBVIOUS
<1>3. l \in TimerState BY <1>1, <1>2, OwnerState
<1>4. PICK x \in TimerRecord : /\ x = [l.timer[t] EXCEPT !.init_tick = d]
                               /\ x.timeout_tick = l.timer[t].timeout_tick
                               /\ x.activated = l.timer[t].activated
  <2>1. PICK y \in TimerRecord : y = l.timer[t] BY <1>3 DEF TimerState
  <2>2. [y EXCEPT !.init_tick = d] \in TimerRecord BY DEF TimerRecord
  <2>3. /\ [y EXCEPT !.init_tick = d].timeout_tick = y.timeout_tick
        /\ [y EXCEPT !.init_tick = d].activated = y.activated
    BY DEF TimerRecord
  <2> QED BY <2>1, <2>2, <2>3
<1>5. PICK r : r = [l EXCEPT !.timer = [l.timer EXCEPT ![t] = x]] OBVIOUS
<1>6. Become(r)
  <2>1. r = [State EXCEPT !.timer[t].init_tick = d] BY <1>2, <1>4, <1>5
  <2> QED BY <2>1 DEF rt_timer_control
<1>7. Kept(l, r, t) /\ r.timer[t] = x
  <2>1. l \in TimerState /\ x.timeout_tick = l.timer[t].timeout_tick BY <1>3, <1>4
  <2>2. Kept(l, r, t) BY <1>5, <2>1, NewRecordKept
  <2>3. r.timer[t] = x
    <3>1. PICK tm : tm = [l.timer EXCEPT ![t] = x] OBVIOUS
    <3>2. r.timer = tm BY <1>5, <2>1, <3>1 DEF TimerState
    <3> QED BY <2>1, <3>1, <3>2 DEF TimerState
  <2> QED BY <2>2, <2>3
<1>8. Allowed(l, r, t, "idle") BY DEF Allowed
<1>9. read' \in [Timer -> BOOLEAN] BY DEF rt_timer_control, TimerInv, TypeOK
<1>10. Flagged(r, t, "idle")
  <2>1. l.list = rt_timer_list /\ l.timer = timer BY <1>2 DEF State
  <2>2. r.list = rt_timer_list BY <1>7, <2>1 DEF Kept
  <2>3. ActiveOK /\ t \in ToSet(r.list) => r.timer[t].activated = TRUE
    BY <1>4, <1>7, <2>1, <2>2 DEF ActiveOK
  <2> QED BY <2>3 DEF rt_timer_control, Flagged
<1> QED BY <1>1, <1>2, <1>6, <1>7, <1>8, <1>9, <1>10, KeptStep

\* The owner reads the flag byte.
LEMMA ReadStep ==
  ASSUME TimerInv, NEW t \in Timer, ControlRead(t)
  PROVE  TimerInv' /\ ClockStep /\ ActiveStep
<1>1. OwnerAt(t, "idle", "store") /\ "idle" \in Place /\ "store" \in Place
  BY DEF ControlRead, Place
<1>2. PICK l : l = State OBVIOUS
<1>3. l \in TimerState BY <1>1, <1>2, OwnerState
<1>4. Become(l) BY <1>2 DEF ControlRead, Become, State
<1>5. Kept(l, l, t) BY <1>3 DEF Kept
<1>6. Allowed(l, l, t, "store") BY DEF Allowed
<1>7. read' \in [Timer -> BOOLEAN] BY DEF ControlRead, TimerInv, TypeOK
<1>8. Flagged(l, t, "store")
  <2>1. l.list = rt_timer_list /\ l.timer = timer BY <1>2 DEF State
  <2>2. read \in [Timer -> BOOLEAN] BY DEF TimerInv, TypeOK
  <2>3. read' = [read EXCEPT ![t] = timer[t].activated] BY DEF ControlRead
  <2> QED BY <2>1, <2>2, <2>3 DEF Flagged, ActiveOK
<1> QED BY <1>1, <1>2, <1>4, <1>5, <1>6, <1>7, <1>8, KeptStep

\* The owner writes back the flag that it read.
LEMMA WriteStep ==
  ASSUME TimerInv, NEW t \in Timer, NEW periodic \in BOOLEAN, ControlWrite(t, periodic)
  PROVE  TimerInv' /\ ClockStep /\ ActiveStep
<1>1. OwnerAt(t, "store", "idle") /\ "idle" \in Place /\ "store" \in Place
  BY DEF ControlWrite, Place
<1>2. PICK l : l = State OBVIOUS
<1>3. l \in TimerState BY <1>1, <1>2, OwnerState
<1>4. read \in [Timer -> BOOLEAN] BY DEF TimerInv, TypeOK
<1>5. PICK y \in TimerRecord : y = l.timer[t] BY <1>3 DEF TimerState
<1>6. PICK b \in BOOLEAN : b = read[t] BY <1>4
<1>7. PICK x \in TimerRecord : /\ x = [y EXCEPT !.activated = b, !.periodic = periodic]
                               /\ x.timeout_tick = y.timeout_tick
                               /\ x.activated = b
  <2>1. [y EXCEPT !.activated = b, !.periodic = periodic] \in TimerRecord BY DEF TimerRecord
  <2>2. /\ [y EXCEPT !.activated = b, !.periodic = periodic].timeout_tick = y.timeout_tick
        /\ [y EXCEPT !.activated = b, !.periodic = periodic].activated = b
    BY DEF TimerRecord
  <2> QED BY <2>1, <2>2
<1>8. PICK r : r = [l EXCEPT !.timer = [l.timer EXCEPT ![t] = x]] OBVIOUS
<1>9. Become(r)
  <2>1. PICK q : q = [State EXCEPT !.timer[t].activated = read[t], !.timer[t].periodic = periodic]
    OBVIOUS
  <2>2. q.list = l.list /\ q.order = l.order /\ q.timer = [l.timer EXCEPT ![t] = x]
    BY <1>2, <1>3, <1>5, <1>6, <1>7, <2>1 DEF TimerState, TimerRecord
  <2>3. r.list = l.list /\ r.order = l.order /\ r.timer = [l.timer EXCEPT ![t] = x]
    BY <1>3, <1>8 DEF TimerState
  <2>4. Become(q) BY <2>1 DEF ControlWrite
  <2> QED BY <2>2, <2>3, <2>4 DEF Become
<1>10. Kept(l, r, t) /\ r.timer[t] = x
  <2>1. l \in TimerState /\ x.timeout_tick = l.timer[t].timeout_tick BY <1>3, <1>5, <1>7
  <2>2. Kept(l, r, t) BY <1>8, <2>1, NewRecordKept
  <2>3. r.timer[t] = x
    <3>1. PICK tm : tm = [l.timer EXCEPT ![t] = x] OBVIOUS
    <3>2. r.timer = tm BY <1>8, <2>1, <3>1 DEF TimerState
    <3> QED BY <2>1, <3>1, <3>2 DEF TimerState
  <2> QED BY <2>2, <2>3
<1>11. Allowed(l, r, t, "idle") BY DEF Allowed
<1>12. read' \in [Timer -> BOOLEAN] BY <1>4 DEF ControlWrite
<1>13. Flagged(r, t, "idle")
  <2>1. pc[t] = "store" BY <1>1 DEF OwnerAt
  <2>2. l.list = rt_timer_list BY <1>2 DEF State
  <2>3. r.list = rt_timer_list BY <1>10, <2>2 DEF Kept
  <2>4. ActiveOK /\ t \in ToSet(r.list) => r.timer[t].activated = TRUE
    BY <1>6, <1>7, <1>10, <2>1, <2>3 DEF ActiveOK
  <2>5. read' = [read EXCEPT ![t] = FALSE] BY DEF ControlWrite
  <2> QED BY <1>4, <2>4, <2>5 DEF Flagged
<1> QED BY <1>1, <1>2, <1>9, <1>10, <1>11, <1>12, <1>13, KeptStep

\* The timer is set to go off when what is left of its period is over.
LEMMA InsertStep ==
  ASSUME TimerInv, NEW t \in Timer, StartInsert(t)
  PROVE  TimerInv' /\ ClockStep /\ ActiveStep
<1>1. OwnerAt(t, "insert", "idle") /\ "idle" \in Place /\ "insert" \in Place
  BY DEF StartInsert, Place
<1>2. PICK l : l = State OBVIOUS
<1>3. /\ Linked(l, rt_tick, 1 - Delay) /\ l \in TimerState /\ t \notin ToSet(l.list)
      /\ rt_tick \in Tick /\ Lowest(1 - Delay) /\ l.timer = timer
      /\ pc[t] = "insert" /\ ~checking /\ checking' = checking /\ rt_tick' = rt_tick
  BY <1>1, <1>2, OwnerState
<1>4. PICK r : r = Insert(l, t) OBVIOUS
<1>5. Become(r) BY <1>2, <1>4 DEF StartInsert
<1>6. PICK d : d = Key(l, rt_tick)[t] OBVIOUS
<1>7. d \in 1 - Delay .. Latest /\ d \in -Delay .. Half
  <2>1. PICK i \in Time : i = l.timer[t].init_tick BY <1>3, DelayShort
  <2>2. PICK a \in Tick : a = l.timer[t].timeout_tick BY <1>3 DEF TimerState, TimerRecord
  <2>3. Ago(rt_tick + i, a) \in 0 .. Delay BY <1>3, <2>1, <2>2 DEF TimerInv, PlaceOK
  <2>4. d = LeftOf(a, rt_tick) BY <1>3, <1>6, <2>2, KeyType
  <2>5. LeftOf(a, rt_tick) = i - Ago(rt_tick + i, a) BY <1>3, <2>3, SetLate
  <2>6. PICK e \in 0 .. Delay : e = Ago(rt_tick + i, a) BY <2>3
  <2>7. i \in Nat /\ 1 <= i /\ i + Delay < Half BY Numbers
  <2>8. Half \in Nat /\ Delay \in Nat /\ Latest = Half - 1 - Delay BY <1>3, DelayShort
  <2>9. d = i - e BY <2>4, <2>5, <2>6
  <2> QED BY <2>7, <2>8, <2>9
<1>8. Linked(r, rt_tick, 1 - Delay) /\ Inserted(l, r, t)
  <2>1. Linkable(l, t, rt_tick, 1 - Delay) BY <1>3, <1>6, <1>7 DEF Linkable
  <2>2. Lowest(1 - Delay) /\ rt_tick \in Tick BY <1>3
  <2> QED BY <1>4, <2>1, <2>2, InsertLinked
<1>9. OwnerEffect(l, r, t, "idle") BY <1>8 DEF OwnerEffect, Inserted, Others
<1>10. read' \in [Timer -> BOOLEAN] BY DEF StartInsert, TimerInv, TypeOK
<1>11. TimerInv' BY <1>1, <1>2, <1>5, <1>9, <1>10, OwnerStep
<1>12. r \in TimerState BY <1>8 DEF Linked
<1>13. Key(r, rt_tick)[t] = d
  <2>1. Key(r, rt_tick)[t] = LeftOf(r.timer[t].timeout_tick, rt_tick)
    BY <1>3, <1>12, KeyType
  <2>2. d = LeftOf(l.timer[t].timeout_tick, rt_tick) BY <1>3, <1>6, KeyType
  <2> QED BY <1>8, <2>1, <2>2 DEF Inserted
<1>14. LeftOn(r, rt_tick) = [LeftOn(l, rt_tick) EXCEPT ![t] = d]
  BY <1>3, <1>8, <1>12, <1>13, LeftStarted DEF Inserted
<1>15. r.order = Append(Unlink(l.order, t), t)
  <2>1. t \notin ToSet(l.order) BY <1>3 DEF Linked
  <2> QED BY <1>8, <2>1 DEF Inserted, Unlink
<1>16. Clock!Set(t) BY <1>2, <1>3, <1>5, <1>7, <1>14, <1>15, ClockSet
<1>17. ActiveStep
  <2>1. Flagged(r, t, "idle") BY <1>8 DEF StartInsert, Flagged, Inserted
  <2> QED BY <1>1, <1>2, <1>5, <1>9, <2>1, FlagStep
<1> QED BY <1>11, <1>16, <1>17 DEF ClockStep, Clock!Next

-----------------------------------------------------------------------------
(* The initial state and the tick interrupt *)

\* Before the first call no timer is set.
LEMMA InitInv ==
  ASSUME Init
  PROVE  TimerInv /\ Clock!Init
<1>1. PICK d \in Time : timer = [t \in Timer |-> NewTimer(d, FALSE)] BY DEF Init
<1>2. /\ rt_tick = 0 /\ rt_timer_list = <<>> /\ order = <<>> /\ checking = FALSE
      /\ read = [t \in Timer |-> FALSE] /\ pc = [t \in Timer |-> "none"]
  BY DEF Init
<1>3. NewTimer(d, FALSE) \in TimerRecord BY TickType DEF NewTimer, TimerRecord
<1>4. TypeOK
  <2>1. timer \in [Timer -> TimerRecord] BY <1>1, <1>3
  <2>2. 0 \in Tick BY TickType
  <2>3. <<>> \in Seq(Timer) OBVIOUS
  <2>4. pc \in [Timer -> Place] BY <1>2 DEF Place
  <2>5. read \in [Timer -> BOOLEAN] BY <1>2
  <2> QED BY <1>2, <2>1, <2>2, <2>3, <2>4, <2>5 DEF TypeOK, TimerRecord
<1>5. ToSet(<<>>) = {}
  <2>1. <<>> \in Seq(Timer) OBVIOUS
  <2> QED BY <2>1, EmptyList
<1>6. PICK l : l = State OBVIOUS
<1>7. l \in TimerState /\ l.list = <<>> /\ l.order = <<>> BY <1>2, <1>4, <1>6, StateType
<1>8. \A c : Linked(l, rt_tick, c)
  <2>1. NoDup(<<>>) BY DEF NoDup
  <2>2. \A a, b : ~Precedes(<<>>, a, b) BY DEF Precedes
  <2> QED BY <1>5, <1>7, <2>1, <2>2, Zenon DEF Linked, Ranked
<1>9. \A t \in Timer : PlaceOK(t)
  <2>1. \A t \in Timer : pc[t] = "none" /\ t \notin ToSet(rt_timer_list) BY <1>2, <1>5
  <2> QED BY <2>1 DEF PlaceOK
<1>10. TimerInv BY <1>4, <1>6, <1>8, <1>9, Zenon DEF TimerInv
<1>11. Clock!Init
  <2>1. \A t \in Timer : t \notin ToSet(rt_timer_list) BY <1>2, <1>5
  <2>2. [t \in Timer |-> IF t \in ToSet(rt_timer_list) THEN Left(t) ELSE TicksWrap]
          = [t \in Timer |-> TicksWrap]
    BY <2>1
  <2> QED BY <1>2, <2>2 DEF Clock!Init
<1> QED BY <1>10, <1>11

\* The tick brings every pending timer nearer by one, and a deadline that is
\* not yet inserted is late by one more.
LEMMA TickStep ==
  ASSUME TimerInv, rt_tick_increase
  PROVE  TimerInv' /\ ClockStep
<1>1. PICK l : l = State OBVIOUS
<1>2. /\ l \in TimerState /\ rt_tick \in Tick /\ checking \in BOOLEAN
      /\ l.list = rt_timer_list /\ l.timer = timer /\ l.order = order
  BY <1>1, StateType DEF TimerInv
<1>3. /\ checking = FALSE /\ checking' = TRUE /\ rt_tick' = (rt_tick + 1) % TicksWrap
      /\ rt_timer_list' = rt_timer_list /\ timer' = timer /\ order' = order
      /\ read' = read /\ pc' = pc
      /\ \A t \in Timer : pc[t] = "insert"
           => Ago(rt_tick + timer[t].init_tick, timer[t].timeout_tick) < Delay
  BY <1>2 DEF rt_tick_increase
<1>4. Linked(l, rt_tick, 1 - Delay)
  <2>1. Linked(l, rt_tick, Lo(FALSE)) BY <1>1, <1>3 DEF TimerInv
  <2> QED BY <2>1, LoType
<1>5. PICK new : new = rt_tick' OBVIOUS
<1>6. /\ new \in Tick /\ Linked(l, new, -Delay)
      /\ LeftOn(l, new) = [u \in Timer |-> IF LeftOn(l, rt_tick)[u] = TicksWrap THEN TicksWrap
                                           ELSE LeftOn(l, rt_tick)[u] - 1]
  BY <1>2, <1>3, <1>4, <1>5, LeftTicked
<1>7. TypeOK' BY <1>3, <1>5, <1>6 DEF TimerInv, TypeOK
<1>8. Linked(State, rt_tick, Lo(checking))'
  <2>1. State' = State BY <1>3 DEF State
  <2>2. Lo(checking') = -Delay BY <1>3, LoType
  <2> QED BY <1>1, <1>5, <1>6, <2>1, <2>2
<1>9. ASSUME NEW t \in Timer PROVE PlaceOK(t)'
  <2>1. PlaceOK(t) BY DEF TimerInv
  <2>2. ASSUME pc[t] = "insert"
        PROVE  Ago(new + timer[t].init_tick, timer[t].timeout_tick) \in 0 .. Delay
    <3>1. PICK d \in Time : d = timer[t].init_tick BY <1>2, DelayShort
    <3>2. PICK a \in Tick : a = timer[t].timeout_tick BY <1>2 DEF TimerState, TimerRecord
    <3>3. Ago(rt_tick + d, a) \in 0 .. Delay /\ Ago(rt_tick + d, a) < Delay
      BY <1>3, <2>1, <2>2, <3>1, <3>2 DEF PlaceOK
    <3>4. Ago(((rt_tick + 1) % TicksWrap) + d, a) \in 0 .. Delay
      BY <1>2, <3>3, OneTickLater
    <3> QED BY <1>3, <1>5, <3>1, <3>2, <3>4
  <2> QED BY <1>3, <1>5, <2>1, <2>2 DEF PlaceOK
<1>10. Clock!Tick
  <2>1. Become(l) BY <1>2, <1>3 DEF Become
  <2>2. PICK f : f = LeftOn(l, rt_tick) OBVIOUS
  <2>3. PICK g : g = LeftOn(l, rt_tick') OBVIOUS
  <2>4. f = [u \in Timer |-> IF u \in ToSet(rt_timer_list) THEN Left(u) ELSE TicksWrap]
    BY <1>1, <2>2, LeftIs
  <2>5. g = [u \in Timer |-> IF u \in ToSet(rt_timer_list) THEN Left(u) ELSE TicksWrap]'
    BY <2>1, <2>3, NextLeft
  <2>6. g = [u \in Timer |-> IF f[u] = TicksWrap THEN TicksWrap ELSE f[u] - 1]
    BY <1>5, <1>6, <2>2, <2>3
  <2> QED BY <1>3, <2>4, <2>5, <2>6 DEF Clock!Tick
<1> QED BY <1>7, <1>8, <1>9, <1>10 DEF TimerInv, ClockStep, Clock!Next

\* The timer that rt_timer_check takes is the first that is due, and after the
\* callback it is off or set from now.
LEMMA ExpireStep ==
  ASSUME TimerInv, NEW t \in Timer, NEW call \in {"none", "stop", "start"}, Expire(t, call)
  PROVE  TimerInv' /\ ClockStep
<1>1. PICK l : l = State OBVIOUS
<1>2. /\ l \in TimerState /\ rt_tick \in Tick /\ checking \in BOOLEAN
      /\ l.list = rt_timer_list /\ l.timer = timer /\ l.order = order
  BY <1>1, StateType DEF TimerInv
<1>3. /\ checking = TRUE /\ checking' = checking /\ rt_tick' = rt_tick
      /\ read' = read /\ pc' = pc
      /\ rt_timer_list # <<>> /\ t = Head(rt_timer_list) /\ Due(t)
  BY <1>2 DEF Expire
<1>4. Linked(l, rt_tick, -Delay) /\ Lowest(-Delay)
  <2>1. Linked(l, rt_tick, Lo(TRUE)) BY <1>1, <1>3 DEF TimerInv
  <2>2. Lowest(Lo(TRUE)) /\ Lo(TRUE) = -Delay BY LoType
  <2> QED BY <2>1, <2>2
<1>5. PICK r : r = Finished(Callback(_rt_timer_remove(l, t), t, call), t) OBVIOUS
<1>6. Become(r) BY <1>1, <1>5 DEF Expire
<1>7. Linked(r, rt_tick, -Delay)
  BY <1>2, <1>4, <1>5, ExpiredLinked
<1>8. Stopped(l, r, t) \/ Started(l, r, t)
  BY <1>2, <1>4, <1>5, ExpiredLinked
<1>9. Others(l, r, t) /\ \A u \in Timer : u # t => (u \in ToSet(r.list) <=> u \in ToSet(l.list))
  BY <1>8 DEF Stopped, Started
<1>10. t \in ToSet(rt_timer_list) /\ Clock!GoesFirst(t)
  BY <1>1, <1>2, <1>3, <1>4, HeadGoesFirst
<1>11. PICK s : s = State' OBVIOUS
<1>12. /\ Linked(s, rt_tick, -Delay) /\ r \in TimerState
       /\ rt_timer_list' = r.list /\ timer' = r.timer
       /\ rt_timer_list' \in Seq(Timer) /\ order' \in Seq(Timer)
       /\ timer' \in [Timer -> TimerRecord]
  BY <1>6, <1>7, <1>11, BecomeLinked
<1>13. TypeOK' BY <1>3, <1>12 DEF TimerInv, TypeOK, TimerRecord
<1>14. Linked(State, rt_tick, Lo(checking))'
  <2>1. Lo(checking') = -Delay BY <1>3, LoType
  <2> QED BY <1>3, <1>11, <1>12, <2>1
<1>15. ASSUME NEW u \in Timer PROVE PlaceOK(u)'
  <2>1. PlaceOK(u) BY DEF TimerInv
  <2>2. CASE u # t
    <3>1. timer'[u] = timer[u] BY <1>2, <1>9, <1>12, <2>2 DEF Others
    <3>2. u \in ToSet(rt_timer_list') <=> u \in ToSet(rt_timer_list)
      BY <1>2, <1>9, <1>12, <2>2
    <3> QED BY <1>3, <2>1, <3>1, <3>2 DEF PlaceOK
  <2>3. CASE u = t BY <1>3, <1>10, <2>1, <2>3 DEF PlaceOK
  <2> QED BY <2>2, <2>3
<1>16. PICK f : f = LeftOn(l, rt_tick) OBVIOUS
<1>17. PICK g : g = LeftOn(r, rt_tick') OBVIOUS
<1>18. f = [u \in Timer |-> IF u \in ToSet(rt_timer_list) THEN Left(u) ELSE TicksWrap]
  BY <1>1, <1>16, LeftIs
<1>19. g = [u \in Timer |-> IF u \in ToSet(rt_timer_list) THEN Left(u) ELSE TicksWrap]'
  BY <1>6, <1>17, NextLeft
<1>20. f[t] # TicksWrap /\ f[t] <= 0
  <2>1. PICK a \in Tick : a = timer[t].timeout_tick
    BY <1>2 DEF TimerState, TimerRecord
  <2>2. f[t] = Key(l, rt_tick)[t] BY <1>2, <1>10, <1>16 DEF LeftOn
  <2>3. Key(l, rt_tick)[t] = LeftOf(a, rt_tick) BY <1>2, <2>1, KeyType
  <2>4. LeftOf(a, rt_tick) \in -Delay .. Latest BY <1>2, <1>4, <1>10, <2>3 DEF Linked
  <2>5. Delay < Half /\ Half \in Nat /\ Delay \in Nat /\ Latest \in Int BY <1>2, DelayShort
  <2>6. -Half < LeftOf(a, rt_tick) BY <2>4, <2>5
  <2>7. Ago(rt_tick, a) < Half BY <1>3, <2>1 DEF Due
  <2>8. LeftOf(a, rt_tick) <= 0 BY <1>2, <2>6, <2>7, DueIsPast
  <2>9. LeftOf(a, rt_tick) # TicksWrap BY <1>2, LeftOfRange
  <2> QED BY <2>2, <2>3, <2>8, <2>9
<1>21. Clock!Without(t) = Unlink(order, t) BY SameUnlink DEF Clock!Without
<1>22. order' = r.order BY <1>6 DEF Become
<1>23. ASSUME Stopped(l, r, t) PROVE Clock!GoOff(t)
  <2>1. g = [f EXCEPT ![t] = TicksWrap]
    BY <1>2, <1>3, <1>12, <1>16, <1>17, <1>23, LeftStopped
  <2>2. order' = Clock!Without(t) BY <1>2, <1>21, <1>22, <1>23 DEF Stopped
  <2> QED BY <1>3, <1>10, <1>18, <1>19, <1>20, <2>1, <2>2 DEF Clock!GoOff
<1>24. ASSUME Started(l, r, t) PROVE Clock!GoOff(t)
  <2>1. PICK d \in 1 .. Half : d = l.timer[t].init_tick
    <3>1. PICK d \in Time : d = l.timer[t].init_tick BY <1>2, DelayShort
    <3>2. d \in Nat /\ 1 <= d /\ d + Delay < Half /\ Half \in Nat /\ Delay \in Nat BY Numbers
    <3> QED BY <3>1, <3>2
  <2>2. Others(l, r, t) /\ ToSet(r.list) = ToSet(l.list) \cup {t} /\ Key(r, rt_tick)[t] = d
    BY <1>24, <2>1 DEF Started
  <2>3. g = [f EXCEPT ![t] = d] BY <1>2, <1>3, <1>12, <1>16, <1>17, <2>2, LeftStarted
  <2>4. order' = Append(Clock!Without(t), t) BY <1>2, <1>21, <1>22, <1>24 DEF Started
  <2>5. \E e \in 1 .. Half : g = [f EXCEPT ![t] = e] BY <2>3
  <2> QED BY <1>3, <1>10, <1>18, <1>19, <1>20, <2>4, <2>5 DEF Clock!GoOff
<1>25. ClockStep BY <1>8, <1>23, <1>24 DEF ClockStep, Clock!Next
<1> QED BY <1>13, <1>14, <1>15, <1>25 DEF TimerInv

\* When the first timer of the list is not due, none is.
LEMMA CheckEndStep ==
  ASSUME TimerInv, CheckEnd
  PROVE  TimerInv' /\ ClockStep
<1>1. PICK l : l = State OBVIOUS
<1>2. /\ l \in TimerState /\ rt_tick \in Tick /\ checking \in BOOLEAN
      /\ l.list = rt_timer_list /\ l.timer = timer /\ l.order = order
      /\ rt_timer_list \in Seq(Timer)
  BY <1>1, StateType DEF TimerInv, TypeOK
<1>3. /\ checking = TRUE /\ checking' = FALSE /\ rt_tick' = rt_tick
      /\ rt_timer_list' = rt_timer_list /\ timer' = timer /\ order' = order
      /\ read' = read /\ pc' = pc
      /\ rt_timer_list # <<>> => ~Due(Head(rt_timer_list))
  BY <1>2 DEF CheckEnd
<1>4. Linked(l, rt_tick, -Delay)
  <2>1. Linked(l, rt_tick, Lo(TRUE)) BY <1>1, <1>3 DEF TimerInv
  <2> QED BY <2>1, LoType
<1>5. PICK key : key = Key(l, rt_tick) OBVIOUS
<1>6. \A u \in Timer : key[u] = Left(u) /\ key[u] \in Int
  <2>1. \A u \in Timer : key[u] = Left(u) BY <1>2, <1>5 DEF Key, LeftOf, Left
  <2>2. key \in [Timer -> Int] BY <1>2, <1>5, KeyType
  <2> QED BY <2>1, <2>2
<1>7. ASSUME NEW u \in ToSet(rt_timer_list)
      PROVE  u \in Timer /\ Left(u) > 0 /\ Left(u) \in 1 - Delay .. Latest
  <2>1. rt_timer_list # <<>> /\ u \in Timer BY <1>2, EmptyList
  <2>2. PICK t : t = Head(rt_timer_list) OBVIOUS
  <2>3. t \in ToSet(rt_timer_list) /\ t \in Timer
    BY <1>2, <2>1, <2>2, EmptyList
  <2>4. Left(t) <= Left(u)
    BY <1>1, <1>2, <1>4, <2>1, <2>2, HeadGoesFirst
  <2>5. PICK a \in Tick : a = timer[t].timeout_tick
    BY <1>2, <2>3 DEF TimerState, TimerRecord
  <2>6. key[t] = LeftOf(a, rt_tick) BY <1>2, <1>5, <2>3, <2>5, KeyType
  <2>7. key[t] \in -Delay .. Latest /\ key[u] \in -Delay .. Latest
    BY <1>2, <1>4, <1>5, <2>3 DEF Linked
  <2>8. Delay < Half /\ Half \in Nat /\ Delay \in Nat /\ Latest \in Int
    BY <1>2, <2>1, DelayShort
  <2>9. -Half < LeftOf(a, rt_tick) BY <2>6, <2>7, <2>8
  <2>10. ~(Ago(rt_tick, a) < Half) BY <1>3, <2>1, <2>2, <2>5 DEF Due
  <2>11. ~(LeftOf(a, rt_tick) <= 0) BY <1>2, <2>9, <2>10, DueIsPast
  <2>12. Left(t) = key[t] /\ Left(u) = key[u] /\ key[t] \in Int /\ key[u] \in Int
    BY <1>6, <2>1, <2>3
  <2>13. Left(u) > 0 BY <2>4, <2>6, <2>11, <2>12
  <2> QED BY <2>1, <2>7, <2>8, <2>12, <2>13
<1>8. Linked(l, rt_tick, 1 - Delay)
  <2>1. \A u \in ToSet(l.list) : key[u] \in 1 - Delay .. Latest BY <1>2, <1>6, <1>7
  <2> QED BY <1>4, <1>5, <2>1, Zenon DEF Linked
<1>9. TypeOK' BY <1>3 DEF TimerInv, TypeOK
<1>10. Linked(State, rt_tick, Lo(checking))'
  <2>1. State' = State BY <1>3 DEF State
  <2>2. Lo(checking') = 1 - Delay BY <1>3, LoType
  <2> QED BY <1>1, <1>3, <1>8, <2>1, <2>2
<1>11. \A t \in Timer : PlaceOK(t)' BY <1>3 DEF TimerInv, PlaceOK
<1>12. Clock!Handled
  <2>1. PICK f : f = LeftOn(l, rt_tick) OBVIOUS
  <2>2. f = [u \in Timer |-> IF u \in ToSet(rt_timer_list) THEN Left(u) ELSE TicksWrap]
    BY <1>1, <2>1, LeftIs
  <2>3. f = [u \in Timer |-> IF u \in ToSet(rt_timer_list) THEN Left(u) ELSE TicksWrap]'
    <3>1. Become(l) BY <1>2, <1>3 DEF Become
    <3> QED BY <1>3, <2>1, <3>1, NextLeft
  <2>4. \A u \in Timer : f[u] # TicksWrap => f[u] > 0 BY <1>7, <2>2
  <2> QED BY <1>3, <2>2, <2>3, <2>4 DEF Clock!Handled
<1> QED BY <1>9, <1>10, <1>11, <1>12 DEF TimerInv, ClockStep, Clock!Next

\* A timer that rt_timer_check starts again is activated, unless it is a
\* one-shot timer whose callback did it.
LEMMA ExpireActive ==
  ASSUME TimerInv, ~OneShotRestart, NEW t \in Timer, NEW call \in {"none", "stop", "start"},
         Expire(t, call)
  PROVE  ActiveStep
<1>1. PICK l : l = State OBVIOUS
<1>2. /\ rt_tick \in Tick /\ checking \in BOOLEAN
      /\ l.list = rt_timer_list /\ l.timer = timer /\ rt_timer_list \in Seq(Timer)
  BY <1>1, StateType DEF TimerInv, TypeOK
<1>3. /\ checking = TRUE /\ read' = read /\ pc' = pc
      /\ rt_timer_list # <<>> /\ t = Head(rt_timer_list)
      /\ call = "start" => timer[t].periodic
  BY <1>2 DEF Expire
<1>4. Linked(l, rt_tick, -Delay) /\ Lowest(-Delay)
  <2>1. Linked(l, rt_tick, Lo(TRUE)) BY <1>1, <1>3 DEF TimerInv
  <2>2. Lowest(Lo(TRUE)) /\ Lo(TRUE) = -Delay BY LoType
  <2> QED BY <2>1, <2>2
<1>5. PICK r : r = Finished(Callback(_rt_timer_remove(l, t), t, call), t) OBVIOUS
<1>6. rt_timer_list' = r.list /\ timer' = r.timer BY <1>1, <1>5 DEF Expire, Become
<1>7. Linked(r, rt_tick, -Delay) BY <1>2, <1>4, <1>5, ExpiredLinked
<1>8. Stopped(l, r, t) \/ Started(l, r, t) BY <1>2, <1>4, <1>5, ExpiredLinked
<1>9. t \in ToSet(r.list) /\ (call = "start" => l.timer[t].periodic) => r.timer[t].activated = TRUE
  BY <1>2, <1>4, <1>5, ExpiredLinked
<1>10. t \in ToSet(rt_timer_list) BY <1>2, <1>3, EmptyList
<1>11. ASSUME ActiveOK, NEW u \in ToSet(r.list)
       PROVE  r.timer[u].activated = TRUE /\ (pc[u] = "store" => read[u] = TRUE)
  <2>1. u \in Timer
    <3>1. r.list \in Seq(Timer) BY <1>7 DEF Linked, TimerState
    <3> QED BY <3>1, EmptyList
  <2>2. CASE u # t
    <3>1. r.timer[u] = timer[u] BY <1>2, <1>8, <2>1, <2>2 DEF Stopped, Started, Others
    <3>2. u \in ToSet(rt_timer_list) BY <1>2, <1>8, <2>2 DEF Stopped, Started
    <3> QED BY <1>11, <3>1, <3>2 DEF ActiveOK
  <2>3. CASE u = t BY <1>2, <1>3, <1>9, <1>10, <1>11, <2>3 DEF ActiveOK
  <2> QED BY <2>2, <2>3
<1>12. ASSUME ActiveOK PROVE ActiveOK' BY <1>3, <1>6, <1>11, <1>12 DEF ActiveOK
<1> QED BY <1>12 DEF ActiveStep

-----------------------------------------------------------------------------
(* The theorems *)

\* Every step of an owner.
LEMMA OwnerSteps ==
  ASSUME TimerInv, NEW t \in Timer, Begin(t) \/ Continue(t)
  PROVE  TimerInv' /\ ClockStep /\ ActiveStep
<1>1. CASE rt_timer_detach(t) BY <1>1, DetachStep
<1>2. CASE rt_timer_start(t) BY <1>2, StartStep
<1>3. CASE rt_timer_stop(t) BY <1>3, StopStep
<1>4. CASE ControlRead(t) BY <1>4, ReadStep
<1>5. CASE \E d \in Time : rt_timer_control(t, d) \/ \E b \in BOOLEAN : rt_timer_init(t, d, b)
  <2>1. PICK d \in Time : rt_timer_control(t, d) \/ \E b \in BOOLEAN : rt_timer_init(t, d, b)
    BY <1>5
  <2>2. CASE rt_timer_control(t, d) BY <2>2, SetTimeStep
  <2>3. ASSUME NEW b \in BOOLEAN, rt_timer_init(t, d, b)
        PROVE  TimerInv' /\ ClockStep /\ ActiveStep
    BY <2>3, InitStep
  <2> QED BY <2>1, <2>2, <2>3
<1>6. CASE StartTimeout(t) BY <1>6, TimeoutStep
<1>7. CASE StartInsert(t) BY <1>7, InsertStep
<1>8. CASE StopRemove(t) BY <1>8, StopRemoveStep
<1>9. CASE StopClear(t) BY <1>9, ClearStep
<1>10. ASSUME NEW b \in BOOLEAN, ControlWrite(t, b)
       PROVE  TimerInv' /\ ClockStep /\ ActiveStep
  BY <1>10, WriteStep
<1> QED BY <1>1, <1>2, <1>3, <1>4, <1>5, <1>6, <1>7, <1>8, <1>9, <1>10 DEF Begin, Continue

\* Each action keeps TimerInv and is a step of the clock or none.
LEMMA NextInv ==
  ASSUME TimerInv, [Next]_vars
  PROVE  TimerInv' /\ ClockStep
<1>1. CASE rt_tick_increase BY <1>1, TickStep
<1>2. CASE CheckEnd BY <1>2, CheckEndStep
<1>3. ASSUME NEW t \in Timer, NEW call \in {"none", "stop", "start"}, Expire(t, call)
      PROVE  TimerInv' /\ ClockStep
  BY <1>3, ExpireStep
<1>4. ASSUME NEW t \in Timer, Begin(t) \/ Continue(t) PROVE TimerInv' /\ ClockStep
  BY <1>4, OwnerSteps
<1>5. CASE UNCHANGED vars
  <2>1. /\ rt_tick' = rt_tick /\ rt_timer_list' = rt_timer_list /\ timer' = timer
        /\ read' = read /\ checking' = checking /\ pc' = pc /\ order' = order
    BY <1>5 DEF vars
  <2>2. TypeOK' BY <2>1 DEF TimerInv, TypeOK
  <2>3. Linked(State, rt_tick, Lo(checking))'
    <3>1. State' = State BY <2>1 DEF State
    <3> QED BY <2>1, <3>1 DEF TimerInv
  <2>4. \A t \in Timer : PlaceOK(t)' BY <2>1 DEF TimerInv, PlaceOK
  <2>5. UNCHANGED Clock!vars
    <3>1. \A t \in Timer : Left(t)' = Left(t) BY <2>1 DEF Left
    <3> QED BY <2>1, <3>1 DEF Clock!vars
  <2> QED BY <2>2, <2>3, <2>4, <2>5 DEF TimerInv, ClockStep
<1> QED BY <1>1, <1>2, <1>3, <1>4, <1>5 DEF Next, rt_timer_check

\* FiresOnTime: whatever the owners and the callbacks do and wherever the tick
\* counter wraps around, a timer goes off in the first tick at which its time
\* is up, the one that is due first goes first, and of two due at the same tick
\* the one that was started earlier.
THEOREM ImplementsAlarmClock == Spec => FiresOnTime
<1>1. Init => TimerInv /\ Clock!Init BY InitInv
<1>2. TimerInv /\ [Next]_vars => TimerInv' BY NextInv
<1>3. TimerInv /\ [Next]_vars => [Clock!Next]_(Clock!vars) BY NextInv DEF ClockStep
<1> QED BY <1>1, <1>2, <1>3, PTL DEF Spec, FiresOnTime, Clock!Spec

\* Each action keeps ActiveOK.
LEMMA NextActive ==
  ASSUME ~OneShotRestart, TimerInv, ActiveOK, [Next]_vars
  PROVE  ActiveOK'
<1>1. CASE rt_tick_increase BY <1>1 DEF rt_tick_increase, ActiveOK
<1>2. CASE CheckEnd BY <1>2 DEF CheckEnd, ActiveOK
<1>3. ASSUME NEW t \in Timer, NEW call \in {"none", "stop", "start"}, Expire(t, call)
      PROVE  ActiveOK'
  BY <1>3, ExpireActive DEF ActiveStep
<1>4. ASSUME NEW t \in Timer, Begin(t) \/ Continue(t) PROVE ActiveOK'
  BY <1>4, OwnerSteps DEF ActiveStep
<1>5. CASE UNCHANGED vars BY <1>5 DEF vars, ActiveOK
<1> QED BY <1>1, <1>2, <1>3, <1>4, <1>5 DEF Next, rt_timer_check

\* PendingCanBeStopped: the flag that rt_timer_stop looks at is set whenever
\* the timer is in the list, also after a change of the flag byte that began
\* before an interrupt; a one-shot timer must not be restarted by its callback.
THEOREM PendingStops == ASSUME ~OneShotRestart PROVE Spec => []PendingCanBeStopped
<1>1. Init => TimerInv /\ ActiveOK
  <2>1. ASSUME Init PROVE ActiveOK
    <3>1. rt_timer_list = <<>> /\ <<>> \in Seq(Timer) BY <2>1 DEF Init
    <3>2. ToSet(rt_timer_list) = {} BY <3>1, EmptyList
    <3> QED BY <3>2 DEF ActiveOK
  <2> QED BY <2>1, InitInv
<1>2. TimerInv /\ ActiveOK /\ [Next]_vars => (TimerInv /\ ActiveOK)'
  BY NextInv, NextActive
<1>3. TimerInv /\ ActiveOK => PendingCanBeStopped
  BY DEF TimerInv, ActiveOK, PendingCanBeStopped
<1> QED BY <1>1, <1>2, <1>3, PTL DEF Spec
=============================================================================
