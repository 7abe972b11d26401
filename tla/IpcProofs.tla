----------------------------- MODULE IpcProofs -----------------------------
(***************************************************************************)
(* The safety properties of Event, Mailbox and MessageQueue, for any       *)
(* number of threads, flags, messages and slots, any priorities, both      *)
(* orders of the waiting lists and all requests.                           *)
(***************************************************************************)
EXTENDS Event, Mailbox, MessageQueue, KernelProofs, FiniteSetTheorems

(***************************************************************************)
(* Event                                                                   *)
(***************************************************************************)

Waiting == ToSet(sys.wait["event"])
Info    == [set : SUBSET Bit, and : BOOLEAN, clear : BOOLEAN]

\* The current thread can run, or is about to leave the processor; before the
\* system is started no thread is inside a call.
EventCurrent ==
  /\ sys.cur # NoThread => sys.stat[sys.cur] = "READY" \/ pc[sys.cur] = "recv"
  /\ sys.cur = NoThread => \A t \in Thread : pc[t] = "run"

\* A thread waits inside rt_event_recv, for EOK unless something else happens,
\* and for the flags that it asked for.
EventWaits ==
  \A t \in Waiting : /\ pc[t] \in {"recv", "back"} /\ sys.error[t] = "EOK"
                     /\ info[t].set = asked[t] /\ asked[t] # {}

EventInv ==
  /\ EventTypeOK /\ Base(sys) /\ EventCurrent /\ EventWaits
  /\ NoWaitSatisfied /\ HandedOver

\* The facts every step starts from.
LEMMA EventFacts ==
  ASSUME EventInv
  PROVE  /\ sys \in KernelState /\ KernelOK(sys, {}) /\ Base(sys)
         /\ "event" \in WaitList /\ Idle \in Thread /\ NoThread \notin Thread
         /\ sys.stat \in [Thread -> Stat] /\ sys.error \in [Thread -> Error]
         /\ pc \in [Thread -> {"run", "recv", "back", "give"}]
         /\ set \in SUBSET Bit /\ info \in [Thread -> Info] /\ asked \in [Thread -> SUBSET Bit]
         /\ Waiting \subseteq Thread
         /\ sys.wait["event"] \in Seq(Thread) /\ NoDup(sys.wait["event"])
         /\ sys.wait["event"] = <<>> <=> Waiting = {}
         /\ \A t \in Waiting : sys.stat[t] = "SUSPEND"
<1>1. Base(sys) /\ EventTypeOK BY DEF EventInv
<1>2. sys \in KernelState /\ KernelOK(sys, {}) BY <1>1 DEF Base, Sound
<1>3. "event" \in WaitList BY EventAssumption
<1>4. /\ sys.stat \in [Thread -> Stat] /\ sys.error \in [Thread -> Error]
      /\ sys.wait["event"] \in Seq(Thread)
  BY <1>2, <1>3, KernelTypes
<1>5. Waiting \subseteq Thread /\ (sys.wait["event"] = <<>> <=> Waiting = {})
  BY <1>4, EmptyList DEF Waiting
<1>6. NoDup(sys.wait["event"]) /\ \A t \in Waiting : sys.stat[t] = "SUSPEND"
  BY <1>2, <1>3 DEF Waiting, KernelOK, WaitListsOK
<1> QED BY <1>1, <1>2, <1>3, <1>4, <1>5, <1>6, KernelAssumption DEF EventTypeOK, Info

-----------------------------------------------------------------------------
(* rt_event_send *)

\* The loop of rt_event_send, started on the flags f, has looked at the
\* threads of D and woken those of W: what is left of the flags satisfies none
\* of the others, and those of W have received flags that they asked for, each
\* its own if it clears them.
Offered(e, f, D, W) ==
  /\ Base(e.k) /\ e.k.cur = sys.cur /\ e.k.error = sys.error
  /\ e.k.stat = [t \in Thread |-> IF t \in W THEN "READY" ELSE sys.stat[t]]
  /\ ToSet(e.k.wait["event"]) = Waiting \ W
  /\ e.set \subseteq f /\ e.info \in [Thread -> Info]
  /\ W \subseteq D
  /\ \A t \in Thread \ W : e.info[t] = info[t]
  /\ \A t \in D \ W : ~Satisfied(info[t], e.set)
  /\ \A t \in W :
       /\ e.info[t].and = info[t].and /\ e.info[t].clear = info[t].clear
       /\ e.info[t].set # {} /\ e.info[t].set \subseteq info[t].set
       /\ info[t].and => e.info[t].set = info[t].set
  /\ \A t \in W : info[t].clear =>
       /\ e.info[t].set \cap e.set = {}
       /\ \A u \in W \ {t} : info[u].clear => e.info[t].set \cap e.info[u].set = {}

\* Flags that are consumed satisfy nobody.
LEMMA FewerFlags ==
  ASSUME NEW r, NEW f, NEW g, g \subseteq f, ~Satisfied(r, f)
  PROVE  ~Satisfied(r, g)
BY DEF Satisfied

\* One turn of the loop.
LEMMA OfferOK ==
  ASSUME EventInv, NEW e, NEW f, NEW D, NEW W, Offered(e, f, D, W), D \subseteq Waiting,
         NEW t \in Waiting \ D, NEW r, r = Offer(e, t)
  PROVE  \E V : Offered(r, f, D \cup {t}, V)
<1>1. /\ t \in Thread /\ sys.stat[t] = "SUSPEND" /\ sys.stat \in [Thread -> Stat]
      /\ info \in [Thread -> Info] /\ "event" \in WaitList /\ asked \in [Thread -> SUBSET Bit]
  BY EventFacts
<1>2. info[t].set # {} BY DEF EventInv, EventWaits
<1>3. t \notin W /\ e.info[t] = info[t] /\ e.info \in [Thread -> Info] /\ W \subseteq Thread
  BY <1>1, EventFacts DEF Offered
<1>4. CASE ~Satisfied(info[t], e.set)
  <2>1. r = e BY <1>3, <1>4 DEF Offer
  <2>2. \A u \in (D \cup {t}) \ W : ~Satisfied(info[u], e.set) BY <1>4 DEF Offered
  <2>3. Offered(r, f, D \cup {t}, W) BY <2>1, <2>2 DEF Offered
  <2> QED BY <2>3
<1>5. CASE Satisfied(info[t], e.set)
  <2> DEFINE i == info[t]
             got == i.set \cap e.set
             V == W \cup {t}
             m == rt_thread_resume(e.k, t)
  <2>1. /\ r.k = m /\ r.set = (IF i.clear THEN e.set \ got ELSE e.set)
        /\ r.info = [e.info EXCEPT ![t].set = got]
    BY <1>3, <1>5 DEF Offer
  <2>2. e.k.stat[t] = "SUSPEND" /\ Base(e.k) BY <1>1, <1>3 DEF Offered
  <2>3. /\ Base(m) /\ m.stat = [e.k.stat EXCEPT ![t] = "READY"] /\ m.error = e.k.error
        /\ m.cur = e.k.cur
        /\ ToSet(m.wait["event"]) = ToSet(e.k.wait["event"]) \ {t}
    <3>1. PICK x : x = rt_thread_resume(e.k, t) OBVIOUS
    <3>2. PICK k : k = e.k OBVIOUS
    <3>3. k.stat[t] = "SUSPEND" /\ Base(k) /\ x = rt_thread_resume(k, t) BY <2>2, <3>1, <3>2
    <3>4. /\ Base(x) /\ x.stat = [k.stat EXCEPT ![t] = "READY"] /\ x.error = k.error
          /\ x.cur = k.cur
      BY <1>1, <3>3, ResumeBase, SMTT(30)
    <3>5. Woken(k, x, t) BY <1>1, <3>3, ResumeEffect DEF Base
    <3>6. ToSet(x.wait["event"]) = ToSet(k.wait["event"]) \ {t} BY <1>1, <3>5 DEF Woken
    <3> QED BY <3>1, <3>2, <3>4, <3>6
  <2>4. m.stat = [u \in Thread |-> IF u \in V THEN "READY" ELSE sys.stat[u]]
    BY <1>1, <2>3 DEF Offered
  <2>5. /\ Base(r.k) /\ r.k.cur = sys.cur /\ r.k.error = sys.error
        /\ r.k.stat = [u \in Thread |-> IF u \in V THEN "READY" ELSE sys.stat[u]]
        /\ ToSet(r.k.wait["event"]) = Waiting \ V
    BY <2>1, <2>3, <2>4 DEF Offered
  <2>6. i \in Info /\ got \in SUBSET Bit BY <1>1 DEF Info
  <2>7. /\ r.info \in [Thread -> Info]
        /\ r.info[t] = [e.info[t] EXCEPT !.set = got]
        /\ \A u \in Thread \ {t} : r.info[u] = e.info[u]
    BY <1>1, <1>3, <2>1, <2>6 DEF Info
  <2>8. r.info[t].set = got /\ r.info[t].and = i.and /\ r.info[t].clear = i.clear
    BY <1>3, <2>6, <2>7 DEF Info
  <2>9. r.set \subseteq e.set /\ (i.clear => r.set \cap got = {}) BY <2>1
  <2>10. got # {} /\ got \subseteq i.set /\ got \subseteq e.set /\ (i.and => got = i.set)
    BY <1>2, <1>5 DEF Satisfied
  <2>11. r.set \subseteq f BY <2>9 DEF Offered
  <2>12. V \subseteq D \cup {t} /\ (D \cup {t}) \ V = D \ W BY <1>3 DEF Offered
  <2>13. \A u \in Thread \ V : r.info[u] = info[u] BY <2>7 DEF Offered
  <2>14. \A u \in (D \cup {t}) \ V : ~Satisfied(info[u], r.set)
    <3>1. \A u \in D \ W : ~Satisfied(info[u], e.set) BY DEF Offered
    <3> QED BY <2>9, <2>12, <3>1, FewerFlags
  <2>15. \A u \in W : u # t /\ r.info[u] = e.info[u] BY <1>3, <2>7
  <2>16. \A u \in V :
           /\ r.info[u].and = info[u].and /\ r.info[u].clear = info[u].clear
           /\ r.info[u].set # {} /\ r.info[u].set \subseteq info[u].set
           /\ info[u].and => r.info[u].set = info[u].set
    <3>1. ASSUME NEW u \in W
          PROVE  /\ r.info[u].and = info[u].and /\ r.info[u].clear = info[u].clear
                 /\ r.info[u].set # {} /\ r.info[u].set \subseteq info[u].set
                 /\ info[u].and => r.info[u].set = info[u].set
      BY <2>15 DEF Offered
    <3> QED BY <2>8, <2>10, <3>1
  <2>17. \A u \in W : info[u].clear => e.info[u].set \cap e.set = {} BY DEF Offered
  <2>18. \A u \in W : info[u].clear => r.info[u].set \cap r.set = {} /\ r.info[u].set \cap got = {}
    BY <2>9, <2>10, <2>15, <2>17
  <2>19. \A u, v \in W : info[u].clear /\ info[v].clear /\ u # v
            => r.info[u].set \cap r.info[v].set = {}
    BY <2>15 DEF Offered
  <2>20. \A u \in V : info[u].clear =>
           /\ r.info[u].set \cap r.set = {}
           /\ \A v \in V \ {u} : info[v].clear => r.info[u].set \cap r.info[v].set = {}
    BY <2>8, <2>9, <2>18, <2>19
  <2> HIDE DEF V, got, i, m
  <2>21. Offered(r, f, D \cup {t}, V)
    BY <2>5, <2>7, <2>11, <2>12, <2>13, <2>14, <2>16, <2>20 DEF Offered
  <2> QED BY <2>21
<1> QED BY <1>4, <1>5

\* The records after each turn of the loop exist.
LEMMA SentTurns ==
  ASSUME NEW s, NEW q, q = sys.wait["event"], Len(q) \in Nat,
         NEW e, e = [k |-> sys, set |-> set \cup s, info |-> info]
  PROVE  \E f : /\ Sent(s) = f[Len(q)] /\ f[0] = e
                /\ \A i \in 0 .. Len(q) - 1 : f[i + 1] = Offer(f[i], q[i + 1])
<1> DEFINE n          == Len(q)
           Turn(f, i) == IF i = 0 THEN [k |-> sys, set |-> set \cup s, info |-> info]
                                  ELSE Offer(f[i - 1], q[i])
           Has(m)     == \E g : g = [i \in 0 .. m |-> Turn(g, i)]
           S          == {m \in 0 .. n : Has(m)}
<1>1. 0 \in S
  <2>1. PICK g : g = [i \in 0 .. 0 |-> e] OBVIOUS
  <2>2. g = [i \in 0 .. 0 |-> Turn(g, i)] BY <2>1
  <2> QED BY <2>2
<1>2. ASSUME NEW m \in 0 .. n - 1, m \in S PROVE m + 1 \in S
  <2>1. PICK g : g = [i \in 0 .. m |-> Turn(g, i)] BY <1>2
  <2>2. PICK h : h = [i \in 0 .. m + 1 |-> IF i = m + 1 THEN Offer(g[m], q[m + 1]) ELSE g[i]]
    OBVIOUS
  <2>3. ASSUME NEW i \in 0 .. m + 1 PROVE h[i] = Turn(h, i)
    <3>1. CASE i = m + 1
      <4>1. i # 0 /\ i - 1 = m /\ m \in 0 .. m + 1 /\ m # m + 1 BY <3>1
      <4>2. h[m] = g[m] BY <2>2, <4>1
      <4>3. h[i] = Offer(g[m], q[i]) BY <2>2, <3>1
      <4> QED BY <4>1, <4>2, <4>3
    <3>2. CASE i # m + 1 /\ i # 0
      <4>1. i \in 0 .. m /\ i - 1 \in 0 .. m + 1 /\ i - 1 # m + 1 BY <3>2
      <4>2. h[i] = g[i] /\ h[i - 1] = g[i - 1] BY <2>2, <3>2, <4>1
      <4>3. g[i] = Offer(g[i - 1], q[i]) BY <2>1, <3>2, <4>1
      <4> QED BY <3>2, <4>2, <4>3
    <3>3. CASE i = 0
      <4>1. i \in 0 .. m /\ i # m + 1 BY <3>3
      <4>2. h[i] = g[i] BY <2>2, <4>1
      <4>3. g[i] = e BY <2>1, <3>3, <4>1
      <4> QED BY <3>3, <4>2, <4>3
    <3> QED BY <3>1, <3>2, <3>3
  <2>4. h = [i \in 0 .. m + 1 |-> Turn(h, i)]
    <3>1. h = [i \in 0 .. m + 1 |-> h[i]] BY <2>2
    <3> HIDE DEF Turn
    <3> QED BY <2>3, <3>1
  <2>5. m + 1 \in 0 .. n OBVIOUS
  <2> QED BY <2>4, <2>5
<1>3. n \in S
  <2> HIDE DEF S
  <2>1. n \in Nat OBVIOUS
  <2>2. \A i \in 0 .. n : i \in S BY <1>1, <1>2, <2>1, CountUp
  <2> QED BY <2>1, <2>2
<1>4. PICK g : g = [i \in 0 .. n |-> Turn(g, i)] BY <1>3
<1> DEFINE h == CHOOSE f : f = [i \in 0 .. n |-> Turn(f, i)]
<1>5. h = [i \in 0 .. n |-> Turn(h, i)] BY <1>4, Zenon
<1>6. Sent(s) = h[n] BY DEF Sent
<1> HIDE DEF h
<1>7. h[0] = e BY <1>5
<1>8. ASSUME NEW i \in 0 .. n - 1 PROVE h[i + 1] = Offer(h[i], q[i + 1])
  <2>1. i + 1 \in 0 .. n /\ i + 1 # 0 /\ (i + 1) - 1 = i OBVIOUS
  <2> QED BY <1>5, <2>1
<1> QED BY <1>6, <1>7, <1>8

\* rt_event_send looks at every waiting thread once.
LEMMA SentOK ==
  ASSUME EventInv, NEW s
  PROVE  \E W : Offered(Sent(s), set \cup s, Waiting, W)
<1>1. PICK q : q = sys.wait["event"] OBVIOUS
<1>2. PICK e : e = [k |-> sys, set |-> set \cup s, info |-> info] OBVIOUS
<1>3. q \in Seq(Thread) /\ NoDup(q) /\ Waiting = ToSet(q) BY <1>1, EventFacts DEF Waiting
<1>4. Len(q) \in Nat BY <1>3
<1>5. PICK f : /\ Sent(s) = f[Len(q)] /\ f[0] = e
               /\ \A i \in 0 .. Len(q) - 1 : f[i + 1] = Offer(f[i], q[i + 1])
  BY <1>1, <1>2, <1>4, SentTurns
<1> DEFINE D(i) == {q[j] : j \in 1 .. i}
           S == {i \in 0 .. Len(q) : \E W : Offered(f[i], set \cup s, D(i), W)}
<1>6. 0 \in S
  <2>1. D(0) = {} OBVIOUS
  <2>2. sys.stat \in [Thread -> Stat] /\ info \in [Thread -> Info] /\ Base(sys) BY EventFacts
  <2>3. e.k = sys /\ e.set = set \cup s /\ e.info = info BY <1>2
  <2>4. sys.stat = [t \in Thread |-> IF t \in {} THEN "READY" ELSE sys.stat[t]] BY <2>2
  <2>5. ToSet(sys.wait["event"]) = Waiting \ {} BY DEF Waiting
  <2>6. Offered(e, set \cup s, {}, {}) BY <2>2, <2>3, <2>4, <2>5 DEF Offered
  <2>7. Offered(f[0], set \cup s, D(0), {}) BY <1>5, <2>1, <2>6, Zenon
  <2>8. 0 \in 0 .. Len(q) BY <1>4
  <2> QED BY <2>7, <2>8
<1>7. ASSUME NEW i \in 0 .. Len(q) - 1, i \in S PROVE i + 1 \in S
  <2>1. i + 1 \in 1 .. Len(q) /\ i \in 0 .. Len(q) /\ i + 1 \in 0 .. Len(q) BY <1>4
  <2>2. PICK t : t = q[i + 1] OBVIOUS
  <2>3. t \in Waiting BY <1>3, <2>1, <2>2, InToSet
  <2>4. t \notin D(i)
    <3>1. ASSUME NEW j \in 1 .. i PROVE q[j] # t
      <4>1. j \in 1 .. Len(q) /\ j # i + 1 BY <2>1
      <4> QED BY <1>3, <2>1, <2>2, <4>1, NoDupByIndex
    <3> QED BY <3>1
  <2>5. D(i + 1) = D(i) \cup {t} BY <2>1, <2>2
  <2>6. PICK E : E = D(i) OBVIOUS
  <2>7. PICK g : g = f[i + 1] OBVIOUS
  <2>8. PICK x : x = f[i] OBVIOUS
  <2>9. PICK p : p = set \cup s OBVIOUS
  <2>10. PICK W : Offered(x, p, E, W) BY <1>7, <2>6, <2>8, <2>9
  <2>11. g = Offer(x, t) BY <1>5, <2>2, <2>7, <2>8
  <2>12. E \subseteq Waiting
    <3>1. \A j \in 1 .. i : j \in 1 .. Len(q) BY <2>1
    <3>2. \A j \in 1 .. i : q[j] \in Waiting BY <1>3, <3>1, InToSet
    <3> QED BY <2>6, <3>2
  <2>13. t \in Waiting \ E BY <2>3, <2>4, <2>6
  <2>14. \E V : Offered(g, p, E \cup {t}, V) BY <2>10, <2>11, <2>12, <2>13, OfferOK
  <2> QED BY <2>1, <2>5, <2>6, <2>7, <2>9, <2>14
<1>8. Len(q) \in S
  <2> HIDE DEF S
  <2>1. \A i \in 0 .. Len(q) : i \in S BY <1>4, <1>6, <1>7, CountUp
  <2> QED BY <1>4, <2>1
<1>9. D(Len(q)) = Waiting
  <2>1. D(Len(q)) = ToSet(q) BY <1>3, InToSet
  <2> QED BY <1>3, <2>1
<1>10. PICK W : Offered(f[Len(q)], set \cup s, D(Len(q)), W) BY <1>8
<1>11. PICK A : A = D(Len(q)) OBVIOUS
<1>12. Offered(Sent(s), set \cup s, A, W) BY <1>5, <1>10, <1>11
<1> QED BY <1>9, <1>11, <1>12

-----------------------------------------------------------------------------
(* The steps *)

\* What ConsumedOnce says of a step.
Once ==
  \A t \in Consumers :
    /\ info'[t].set \cap set' = {}
    /\ \A u \in Consumers \ {t} : info'[t].set \cap info'[u].set = {}

\* The threads of W stop waiting without success; no flags are set and nobody
\* begins to wait.
Ended(W) ==
  /\ Base(sys') /\ EventTypeOK' /\ EventCurrent'
  /\ Waiting' = Waiting \ W /\ set' \subseteq set /\ info' = info
  /\ \A t \in Waiting' : pc'[t] \in {"recv", "back"}
  /\ \A t \in Thread : pc'[t] \in {"recv", "back"} =>
       /\ pc[t] \in {"recv", "back"} /\ asked'[t] = asked[t]
       /\ t \notin W => sys'.stat[t] = sys.stat[t] /\ sys'.error[t] = sys.error[t]
  /\ \A t \in W : sys'.error[t] # "EOK"

LEMMA EndedOK ==
  ASSUME EventInv, NEW W, Ended(W)
  PROVE  EventInv' /\ Once
<1>1. \A t \in Waiting' : t \in Thread /\ t \in Waiting /\ t \notin W /\ pc'[t] \in {"recv", "back"}
  BY EventFacts DEF Ended
<1>2. EventWaits' BY <1>1 DEF Ended, EventInv, EventWaits
<1>3. NoWaitSatisfied'
  <2>1. ASSUME NEW t \in Waiting'
        PROVE  IF info'[t].and THEN ~(info'[t].set \subseteq set') ELSE info'[t].set \cap set' = {}
    <3>1. IF info[t].and THEN ~(info[t].set \subseteq set) ELSE info[t].set \cap set = {}
      BY <1>1, <2>1 DEF EventInv, NoWaitSatisfied, Waiting
    <3> QED BY <3>1 DEF Ended
  <2> QED BY <2>1 DEF NoWaitSatisfied, Waiting, Ended
<1>4. HandedOver'
  <2>1. ASSUME NEW t \in Thread, pc'[t] \in {"recv", "back"}, sys'.stat[t] = "READY",
               sys'.error[t] = "EOK"
        PROVE  /\ info'[t].set # {} /\ info'[t].set \subseteq asked'[t]
               /\ info'[t].and => info'[t].set = asked'[t]
    <3>1. /\ pc[t] \in {"recv", "back"} /\ sys.stat[t] = "READY" /\ sys.error[t] = "EOK"
          /\ asked'[t] = asked[t] /\ info' = info
      BY <2>1 DEF Ended
    <3> QED BY <3>1 DEF EventInv, HandedOver
  <2> QED BY <2>1 DEF HandedOver
<1>5. Consumers = {} BY DEF Consumers, Ended, Waiting
<1>6. Once BY <1>5 DEF Once
<1> QED BY <1>2, <1>3, <1>4, <1>6 DEF EventInv, Ended

\* A thread that is not about to leave the processor can run and waits nowhere.
LEMMA EventCaller ==
  ASSUME EventInv, NEW c \in Thread, sys.cur = c, pc[c] # "recv"
  PROVE  sys.cur # NoThread /\ sys.stat[c] = "READY" /\ c \notin Waiting
<1>1. sys.cur # NoThread /\ sys.stat[c] = "READY" BY EventFacts DEF EventInv, EventCurrent
<1> QED BY <1>1, EventFacts

\* What may happen to pc when c goes on at l.
LEMMA EventGoto ==
  ASSUME EventInv, NEW c \in Thread, NEW l \in {"run", "recv", "back", "give"}, Goto(c, l)
  PROVE  /\ pc'[c] = l /\ \A t \in Thread \ {c} : pc'[t] = pc[t]
         /\ pc' \in [Thread -> {"run", "recv", "back", "give"}]
BY EventFacts DEF Goto

\* The system starts.
LEMMA EventBootOK ==
  ASSUME EventInv, Boot, UNCHANGED <<set, info, asked>>
  PROVE  EventInv' /\ Once
<1>1. /\ Base(sys') /\ pc' = pc /\ sys.cur = NoThread
      /\ sys'.error = sys.error /\ sys'.wait = sys.wait
      /\ \/ sys'.cur # NoThread /\ sys'.stat = sys.stat /\ sys'.stat[sys'.cur] = "READY"
         \/ sys'.cur = NoThread
  BY BootBase DEF EventInv
<1>2. \A t \in Thread : pc[t] = "run" BY <1>1 DEF EventInv, EventCurrent
<1>3. EventCurrent' BY <1>1, <1>2 DEF EventCurrent
<1>4. EventTypeOK' BY <1>1 DEF EventInv, EventTypeOK, Base, Sound
<1>5. Waiting' = Waiting /\ Waiting = {}
  BY <1>1, <1>2, EventFacts DEF Waiting, EventInv, EventWaits
<1>6. Ended({}) BY <1>1, <1>2, <1>3, <1>4, <1>5 DEF Ended
<1> QED BY <1>6, EndedOK

\* The tick.
LEMMA EventTickOK ==
  ASSUME EventInv, Tick, UNCHANGED <<set, info, asked>>
  PROVE  EventInv' /\ Once
<1>1. /\ Base(sys') /\ pc' = pc /\ sys.cur # NoThread /\ sys'.cur # NoThread
      /\ \/ sys' = sys
         \/ Same(sys, sys') /\ sys'.stat[sys'.cur] = "READY"
         \/ \E t \in Thread : Expired(sys, sys', t) /\ sys'.stat[sys'.cur] = "READY"
  BY TickBase DEF EventInv
<1>2. EventTypeOK' BY <1>1 DEF EventInv, EventTypeOK, Base, Sound
<1>3. EventCurrent' BY <1>1 DEF EventInv, EventCurrent
<1>4. \A t \in Waiting : t \in Thread /\ pc'[t] \in {"recv", "back"}
  BY <1>1, EventFacts DEF EventInv, EventWaits
<1>5. CASE sys' = sys \/ Same(sys, sys')
  <2>1. Waiting' = Waiting /\ sys'.stat = sys.stat /\ sys'.error = sys.error
    BY <1>5 DEF Same, Waiting
  <2>2. Ended({}) BY <1>1, <1>2, <1>3, <1>4, <2>1 DEF Ended
  <2> QED BY <2>2, EndedOK
<1>6. ASSUME NEW t \in Thread, Expired(sys, sys', t) PROVE EventInv' /\ Once
  <2>1. /\ sys'.stat = [sys.stat EXCEPT ![t] = "READY"]
        /\ sys'.error = [sys.error EXCEPT ![t] = "ETIMEOUT"]
        /\ Waiting' = Waiting \ {t}
    BY <1>6, EventFacts DEF Expired, Waiting
  <2>2. /\ sys'.error[t] # "EOK"
        /\ \A u \in Thread \ {t} : sys'.stat[u] = sys.stat[u] /\ sys'.error[u] = sys.error[u]
    BY <2>1, EventFacts
  <2>3. Ended({t}) BY <1>1, <1>2, <1>3, <1>4, <2>1, <2>2 DEF Ended
  <2> QED BY <2>3, EndedOK
<1> QED BY <1>1, <1>5, <1>6

\* rt_schedule after a wait or after threads were woken.
LEMMA EventScheduleOK ==
  ASSUME EventInv, NEW c \in Thread, EventSchedule(c)
  PROVE  EventInv' /\ Once
<1>1. PICK a, l : /\ <<a, l>> \in {<<"recv", "back">>, <<"give", "run">>}
                  /\ Schedule(c, a, l) /\ UNCHANGED <<set, info, asked>>
  BY DEF EventSchedule
<1>2. /\ sys.cur = c /\ pc[c] = a /\ sys' = rt_schedule(sys) /\ Goto(c, l)
      /\ l \in {"run", "recv", "back", "give"}
      /\ (a = "recv" /\ l = "back") \/ (a = "give" /\ l = "run")
  BY <1>1 DEF Schedule, At
<1>3. sys.cur # NoThread BY <1>2, EventFacts
<1>4. /\ Base(sys') /\ sys'.stat = sys.stat /\ sys'.error = sys.error /\ sys'.wait = sys.wait
      /\ sys'.cur # NoThread /\ sys'.stat[sys'.cur] = "READY"
  BY <1>2, <1>3, EventFacts, DispatchBase
<1>5. /\ pc'[c] = l /\ \A t \in Thread \ {c} : pc'[t] = pc[t]
      /\ pc' \in [Thread -> {"run", "recv", "back", "give"}]
  BY <1>2, EventGoto
<1>6. EventTypeOK' BY <1>1, <1>4, <1>5 DEF EventInv, EventTypeOK, Base, Sound
<1>7. EventCurrent' BY <1>4 DEF EventCurrent
<1>8. Waiting' = Waiting BY <1>4 DEF Waiting
<1>9. \A t \in Waiting' : pc'[t] \in {"recv", "back"}
  BY <1>2, <1>5, <1>8, EventFacts DEF EventInv, EventWaits
<1>10. Ended({}) BY <1>1, <1>2, <1>4, <1>5, <1>6, <1>7, <1>8, <1>9 DEF Ended
<1> QED BY <1>10, EndedOK

\* rt_event_recv goes on after rt_schedule.
LEMMA EventReturnOK ==
  ASSUME EventInv, NEW c \in Thread, RecvReturn(c)
  PROVE  EventInv' /\ Once
<1>1. /\ sys.cur = c /\ pc[c] = "back" /\ Goto(c, "run")
      /\ asked' = [asked EXCEPT ![c] = {}] /\ UNCHANGED <<sys, set, info>>
  BY DEF RecvReturn, At
<1>2. sys.cur # NoThread /\ sys.stat[c] = "READY" /\ c \notin Waiting BY <1>1, EventCaller
<1>3. /\ pc'[c] = "run" /\ \A t \in Thread \ {c} : pc'[t] = pc[t]
      /\ pc' \in [Thread -> {"run", "recv", "back", "give"}]
  BY <1>1, EventGoto
<1>4. asked' \in [Thread -> SUBSET Bit] /\ \A t \in Thread \ {c} : asked'[t] = asked[t]
  BY <1>1, EventFacts
<1>5. EventTypeOK' BY <1>1, <1>3, <1>4 DEF EventInv, EventTypeOK
<1>6. EventCurrent' BY <1>1, <1>2 DEF EventCurrent
<1>7. Waiting' = Waiting BY <1>1 DEF Waiting
<1>8. \A t \in Waiting' : pc'[t] \in {"recv", "back"}
  BY <1>2, <1>3, <1>7, EventFacts DEF EventInv, EventWaits
<1>9. Base(sys') BY <1>1, EventFacts
<1>10. Ended({}) BY <1>1, <1>3, <1>4, <1>5, <1>6, <1>7, <1>8, <1>9 DEF Ended
<1> QED BY <1>10, EndedOK

\* rt_event_control: all waiting threads are resumed with an error.
LEMMA EventControlOK ==
  ASSUME EventInv, NEW c \in Thread, rt_event_control(c)
  PROVE  EventInv' /\ Once
<1>1. /\ sys.cur = c /\ pc[c] = "run" /\ set' = {}
      /\ sys' = ResumeAll(sys, "event") /\ Goto(c, "give") /\ UNCHANGED <<info, asked>>
  BY DEF rt_event_control, Running, At
<1>2. sys.cur # NoThread /\ sys.stat[c] = "READY" /\ c \notin Waiting BY <1>1, EventCaller
<1>3. AllWoken(sys, sys', Waiting) BY <1>1, EventFacts, ResumeAllBase DEF Waiting
<1>4. /\ Base(sys') /\ sys'.cur = sys.cur
      /\ sys'.stat = [t \in Thread |-> IF t \in Waiting THEN "READY" ELSE sys.stat[t]]
      /\ sys'.error = [t \in Thread |-> IF t \in Waiting THEN "ERROR" ELSE sys.error[t]]
      /\ Waiting' = Waiting \ Waiting
  BY <1>3, EventFacts DEF AllWoken, Waiting
<1>5. /\ pc'[c] = "give" /\ \A t \in Thread \ {c} : pc'[t] = pc[t]
      /\ pc' \in [Thread -> {"run", "recv", "back", "give"}]
  BY <1>1, EventGoto
<1>6. EventTypeOK' BY <1>1, <1>4, <1>5 DEF EventInv, EventTypeOK, Base, Sound
<1>7. EventCurrent' BY <1>1, <1>2, <1>4 DEF EventCurrent
<1>8. /\ \A t \in Waiting : sys'.error[t] # "EOK"
      /\ \A t \in Thread \ Waiting : sys'.stat[t] = sys.stat[t] /\ sys'.error[t] = sys.error[t]
  BY <1>4, EventFacts
<1>9. \A t \in Thread : pc'[t] \in {"recv", "back"} =>
        pc[t] \in {"recv", "back"} /\ asked'[t] = asked[t]
  BY <1>1, <1>5
<1>10. Waiting' = {} /\ set' \subseteq set BY <1>1, <1>4
<1>11. Ended(Waiting) BY <1>1, <1>4, <1>6, <1>7, <1>8, <1>9, <1>10 DEF Ended
<1> QED BY <1>11, EndedOK

\* rt_event_recv: the flags are there, or are not waited for, or are.
LEMMA EventRecvOK ==
  ASSUME EventInv, NEW c \in Thread \ {Idle}, NEW r \in Request, NEW tm \in EventTime,
         rt_event_recv(c, r, tm)
  PROVE  EventInv' /\ Once
<1>1. sys.cur = c /\ pc[c] = "run" BY DEF rt_event_recv, Running, At
<1>2. sys.cur # NoThread /\ sys.stat[c] = "READY" /\ c \notin Waiting BY <1>1, EventCaller
<1>3. r \in Info /\ r.set # {} /\ r.set \subseteq Bit BY EventAssumption DEF Info
<1>4. ASSUME NEW v \in Error, sys' = SetError(sys, c, v), set' \subseteq set,
             UNCHANGED <<pc, info, asked>>
      PROVE  EventInv' /\ Once
  <2>1. PICK X : X = {} OBVIOUS
  <2>2. sys \in KernelState /\ KernelOK(sys, X) BY <2>1, EventFacts
  <2>3. /\ sys' \in KernelState /\ KernelOK(sys', X)
        /\ sys'.stat = sys.stat /\ sys'.cur = sys.cur /\ sys'.nest = sys.nest
        /\ sys'.wait = sys.wait
    BY <1>4, <2>2, ErrorOK
  <2>4. sys'.error = [sys.error EXCEPT ![c] = v] BY <1>4, <2>2 DEF SetError, KernelState
  <2>5. \A t \in Thread \ {c} : sys'.error[t] = sys.error[t] BY <2>4, EventFacts
  <2>6. Base(sys') BY <2>1, <2>3, EventFacts DEF Base, Sound
  <2>7. EventTypeOK' BY <1>4, <2>3 DEF EventInv, EventTypeOK
  <2>8. EventCurrent' BY <1>2, <1>4, <2>3 DEF EventInv, EventCurrent
  <2>9. Waiting' = Waiting BY <2>3 DEF Waiting
  <2>10. \A t \in Waiting' : pc'[t] \in {"recv", "back"}
    BY <1>4, <2>9 DEF EventInv, EventWaits
  <2>11. Ended({}) BY <1>1, <1>4, <2>3, <2>5, <2>6, <2>7, <2>8, <2>9, <2>10 DEF Ended
  <2> QED BY <2>11, EndedOK
<1>5. CASE /\ ~Satisfied(r, set) /\ tm # "none"
           /\ info' = [info EXCEPT ![c] = r] /\ asked' = [asked EXCEPT ![c] = r.set]
           /\ sys' = WaitOn(sys, "event", c, EventFlag, tm) /\ Goto(c, "recv")
           /\ UNCHANGED set
  <2>1. Base(sys') /\ Queued(sys, sys', "event", c, tm)
    BY <1>1, <1>2, <1>5, EventFacts, WaitBase
  <2>2. /\ sys'.stat = [sys.stat EXCEPT ![c] = "SUSPEND"] /\ sys'.cur = c
        /\ sys'.error = [sys.error EXCEPT ![c] = "EOK"]
        /\ Waiting' = Waiting \cup {c}
    BY <1>1, <2>1, EventFacts DEF Queued, Waiting
  <2>3. /\ pc'[c] = "recv" /\ \A t \in Thread \ {c} : pc'[t] = pc[t]
        /\ pc' \in [Thread -> {"run", "recv", "back", "give"}]
    BY <1>5, EventGoto
  <2>4. /\ info'[c] = r /\ asked'[c] = r.set
        /\ info' \in [Thread -> Info] /\ asked' \in [Thread -> SUBSET Bit]
        /\ \A t \in Thread \ {c} : info'[t] = info[t] /\ asked'[t] = asked[t]
    BY <1>3, <1>5, EventFacts
  <2>5. /\ sys'.stat[c] = "SUSPEND" /\ sys'.error[c] = "EOK"
        /\ \A t \in Thread \ {c} : sys'.stat[t] = sys.stat[t] /\ sys'.error[t] = sys.error[t]
    BY <2>2, EventFacts
  <2>6. EventTypeOK' BY <1>5, <2>1, <2>3, <2>4 DEF EventInv, EventTypeOK, Base, Sound, Info
  <2>7. EventCurrent' BY <1>2, <1>1, <2>2, <2>3 DEF EventCurrent
  <2>8. \A t \in Waiting : t \in Thread \ {c} BY <1>2, EventFacts
  <2>9. EventWaits' BY <1>3, <2>2, <2>3, <2>4, <2>5, <2>8 DEF EventInv, EventWaits
  <2>10. NoWaitSatisfied'
    <3>1. ASSUME NEW t \in Waiting'
          PROVE  IF info'[t].and THEN ~(info'[t].set \subseteq set') ELSE info'[t].set \cap set' = {}
      <4>1. CASE t = c BY <1>5, <2>4, <4>1 DEF Satisfied
      <4>2. CASE t # c
        <5>1. t \in Waiting /\ info'[t] = info[t] /\ set' = set BY <1>5, <2>2, <2>4, <2>8, <3>1, <4>2
        <5> QED BY <5>1 DEF EventInv, NoWaitSatisfied, Waiting
      <4> QED BY <4>1, <4>2
    <3> QED BY <2>6, <3>1 DEF NoWaitSatisfied, Waiting
  <2>11. HandedOver' BY <2>3, <2>4, <2>5 DEF EventInv, HandedOver
  <2>12. Consumers = {} BY <2>2 DEF Consumers, Waiting
  <2>13. Once BY <2>12 DEF Once
  <2> QED BY <2>1, <2>6, <2>7, <2>9, <2>10, <2>11, <2>13 DEF EventInv
<1>6. "EOK" \in Error /\ "ETIMEOUT" \in Error BY Errors
<1>7. CASE /\ Satisfied(r, set) /\ set' = (IF r.clear THEN set \ r.set ELSE set)
           /\ sys' = SetError(sys, c, "EOK") /\ UNCHANGED <<pc, info, asked>>
  <2>1. set' \subseteq set BY <1>7
  <2> QED BY <1>4, <1>6, <1>7, <2>1
<1>8. CASE sys' = SetError(sys, c, "ETIMEOUT") /\ UNCHANGED <<pc, set, info, asked>>
  BY <1>4, <1>6, <1>8
<1> QED BY <1>5, <1>7, <1>8 DEF rt_event_recv

\* What rt_event_send leaves behind, when the current thread goes on or is
\* changed.
LEMMA EventSentOK ==
  ASSUME EventInv, NEW s \in SUBSET Bit, NEW e, NEW W, Offered(e, set \cup s, Waiting, W),
         Base(sys'), sys'.cur # NoThread, sys'.stat[sys'.cur] = "READY",
         sys'.stat = e.k.stat, sys'.error = e.k.error, sys'.wait = e.k.wait,
         set' = e.set, info' = e.info, asked' = asked,
         pc' \in [Thread -> {"run", "recv", "back", "give"}],
         \A t \in Thread : pc'[t] = pc[t] \/ (pc[t] = "run" /\ pc'[t] = "give")
  PROVE  EventInv' /\ Once
<1>1. /\ Waiting' = Waiting \ W /\ W \subseteq Waiting /\ Waiting \subseteq Thread
      /\ sys'.error = sys.error /\ info' \in [Thread -> Info] /\ set' \in SUBSET Bit
      /\ sys'.stat = [t \in Thread |-> IF t \in W THEN "READY" ELSE sys.stat[t]]
      /\ \A t \in Thread \ W : info'[t] = info[t]
  BY EventFacts DEF Offered, Waiting
<1>2. EventTypeOK' BY <1>1 DEF EventInv, EventTypeOK, Base, Sound, Info
<1>3. EventCurrent' BY DEF EventCurrent
<1>4. \A t \in Waiting' : t \in Waiting /\ t \in Thread \ W /\ pc'[t] = pc[t]
  BY <1>1 DEF EventInv, EventWaits
<1>5. EventWaits' BY <1>1, <1>4 DEF EventInv, EventWaits
<1>6. NoWaitSatisfied'
  <2>1. ASSUME NEW t \in Waiting'
        PROVE  IF info'[t].and THEN ~(info'[t].set \subseteq set') ELSE info'[t].set \cap set' = {}
    <3>1. ~Satisfied(info[t], e.set) BY <1>1, <2>1 DEF Offered
    <3> QED BY <1>1, <1>4, <2>1, <3>1 DEF Satisfied
  <2> QED BY <1>2, <2>1 DEF NoWaitSatisfied, Waiting
<1>7. HandedOver'
  <2>1. ASSUME NEW t \in Thread, pc'[t] \in {"recv", "back"}, sys'.stat[t] = "READY",
               sys'.error[t] = "EOK"
        PROVE  /\ info'[t].set # {} /\ info'[t].set \subseteq asked'[t]
               /\ info'[t].and => info'[t].set = asked'[t]
    <3>1. CASE t \in W
      <4>1. info[t].set = asked[t] BY <1>1, <3>1 DEF EventInv, EventWaits
      <4> QED BY <3>1, <4>1 DEF Offered
    <3>2. CASE t \notin W
      <4>1. /\ sys.stat[t] = "READY" /\ sys.error[t] = "EOK" /\ info'[t] = info[t]
            /\ pc[t] \in {"recv", "back"}
        BY <1>1, <2>1, <3>2
      <4> QED BY <4>1 DEF EventInv, HandedOver
    <3> QED BY <3>1, <3>2
  <2> QED BY <2>1 DEF HandedOver
<1>8. Once
  <2>1. \A t \in Consumers : t \in W /\ info'[t].clear BY <1>1 DEF Consumers, Waiting
  <2>2. \A t \in W : e.info[t].clear = info[t].clear BY DEF Offered
  <2>3. \A t \in Consumers : t \in W /\ info[t].clear BY <2>1, <2>2
  <2>4. \A t \in W : info[t].clear =>
          /\ e.info[t].set \cap e.set = {}
          /\ \A u \in W \ {t} : info[u].clear => e.info[t].set \cap e.info[u].set = {}
    BY DEF Offered
  <2> QED BY <2>3, <2>4 DEF Once
<1> QED BY <1>2, <1>3, <1>5, <1>6, <1>7, <1>8 DEF EventInv

\* rt_event_send by a thread.
LEMMA EventSendOK ==
  ASSUME EventInv, NEW c \in Thread, NEW s \in Flags, rt_event_send(c, s)
  PROVE  EventInv' /\ Once
<1>1. PICK e : e = Sent(s) OBVIOUS
<1>2. PICK W : Offered(e, set \cup s, Waiting, W) BY <1>1, SentOK
<1>3. PICK l \in {"run", "give"} : Goto(c, l) BY DEF rt_event_send
<1>4. /\ sys.cur = c /\ pc[c] = "run" /\ sys' = e.k /\ set' = e.set /\ info' = e.info
      /\ asked' = asked
  BY <1>1 DEF rt_event_send, Running, At
<1>5. sys.cur # NoThread /\ sys.stat[c] = "READY" BY <1>4, EventCaller
<1>6. /\ Base(sys') /\ sys'.cur = sys.cur
      /\ sys'.stat = [t \in Thread |-> IF t \in W THEN "READY" ELSE sys.stat[t]]
  BY <1>2, <1>4 DEF Offered
<1>7. sys'.stat[sys'.cur] = "READY" BY <1>4, <1>5, <1>6
<1>8. /\ pc'[c] = l /\ \A t \in Thread \ {c} : pc'[t] = pc[t]
      /\ pc' \in [Thread -> {"run", "recv", "back", "give"}]
  BY <1>3, EventGoto
<1>9. \A t \in Thread : pc'[t] = pc[t] \/ (pc[t] = "run" /\ pc'[t] = "give")
  BY <1>3, <1>4, <1>8
<1>10. s \in SUBSET Bit BY DEF Flags
<1> QED BY <1>2, <1>4, <1>5, <1>6, <1>7, <1>8, <1>9, <1>10, EventSentOK

\* rt_event_send by a handler, which may change the current thread at its end.
LEMMA EventInterruptOK ==
  ASSUME EventInv, NEW s \in Flags, EventFromInterrupt(s)
  PROVE  EventInv' /\ Once
<1>1. PICK e : e = Sent(s) OBVIOUS
<1>2. PICK W : Offered(e, set \cup s, Waiting, W) BY <1>1, SentOK
<1>3. /\ sys.cur # NoThread /\ set' = e.set /\ info' = e.info /\ UNCHANGED <<pc, asked>>
      /\ sys' = IF NeedSchedule(s) THEN rt_schedule(e.k) ELSE e.k
  BY <1>1 DEF EventFromInterrupt
<1>4. Base(e.k) /\ e.k.cur = sys.cur BY <1>2 DEF Offered
<1>5. pc' \in [Thread -> {"run", "recv", "back", "give"}] BY <1>3, EventFacts
<1>6. s \in SUBSET Bit BY DEF Flags
<1>7. CASE NeedSchedule(s)
  <2>1. PICK k : k = e.k OBVIOUS
  <2>2. Base(k) /\ k.cur # NoThread /\ sys' = rt_schedule(k) BY <1>3, <1>4, <1>7, <2>1
  <2>3. /\ Base(sys') /\ sys'.stat = k.stat /\ sys'.error = k.error /\ sys'.wait = k.wait
        /\ sys'.cur # NoThread /\ sys'.stat[sys'.cur] = "READY"
    BY <2>2, DispatchBase
  <2> QED BY <1>2, <1>3, <1>5, <1>6, <2>1, <2>3, EventSentOK
<1>8. CASE ~NeedSchedule(s)
  <2>1. sys' = e.k BY <1>3, <1>8
  <2>2. e.k.wait["event"] = sys.wait["event"] BY <1>1, <1>8 DEF NeedSchedule
  <2>3. W = {}
    <3>1. Waiting = Waiting \ W /\ W \subseteq Waiting
      BY <1>2, <2>2 DEF Offered, Waiting
    <3> QED BY <3>1
  <2>4. /\ sys'.stat = [t \in Thread |-> IF t \in W THEN "READY" ELSE sys.stat[t]]
        /\ sys'.error = sys.error /\ Waiting' = Waiting \ W
        /\ set' \subseteq set \cup s /\ info' \in [Thread -> Info]
        /\ \A t \in Thread \ W : info'[t] = info[t]
        /\ \A t \in Waiting \ W : ~Satisfied(info[t], set')
    BY <1>2, <1>3, <2>1 DEF Offered, Waiting
  <2>5. /\ sys'.stat = sys.stat /\ sys'.error = sys.error /\ Waiting' = Waiting
        /\ info' = info
    BY <2>3, <2>4, EventFacts
  <2>6. set' \in SUBSET Bit BY <1>6, <2>4, EventFacts
  <2>7. EventTypeOK' BY <1>3, <1>4, <2>1, <2>4, <2>6 DEF EventInv, EventTypeOK, Base, Sound, Info
  <2>8. EventCurrent' /\ EventWaits' /\ HandedOver'
    BY <1>3, <1>4, <2>1, <2>5 DEF EventInv, EventCurrent, EventWaits, HandedOver
  <2>9. NoWaitSatisfied'
    <3>1. \A t \in Waiting' : ~Satisfied(info'[t], set') BY <2>3, <2>4, <2>5
    <3> QED BY <2>7, <3>1 DEF NoWaitSatisfied, Waiting, Satisfied
  <2>10. Consumers = {} BY <2>5 DEF Consumers, Waiting
  <2>11. Once BY <2>10 DEF Once
  <2> QED BY <1>4, <2>1, <2>7, <2>8, <2>9, <2>11 DEF EventInv
<1> QED BY <1>7, <1>8

-----------------------------------------------------------------------------
(* The theorems *)

LEMMA EventInitOK == EventInit => EventInv
<1> SUFFICES ASSUME EventInit PROVE EventInv OBVIOUS
<1>1. /\ sys = KernelInit /\ pc = [t \in Thread |-> "run"] /\ set = {}
      /\ info = [t \in Thread |-> [set |-> {}, and |-> FALSE, clear |-> FALSE]]
      /\ asked = [t \in Thread |-> {}]
  BY DEF EventInit
<1>2. Base(sys) /\ Waiting = {} /\ sys.cur = NoThread
  BY <1>1, KernelInitSound, EventAssumption DEF Base, Waiting
<1>3. EventTypeOK BY <1>1, <1>2 DEF EventTypeOK, Base, Sound
<1>4. EventCurrent /\ EventWaits BY <1>1, <1>2 DEF EventCurrent, EventWaits
<1>5. NoWaitSatisfied BY <1>2, <1>3 DEF NoWaitSatisfied, Waiting
<1>6. HandedOver BY <1>1 DEF HandedOver
<1> QED BY <1>2, <1>3, <1>4, <1>5, <1>6 DEF EventInv

LEMMA EventNextOK == EventInv /\ [EventNext]_eventVars => EventInv' /\ (Once \/ UNCHANGED eventVars)
<1> SUFFICES ASSUME EventInv, [EventNext]_eventVars PROVE EventInv' /\ (Once \/ UNCHANGED eventVars) OBVIOUS
<1>1. CASE UNCHANGED eventVars
  BY <1>1 DEF eventVars, EventInv, EventTypeOK, EventCurrent, EventWaits, NoWaitSatisfied, HandedOver, Waiting
<1>2. CASE (Boot \/ Tick) /\ UNCHANGED <<set, info, asked>> BY <1>2, EventBootOK, EventTickOK
<1>3. CASE \E s \in Flags : EventFromInterrupt(s) BY <1>3, EventInterruptOK
<1>4. ASSUME NEW c \in Thread \ {Idle}, EventCall(c) PROVE EventInv' /\ Once
  BY <1>4, EventSendOK, EventRecvOK, EventReturnOK, EventControlOK, EventScheduleOK DEF EventCall
<1> QED BY <1>1, <1>2, <1>3, <1>4 DEF EventNext

\* For all threads, priorities, flags and requests and both orders of the
\* waiting list: no thread sleeps in rt_event_recv while the flags of the
\* event satisfy what it asked for.
THEOREM NobodySleepsThrough == EventSpec => []NoWaitSatisfied
<1>1. EventInv => NoWaitSatisfied BY DEF EventInv
<1> QED BY <1>1, EventInitOK, EventNextOK, PTL DEF EventSpec

\* For all of them: a thread that rt_event_send woke returns with flags it asked
\* for, all of them if it asked for all.
THEOREM FlagsHandedOver == EventSpec => []HandedOver
<1>1. EventInv => HandedOver BY DEF EventInv
<1> QED BY <1>1, EventInitOK, EventNextOK, PTL DEF EventSpec

\* For all of them: no step gives a flag that is consumed to two threads, or
\* leaves it set.
THEOREM FlagsConsumedOnce == EventSpec => ConsumedOnce
<1>1. EventInv /\ [EventNext]_eventVars =>
        [\A t \in Consumers :
           /\ info'[t].set \cap set' = {}
           /\ \A u \in Consumers \ {t} : info'[t].set \cap info'[u].set = {}]_eventVars
  BY EventNextOK DEF Once
<1>2. EventInv /\ [EventNext]_eventVars => EventInv' BY EventNextOK
<1> QED BY <1>1, <1>2, EventInitOK, PTL DEF EventSpec, ConsumedOnce

(***************************************************************************)
(* Mailbox                                                                 *)
(***************************************************************************)

-----------------------------------------------------------------------------
(* Counting *)

\* A set loses one element at most, and one less is asked of it.
LEMMA OneLess ==
  ASSUME NEW P, IsFiniteSet(P), NEW Q, NEW c, Q \subseteq P, P \subseteq Q \cup {c},
         NEW n \in Int, n <= Cardinality(P)
  PROVE  IsFiniteSet(Q) /\ n - 1 <= Cardinality(Q)
<1>1. IsFiniteSet(Q) /\ Cardinality(P) \in Nat /\ Cardinality(Q) \in Nat
  BY FS_Subset, FS_CardinalityType
<1>2. IsFiniteSet(Q \cup {c}) /\ Cardinality(Q \cup {c}) <= Cardinality(Q) + 1
        /\ Cardinality(Q \cup {c}) \in Nat
  BY <1>1, FS_AddElement, FS_CardinalityType
<1>3. Cardinality(P) <= Cardinality(Q \cup {c}) BY <1>2, FS_Subset
<1> QED BY <1>1, <1>2, <1>3

\* A set gains an element, and one more is asked of it.
LEMMA OneMore ==
  ASSUME NEW P, IsFiniteSet(P), NEW t, t \notin P, NEW n \in Int, n <= Cardinality(P)
  PROVE  IsFiniteSet(P \cup {t}) /\ n + 1 <= Cardinality(P \cup {t})
<1>1. Cardinality(P) \in Nat BY FS_CardinalityType
<1> QED BY <1>1, FS_AddElement

-----------------------------------------------------------------------------
(* The invariant of Mailbox *)

Sides     == {"recv", "send"}
Waits(w)  == ToSet(sys.wait[w])
Places(w) == IF w = "recv" THEN {"recv", "rback"} ELSE {"send", "sback"}
Coming(w) == Pending(Places(w))

\* What the waiting threads of a side wait for: mails, or free slots.
Due(w) == IF w = "recv" THEN mb.entry ELSE Size - mb.entry

\* The current thread can run, or is about to leave the processor; before the
\* system is started no thread is inside a call.
MbCurrent ==
  /\ sys.cur # NoThread => sys.stat[sys.cur] = "READY" \/ pc[sys.cur] \in Sides
  /\ sys.cur = NoThread => \A t \in Thread : pc[t] = "run"

\* A thread waits inside the call of its side, for EOK unless something else
\* happens.
MbWaits ==
  \A w \in Sides : \A t \in Waits(w) : pc[t] \in Places(w) /\ sys.error[t] = "EOK"

\* While a thread waits at a side there are no more mails, or free slots, than
\* woken threads on their way to them.
MbCount ==
  \A w \in Sides :
    IsFiniteSet(Coming(w)) /\ (Waits(w) # {} => Due(w) <= Cardinality(Coming(w)))

\* The mails lie between the two offsets.
MbRing == mb.in = (mb.out + mb.entry) % Size

MbInv ==
  TypeOK /\ Base(sys) /\ MbCurrent /\ MbWaits /\ MbCount /\ MbRing

\* The facts every step starts from.
LEMMA MbFacts ==
  ASSUME MbInv
  PROVE  /\ sys \in KernelState /\ KernelOK(sys, {}) /\ Base(sys)
         /\ Sides \subseteq WaitList /\ Idle \in Thread /\ NoThread \notin Thread
         /\ sys.stat \in [Thread -> Stat] /\ sys.error \in [Thread -> Error]
         /\ pc \in [Thread -> PC]
         /\ mb.entry \in 0 .. Size /\ mb.in \in 0 .. Size - 1 /\ mb.out \in 0 .. Size - 1
         /\ mb.pool \in [0 .. Size - 1 -> Mail] /\ Size \in Nat /\ Size > 0
         /\ value \in [Thread -> Mail] /\ time \in [Thread -> {"none", "timed", "forever"}]
         /\ \A w \in Sides :
              /\ Waits(w) \subseteq Thread /\ (sys.wait[w] = <<>> <=> Waits(w) = {})
              /\ Due(w) \in Nat /\ IsFiniteSet(Coming(w))
              /\ \A t \in Waits(w) : sys.stat[t] = "SUSPEND" /\ t \notin Coming(w)
<1>1. Base(sys) /\ TypeOK BY DEF MbInv
<1>2. sys \in KernelState /\ KernelOK(sys, {}) BY <1>1 DEF Base, Sound
<1>3. Sides \subseteq WaitList /\ Size \in Nat /\ Size > 0 BY MailboxAssumption DEF Sides
<1>4. /\ sys.stat \in [Thread -> Stat] /\ sys.error \in [Thread -> Error]
      /\ \A w \in Sides : sys.wait[w] \in Seq(Thread)
  BY <1>2, <1>3, KernelTypes
<1>5. /\ mb.entry \in 0 .. Size /\ mb.in \in 0 .. Size - 1 /\ mb.out \in 0 .. Size - 1
      /\ mb.pool \in [0 .. Size - 1 -> Mail] /\ pc \in [Thread -> PC]
      /\ value \in [Thread -> Mail] /\ time \in [Thread -> {"none", "timed", "forever"}]
  BY <1>1 DEF TypeOK
<1>6. ASSUME NEW w \in Sides
      PROVE  /\ Waits(w) \subseteq Thread /\ (sys.wait[w] = <<>> <=> Waits(w) = {})
             /\ Due(w) \in Nat /\ IsFiniteSet(Coming(w))
             /\ \A t \in Waits(w) : sys.stat[t] = "SUSPEND" /\ t \notin Coming(w)
  <2>1. Waits(w) \subseteq Thread /\ (sys.wait[w] = <<>> <=> Waits(w) = {})
    BY <1>4, EmptyList DEF Waits
  <2>2. \A t \in Waits(w) : sys.stat[t] = "SUSPEND"
    BY <1>2, <1>3 DEF Waits, KernelOK, WaitListsOK
  <2>3. \A t \in Waits(w) : t \notin Coming(w) BY <2>2 DEF Coming, Pending
  <2>4. Due(w) \in Nat BY <1>3, <1>5 DEF Due
  <2>5. IsFiniteSet(Coming(w)) BY DEF MbInv, MbCount
  <2> QED BY <2>1, <2>2, <2>3, <2>4, <2>5
<1> QED BY <1>1, <1>2, <1>3, <1>4, <1>5, <1>6, KernelAssumption

\* A thread that is not about to leave the processor can run and waits nowhere.
LEMMA MbCaller ==
  ASSUME MbInv, NEW c \in Thread, sys.cur = c, pc[c] \notin Sides
  PROVE  sys.cur # NoThread /\ sys.stat[c] = "READY" /\ \A w \in Sides : c \notin Waits(w)
<1>1. sys.cur # NoThread /\ sys.stat[c] = "READY" BY MbFacts DEF MbInv, MbCurrent
<1> QED BY <1>1, MbFacts

\* What may happen to pc when c goes on at l.
LEMMA MbGoto ==
  ASSUME MbInv, NEW c \in Thread, NEW l \in PC, Goto(c, l)
  PROVE  /\ pc'[c] = l /\ \A t \in Thread \ {c} : pc'[t] = pc[t]
         /\ pc' \in [Thread -> PC]
BY MbFacts DEF Goto

-----------------------------------------------------------------------------
(* The ring *)

LEMMA AdvancePlace ==
  ASSUME NEW s \in Nat, s > 0, s = Size, NEW a \in 0 .. s - 1
  PROVE  Advance(a) = RingPlace(s, a, 1) /\ Advance(a) \in 0 .. s - 1
<1>1. Advance(a) = IF a + 1 >= s THEN 0 ELSE a + 1 BY DEF Advance
<1> QED BY <1>1 DEF RingPlace

Ring == [pool : [0 .. Size - 1 -> Mail], in : 0 .. Size - 1,
         out : 0 .. Size - 1, entry : 0 .. Size]

Mails == [i \in 1 .. mb.entry |-> mb.pool[(mb.out + i - 1) % Size]]

\* The mails, with the places spelled out.
LEMMA MailsAre ==
  ASSUME NEW s \in Nat, s > 0, s = Size, NEW b \in Ring, NEW q,
         q = [i \in 1 .. b.entry |-> b.pool[(b.out + i - 1) % Size]]
  PROVE  /\ q \in [1 .. b.entry -> Mail]
         /\ \A i \in 1 .. b.entry : q[i] = b.pool[RingPlace(s, b.out, i - 1)]
<1>1. b.entry \in 0 .. s /\ b.out \in 0 .. s - 1 /\ b.pool \in [0 .. s - 1 -> Mail] BY DEF Ring
<1>2. ASSUME NEW i \in 1 .. b.entry
      PROVE  q[i] = b.pool[RingPlace(s, b.out, i - 1)] /\ q[i] \in Mail
  <2>1. PICK o \in 0 .. s - 1 : o = b.out BY <1>1
  <2>2. i - 1 \in 0 .. s /\ o + i - 1 = o + (i - 1) BY <1>1
  <2>3. (o + (i - 1)) % s = RingPlace(s, o, i - 1) /\ (o + (i - 1)) % s \in 0 .. s - 1
    BY <2>2, OnRing
  <2>4. q[i] = b.pool[(b.out + i - 1) % Size] OBVIOUS
  <2> QED BY <1>1, <2>1, <2>2, <2>3, <2>4
<1> QED BY <1>2

\* A mail is put behind the others.
LEMMA PutRing ==
  ASSUME MbInv, mb.entry < Size, NEW v \in Mail, mb' = Put(v)
  PROVE  mb' \in Ring /\ mb'.entry = mb.entry + 1 /\ MbRing' /\ Mails' = Append(Mails, v)
<1>1. PICK s \in Nat : s = Size /\ s > 0 BY MbFacts
<1>2. mb \in Ring BY DEF MbInv, TypeOK, Ring
<1>3. PICK n \in 0 .. s - 1, a \in 0 .. s - 1, p \in 0 .. s - 1 : n = mb.entry /\ a = mb.out /\ p = mb.in
  BY <1>1, <1>2 DEF Ring
<1>4. /\ mb'.pool = [mb.pool EXCEPT ![p] = v] /\ mb'.in = Advance(p)
      /\ mb'.out = a /\ mb'.entry = n + 1 /\ mb.pool \in [0 .. s - 1 -> Mail]
      /\ mb' = [pool |-> mb'.pool, in |-> mb'.in, out |-> mb'.out, entry |-> mb'.entry]
  BY <1>1, <1>2, <1>3 DEF Put, Ring
<1>5. Advance(p) = RingPlace(s, p, 1) /\ Advance(p) \in 0 .. s - 1 BY <1>1, AdvancePlace
<1>6. mb' \in Ring
  <2>1. mb'.pool \in [0 .. s - 1 -> Mail] BY <1>4
  <2>2. mb'.in \in 0 .. s - 1 /\ mb'.out \in 0 .. s - 1 /\ mb'.entry \in 0 .. s BY <1>4, <1>5
  <2> QED BY <1>1, <1>4, <2>1, <2>2 DEF Ring
<1>7. n \in 0 .. s /\ n + 1 \in 0 .. s BY <1>1
<1>8. p = RingPlace(s, a, n)
  <2>1. p = (a + n) % s BY <1>1, <1>3 DEF MbInv, MbRing
  <2> QED BY <1>1, <1>7, <2>1, OnRing
<1>9. MbRing'
  <2>1. Advance(p) = RingPlace(s, a, n + 1) BY <1>1, <1>5, <1>8, NextPlace
  <2>2. (a + (n + 1)) % s = RingPlace(s, a, n + 1) BY <1>1, <1>7, OnRing
  <2> QED BY <1>1, <1>4, <2>1, <2>2 DEF MbRing
<1>10. Mails' = Append(Mails, v)
  <2>1. PICK q, r : q = Mails /\ r = Mails' OBVIOUS
  <2>2. q = [i \in 1 .. mb.entry |-> mb.pool[(mb.out + i - 1) % Size]] BY <2>1 DEF Mails
  <2>3. r = [i \in 1 .. mb'.entry |-> mb'.pool[(mb'.out + i - 1) % Size]] BY <2>1 DEF Mails
  <2>4. q \in [1 .. n -> Mail] /\ \A i \in 1 .. n : q[i] = mb.pool[RingPlace(s, a, i - 1)]
    <3>1. PICK b : b = mb OBVIOUS
    <3>2. b \in Ring /\ b.entry = n /\ b.out = a /\ s = Size /\ s > 0 BY <1>1, <1>2, <1>3, <3>1
    <3>3. q = [i \in 1 .. b.entry |-> b.pool[(b.out + i - 1) % Size]] BY <2>2, <3>1
    <3>4. /\ q \in [1 .. b.entry -> Mail]
          /\ \A i \in 1 .. b.entry : q[i] = b.pool[RingPlace(s, b.out, i - 1)]
      BY <3>2, <3>3, MailsAre
    <3> QED BY <3>1, <3>2, <3>4
  <2>5. PICK b : b = mb' OBVIOUS
  <2>6. /\ r \in [1 .. n + 1 -> Mail]
        /\ \A i \in 1 .. n + 1 : r[i] = b.pool[RingPlace(s, a, i - 1)]
    <3>1. b \in Ring /\ b.entry = n + 1 /\ b.out = a /\ s = Size /\ s > 0 BY <1>1, <1>4, <1>6, <2>5
    <3>2. r = [i \in 1 .. b.entry |-> b.pool[(b.out + i - 1) % Size]] BY <2>3, <2>5
    <3>3. /\ r \in [1 .. b.entry -> Mail]
          /\ \A i \in 1 .. b.entry : r[i] = b.pool[RingPlace(s, b.out, i - 1)]
      BY <3>1, <3>2, MailsAre
    <3> QED BY <3>1, <3>3
  <2>7. b.pool = [mb.pool EXCEPT ![p] = v] BY <1>4, <2>5
  <2>8. ASSUME NEW i \in 1 .. n PROVE r[i] = q[i]
    <3>1. i - 1 \in 0 .. s - 1 /\ i - 1 # n /\ i \in 1 .. n + 1 BY <1>1
    <3>2. RingPlace(s, a, i - 1) # p /\ RingPlace(s, a, i - 1) \in 0 .. s - 1
      <4>1. n \in 0 .. s - 1 /\ s > 0 BY <1>1, <1>3
      <4>2. RingPlace(s, a, i - 1) # RingPlace(s, a, n) BY <3>1, <4>1, OtherPlace
      <4>3. RingPlace(s, a, i - 1) \in 0 .. s - 1 BY <3>1, <4>1, NextPlace
      <4> QED BY <1>8, <4>2, <4>3
    <3> QED BY <1>4, <2>4, <2>6, <2>7, <3>1, <3>2
  <2>9. r[n + 1] = v
    <3>1. n + 1 \in 1 .. n + 1 /\ (n + 1) - 1 = n BY <1>1
    <3> QED BY <1>4, <1>8, <2>6, <2>7, <3>1
  <2>10. n \in Nat BY <1>1
  <2>11. r = Append(q, v) BY <2>4, <2>6, <2>8, <2>9, <2>10, GivenAppend, SMTT(30)
  <2> QED BY <2>1, <2>11
<1> QED BY <1>3, <1>4, <1>6, <1>9, <1>10

\* The first mail is taken.
LEMMA GetRing ==
  ASSUME MbInv, mb.entry > 0, mb' = Get
  PROVE  mb' \in Ring /\ mb'.entry = mb.entry - 1 /\ MbRing' /\ Mails # <<>> /\ Mails' = Tail(Mails)
<1>1. PICK s \in Nat : s = Size /\ s > 0 BY MbFacts
<1>2. mb \in Ring BY DEF MbInv, TypeOK, Ring
<1>3. PICK n \in 1 .. s, a \in 0 .. s - 1, p \in 0 .. s - 1 : n = mb.entry /\ a = mb.out /\ p = mb.in
  BY <1>1, <1>2 DEF Ring
<1>4. /\ mb'.pool = mb.pool /\ mb'.in = p
      /\ mb'.out = Advance(a) /\ mb'.entry = n - 1 /\ mb.pool \in [0 .. s - 1 -> Mail]
      /\ mb' = [pool |-> mb'.pool, in |-> mb'.in, out |-> mb'.out, entry |-> mb'.entry]
  BY <1>1, <1>2, <1>3 DEF Get, Ring
<1>5. Advance(a) = RingPlace(s, a, 1) /\ Advance(a) \in 0 .. s - 1 BY <1>1, AdvancePlace
<1>6. mb' \in Ring
  <2>2. mb'.in \in 0 .. s - 1 /\ mb'.out \in 0 .. s - 1 /\ mb'.entry \in 0 .. s BY <1>4, <1>5
  <2> QED BY <1>1, <1>4, <2>2 DEF Ring
<1>7. n \in 0 .. s /\ n - 1 \in 0 .. s - 1 /\ n - 1 \in 0 .. s /\ (n - 1) + 1 = n /\ n \in Nat BY <1>1
<1>8. p = RingPlace(s, a, n)
  <2>1. p = (a + n) % s BY <1>1, <1>3 DEF MbInv, MbRing
  <2> QED BY <1>1, <1>7, <2>1, OnRing
<1>9. MbRing'
  <2>1. PICK d \in 0 .. s - 1 : d = Advance(a) BY <1>5
  <2>2. RingPlace(s, d, n - 1) = RingPlace(s, a, n)
    <3>1. RingPlace(s, RingPlace(s, a, 1), n - 1) = RingPlace(s, a, (n - 1) + 1)
      BY <1>1, <1>7, NextPlace
    <3> QED BY <1>5, <1>7, <2>1, <3>1
  <2>3. (d + (n - 1)) % s = RingPlace(s, d, n - 1) BY <1>1, <1>7, OnRing
  <2> QED BY <1>1, <1>4, <1>8, <2>1, <2>2, <2>3 DEF MbRing
<1>10. Mails # <<>> /\ Mails' = Tail(Mails)
  <2>1. PICK q, r : q = Mails /\ r = Mails' OBVIOUS
  <2>2. q = [i \in 1 .. mb.entry |-> mb.pool[(mb.out + i - 1) % Size]] BY <2>1 DEF Mails
  <2>3. r = [i \in 1 .. mb'.entry |-> mb'.pool[(mb'.out + i - 1) % Size]] BY <2>1 DEF Mails
  <2>4. q \in [1 .. n -> Mail] /\ \A i \in 1 .. n : q[i] = mb.pool[RingPlace(s, a, i - 1)]
    <3>1. PICK b : b = mb OBVIOUS
    <3>2. b \in Ring /\ b.entry = n /\ b.out = a /\ s = Size /\ s > 0 BY <1>1, <1>2, <1>3, <3>1
    <3>3. q = [i \in 1 .. b.entry |-> b.pool[(b.out + i - 1) % Size]] BY <2>2, <3>1
    <3>4. /\ q \in [1 .. b.entry -> Mail]
          /\ \A i \in 1 .. b.entry : q[i] = b.pool[RingPlace(s, b.out, i - 1)]
      BY <3>2, <3>3, MailsAre
    <3> QED BY <3>1, <3>2, <3>4
  <2>5. PICK b : b = mb' OBVIOUS
  <2>6. PICK d \in 0 .. s - 1 : d = Advance(a) BY <1>5
  <2>7. /\ r \in [1 .. n - 1 -> Mail]
        /\ \A i \in 1 .. n - 1 : r[i] = b.pool[RingPlace(s, d, i - 1)]
    <3>1. b \in Ring /\ b.entry = n - 1 /\ b.out = d /\ s = Size /\ s > 0
      BY <1>1, <1>4, <1>6, <2>5, <2>6
    <3>2. r = [i \in 1 .. b.entry |-> b.pool[(b.out + i - 1) % Size]] BY <2>3, <2>5
    <3>3. /\ r \in [1 .. b.entry -> Mail]
          /\ \A i \in 1 .. b.entry : r[i] = b.pool[RingPlace(s, b.out, i - 1)]
      BY <3>1, <3>2, MailsAre
    <3> QED BY <3>1, <3>3
  <2>8. ASSUME NEW i \in 1 .. n - 1 PROVE r[i] = q[i + 1]
    <3>1. i - 1 \in 0 .. s - 1 /\ (i - 1) + 1 = i /\ i + 1 \in 1 .. n /\ (i + 1) - 1 = i BY <1>1
    <3>2. RingPlace(s, RingPlace(s, a, 1), i - 1) = RingPlace(s, a, (i - 1) + 1)
      BY <1>1, <3>1, NextPlace
    <3>3. RingPlace(s, d, i - 1) = RingPlace(s, a, i) BY <1>5, <2>6, <3>1, <3>2
    <3>4. b.pool = mb.pool BY <1>4, <2>5
    <3>5. q[i + 1] = mb.pool[RingPlace(s, a, (i + 1) - 1)] BY <2>4, <3>1
    <3> QED BY <2>7, <3>1, <3>3, <3>4, <3>5
  <2>9. n > 0 BY <1>1
  <2>10. q # <<>> /\ r = Tail(q) BY <1>7, <2>4, <2>7, <2>8, <2>9, GivenTail
  <2> QED BY <2>1, <2>10
<1> QED BY <1>3, <1>4, <1>6, <1>9, <1>10

-----------------------------------------------------------------------------
(* Steps that leave the ring alone *)

LEMMA MbTypes ==
  ASSUME mb' \in Ring, Base(sys'), pc' \in [Thread -> PC],
         value' \in [Thread -> Mail], time' \in [Thread -> {"none", "timed", "forever"}]
  PROVE  TypeOK'
BY DEF TypeOK, Ring, Base, Sound

LEMMA MbTyped ==
  ASSUME MbInv
  PROVE  mb \in Ring /\ sys \in KernelState /\ pc \in [Thread -> PC]
BY DEF MbInv, TypeOK, Ring

\* At each side the woken threads are still on their way, or wait for nothing
\* that is there.
QuietSide(w) ==
  \/ Coming(w)' = Coming(w) /\ Waits(w)' \subseteq Waits(w)
  \/ Due(w) = 0 /\ Coming(w)' \subseteq Coming(w)

Quiet ==
  /\ mb' = mb /\ Base(sys') /\ pc' \in [Thread -> PC]
  /\ value' \in [Thread -> Mail] /\ time' \in [Thread -> {"none", "timed", "forever"}]
  /\ MbCurrent' /\ MbWaits' /\ \A w \in Sides : QuietSide(w)

LEMMA QuietOK ==
  ASSUME MbInv, Quiet
  PROVE  MbInv'
<1>1. mb' = mb /\ Base(sys') /\ MbCurrent' /\ MbWaits' BY DEF Quiet
<1>2. TypeOK' BY <1>1, MbTyped, MbTypes DEF Quiet
<1>3. MbRing' BY <1>1 DEF MbInv, MbRing
<1>4. ASSUME NEW w \in Sides
      PROVE  IsFiniteSet(Coming(w)') /\ (Waits(w)' # {} => Due(w)' <= Cardinality(Coming(w)'))
  <2>1. Due(w)' = Due(w) BY <1>1 DEF Due
  <2>2. IsFiniteSet(Coming(w)) /\ (Waits(w) # {} => Due(w) <= Cardinality(Coming(w)))
    BY DEF MbInv, MbCount
  <2>3. CASE Coming(w)' = Coming(w) /\ Waits(w)' \subseteq Waits(w) BY <2>1, <2>2, <2>3
  <2>4. CASE Due(w) = 0 /\ Coming(w)' \subseteq Coming(w)
    <3>1. IsFiniteSet(Coming(w)') BY <2>2, <2>4, FS_Subset
    <3>2. Cardinality(Coming(w)') \in Nat BY <3>1, FS_CardinalityType
    <3> QED BY <2>1, <2>4, <3>1, <3>2
  <2> QED BY <2>3, <2>4 DEF Quiet, QuietSide
<1>5. MbCount' BY <1>4 DEF MbCount
<1> QED BY <1>1, <1>2, <1>3, <1>5 DEF MbInv

\* A thread is started, or the scheduler is.
LEMMA MbBootOK ==
  ASSUME MbInv, Boot, UNCHANGED <<mb, value, time>>
  PROVE  MbInv'
<1>1. /\ Base(sys') /\ pc' = pc /\ sys.cur = NoThread
      /\ sys'.error = sys.error /\ sys'.wait = sys.wait
      /\ \/ sys'.cur # NoThread /\ sys'.stat = sys.stat /\ sys'.stat[sys'.cur] = "READY"
         \/ sys'.cur = NoThread
  BY BootBase DEF MbInv
<1>2. \A t \in Thread : pc[t] = "run" BY <1>1 DEF MbInv, MbCurrent
<1>3. MbCurrent' BY <1>1, <1>2 DEF MbCurrent
<1>4. \A w \in Sides : Waits(w)' = Waits(w) BY <1>1 DEF Waits
<1>5. MbWaits' BY <1>1, <1>4 DEF MbInv, MbWaits
<1>6. \A w \in Sides : Coming(w)' = {} /\ Coming(w) = {}
  BY <1>1, <1>2 DEF Coming, Pending, Places
<1>7. \A w \in Sides : QuietSide(w) BY <1>4, <1>6 DEF QuietSide
<1>8. Quiet BY <1>1, <1>3, <1>5, <1>7, MbFacts DEF Quiet
<1> QED BY <1>8, QuietOK

\* The tick.
LEMMA MbTickOK ==
  ASSUME MbInv, Tick, UNCHANGED <<mb, value, time>>
  PROVE  MbInv'
<1>1. /\ Base(sys') /\ pc' = pc /\ sys.cur # NoThread /\ sys'.cur # NoThread
      /\ \/ sys' = sys
         \/ Same(sys, sys') /\ sys'.stat[sys'.cur] = "READY"
         \/ \E t \in Thread : Expired(sys, sys', t) /\ sys'.stat[sys'.cur] = "READY"
  BY TickBase DEF MbInv
<1>2. MbCurrent' BY <1>1 DEF MbInv, MbCurrent
<1>3. CASE sys' = sys \/ Same(sys, sys')
  <2>1. \A w \in Sides : Waits(w)' = Waits(w) /\ Coming(w)' = Coming(w)
    BY <1>1, <1>3 DEF Same, Waits, Coming, Pending
  <2>2. MbWaits' BY <1>1, <1>3, <2>1 DEF Same, MbInv, MbWaits
  <2>3. \A w \in Sides : QuietSide(w) BY <2>1 DEF QuietSide
  <2>4. Quiet BY <1>1, <1>2, <2>2, <2>3, MbFacts DEF Quiet
  <2> QED BY <2>4, QuietOK
<1>4. ASSUME NEW t \in Thread, Expired(sys, sys', t) PROVE MbInv'
  <2>1. /\ sys.stat[t] = "SUSPEND"
        /\ sys'.stat = [sys.stat EXCEPT ![t] = "READY"]
        /\ sys'.error = [sys.error EXCEPT ![t] = "ETIMEOUT"]
        /\ \A w \in Sides : Waits(w)' = Waits(w) \ {t}
    BY <1>4, MbFacts DEF Expired, Waits
  <2>2. /\ sys'.error[t] # "EOK"
        /\ \A u \in Thread \ {t} : sys'.stat[u] = sys.stat[u] /\ sys'.error[u] = sys.error[u]
    BY <2>1, MbFacts
  <2>3. \A w \in Sides : Coming(w)' = Coming(w)
    BY <1>1, <2>1, <2>2 DEF Coming, Pending
  <2>4. MbWaits'
    <3>1. ASSUME NEW w \in Sides, NEW u \in Waits(w)'
          PROVE  pc'[u] \in Places(w) /\ sys'.error[u] = "EOK"
      <4>1. u \in Waits(w) /\ u \in Thread \ {t} BY <2>1, <3>1, MbFacts
      <4> QED BY <1>1, <2>2, <4>1 DEF MbInv, MbWaits
    <3> QED BY <3>1 DEF MbWaits
  <2>5. \A w \in Sides : QuietSide(w) BY <2>1, <2>3 DEF QuietSide
  <2>6. Quiet BY <1>1, <1>2, <2>4, <2>5, MbFacts DEF Quiet
  <2> QED BY <2>6, QuietOK
<1> QED BY <1>1, <1>3, <1>4

\* rt_schedule after a wait or after a thread was woken.
LEMMA MbScheduleOK ==
  ASSUME MbInv, NEW c \in Thread, MbSchedule(c)
  PROVE  MbInv' /\ mb' = mb
<1>1. PICK a, l : /\ <<a, l>> \in {<<"send", "sback">>, <<"recv", "rback">>, <<"give", "run">>}
                  /\ Schedule(c, a, l) /\ UNCHANGED <<mb, value, time>>
  BY DEF MbSchedule
<1>2. /\ sys.cur = c /\ pc[c] = a /\ sys' = rt_schedule(sys) /\ Goto(c, l) /\ l \in PC
      /\ (a = "send" /\ l = "sback") \/ (a = "recv" /\ l = "rback") \/ (a = "give" /\ l = "run")
  BY <1>1 DEF Schedule, At, PC
<1>3. sys.cur # NoThread BY <1>2, MbFacts
<1>4. /\ Base(sys') /\ sys'.stat = sys.stat /\ sys'.error = sys.error /\ sys'.wait = sys.wait
      /\ sys'.cur # NoThread /\ sys'.stat[sys'.cur] = "READY"
  BY <1>2, <1>3, MbFacts, DispatchBase
<1>5. /\ pc'[c] = l /\ \A t \in Thread \ {c} : pc'[t] = pc[t]
      /\ pc' \in [Thread -> PC]
  BY <1>2, MbGoto
<1>6. MbCurrent' BY <1>4 DEF MbCurrent
<1>7. \A w \in Sides : Waits(w)' = Waits(w) BY <1>4 DEF Waits
<1>8. \A w \in Sides, t \in Thread : pc'[t] \in Places(w) <=> pc[t] \in Places(w)
  BY <1>2, <1>5 DEF Sides, Places
<1>9. \A w \in Sides : Coming(w)' = Coming(w)
  <2>1. \A w \in Sides : Coming(w)' = {t \in Thread : pc'[t] \in Places(w)
                                          /\ sys'.stat[t] = "READY" /\ sys'.error[t] = "EOK"}
    BY DEF Coming, Pending, Places
  <2> QED BY <1>4, <1>8, <2>1 DEF Coming, Pending
<1>10. MbWaits' BY <1>4, <1>7, <1>8, MbFacts DEF MbInv, MbWaits, Places
<1>11. \A w \in Sides : QuietSide(w) BY <1>7, <1>9 DEF QuietSide
<1>12. Quiet BY <1>1, <1>4, <1>5, <1>6, <1>10, <1>11, MbFacts DEF Quiet
<1> QED BY <1>1, <1>12, QuietOK

\* The call of c ends without success: it was not on its way to anything.
LEMMA MbRefuseOK ==
  ASSUME MbInv, NEW c \in Thread, sys.cur = c, pc[c] \notin Sides,
         \A w \in Sides : c \in Coming(w) => Due(w) = 0,
         NEW e \in Error, Refuse(c, e)
  PROVE  MbInv' /\ mb' = mb
<1>1. sys' = SetError(sys, c, e) /\ Goto(c, "run") /\ UNCHANGED <<mb, value, time>>
  BY DEF Refuse
<1>2. sys.cur # NoThread /\ sys.stat[c] = "READY" /\ \A w \in Sides : c \notin Waits(w)
  BY MbCaller
<1>3. PICK X : X = {} OBVIOUS
<1>4. sys \in KernelState /\ KernelOK(sys, X) BY <1>3, MbFacts
<1>5. /\ sys' \in KernelState /\ KernelOK(sys', X)
      /\ sys'.stat = sys.stat /\ sys'.cur = sys.cur /\ sys'.nest = sys.nest
      /\ sys'.wait = sys.wait
  BY <1>1, <1>4, ErrorOK
<1>6. sys'.error = [sys.error EXCEPT ![c] = e] BY <1>1, <1>4 DEF SetError, KernelState
<1>7. \A t \in Thread \ {c} : sys'.error[t] = sys.error[t] BY <1>6, MbFacts
<1>8. Base(sys') BY <1>3, <1>5, MbFacts DEF Base, Sound
<1>9. /\ pc'[c] = "run" /\ \A t \in Thread \ {c} : pc'[t] = pc[t]
      /\ pc' \in [Thread -> PC]
  <2>1. "run" \in PC BY DEF PC
  <2> QED BY <1>1, <2>1, MbGoto
<1>10. MbCurrent' BY <1>2, <1>5 DEF MbCurrent
<1>11. \A w \in Sides : Waits(w)' = Waits(w) BY <1>5 DEF Waits
<1>12. MbWaits'
  <2>1. ASSUME NEW w \in Sides, NEW t \in Waits(w)'
        PROVE  pc'[t] \in Places(w) /\ sys'.error[t] = "EOK"
    <3>1. t \in Waits(w) /\ t \in Thread \ {c} BY <1>2, <1>11, <2>1, MbFacts
    <3> QED BY <1>7, <1>9, <3>1 DEF MbInv, MbWaits
  <2> QED BY <2>1 DEF MbWaits
<1>13. ASSUME NEW w \in Sides PROVE QuietSide(w)
  <2>1. Coming(w)' = Coming(w) \ {c}
    <3>1. Coming(w)' = {t \in Thread : pc'[t] \in Places(w)
                          /\ sys'.stat[t] = "READY" /\ sys'.error[t] = "EOK"}
      BY DEF Coming, Pending, Places
    <3>2. pc'[c] \notin Places(w) BY <1>9 DEF Places
    <3> QED BY <1>5, <1>7, <1>9, <3>1, <3>2 DEF Coming, Pending
  <2> QED BY <1>11, <2>1 DEF QuietSide
<1>14. Quiet BY <1>1, <1>8, <1>9, <1>10, <1>12, <1>13, MbFacts DEF Quiet
<1> QED BY <1>1, <1>14, QuietOK

\* c waits at a side that has nothing for it.
LEMMA MbBlockOK ==
  ASSUME MbInv, NEW c \in Thread \ {Idle}, sys.cur = c, pc[c] \notin Sides,
         NEW w \in Sides, Due(w) = 0, pc[c] = "run" \/ pc[c] \in Places(w),
         NEW tm \in {"none", "timed", "forever"}, Block(c, w, w, tm), mb' = mb,
         value' \in [Thread -> Mail]
  PROVE  MbInv'
<1>1. sys' = WaitOn(sys, w, c, Flag, tm) /\ time' = [time EXCEPT ![c] = tm] /\ Goto(c, w)
  BY DEF Block
<1>2. sys.cur # NoThread /\ sys.stat[c] = "READY" /\ \A v \in Sides : c \notin Waits(v)
  BY MbCaller
<1>3. w \in WaitList BY MbFacts
<1>4. Base(sys') /\ Queued(sys, sys', w, c, tm) BY <1>1, <1>2, <1>3, MbFacts, WaitBase
<1>5. /\ sys'.stat = [sys.stat EXCEPT ![c] = "SUSPEND"] /\ sys'.cur = c
      /\ sys'.error = [sys.error EXCEPT ![c] = "EOK"]
      /\ \A v \in Sides : Waits(v)' = Waits(v) \cup (IF v = w THEN {c} ELSE {})
  BY <1>4, MbFacts DEF Queued, Waits
<1>6. /\ pc'[c] = w /\ \A t \in Thread \ {c} : pc'[t] = pc[t]
      /\ pc' \in [Thread -> PC]
  <2>1. w \in PC BY DEF PC, Sides
  <2> QED BY <1>1, <2>1, MbGoto
<1>7. /\ sys'.stat[c] = "SUSPEND" /\ sys'.error[c] = "EOK"
      /\ \A t \in Thread \ {c} : sys'.stat[t] = sys.stat[t] /\ sys'.error[t] = sys.error[t]
  BY <1>5, MbFacts
<1>8. time' \in [Thread -> {"none", "timed", "forever"}] BY <1>1, MbFacts
<1>9. MbCurrent' BY <1>2, <1>5, <1>6 DEF MbCurrent
<1>10. w \in Places(w) BY DEF Sides, Places
<1>11. MbWaits'
  <2>1. ASSUME NEW v \in Sides, NEW t \in Waits(v)'
        PROVE  pc'[t] \in Places(v) /\ sys'.error[t] = "EOK"
    <3>1. CASE t = c
      <4>1. v = w BY <1>2, <1>5, <2>1, <3>1
      <4> QED BY <1>6, <1>7, <1>10, <3>1, <4>1
    <3>2. CASE t # c
      <4>1. t \in Waits(v) /\ t \in Thread \ {c} BY <1>5, <2>1, <3>2, MbFacts
      <4> QED BY <1>6, <1>7, <4>1 DEF MbInv, MbWaits
    <3> QED BY <3>1, <3>2
  <2> QED BY <2>1 DEF MbWaits
<1>12. ASSUME NEW v \in Sides PROVE QuietSide(v)
  <2>1. Coming(v)' = Coming(v) \ {c}
    <3>1. Coming(v)' = {t \in Thread : pc'[t] \in Places(v)
                          /\ sys'.stat[t] = "READY" /\ sys'.error[t] = "EOK"}
      BY DEF Coming, Pending, Places
    <3> QED BY <1>6, <1>7, <3>1 DEF Coming, Pending
  <2>2. CASE v = w BY <2>1, <2>2 DEF QuietSide
  <2>3. CASE v # w
    <3>1. pc[c] \notin Places(v) BY <2>3 DEF Sides, Places
    <3>2. c \notin Coming(v) BY <3>1 DEF Coming, Pending
    <3> QED BY <1>5, <2>1, <2>3, <3>2 DEF QuietSide
  <2> QED BY <2>2, <2>3
<1>13. Quiet BY <1>4, <1>6, <1>8, <1>9, <1>11, <1>12, MbFacts DEF Quiet
<1> QED BY <1>13, QuietOK

-----------------------------------------------------------------------------
(* A mail is put or taken, and the first waiter of the opposite is woken *)

Opposite(w) == IF w = "recv" THEN "send" ELSE "recv"

\* Nobody waits at w, or one of the threads there was woken.
WokenAt(w) ==
  /\ Base(sys') /\ sys'.error = sys.error
  /\ \/ Waits(w) = {} /\ sys'.stat = sys.stat /\ \A u \in Sides : Waits(u)' = Waits(u)
     \/ \E t \in Waits(w) : /\ sys'.stat = [sys.stat EXCEPT ![t] = "READY"]
                            /\ \A u \in Sides : Waits(u)' = Waits(u) \ {t}

\* rt_ipc_list_resume, and rt_schedule after it or not.
LEMMA WokenAtOK ==
  ASSUME MbInv, NEW w \in Sides, NEW k, k = rt_ipc_list_resume(sys, w),
         IF sys.wait[w] # <<>> THEN sys' = k \/ (sys.cur # NoThread /\ sys' = rt_schedule(k))
                               ELSE sys' = sys
  PROVE  /\ WokenAt(w)
         /\ sys'.cur = sys.cur \/ (sys'.cur # NoThread /\ sys'.stat[sys'.cur] = "READY")
<1>1. w \in WaitList /\ Base(sys) BY MbFacts
<1>2. CASE sys.wait[w] = <<>>
  <2>1. sys' = sys /\ Waits(w) = {} BY <1>2, MbFacts
  <2> QED BY <1>1, <2>1 DEF WokenAt, Waits
<1>3. CASE sys.wait[w] # <<>>
  <2>1. PICK t : Resumed(sys, k, w, t) BY <1>1, <1>3, ListResumeBase
  <2>2. /\ t \in Waits(w) /\ t \in Thread /\ sys.stat[t] = "SUSPEND"
          /\ Base(k) /\ k.stat = [sys.stat EXCEPT ![t] = "READY"] /\ k.error = sys.error
          /\ k.cur = sys.cur
          /\ \A u \in WaitList : ToSet(k.wait[u]) = ToSet(sys.wait[u]) \ {t}
    BY <2>1 DEF Waits, Resumed
  <2>3. CASE sys' = k
    <3>1. \A u \in Sides : Waits(u)' = Waits(u) \ {t} BY <2>2, <2>3, MbFacts DEF Waits
    <3> QED BY <2>2, <2>3, <3>1 DEF WokenAt
  <2>4. CASE sys.cur # NoThread /\ sys' = rt_schedule(k)
    <3>1. k.cur # NoThread BY <2>2, <2>4
    <3>2. /\ Base(sys') /\ sys'.stat = k.stat /\ sys'.error = k.error /\ sys'.wait = k.wait
          /\ sys'.cur # NoThread /\ sys'.stat[sys'.cur] = "READY"
      BY <2>2, <2>4, <3>1, DispatchBase
    <3>3. \A u \in Sides : Waits(u)' = Waits(u) \ {t} BY <2>2, <3>2, MbFacts, SMTT(30) DEF Waits
    <3> QED BY <2>2, <3>2, <3>3 DEF WokenAt
  <2> QED BY <1>3, <2>3, <2>4
<1> QED BY <1>2, <1>3

\* The thread c served the side w, or a handler did and c stayed where it was.
Served(c, w) ==
  /\ mb' \in Ring /\ MbRing' /\ MbCurrent' /\ WokenAt(w) /\ pc' \in [Thread -> PC]
  /\ value' \in [Thread -> Mail] /\ time' \in [Thread -> {"none", "timed", "forever"}]
  /\ Due(w)' = Due(w) + 1 /\ Due(Opposite(w))' = Due(Opposite(w)) - 1
  /\ \A t \in Thread \ {c} : pc'[t] = pc[t]
  /\ \/ pc'[c] = pc[c]
     \/ /\ pc[c] \notin Places(w) /\ pc'[c] \in {"run", "give"}
        /\ sys.stat[c] = "READY"

LEMMA ServedOK ==
  ASSUME MbInv, NEW c \in Thread, NEW w \in Sides, Served(c, w)
  PROVE  MbInv'
<1>1. PICK v \in Sides : v = Opposite(w) /\ v # w /\ Sides = {v, w} BY DEF Sides, Opposite
<1>2. TypeOK' BY MbTypes DEF Served, WokenAt
<1>3. PICK W : /\ W \subseteq Waits(w) /\ (W = {} => Waits(w) = {})
               /\ (W # {} => \E t : W = {t})
               /\ sys'.stat = [t \in Thread |-> IF t \in W THEN "READY" ELSE sys.stat[t]]
               /\ \A u \in Sides : Waits(u)' = Waits(u) \ W
  <2>1. CASE /\ Waits(w) = {} /\ sys'.stat = sys.stat
             /\ \A u \in Sides : Waits(u)' = Waits(u)
    <3>1. sys'.stat = [t \in Thread |-> IF t \in {} THEN "READY" ELSE sys.stat[t]]
      BY <2>1, MbFacts
    <3>2. \A u \in Sides : Waits(u)' = Waits(u) \ {} BY <2>1
    <3>3. PICK W : W = {} OBVIOUS
    <3> QED BY <2>1, <3>1, <3>2, <3>3
  <2>2. ASSUME NEW t \in Waits(w), sys'.stat = [sys.stat EXCEPT ![t] = "READY"],
               \A u \in Sides : Waits(u)' = Waits(u) \ {t}
        PROVE  \E W : /\ W \subseteq Waits(w) /\ (W = {} => Waits(w) = {})
                      /\ (W # {} => \E u : W = {u})
                      /\ sys'.stat = [u \in Thread |-> IF u \in W THEN "READY" ELSE sys.stat[u]]
                      /\ \A u \in Sides : Waits(u)' = Waits(u) \ W
    <3>1. PICK W : W = {t} OBVIOUS
    <3>2. sys'.stat = [u \in Thread |-> IF u \in W THEN "READY" ELSE sys.stat[u]]
      BY <2>2, <3>1, MbFacts
    <3>3. W \subseteq Waits(w) /\ (W # {} => \E u : W = {u}) /\ W # {} BY <3>1
    <3>4. \A u \in Sides : Waits(u)' = Waits(u) \ W BY <2>2, <3>1
    <3> QED BY <3>2, <3>3, <3>4
  <2> QED BY <2>1, <2>2 DEF Served, WokenAt
<1>4. W \subseteq Thread /\ \A t \in W : sys.stat[t] = "SUSPEND" BY <1>3, MbFacts
<1>5. /\ sys'.error = sys.error
      /\ \A t \in Thread \ W : sys'.stat[t] = sys.stat[t]
      /\ \A t \in W : sys'.stat[t] = "READY"
  BY <1>3, <1>4 DEF Served, WokenAt
<1>6. \A t \in W : pc[t] \in Places(w) /\ sys.error[t] = "EOK" BY <1>3 DEF MbInv, MbWaits
<1>7. \A t \in Thread : pc'[t] # pc[t] => t = c /\ pc[c] \notin Places(w) /\ sys.stat[c] = "READY"
                                          /\ pc'[c] \in {"run", "give"}
  BY DEF Served
<1>8. \A t \in Thread : pc'[t] \in Places(w) <=> pc[t] \in Places(w) BY <1>7 DEF Places
<1>9. ASSUME NEW u \in Sides
      PROVE  Coming(u)' = {t \in Thread : pc'[t] \in Places(u)
                             /\ sys'.stat[t] = "READY" /\ sys'.error[t] = "EOK"}
  BY DEF Coming, Pending, Places
<1>10. Coming(w)' = Coming(w) \cup W
  <2>1. ASSUME NEW t \in Thread PROVE t \in Coming(w)' <=> t \in Coming(w) \cup W
    <3>1. CASE t \in W BY <1>5, <1>6, <1>8, <1>9, <3>1
    <3>2. CASE t \notin W
      <4>1. t \in Coming(w)' <=> pc[t] \in Places(w) /\ sys.stat[t] = "READY" /\ sys.error[t] = "EOK"
        BY <1>5, <1>8, <1>9, <3>2
      <4> QED BY <3>2, <4>1 DEF Coming, Pending
    <3> QED BY <3>1, <3>2
  <2>2. Coming(w)' \subseteq Thread BY <1>9
  <2>3. Coming(w) \subseteq Thread BY DEF Coming, Pending
  <2> QED BY <1>4, <2>1, <2>2, <2>3
<1>11. Coming(v)' \subseteq Coming(v) /\ Coming(v) \subseteq Coming(v)' \cup {c}
  <2>1. \A t \in Thread : pc'[t] \in Places(v) => pc[t] \in Places(v) BY <1>7 DEF Places
  <2>2. \A t \in W : pc[t] \notin Places(v) BY <1>1, <1>6 DEF Sides, Places
  <2>3. ASSUME NEW t \in Coming(v)' PROVE t \in Coming(v)
    <3>1. t \in Thread /\ pc[t] \in Places(v) /\ sys'.stat[t] = "READY" /\ sys'.error[t] = "EOK"
      BY <1>9, <2>1, <2>3
    <3>2. t \notin W BY <2>2, <3>1
    <3> QED BY <1>5, <3>1, <3>2 DEF Coming, Pending
  <2>4. ASSUME NEW t \in Coming(v), t # c PROVE t \in Coming(v)'
    <3>1. t \in Thread /\ pc[t] \in Places(v) /\ sys.stat[t] = "READY" /\ sys.error[t] = "EOK"
      BY <2>4 DEF Coming, Pending
    <3>2. t \notin W /\ pc'[t] = pc[t] BY <1>7, <2>2, <2>4, <3>1
    <3> QED BY <1>5, <1>9, <3>1, <3>2
  <2> QED BY <2>3, <2>4
<1>12. MbWaits'
  <2>1. ASSUME NEW u \in Sides, NEW t \in Waits(u)'
        PROVE  pc'[t] \in Places(u) /\ sys'.error[t] = "EOK"
    <3>1. t \in Waits(u) /\ t \in Thread /\ sys.stat[t] = "SUSPEND" BY <1>3, <2>1, MbFacts
    <3>2. pc'[t] = pc[t] BY <1>7, <3>1
    <3> QED BY <1>5, <3>1, <3>2 DEF MbInv, MbWaits
  <2> QED BY <2>1 DEF MbWaits
<1>13. ASSUME NEW u \in Sides
       PROVE  /\ IsFiniteSet(Coming(u)) /\ Due(u) \in Int
              /\ Waits(u) # {} => Due(u) <= Cardinality(Coming(u))
  BY MbFacts DEF MbInv, MbCount
<1>14. IsFiniteSet(Coming(w)') /\ (Waits(w)' # {} => Due(w)' <= Cardinality(Coming(w)'))
  <2>1. CASE W = {}
    <3>1. Waits(w)' = {} /\ Coming(w)' = Coming(w) BY <1>3, <1>10, <2>1
    <3> QED BY <1>13, <3>1
  <2>2. CASE W # {}
    <3>1. PICK t : W = {t} BY <1>3, <2>2
    <3>2. t \in Waits(w) /\ t \notin Coming(w) BY <1>3, <3>1, MbFacts
    <3>3. PICK n \in Int, P \in {Coming(w)} : n = Due(w) BY <1>13
    <3>4. IsFiniteSet(P) /\ n <= Cardinality(P) /\ t \notin P BY <1>13, <3>2, <3>3
    <3>5. IsFiniteSet(P \cup {t}) /\ n + 1 <= Cardinality(P \cup {t}) BY <3>4, OneMore
    <3>6. Coming(w)' = P \cup {t} /\ Due(w)' = n + 1 BY <1>10, <3>1, <3>3 DEF Served
    <3> QED BY <3>5, <3>6
  <2> QED BY <2>1, <2>2
<1>15. IsFiniteSet(Coming(v)') /\ (Waits(v)' # {} => Due(v)' <= Cardinality(Coming(v)'))
  <2>1. PICK n \in Int, P \in {Coming(v)}, Q \in {Coming(v)'} : n = Due(v) BY <1>13
  <2>2. IsFiniteSet(P) /\ Q \subseteq P /\ P \subseteq Q \cup {c} BY <1>11, <1>13, <2>1
  <2>3. Due(v)' = n - 1 BY <1>1, <2>1 DEF Served
  <2>4. IsFiniteSet(Q) BY <2>2, FS_Subset
  <2>5. ASSUME Waits(v)' # {} PROVE n - 1 <= Cardinality(Q)
    <3>1. Waits(v) # {} BY <1>3, <2>5
    <3>2. n <= Cardinality(P) BY <1>13, <2>1, <3>1
    <3> QED BY <2>2, <3>2, OneLess
  <2> QED BY <2>1, <2>3, <2>4, <2>5
<1>16. MbCount' BY <1>1, <1>14, <1>15 DEF MbCount
<1> QED BY <1>2, <1>12, <1>16 DEF MbInv, Served, WokenAt

\* What a put and a get change.
PutOne == \E m \in Mail : mb.entry < Size /\ mb' = Put(m)
GetOne == mb.entry > 0 /\ mb' = Get

LEMMA DuesOK ==
  ASSUME MbInv
  PROVE  /\ PutOne => /\ mb' \in Ring /\ MbRing'
                      /\ Due("recv")' = Due("recv") + 1 /\ Due("send")' = Due("send") - 1
         /\ GetOne => /\ mb' \in Ring /\ MbRing'
                      /\ Due("recv")' = Due("recv") - 1 /\ Due("send")' = Due("send") + 1
<1>1. mb.entry \in 0 .. Size /\ Size \in Nat BY MbFacts
<1>2. ASSUME PutOne
      PROVE  mb' \in Ring /\ MbRing' /\ mb'.entry = mb.entry + 1
  BY <1>2, PutRing DEF PutOne
<1>3. ASSUME GetOne
      PROVE  mb' \in Ring /\ MbRing' /\ mb'.entry = mb.entry - 1
  BY <1>3, GetRing DEF GetOne
<1>4. Due("recv") = mb.entry /\ Due("recv")' = mb'.entry BY DEF Due
<1>5. Due("send") = Size - mb.entry /\ Due("send")' = Size - mb'.entry BY DEF Due
<1> QED BY <1>1, <1>2, <1>3, <1>4, <1>5

\* A thread puts or takes a mail.
LEMMA MbServeOK ==
  ASSUME MbInv, NEW c \in Thread, sys.cur = c, NEW w \in Sides,
         pc[c] \notin Sides, pc[c] \notin Places(w),
         IF w = "recv" THEN PutOne ELSE GetOne,
         WakeFirst(c, w), UNCHANGED <<value, time>>
  PROVE  MbInv'
<1>1. sys.cur # NoThread /\ sys.stat[c] = "READY" /\ \A v \in Sides : c \notin Waits(v)
  BY MbCaller
<1>2. PICK k : k = rt_ipc_list_resume(sys, w) OBVIOUS
<1>3. /\ IF sys.wait[w] # <<>> THEN sys' = k ELSE sys' = sys
      /\ Goto(c, "run") \/ Goto(c, "give")
  BY <1>2 DEF WakeFirst
<1>4. /\ WokenAt(w)
      /\ sys'.cur = sys.cur \/ (sys'.cur # NoThread /\ sys'.stat[sys'.cur] = "READY")
  BY <1>2, <1>3, WokenAtOK
<1>5. PICK l \in {"run", "give"} : Goto(c, l) BY <1>3
<1>6. pc'[c] = l /\ (\A t \in Thread \ {c} : pc'[t] = pc[t]) /\ pc' \in [Thread -> PC]
  <2>1. l \in PC BY DEF PC
  <2> QED BY <1>5, <2>1, MbGoto
<1>7. sys'.stat[c] = "READY"
  <2>1. CASE sys'.stat = sys.stat BY <1>1, <2>1
  <2>2. ASSUME NEW t \in Waits(w), sys'.stat = [sys.stat EXCEPT ![t] = "READY"]
        PROVE  sys'.stat[c] = "READY"
    BY <1>1, <2>2, MbFacts
  <2> QED BY <1>4, <2>1, <2>2 DEF WokenAt
<1>8. MbCurrent' BY <1>1, <1>4, <1>7 DEF MbCurrent
<1>9. /\ mb' \in Ring /\ MbRing' /\ Due(w)' = Due(w) + 1
      /\ Due(Opposite(w))' = Due(Opposite(w)) - 1
  BY DuesOK DEF Sides, Opposite
<1>10. Served(c, w) BY <1>1, <1>4, <1>5, <1>6, <1>8, <1>9, MbFacts DEF Served
<1> QED BY <1>10, ServedOK

\* rt_mb_send from a handler.
LEMMA MbInterruptOK ==
  ASSUME MbInv, NEW v \in Mail, SendFromInterrupt(v)
  PROVE  MbInv' /\ PutOne
<1>1. PICK k : k = rt_ipc_list_resume(sys, "recv") OBVIOUS
<1>2. /\ sys.cur # NoThread /\ mb.entry < Size /\ mb' = Put(v) /\ UNCHANGED <<pc, value, time>>
      /\ IF sys.wait["recv"] # <<>> THEN sys' = rt_schedule(k) ELSE sys' = sys
  BY <1>1 DEF SendFromInterrupt
<1>3. PutOne BY <1>2 DEF PutOne
<1>4. "recv" \in Sides /\ Opposite("recv") = "send" BY DEF Sides, Opposite
<1>5. /\ WokenAt("recv")
      /\ sys'.cur = sys.cur \/ (sys'.cur # NoThread /\ sys'.stat[sys'.cur] = "READY")
  BY <1>1, <1>2, <1>4, WokenAtOK
<1>6. sys.cur \in Thread BY <1>2, MbFacts DEF Base
<1>7. MbCurrent'
  <2>1. CASE sys'.cur # NoThread /\ sys'.stat[sys'.cur] = "READY" BY <2>1 DEF MbCurrent
  <2>2. CASE sys'.cur = sys.cur
    <3>1. sys'.stat[sys.cur] = sys.stat[sys.cur] \/ sys'.stat[sys.cur] = "READY"
      <4>1. CASE sys'.stat = sys.stat BY <4>1
      <4>2. ASSUME NEW t \in Waits("recv"), sys'.stat = [sys.stat EXCEPT ![t] = "READY"]
            PROVE  sys'.stat[sys.cur] = sys.stat[sys.cur] \/ sys'.stat[sys.cur] = "READY"
        BY <1>6, <4>2, MbFacts
      <4> QED BY <1>5, <4>1, <4>2 DEF WokenAt
    <3> QED BY <1>2, <2>2, <3>1 DEF MbInv, MbCurrent
  <2> QED BY <1>5, <2>1, <2>2
<1>8. /\ mb' \in Ring /\ MbRing' /\ Due("recv")' = Due("recv") + 1
      /\ Due("send")' = Due("send") - 1
  BY <1>3, DuesOK
<1>9. PICK c : c = sys.cur OBVIOUS
<1>10. Served(c, "recv") BY <1>2, <1>4, <1>5, <1>7, <1>8, <1>9, MbFacts DEF Served
<1> QED BY <1>3, <1>4, <1>6, <1>9, <1>10, ServedOK

\* The reset: nobody waits any more, and no mail is there.
LEMMA MbControlOK ==
  ASSUME MbInv, NEW c \in Thread, rt_mb_control(c)
  PROVE  MbInv' /\ mb'.entry = 0
<1>1. /\ sys.cur = c /\ pc[c] = "run" /\ Goto(c, "give") /\ UNCHANGED <<value, time>>
      /\ sys' = ResumeAll(ResumeAll(sys, "recv"), "send")
      /\ mb' = [mb EXCEPT !.in = 0, !.out = 0, !.entry = 0]
  BY DEF rt_mb_control, Running, At
<1>2. pc[c] \notin Sides BY <1>1 DEF Sides
<1>3. sys.cur # NoThread /\ sys.stat[c] = "READY" /\ \A w \in Sides : c \notin Waits(w)
  BY <1>1, <1>2, MbCaller
<1>4. PICK k : k = ResumeAll(sys, "recv") OBVIOUS
<1>5. PICK k2 : k2 = sys' OBVIOUS
<1>6. "recv" \in WaitList /\ "send" \in WaitList /\ "recv" \in Sides /\ "send" \in Sides
  BY MbFacts DEF Sides
<1>7. AllWoken(sys, k, Waits("recv")) BY <1>4, <1>6, MbFacts, ResumeAllBase DEF Waits
<1>8. AllWoken(k, k2, ToSet(k.wait["send"]))
  <2>1. Base(k) /\ k2 = ResumeAll(k, "send") BY <1>1, <1>4, <1>5, <1>7 DEF AllWoken
  <2> QED BY <1>6, <2>1, ResumeAllBase
<1>9. PICK W : W = Waits("recv") \cup ToSet(k.wait["send"]) OBVIOUS
<1>10. /\ Base(sys') /\ sys'.cur = sys.cur /\ (\A w \in Sides : Waits(w)' = {})
       /\ \A t \in Thread : /\ sys'.stat[t] = IF t \in W THEN "READY" ELSE sys.stat[t]
                            /\ sys'.error[t] = IF t \in W THEN "ERROR" ELSE sys.error[t]
  <2>1. /\ k2.stat = [t \in Thread |-> IF t \in ToSet(k.wait["send"]) THEN "READY" ELSE k.stat[t]]
        /\ k2.error = [t \in Thread |-> IF t \in ToSet(k.wait["send"]) THEN "ERROR" ELSE k.error[t]]
        /\ Base(k2) /\ k2.cur = k.cur
        /\ ToSet(k2.wait["send"]) = {} /\ ToSet(k2.wait["recv"]) \subseteq ToSet(k.wait["recv"])
    BY <1>6, <1>8 DEF AllWoken
  <2>2. /\ k.stat = [t \in Thread |-> IF t \in Waits("recv") THEN "READY" ELSE sys.stat[t]]
        /\ k.error = [t \in Thread |-> IF t \in Waits("recv") THEN "ERROR" ELSE sys.error[t]]
        /\ k.cur = sys.cur /\ ToSet(k.wait["recv"]) = {}
    BY <1>6, <1>7 DEF AllWoken, Waits
  <2>3. \A w \in Sides : Waits(w)' = {} BY <1>5, <2>1, <2>2 DEF Waits, Sides
  <2>4. ASSUME NEW t \in Thread
        PROVE  /\ sys'.stat[t] = IF t \in W THEN "READY" ELSE sys.stat[t]
               /\ sys'.error[t] = IF t \in W THEN "ERROR" ELSE sys.error[t]
    BY <1>5, <1>9, <2>1, <2>2
  <2> QED BY <1>5, <2>1, <2>2, <2>3, <2>4
<1>11. pc'[c] = "give" /\ (\A t \in Thread \ {c} : pc'[t] = pc[t]) /\ pc' \in [Thread -> PC]
  <2>1. "give" \in PC BY DEF PC
  <2> QED BY <1>1, <2>1, MbGoto
<1>12. W \cap Thread \subseteq Waits("recv") \cup Waits("send")
  <2>1. ToSet(k.wait["send"]) \subseteq Waits("send") BY <1>6, <1>7 DEF AllWoken, Waits
  <2> QED BY <1>9, <2>1
<1>13. MbCurrent' BY <1>1, <1>3, <1>10 DEF MbCurrent
<1>14. MbWaits' BY <1>10 DEF MbWaits
<1>15. /\ mb' \in Ring /\ mb'.entry = 0 /\ mb'.in = 0 /\ mb'.out = 0
  <2>1. mb \in Ring /\ Size \in Nat /\ Size > 0 BY MbTyped, MbFacts
  <2>2. 0 \in 0 .. Size - 1 /\ 0 \in 0 .. Size BY <2>1
  <2> QED BY <1>1, <2>1, <2>2 DEF Ring
<1>16. MbRing'
  <2>1. 0 % Size = 0 BY MbFacts
  <2> QED BY <1>15, <2>1 DEF MbRing
<1>17. TypeOK' BY <1>1, <1>10, <1>11, <1>15, MbFacts, MbTypes
<1>18. ASSUME NEW w \in Sides PROVE IsFiniteSet(Coming(w)')
  <2>1. Coming(w)' = {t \in Thread : pc'[t] \in Places(w)
                        /\ sys'.stat[t] = "READY" /\ sys'.error[t] = "EOK"}
    BY DEF Coming, Pending, Places
  <2>2. pc'[c] \notin Places(w) BY <1>11 DEF Places
  <2>3. Coming(w)' \subseteq Coming(w)
    BY <1>10, <1>11, <2>1, <2>2 DEF Coming, Pending
  <2> QED BY <2>3, MbFacts, FS_Subset
<1>19. MbCount' BY <1>10, <1>18 DEF MbCount
<1> QED BY <1>10, <1>13, <1>14, <1>15, <1>16, <1>17, <1>19 DEF MbInv

-----------------------------------------------------------------------------
(* Every step *)

MbStep == mb' = mb \/ PutOne \/ GetOne \/ mb'.entry = 0

LEMMA MbInitOK == Init => MbInv
<1> SUFFICES ASSUME Init PROVE MbInv OBVIOUS
<1>1. /\ sys = KernelInit /\ pc = [t \in Thread |-> "run"]
      /\ time = [t \in Thread |-> "none"]
      /\ Size \in Nat /\ Size > 0 /\ {"recv", "send"} \subseteq WaitList
  BY MailboxAssumption DEF Init
<1>2. PICK m \in Mail :
        /\ mb = [pool |-> [i \in 0 .. Size - 1 |-> m], in |-> 0, out |-> 0, entry |-> 0]
        /\ value = [t \in Thread |-> m]
  BY DEF Init
<1>3. /\ Base(sys) /\ sys.cur = NoThread
      /\ \A w \in Sides : Waits(w) = {}
  BY <1>1, KernelInitSound DEF Base, Waits, Sides
<1>4. 0 \in 0 .. Size - 1 /\ 0 \in 0 .. Size /\ 0 % Size = 0 BY <1>1
<1>5. TypeOK BY <1>1, <1>2, <1>3, <1>4 DEF TypeOK, Base, Sound, PC
<1>6. MbCurrent BY <1>1, <1>3 DEF MbCurrent
<1>7. MbWaits BY <1>3 DEF MbWaits
<1>8. \A w \in Sides : Coming(w) = {} BY <1>1 DEF Coming, Pending, Places
<1>9. IsFiniteSet({}) BY FS_EmptySet
<1>10. MbCount BY <1>3, <1>8, <1>9 DEF MbCount
<1>11. MbRing BY <1>2, <1>4 DEF MbRing
<1> QED BY <1>3, <1>5, <1>6, <1>7, <1>10, <1>11 DEF MbInv

\* rt_mb_send_wait, from its first instruction or after a wait.
LEMMA MbSendOK ==
  ASSUME MbInv, NEW c \in Thread \ {Idle}, sys.cur = c, pc[c] \in {"run", "sback"},
         pc[c] = "sback" => sys.error[c] = "EOK",
         NEW v \in Mail, NEW tm \in {"none", "timed", "forever"},
         \/ PutMail(c, v)
         \/ mb.entry = Size /\ \E e \in Error : Refuse(c, e)
         \/ /\ mb.entry = Size /\ Block(c, "send", "send", tm) /\ mb' = mb
            /\ value' \in [Thread -> Mail]
  PROVE  MbInv' /\ MbStep
<1>1. /\ pc[c] \notin Sides /\ pc[c] \notin Places("recv") /\ "recv" \in Sides /\ "send" \in Sides
      /\ "send" \in Places("send") /\ (pc[c] = "run" \/ pc[c] \in Places("send"))
  BY DEF Sides, Places
<1>2. CASE PutMail(c, v)
  <2>1. PutOne /\ WakeFirst(c, "recv") /\ UNCHANGED <<value, time>>
    BY <1>2 DEF PutMail, PutOne
  <2>2. MbInv' BY <1>1, <2>1, MbServeOK
  <2> QED BY <2>1, <2>2 DEF MbStep
<1>3. ASSUME mb.entry = Size, NEW e \in Error, Refuse(c, e) PROVE MbInv' /\ MbStep
  <2>1. c \notin Coming("recv") BY <1>1 DEF Coming, Pending
  <2>2. Due("send") = 0 BY <1>3, MbFacts DEF Due
  <2>3. \A w \in Sides : c \in Coming(w) => Due(w) = 0 BY <2>1, <2>2 DEF Sides
  <2>4. MbInv' /\ mb' = mb BY <1>1, <1>3, <2>3, MbRefuseOK
  <2> QED BY <2>4 DEF MbStep
<1>4. CASE /\ mb.entry = Size /\ Block(c, "send", "send", tm) /\ mb' = mb
           /\ value' \in [Thread -> Mail]
  <2>1. Due("send") = 0 BY <1>4, MbFacts DEF Due
  <2>2. MbInv' BY <1>1, <1>4, <2>1, MbBlockOK
  <2> QED BY <1>4, <2>2 DEF MbStep
<1> QED BY <1>2, <1>3, <1>4

\* rt_mb_recv, from its first instruction or after a wait.
LEMMA MbRecvOK ==
  ASSUME MbInv, NEW c \in Thread \ {Idle}, sys.cur = c, pc[c] \in {"run", "rback"},
         NEW tm \in {"none", "timed", "forever"},
         \/ GetMail(c)
         \/ mb.entry = 0 /\ \E e \in Error : Refuse(c, e)
         \/ mb.entry = 0 /\ Block(c, "recv", "recv", tm) /\ UNCHANGED <<mb, value>>
  PROVE  MbInv' /\ MbStep
<1>1. /\ pc[c] \notin Sides /\ pc[c] \notin Places("send") /\ "recv" \in Sides /\ "send" \in Sides
      /\ "recv" \in Places("recv") /\ (pc[c] = "run" \/ pc[c] \in Places("recv"))
      /\ "send" # "recv"
  BY DEF Sides, Places
<1>2. CASE GetMail(c)
  <2>1. GetOne /\ WakeFirst(c, "send") /\ UNCHANGED <<value, time>>
    BY <1>2 DEF GetMail, GetOne
  <2>2. MbInv' BY <1>1, <2>1, MbServeOK
  <2> QED BY <2>1, <2>2 DEF MbStep
<1>3. ASSUME mb.entry = 0, NEW e \in Error, Refuse(c, e) PROVE MbInv' /\ MbStep
  <2>1. c \notin Coming("send") BY <1>1 DEF Coming, Pending
  <2>2. Due("recv") = 0 BY <1>3 DEF Due
  <2>3. \A w \in Sides : c \in Coming(w) => Due(w) = 0 BY <2>1, <2>2 DEF Sides
  <2>4. MbInv' /\ mb' = mb BY <1>1, <1>3, <2>3, MbRefuseOK
  <2> QED BY <2>4 DEF MbStep
<1>4. CASE mb.entry = 0 /\ Block(c, "recv", "recv", tm) /\ UNCHANGED <<mb, value>>
  <2>1. Due("recv") = 0 BY <1>4 DEF Due
  <2>2. value' \in [Thread -> Mail] BY <1>4, MbFacts
  <2>3. MbInv' BY <1>1, <1>4, <2>1, <2>2, MbBlockOK
  <2> QED BY <1>4, <2>3 DEF MbStep
<1> QED BY <1>2, <1>3, <1>4

\* A woken thread that was not woken for a mail or a slot gives up.
LEMMA MbGiveUpOK ==
  ASSUME MbInv, NEW c \in Thread, sys.cur = c, pc[c] \notin Sides,
         sys.error[c] # "EOK", Refuse(c, sys.error[c])
  PROVE  MbInv' /\ MbStep
<1>1. \A w \in Sides : c \notin Coming(w) BY DEF Coming, Pending
<1>2. PICK e \in Error : e = sys.error[c] BY MbFacts
<1>3. Refuse(c, e) BY <1>2
<1>4. MbInv' /\ mb' = mb BY <1>1, <1>3, MbRefuseOK
<1> QED BY <1>4 DEF MbStep

\* The timeout that a wait was started with.
LEMMA MbLeft ==
  ASSUME MbInv, NEW c \in Thread
  PROVE  Left(c) \subseteq {"none", "timed", "forever"}
BY MbFacts DEF Left

LEMMA MbCallOK ==
  ASSUME MbInv, NEW c \in Thread \ {Idle}, Call(c)
  PROVE  MbInv' /\ MbStep
<1>1. sys.error[c] \in Error /\ "EOK" \in Error /\ "ETIMEOUT" \in Error /\ value[c] \in Mail
      /\ WaitTime \subseteq {"none", "timed", "forever"}
  BY MbFacts, Errors, MailboxAssumption
<1>2. ASSUME NEW tm \in WaitTime, rt_mb_recv(c, tm) PROVE MbInv' /\ MbStep
  <2>1. /\ sys.cur = c /\ pc[c] = "run"
        /\ \/ GetMail(c)
           \/ mb.entry = 0 /\ \E e \in Error : Refuse(c, e)
           \/ mb.entry = 0 /\ Block(c, "recv", "recv", tm) /\ UNCHANGED <<mb, value>>
    BY <1>1, <1>2 DEF rt_mb_recv, Running, At
  <2>2. tm \in {"none", "timed", "forever"} BY <1>1
  <2> QED BY <2>1, <2>2, MbRecvOK
<1>3. ASSUME NEW tm \in WaitTime, NEW v \in Mail, rt_mb_send_wait(c, v, tm)
      PROVE  MbInv' /\ MbStep
  <2>1. [value EXCEPT ![c] = v] \in [Thread -> Mail] BY MbFacts
  <2>2. /\ sys.cur = c /\ pc[c] = "run"
        /\ \/ PutMail(c, v)
           \/ mb.entry = Size /\ \E e \in Error : Refuse(c, e)
           \/ /\ mb.entry = Size /\ Block(c, "send", "send", tm) /\ mb' = mb
              /\ value' \in [Thread -> Mail]
    BY <1>1, <1>3, <2>1 DEF rt_mb_send_wait, Running, At
  <2>3. tm \in {"none", "timed", "forever"} BY <1>1
  <2> QED BY <2>2, <2>3, MbSendOK
<1>4. CASE SendAgain(c)
  <2>1. sys.cur = c /\ pc[c] = "sback" /\ pc[c] \notin Sides BY <1>4 DEF SendAgain, At, Sides
  <2>2. CASE sys.error[c] # "EOK" /\ Refuse(c, sys.error[c])
    BY <2>1, <2>2, MbGiveUpOK
  <2>3. CASE sys.error[c] = "EOK" /\ PutMail(c, value[c])
    <3>1. PICK v \in Mail, tm \in {"none", "timed", "forever"} : v = value[c] BY <1>1
    <3>2. PutMail(c, v) BY <2>3, <3>1
    <3> QED BY <2>1, <2>3, <3>2, MbSendOK
  <2>4. ASSUME sys.error[c] = "EOK", NEW tm \in Left(c),
               \/ mb.entry = Size /\ tm = "none" /\ Refuse(c, "EOK")
               \/ /\ mb.entry = Size /\ tm # "none"
                  /\ Block(c, "send", "send", tm)
                  /\ UNCHANGED <<mb, value>>
        PROVE  MbInv' /\ MbStep
    <3>1. PICK v \in Mail : v = value[c] BY <1>1
    <3>2. tm \in {"none", "timed", "forever"} BY MbLeft
    <3>3. UNCHANGED value => value' \in [Thread -> Mail] BY MbFacts
    <3>4. \/ mb.entry = Size /\ \E e \in Error : Refuse(c, e)
          \/ /\ mb.entry = Size /\ Block(c, "send", "send", tm) /\ mb' = mb
             /\ value' \in [Thread -> Mail]
      BY <1>1, <2>4, <3>3
    <3> QED BY <2>1, <2>4, <3>2, <3>4, MbSendOK
  <2> QED BY <1>4, <2>2, <2>3, <2>4 DEF SendAgain
<1>5. CASE RecvAgain(c)
  <2>1. sys.cur = c /\ pc[c] = "rback" /\ pc[c] \notin Sides BY <1>5 DEF RecvAgain, At, Sides
  <2>2. CASE sys.error[c] # "EOK" /\ Refuse(c, sys.error[c])
    BY <2>1, <2>2, MbGiveUpOK
  <2>3. CASE sys.error[c] = "EOK" /\ GetMail(c)
    <3>1. PICK tm \in {"none", "timed", "forever"} : TRUE OBVIOUS
    <3> QED BY <2>1, <2>3, <3>1, MbRecvOK
  <2>4. ASSUME sys.error[c] = "EOK", NEW tm \in Left(c),
               \/ mb.entry = 0 /\ tm = "none" /\ Refuse(c, "ETIMEOUT")
               \/ /\ mb.entry = 0 /\ tm # "none"
                  /\ Block(c, "recv", "recv", tm)
                  /\ UNCHANGED <<mb, value>>
        PROVE  MbInv' /\ MbStep
    <3>1. tm \in {"none", "timed", "forever"} BY MbLeft
    <3>2. \/ mb.entry = 0 /\ \E e \in Error : Refuse(c, e)
          \/ mb.entry = 0 /\ Block(c, "recv", "recv", tm) /\ UNCHANGED <<mb, value>>
      BY <1>1, <2>4
    <3> QED BY <2>1, <3>1, <3>2, MbRecvOK
  <2> QED BY <1>5, <2>2, <2>3, <2>4 DEF RecvAgain
<1>6. CASE MbSchedule(c) BY <1>6, MbScheduleOK DEF MbStep
<1>7. CASE rt_mb_control(c) BY <1>7, MbControlOK DEF MbStep
<1> QED BY <1>2, <1>3, <1>4, <1>5, <1>6, <1>7 DEF Call, Continue

LEMMA MbNextOK == MbInv /\ [Next]_vars => MbInv' /\ MbStep
<1> SUFFICES ASSUME MbInv, [Next]_vars PROVE MbInv' /\ MbStep OBVIOUS
<1>1. CASE UNCHANGED vars
  <2>1. /\ sys' = sys /\ pc' = pc /\ mb' = mb /\ value' = value /\ time' = time
    BY <1>1 DEF vars
  <2>2. \A w \in Sides : Waits(w)' = Waits(w) /\ Coming(w)' = Coming(w)
    BY <2>1 DEF Waits, Coming, Pending
  <2>3. MbCurrent' /\ MbWaits' BY <2>1, <2>2 DEF MbInv, MbCurrent, MbWaits
  <2>4. \A w \in Sides : QuietSide(w) BY <2>2 DEF QuietSide
  <2>5. Quiet BY <2>1, <2>3, <2>4, MbFacts DEF Quiet
  <2> QED BY <2>1, <2>5, QuietOK DEF MbStep
<1>2. CASE Boot /\ UNCHANGED <<mb, value, time>> BY <1>2, MbBootOK DEF MbStep
<1>3. CASE Clock BY <1>3, MbTickOK DEF Clock, MbStep
<1>4. CASE \E v \in Mail : SendFromInterrupt(v) BY <1>4, MbInterruptOK DEF MbStep
<1>5. CASE \E c \in Thread \ {Idle} : Call(c) BY <1>5, MbCallOK
<1> QED BY <1>1, <1>2, <1>3, <1>4, <1>5 DEF Next

\* For all threads, priorities, mails and sizes of the ring and both orders of
\* the waiting lists: no mail or free slot is left to a waiting thread without
\* a woken thread on its way to it.
THEOREM MailNotOverslept == Spec => []NoLostWakeup
<1>1. MbInv => NoLostWakeup
  <2> SUFFICES ASSUME MbInv PROVE NoLostWakeup OBVIOUS
  <2>1. \A w \in Sides : sys.wait[w] # <<>> => Due(w) <= Cardinality(Pending(Places(w)))
    BY MbFacts DEF MbInv, MbCount, Coming
  <2> QED BY <2>1 DEF NoLostWakeup, Sides, Due, Places
<1> QED BY <1>1, MbInitOK, MbNextOK, PTL DEF Spec

\* For all of them: a mailbox is a bounded first-in first-out queue.
THEOREM MailInOrder == Spec => FirstInFirstOut
<1>1. Init => Queue!Init
  <2> SUFFICES ASSUME Init PROVE Mails = <<>> BY DEF Queue!Init, Mails
  <2>1. mb.entry = 0 BY DEF Init
  <2> QED BY <2>1 DEF Mails
<1>2. MbInv /\ [Next]_vars => [Queue!Next]_Mails
  <2> SUFFICES ASSUME MbInv, MbStep PROVE [Queue!Next]_Mails BY MbNextOK
  <2>1. mb.entry \in 0 .. Size /\ Len(Mails) = mb.entry BY MbFacts DEF Mails
  <2>2. CASE mb' = mb BY <2>2 DEF Mails
  <2>3. CASE PutOne
    <3>1. PICK m \in Mail : Mails' = Append(Mails, m) /\ mb.entry < Size
      BY <2>3, PutRing DEF PutOne
    <3>2. Queue!Put BY <2>1, <3>1 DEF Queue!Put, Mails
    <3> QED BY <3>2 DEF Queue!Next
  <2>4. CASE GetOne
    <3>1. Mails # <<>> /\ Mails' = Tail(Mails) BY <2>4, GetRing DEF GetOne
    <3>2. Queue!Get BY <3>1 DEF Queue!Get, Mails
    <3> QED BY <3>2 DEF Queue!Next
  <2>5. CASE mb'.entry = 0
    <3>1. Mails' = <<>> BY <2>5 DEF Mails
    <3>2. Queue!Reset BY <3>1 DEF Queue!Reset, Mails
    <3> QED BY <3>2 DEF Queue!Next
  <2> QED BY <2>2, <2>3, <2>4, <2>5 DEF MbStep
<1>3. MbInv /\ [Next]_vars => MbInv' BY MbNextOK
<1> QED BY <1>1, <1>2, <1>3, MbInitOK, PTL DEF Spec, FirstInFirstOut, Queue!Spec, Mails

(***************************************************************************)
(* MessageQueue                                                            *)
(***************************************************************************)

-----------------------------------------------------------------------------
(* Linked slots *)

\* The slots of s, linked from h to a Null.
Listed(next, h, s) ==
  /\ s \in Seq(Slot) /\ NoDup(s)
  /\ h = IF s = <<>> THEN Null ELSE s[1]
  /\ \A i \in 1 .. Len(s) : next[s[i]] = IF i = Len(s) THEN Null ELSE s[i + 1]

LEMMA SlotFacts == MaxMsgs \in Nat /\ MaxMsgs > 0 /\ Null \notin Slot /\ Link = Slot \cup {Null}
                   /\ Slot \subseteq Nat
BY MessageQueueAssumption DEF Slot, Null, Link

\* Only the links of its own slots matter to a list.
LEMMA ListedFrame ==
  ASSUME NEW next, NEW h, NEW s, Listed(next, h, s), NEW new, \A x \in ToSet(s) : new[x] = next[x]
  PROVE  Listed(new, h, s)
<1>1. s \in Seq(Slot) BY DEF Listed
<1>2. \A i \in 1 .. Len(s) : s[i] \in ToSet(s) BY <1>1, InToSet
<1> QED BY <1>2 DEF Listed

\* The first slot leaves the list.
LEMMA ListedTail ==
  ASSUME NEW next, NEW h, NEW s, Listed(next, h, s), h # Null
  PROVE  /\ s # <<>> /\ h \in Slot /\ h \in ToSet(s) /\ h = s[1]
         /\ Listed(next, next[h], Tail(s)) /\ ToSet(Tail(s)) = ToSet(s) \ {h}
         /\ Len(Tail(s)) = Len(s) - 1 /\ Len(s) \in Nat /\ Len(s) > 0
         /\ \A i \in 1 .. Len(s) - 1 : Tail(s)[i] = s[i + 1]
<1>1. s \in Seq(Slot) /\ NoDup(s) /\ s # <<>> /\ h = s[1] BY DEF Listed
<1>2. PICK n \in Nat : n = Len(s) /\ n > 0 /\ 1 \in 1 .. n BY <1>1
<1>3. PICK r : r = Tail(s) OBVIOUS
<1>4. r \in Seq(Slot) /\ Len(r) = n - 1 /\ \A i \in 1 .. n - 1 : r[i] = s[i + 1] BY <1>1, <1>2, <1>3
<1>5. \A i, j \in 1 .. n : s[i] = s[j] => i = j BY <1>1, <1>2, NoDupByIndex
<1>6. NoDup(r)
  <2>1. \A i, j \in 1 .. n - 1 : r[i] = r[j] => i = j BY <1>2, <1>4, <1>5
  <2> QED BY <1>4, <2>1, NoDupByIndex
<1>7. \A x : x \in ToSet(s) <=> \E i \in 1 .. n : x = s[i] BY <1>1, <1>2, InToSet
<1>8. \A x : x \in ToSet(r) <=> \E i \in 1 .. n - 1 : x = r[i] BY <1>4, InToSet
<1>9. ASSUME NEW x PROVE x \in ToSet(r) <=> x \in ToSet(s) \ {h}
  <2>1. ASSUME NEW i \in 1 .. n - 1, x = r[i] PROVE x \in ToSet(s) \ {h}
    <3>1. i + 1 \in 1 .. n /\ i + 1 # 1 BY <1>2
    <3> QED BY <1>1, <1>2, <1>4, <1>5, <1>7, <2>1, <3>1
  <2>2. ASSUME NEW i \in 1 .. n, x = s[i], x # h PROVE x \in ToSet(r)
    <3>1. i # 1 BY <1>1, <2>2
    <3>2. i - 1 \in 1 .. n - 1 /\ (i - 1) + 1 = i BY <1>2, <3>1
    <3> QED BY <1>4, <1>8, <2>2, <3>2
  <2> QED BY <1>7, <1>8, <2>1, <2>2
<1>10. ToSet(r) = ToSet(s) \ {h} BY <1>9
<1>11. \A i \in 1 .. n : next[s[i]] = IF i = n THEN Null ELSE s[i + 1] BY <1>2 DEF Listed
<1>12. r = <<>> <=> n = 1 BY <1>2, <1>4
<1>13. next[h] = IF r = <<>> THEN Null ELSE r[1]
  <2>1. next[h] = IF n = 1 THEN Null ELSE s[2] BY <1>1, <1>2, <1>11
  <2>2. n # 1 => 1 \in 1 .. n - 1 BY <1>2
  <2> QED BY <1>4, <1>12, <2>1, <2>2
<1>14. ASSUME NEW i \in 1 .. n - 1 PROVE next[r[i]] = IF i = n - 1 THEN Null ELSE r[i + 1]
  <2>1. i + 1 \in 1 .. n BY <1>2
  <2>2. next[s[i + 1]] = IF i + 1 = n THEN Null ELSE s[(i + 1) + 1] BY <1>11, <2>1
  <2>3. i # n - 1 => i + 1 \in 1 .. n - 1 BY <1>2
  <2> QED BY <1>2, <1>4, <2>2, <2>3
<1>15. Listed(next, next[h], r) BY <1>4, <1>6, <1>13, <1>14 DEF Listed
<1>16. h \in Slot /\ h \in ToSet(s) BY <1>1, <1>2, <1>7
<1> QED BY <1>1, <1>2, <1>3, <1>4, <1>10, <1>15, <1>16

\* A slot is linked before the first.
LEMMA ListedPrepend ==
  ASSUME NEW next \in [Slot -> Link], NEW h, NEW s, Listed(next, h, s),
         NEW x \in Slot, x \notin ToSet(s), NEW new, new = [next EXCEPT ![x] = h]
  PROVE  /\ Listed(new, x, <<x>> \o s) /\ ToSet(<<x>> \o s) = ToSet(s) \cup {x}
         /\ Len(<<x>> \o s) = Len(s) + 1 /\ <<x>> \o s # <<>>
         /\ (<<x>> \o s)[1] = x /\ \A i \in 1 .. Len(s) : (<<x>> \o s)[i + 1] = s[i]
<1>1. s \in Seq(Slot) /\ NoDup(s) BY DEF Listed
<1>2. PICK r : r = <<x>> \o s OBVIOUS
<1>3. PICK n \in Nat : n = Len(s) BY <1>1
<1>4. /\ r \in Seq(Slot) /\ NoDup(r) /\ ToSet(r) = ToSet(s) \cup {x} /\ r # <<>>
  BY <1>1, <1>2, PrependList
<1>5. Len(r) = n + 1 /\ r[1] = x /\ \A i \in 1 .. n : r[i + 1] = s[i] BY <1>1, <1>2, <1>3
<1>6. new[x] = h /\ \A y \in ToSet(s) : new[y] = next[y]
  <2>1. ToSet(s) \subseteq Slot BY <1>1, EmptyList
  <2> QED BY <2>1
<1>7. \A i \in 1 .. n : s[i] \in ToSet(s) BY <1>1, <1>3, InToSet
<1>8. \A i \in 1 .. n : next[s[i]] = IF i = n THEN Null ELSE s[i + 1] BY <1>3 DEF Listed
<1>9. s = <<>> <=> n = 0 BY <1>1, <1>3
<1>10. ASSUME NEW i \in 1 .. n + 1 PROVE new[r[i]] = IF i = n + 1 THEN Null ELSE r[i + 1]
  <2>1. CASE i = 1
    <3>1. new[r[i]] = h BY <1>5, <1>6, <2>1
    <3>2. n # 0 => 1 \in 1 .. n /\ i # n + 1 /\ i + 1 = 1 + 1 BY <2>1
    <3>3. n # 0 => r[1 + 1] = s[1] BY <1>5, <3>2
    <3>4. h = IF n = 0 THEN Null ELSE s[1] BY <1>9 DEF Listed
    <3> QED BY <2>1, <3>1, <3>2, <3>3, <3>4
  <2>2. CASE i # 1
    <3>1. PICK j \in 1 .. n : i = j + 1
      <4>1. i - 1 \in 1 .. n /\ i = (i - 1) + 1 BY <1>3, <2>2
      <4> QED BY <4>1
    <3>2. new[r[i]] = IF j = n THEN Null ELSE s[j + 1] BY <1>5, <1>6, <1>7, <1>8, <3>1
    <3>3. j # n => j + 1 \in 1 .. n BY <1>3
    <3>4. j # n => r[(j + 1) + 1] = s[j + 1] BY <1>5, <3>3
    <3> QED BY <1>3, <3>1, <3>2, <3>4
  <2> QED BY <2>1, <2>2
<1>11. Listed(new, x, r) BY <1>4, <1>5, <1>10 DEF Listed
<1> QED BY <1>2, <1>3, <1>4, <1>5, <1>11

\* A slot is linked behind the last.
LEMMA ListedAppend ==
  ASSUME NEW next \in [Slot -> Link], NEW h, NEW s, Listed(next, h, s),
         NEW x \in Slot, x \notin ToSet(s), NEW new,
         new = IF s = <<>> THEN [next EXCEPT ![x] = Null]
                           ELSE [next EXCEPT ![x] = Null, ![s[Len(s)]] = x]
  PROVE  /\ Listed(new, IF h = Null THEN x ELSE h, Append(s, x))
         /\ ToSet(Append(s, x)) = ToSet(s) \cup {x}
         /\ Len(Append(s, x)) = Len(s) + 1 /\ Append(s, x) # <<>>
         /\ Append(s, x)[Len(s) + 1] = x /\ \A i \in 1 .. Len(s) : Append(s, x)[i] = s[i]
         /\ \A y \in Slot \ (ToSet(s) \cup {x}) : new[y] = next[y]
<1>1. s \in Seq(Slot) /\ NoDup(s) BY DEF Listed
<1>2. PICK r : r = Append(s, x) OBVIOUS
<1>3. PICK n \in Nat : n = Len(s) BY <1>1
<1>4. r \in Seq(Slot) /\ NoDup(r) /\ ToSet(r) = ToSet(s) \cup {x} /\ r # <<>>
  BY <1>1, <1>2, AppendList
<1>5. Len(r) = n + 1 /\ r[n + 1] = x /\ \A i \in 1 .. n : r[i] = s[i] BY <1>1, <1>2, <1>3
<1>6. s = <<>> <=> n = 0 BY <1>1, <1>3
<1>7. \A i \in 1 .. n : s[i] \in Slot /\ s[i] # x /\ s[i] \in ToSet(s) BY <1>1, <1>3, InToSet
<1>8. \A i, j \in 1 .. n : s[i] = s[j] => i = j BY <1>1, <1>3, NoDupByIndex
<1>9. \A i \in 1 .. n : next[s[i]] = IF i = n THEN Null ELSE s[i + 1] BY <1>3 DEF Listed
<1>10. /\ new[x] = Null /\ (n # 0 => new[s[n]] = x)
       /\ \A y \in Slot : y # x /\ (n # 0 => y # s[n]) => new[y] = next[y]
  <2>1. CASE n = 0 BY <1>6, <2>1
  <2>2. CASE n # 0
    <3>1. n \in 1 .. n BY <2>2
    <3>2. new = [next EXCEPT ![x] = Null, ![s[n]] = x] BY <1>3, <1>6, <2>2
    <3> QED BY <1>7, <2>2, <3>1, <3>2
  <2> QED BY <2>1, <2>2
<1>11. ASSUME NEW i \in 1 .. n + 1 PROVE new[r[i]] = IF i = n + 1 THEN Null ELSE r[i + 1]
  <2>1. CASE i = n + 1 BY <1>5, <1>10, <2>1
  <2>2. CASE i = n
    <3>1. i \in 1 .. n /\ n # 0 /\ i # n + 1 BY <2>2
    <3> QED BY <1>5, <1>10, <2>2, <3>1
  <2>3. CASE i # n /\ i # n + 1
    <3>1. i \in 1 .. n /\ i + 1 \in 1 .. n /\ n \in 1 .. n BY <2>3
    <3>2. s[i] \in Slot /\ s[i] # x /\ s[i] # s[n] BY <1>7, <1>8, <2>3, <3>1
    <3>3. new[s[i]] = s[i + 1] BY <1>9, <1>10, <2>3, <3>1, <3>2
    <3> QED BY <1>5, <2>3, <3>1, <3>3
  <2> QED BY <2>1, <2>2, <2>3
<1>12. (IF h = Null THEN x ELSE h) = r[1]
  <2>1. CASE n = 0
    <3>1. h = Null BY <1>6, <2>1 DEF Listed
    <3> QED BY <1>5, <2>1, <3>1
  <2>2. CASE n # 0
    <3>1. h = s[1] /\ 1 \in 1 .. n BY <1>6, <2>2 DEF Listed
    <3>2. h # Null BY <1>7, <3>1, SlotFacts
    <3> QED BY <1>5, <3>1, <3>2
  <2> QED BY <2>1, <2>2
<1>13. Listed(new, IF h = Null THEN x ELSE h, r) BY <1>4, <1>5, <1>11, <1>12 DEF Listed
<1>14. \A y \in Slot \ (ToSet(s) \cup {x}) : new[y] = next[y]
  <2>1. n # 0 => s[n] \in ToSet(s)
    <3>1. n # 0 => n \in 1 .. n OBVIOUS
    <3> QED BY <1>7, <3>1
  <2> QED BY <1>10, <2>1
<1> QED BY <1>2, <1>3, <1>4, <1>5, <1>13, <1>14

\* Chain finds the slots of a list.
LEMMA ChainIs ==
  ASSUME NEW h, NEW s, Listed(mq.next, h, s), Len(s) <= MaxMsgs
  PROVE  Chain(h) = s
<1>1. PICK n \in Nat : n = Len(s) /\ n <= MaxMsgs /\ s \in Seq(Slot)
  BY DEF Listed
<1>2. MaxMsgs \in Nat BY SlotFacts
<1>3. \A i \in 1 .. n : s[i] # Null BY <1>1, SlotFacts
<1>4. \A i \in 1 .. n : mq.next[s[i]] = IF i = n THEN Null ELSE s[i + 1] BY <1>1 DEF Listed
<1>5. h = IF n = 0 THEN Null ELSE s[1]
  <2>1. s = <<>> <=> n = 0 BY <1>1
  <2> QED BY <2>1 DEF Listed
<1> DEFINE Turn(f, i) == IF i = 0 THEN h
                         ELSE IF f[i - 1] = Null THEN Null ELSE mq.next[f[i - 1]]
           w == CHOOSE f : f = [i \in 0 .. MaxMsgs |-> Turn(f, i)]
           v == [i \in 0 .. MaxMsgs |-> IF i < n THEN s[i + 1] ELSE Null]
<1>6. v = [i \in 0 .. MaxMsgs |-> Turn(v, i)]
  <2>1. ASSUME NEW i \in 0 .. MaxMsgs PROVE v[i] = Turn(v, i)
    <3>1. CASE i = 0 BY <1>2, <1>5, <3>1
    <3>2. CASE i # 0
      <4>1. i - 1 \in 0 .. MaxMsgs BY <1>2, <3>2
      <4>2. v[i - 1] = IF i - 1 < n THEN s[(i - 1) + 1] ELSE Null BY <4>1
      <4>3. (i - 1) + 1 = i /\ (i - 1 < n <=> i \in 1 .. n) /\ (i < n => i + 1 \in 1 .. n) BY <1>1, <3>2
      <4>4. v[i] = IF i < n THEN s[i + 1] ELSE Null OBVIOUS
      <4>5. CASE i \in 1 .. n
        <5>1. v[i - 1] = s[i] /\ s[i] # Null BY <1>3, <4>2, <4>3, <4>5
        <5>2. mq.next[s[i]] = IF i = n THEN Null ELSE s[i + 1] BY <1>4, <4>5
        <5>3. i < n <=> i # n BY <4>5
        <5> HIDE DEF v
        <5> QED BY <3>2, <4>4, <5>1, <5>2, <5>3
      <4>6. CASE i \notin 1 .. n
        <5>1. v[i - 1] = Null /\ ~(i < n) BY <1>1, <3>2, <4>2, <4>3, <4>6
        <5> HIDE DEF v
        <5> QED BY <3>2, <4>4, <5>1
      <4> QED BY <4>5, <4>6
    <3> QED BY <3>1, <3>2
  <2> HIDE DEF Turn
  <2> QED BY <2>1
<1>7. w = [i \in 0 .. MaxMsgs |-> Turn(w, i)] BY <1>6, Zenon
<1>8. \A i \in 0 .. MaxMsgs : w[i] = v[i]
  <2> DEFINE S == {i \in 0 .. MaxMsgs : w[i] = v[i]}
  <2> HIDE DEF w, v
  <2>1. 0 \in S BY <1>2, <1>6, <1>7
  <2>2. ASSUME NEW i \in 0 .. MaxMsgs - 1, i \in S PROVE i + 1 \in S
    <3>1. i + 1 \in 0 .. MaxMsgs /\ i + 1 # 0 /\ (i + 1) - 1 = i /\ w[i] = v[i] BY <1>2, <2>2
    <3>2. w[i + 1] = Turn(w, i + 1) /\ v[i + 1] = Turn(v, i + 1) BY <1>6, <1>7, <3>1
    <3> QED BY <3>1, <3>2
  <2> HIDE DEF S
  <2>3. \A i \in 0 .. MaxMsgs : i \in S BY <1>2, <2>1, <2>2, CountUp
  <2> QED BY <2>3 DEF S
<1>9. {i \in 0 .. MaxMsgs : w[i] # Null} = 0 .. n - 1
  <2>1. ASSUME NEW i \in 0 .. MaxMsgs PROVE w[i] # Null <=> i < n
    <3>1. w[i] = IF i < n THEN s[i + 1] ELSE Null BY <1>8
    <3>2. i < n => i + 1 \in 1 .. n BY <1>1
    <3> HIDE DEF w, v
    <3> QED BY <1>3, <3>1, <3>2
  <2> HIDE DEF w, v
  <2> QED BY <1>1, <1>2, <2>1
<1>10. Cardinality(0 .. n - 1) = n
  <2>1. 0 \in Int /\ n - 1 \in Int BY <1>1
  <2>2. Cardinality(0 .. n - 1) = IF 0 > n - 1 THEN 0 ELSE (n - 1) - 0 + 1 BY <2>1, FS_Interval
  <2> QED BY <1>1, <2>2
<1>11. Chain(h) = [i \in 1 .. n |-> w[i - 1]]
  <2>1. Chain(h) = [i \in 1 .. Cardinality({i \in 0 .. MaxMsgs : w[i] # Null}) |-> w[i - 1]]
    BY DEF Chain
  <2> HIDE DEF w
  <2> QED BY <1>9, <1>10, <2>1
<1>12. ASSUME NEW i \in 1 .. n PROVE w[i - 1] = s[i]
  <2>1. i - 1 \in 0 .. MaxMsgs /\ i - 1 < n /\ (i - 1) + 1 = i BY <1>1, <1>2
  <2>2. v[i - 1] = s[i] BY <2>1
  <2> HIDE DEF w, v
  <2> QED BY <1>8, <2>1, <2>2
<1>13. s = [i \in 1 .. n |-> s[i]] BY <1>1
<1> HIDE DEF w, v
<1> QED BY <1>11, <1>12, <1>13

-----------------------------------------------------------------------------
(* The pool *)

Pool == [head : Link, tail : Link, free : Link, entry : Int,
         next : [Slot -> Link], data : [Slot -> Message]]

\* The slots are divided among the queue q, the free list f and the callers'
\* set H.
Divided(m, H, q, f) ==
  /\ m \in Pool
  /\ Listed(m.next, m.head, q) /\ Listed(m.next, m.free, f)
  /\ m.tail = IF q = <<>> THEN Null ELSE q[Len(q)]
  /\ H \subseteq Slot /\ IsFiniteSet(H)
  /\ ToSet(q) \cap ToSet(f) = {} /\ H \cap ToSet(q) = {} /\ H \cap ToSet(f) = {}
  /\ ToSet(q) \cup ToSet(f) \cup H = Slot
  /\ Len(q) + Len(f) + Cardinality(H) = MaxMsgs

\* The messages of a queue.
Content(m, q) == [i \in 1 .. Len(q) |-> m.data[q[i]]]

LEMMA DividedFacts ==
  ASSUME NEW m, NEW H, NEW q, NEW f, Divided(m, H, q, f)
  PROVE  /\ q \in Seq(Slot) /\ f \in Seq(Slot) /\ Len(q) \in Nat /\ Len(f) \in Nat
         /\ Cardinality(H) \in Nat /\ Len(q) <= MaxMsgs /\ Len(f) <= MaxMsgs
         /\ ToSet(q) \subseteq Slot /\ ToSet(f) \subseteq Slot /\ MaxMsgs \in Nat
         /\ m.next \in [Slot -> Link] /\ m.data \in [Slot -> Message]
         /\ m.head \in Link /\ m.tail \in Link /\ m.free \in Link /\ m.entry \in Int
         /\ (m.head = Null <=> q = <<>>) /\ (m.free = Null <=> f = <<>>)
         /\ (q = <<>> <=> Len(q) = 0)
         /\ (m.head = m.tail <=> Len(q) <= 1)
<1>1. q \in Seq(Slot) /\ f \in Seq(Slot) /\ NoDup(q) BY DEF Divided, Listed
<1>2. Len(q) \in Nat /\ Len(f) \in Nat /\ Cardinality(H) \in Nat
  BY <1>1, FS_CardinalityType DEF Divided
<1>3. Len(q) <= MaxMsgs /\ Len(f) <= MaxMsgs /\ MaxMsgs \in Nat BY <1>2, SlotFacts DEF Divided
<1>4. ToSet(q) \subseteq Slot /\ ToSet(f) \subseteq Slot BY DEF Divided
<1>5. /\ m.next \in [Slot -> Link] /\ m.data \in [Slot -> Message]
      /\ m.head \in Link /\ m.tail \in Link /\ m.free \in Link /\ m.entry \in Int
  BY DEF Divided, Pool
<1>6. (q # <<>> => q[1] \in Slot) /\ (f # <<>> => f[1] \in Slot)
  BY <1>1
<1>7. (m.head = Null <=> q = <<>>) /\ (m.free = Null <=> f = <<>>)
  BY <1>6, SlotFacts, <1>1 DEF Divided, Listed
<1>8. q = <<>> <=> Len(q) = 0 BY <1>1
<1>9. m.head = m.tail <=> Len(q) <= 1
  <2>1. CASE q = <<>> BY <1>2, <1>8, <2>1 DEF Divided, Listed
  <2>2. CASE q # <<>>
    <3>1. m.head = q[1] /\ m.tail = q[Len(q)] BY <2>2 DEF Divided, Listed
    <3>2. 1 \in 1 .. Len(q) /\ Len(q) \in 1 .. Len(q) BY <1>2, <1>8, <2>2
    <3>3. q[1] = q[Len(q)] => 1 = Len(q) BY <1>1, <3>2, NoDupByIndex
    <3> QED BY <1>2, <1>8, <2>2, <3>1, <3>3
  <2> QED BY <2>1, <2>2
<1> QED BY <1>1, <1>2, <1>3, <1>4, <1>5, <1>7, <1>8, <1>9

\* A slot is claimed.
LEMMA ClaimedOK ==
  ASSUME NEW m, NEW H, NEW q, NEW f, Divided(m, H, q, f), m.free # Null,
         NEW x, x = m.free, NEW r, r = Claimed(m)
  PROVE  /\ Divided(r, H \cup {x}, q, Tail(f)) /\ x \in Slot /\ x \notin H
         /\ r.entry = m.entry /\ r.data = m.data /\ r.head = m.head
<1>1. /\ f # <<>> /\ x \in Slot /\ x \in ToSet(f) /\ Listed(m.next, m.next[x], Tail(f))
      /\ ToSet(Tail(f)) = ToSet(f) \ {x} /\ Len(Tail(f)) = Len(f) - 1
  BY ListedTail DEF Divided
<1>2. m.next[x] \in Link BY <1>1, DividedFacts
<1>3. /\ r \in Pool /\ r.free = m.next[x] /\ r.next = m.next /\ r.head = m.head
      /\ r.tail = m.tail /\ r.entry = m.entry /\ r.data = m.data
  BY <1>2 DEF Claimed, Divided, Pool
<1>4. x \notin H /\ x \notin ToSet(q) BY <1>1 DEF Divided
<1>5. IsFiniteSet(H \cup {x}) /\ Cardinality(H \cup {x}) = Cardinality(H) + 1
  BY <1>4, FS_AddElement DEF Divided
<1>6. Len(q) + Len(Tail(f)) + Cardinality(H \cup {x}) = MaxMsgs
  <2>1. Len(q) + Len(f) + Cardinality(H) = MaxMsgs BY DEF Divided
  <2> QED BY <1>1, <1>5, <2>1, DividedFacts
<1>7. /\ H \cup {x} \subseteq Slot /\ ToSet(q) \cap ToSet(Tail(f)) = {}
      /\ (H \cup {x}) \cap ToSet(q) = {} /\ (H \cup {x}) \cap ToSet(Tail(f)) = {}
      /\ ToSet(q) \cup ToSet(Tail(f)) \cup (H \cup {x}) = Slot
  BY <1>1, <1>4 DEF Divided
<1>8. Listed(r.next, r.head, q) /\ r.tail = IF q = <<>> THEN Null ELSE q[Len(q)]
  BY <1>3 DEF Divided
<1> QED BY <1>1, <1>3, <1>4, <1>5, <1>6, <1>7, <1>8 DEF Divided

\* A slot that a caller held is freed.
LEMMA FreedOK ==
  ASSUME NEW m, NEW H, NEW q, NEW f, Divided(m, H, q, f), NEW x \in H,
         NEW r, r = Freed(m, x)
  PROVE  /\ Divided(r, H \ {x}, q, <<x>> \o f)
         /\ r.entry = m.entry /\ r.data = m.data /\ r.head = m.head
<1>1. x \in Slot /\ x \notin ToSet(q) /\ x \notin ToSet(f) BY DEF Divided
<1>2. PICK n : n = [m.next EXCEPT ![x] = m.free] OBVIOUS
<1>3. /\ r.next = n /\ r.free = x /\ r.head = m.head /\ r.tail = m.tail /\ r.entry = m.entry
      /\ r.data = m.data /\ r \in Pool
  BY <1>1, <1>2 DEF Freed, Divided, Pool, Link
<1>4. m.next \in [Slot -> Link] BY DividedFacts
<1>5. /\ Listed(n, x, <<x>> \o f) /\ ToSet(<<x>> \o f) = ToSet(f) \cup {x}
      /\ Len(<<x>> \o f) = Len(f) + 1
  <2>1. Listed(m.next, m.free, f) BY DEF Divided
  <2> QED BY <1>1, <1>2, <1>4, <2>1, ListedPrepend
<1>6. Listed(n, m.head, q)
  <2>1. \A y \in ToSet(q) : n[y] = m.next[y] BY <1>1, <1>2, <1>4, DividedFacts
  <2> QED BY <2>1, ListedFrame DEF Divided
<1>7. IsFiniteSet(H \ {x}) /\ Cardinality(H \ {x}) = Cardinality(H) - 1
  BY FS_RemoveElement DEF Divided
<1>8. Len(q) + Len(<<x>> \o f) + Cardinality(H \ {x}) = MaxMsgs
  <2>1. Len(q) + Len(f) + Cardinality(H) = MaxMsgs BY DEF Divided
  <2> QED BY <1>5, <1>7, <2>1, DividedFacts
<1>9. /\ H \ {x} \subseteq Slot /\ ToSet(q) \cap ToSet(<<x>> \o f) = {}
      /\ (H \ {x}) \cap ToSet(q) = {} /\ (H \ {x}) \cap ToSet(<<x>> \o f) = {}
      /\ ToSet(q) \cup ToSet(<<x>> \o f) \cup (H \ {x}) = Slot
  BY <1>1, <1>5 DEF Divided
<1>10. r.tail = IF q = <<>> THEN Null ELSE q[Len(q)] BY <1>3 DEF Divided
<1> QED BY <1>3, <1>5, <1>6, <1>7, <1>8, <1>9, <1>10 DEF Divided

\* The message v of the slot x was put behind the others, or before them.
PutLast(m, r, H, q, f, x, v) ==
  /\ Divided(r, H \ {x}, Append(q, x), f) /\ r.entry = m.entry + 1
  /\ Content(r, Append(q, x)) = Append(Content(m, q), v)

PutFirst(m, r, H, q, f, x, v) ==
  /\ Divided(r, H \ {x}, <<x>> \o q, f) /\ r.entry = m.entry + 1
  /\ Content(r, <<x>> \o q) = <<v>> \o Content(m, q)

LEMMA LinkLastOK ==
  ASSUME NEW m, NEW H, NEW q, NEW f, Divided(m, H, q, f), NEW x \in H, NEW v \in Message,
         NEW r, r = LinkLast(m, x, v)
  PROVE  PutLast(m, r, H, q, f, x, v)
<1>1. x \in Slot /\ x \notin ToSet(q) /\ x \notin ToSet(f) BY DEF Divided
<1>2. PICK n : n = IF q = <<>> THEN [m.next EXCEPT ![x] = Null]
                               ELSE [m.next EXCEPT ![x] = Null, ![q[Len(q)]] = x]
  OBVIOUS
<1>3. m.tail # Null <=> q # <<>>
  <2>1. q # <<>> => q[Len(q)] \in Slot BY DividedFacts
  <2> QED BY <2>1, SlotFacts DEF Divided
<1>4. m.next \in [Slot -> Link] /\ x \in Link /\ Null \in Link BY <1>1, DividedFacts DEF Link
<1>5. n \in [Slot -> Link] BY <1>1, <1>2, <1>4
<1>6. /\ r.next = n /\ r.free = m.free /\ r.head = (IF m.head = Null THEN x ELSE m.head)
      /\ r.tail = x /\ r.entry = m.entry + 1 /\ r.data = [m.data EXCEPT ![x] = v] /\ r \in Pool
  <2>1. r = [m EXCEPT !.next = n, !.data[x] = v, !.tail = x,
                      !.head = IF @ = Null THEN x ELSE @, !.entry = @ + 1]
    <3>1. CASE q = <<>> BY <1>2, <1>3, <3>1 DEF LinkLast
    <3>2. CASE q # <<>>
      <4>1. m.tail = q[Len(q)] BY <3>2 DEF Divided
      <4> QED BY <1>2, <1>3, <3>2, <4>1 DEF LinkLast
    <3> QED BY <3>1, <3>2
  <2>2. m \in Pool BY DEF Divided
  <2>3. PICK d : d = [m.data EXCEPT ![x] = v] OBVIOUS
  <2>4. PICK h : h = IF m.head = Null THEN x ELSE m.head OBVIOUS
  <2>5. d \in [Slot -> Message] /\ h \in Link BY <1>1, <1>4, <2>2, <2>3, <2>4 DEF Pool
  <2>6. r = [head |-> h, tail |-> x, free |-> m.free, entry |-> m.entry + 1, next |-> n,
             data |-> d]
    BY <2>1, <2>2, <2>3, <2>4 DEF Pool
  <2>7. r \in Pool BY <1>4, <1>5, <2>2, <2>5, <2>6 DEF Pool
  <2> QED BY <2>3, <2>4, <2>6, <2>7
<1>7. /\ Listed(n, IF m.head = Null THEN x ELSE m.head, Append(q, x))
      /\ ToSet(Append(q, x)) = ToSet(q) \cup {x}
      /\ Len(Append(q, x)) = Len(q) + 1 /\ Append(q, x) # <<>>
      /\ Append(q, x)[Len(q) + 1] = x /\ \A i \in 1 .. Len(q) : Append(q, x)[i] = q[i]
      /\ \A y \in Slot \ (ToSet(q) \cup {x}) : n[y] = m.next[y]
  <2>1. Listed(m.next, m.head, q) BY DEF Divided
  <2> QED BY <1>1, <1>2, <1>4, <2>1, ListedAppend
<1>8. Listed(n, m.free, f)
  <2>1. \A y \in ToSet(f) : n[y] = m.next[y] BY <1>1, <1>7, DividedFacts DEF Divided
  <2> QED BY <2>1, ListedFrame DEF Divided
<1>9. IsFiniteSet(H \ {x}) /\ Cardinality(H \ {x}) = Cardinality(H) - 1
  BY FS_RemoveElement DEF Divided
<1>10. Len(Append(q, x)) + Len(f) + Cardinality(H \ {x}) = MaxMsgs
  <2>1. Len(q) + Len(f) + Cardinality(H) = MaxMsgs BY DEF Divided
  <2> QED BY <1>7, <1>9, <2>1, DividedFacts
<1>11. /\ H \ {x} \subseteq Slot /\ ToSet(Append(q, x)) \cap ToSet(f) = {}
       /\ (H \ {x}) \cap ToSet(Append(q, x)) = {} /\ (H \ {x}) \cap ToSet(f) = {}
       /\ ToSet(Append(q, x)) \cup ToSet(f) \cup (H \ {x}) = Slot
  BY <1>1, <1>7 DEF Divided
<1>12. r.tail = IF Append(q, x) = <<>> THEN Null ELSE Append(q, x)[Len(Append(q, x))]
  BY <1>6, <1>7
<1>13. Divided(r, H \ {x}, Append(q, x), f)
  BY <1>6, <1>7, <1>8, <1>9, <1>10, <1>11, <1>12 DEF Divided
<1>14. Content(r, Append(q, x)) = Append(Content(m, q), v)
  <2>1. PICK k \in Nat, a \in {Append(q, x)} : k = Len(q) BY DividedFacts
  <2>2. PICK p, s : p = Content(m, q) /\ s = Content(r, a) OBVIOUS
  <2>3. \A i \in 1 .. k : q[i] \in Slot /\ q[i] # x
    <3>1. \A i \in 1 .. k : q[i] \in ToSet(q) BY <2>1, DividedFacts, InToSet
    <3> QED BY <1>1, <3>1, DividedFacts
  <2>4. m.data \in [Slot -> Message] BY DividedFacts
  <2>5. p \in [1 .. k -> Message] /\ \A i \in 1 .. k : p[i] = m.data[q[i]]
    BY <2>1, <2>2, <2>3, <2>4 DEF Content
  <2>6. /\ Len(a) = k + 1 /\ a[k + 1] = x /\ \A i \in 1 .. k : a[i] = q[i]
    BY <1>7, <2>1
  <2>7. s = [i \in 1 .. k + 1 |-> r.data[a[i]]] BY <2>2, <2>6 DEF Content
  <2>8. \A i \in 1 .. k : s[i] = p[i] BY <1>6, <2>3, <2>4, <2>5, <2>6, <2>7
  <2>9. s[k + 1] = v BY <1>1, <1>6, <2>4, <2>6, <2>7
  <2>10. s \in [1 .. k + 1 -> Message]
    <3>1. ASSUME NEW i \in 1 .. k + 1 PROVE s[i] \in Message
      <4>1. i = k + 1 \/ i \in 1 .. k OBVIOUS
      <4> QED BY <2>5, <2>8, <2>9, <4>1
    <3> QED BY <2>7, <3>1
  <2>11. s = Append(p, v) BY <2>5, <2>8, <2>9, <2>10, GivenAppend
  <2> QED BY <2>1, <2>2, <2>11
<1> QED BY <1>6, <1>13, <1>14 DEF PutLast

\* The message of a slot goes to the front.
LEMMA LinkFirstOK ==
  ASSUME NEW m, NEW H, NEW q, NEW f, Divided(m, H, q, f), NEW x \in H, NEW v \in Message,
         NEW r, r = LinkFirst(m, x, v)
  PROVE  PutFirst(m, r, H, q, f, x, v)
<1>1. x \in Slot /\ x \notin ToSet(q) /\ x \notin ToSet(f) BY DEF Divided
<1>2. PICK n : n = [m.next EXCEPT ![x] = m.head] OBVIOUS
<1>3. m.tail = Null <=> q = <<>>
  <2>1. q # <<>> => q[Len(q)] \in Slot BY DividedFacts
  <2> QED BY <2>1, SlotFacts DEF Divided
<1>4. m.next \in [Slot -> Link] /\ x \in Link /\ m.head \in Link BY <1>1, DividedFacts DEF Link
<1>5. n \in [Slot -> Link] BY <1>1, <1>2, <1>4
<1>6. /\ r.next = n /\ r.free = m.free /\ r.head = x
      /\ r.tail = (IF m.tail = Null THEN x ELSE m.tail) /\ r.entry = m.entry + 1
      /\ r.data = [m.data EXCEPT ![x] = v] /\ r \in Pool
  <2>1. r = [m EXCEPT !.next = n, !.data[x] = v, !.head = x,
                      !.tail = IF @ = Null THEN x ELSE @, !.entry = @ + 1]
    BY <1>2 DEF LinkFirst
  <2>2. m \in Pool BY DEF Divided
  <2>3. PICK d : d = [m.data EXCEPT ![x] = v] OBVIOUS
  <2>4. PICK h : h = IF m.tail = Null THEN x ELSE m.tail OBVIOUS
  <2>5. d \in [Slot -> Message] /\ h \in Link BY <1>1, <1>4, <2>2, <2>3, <2>4 DEF Pool
  <2>6. r = [head |-> x, tail |-> h, free |-> m.free, entry |-> m.entry + 1, next |-> n,
             data |-> d]
    BY <2>1, <2>2, <2>3, <2>4 DEF Pool
  <2>7. r \in Pool BY <1>4, <1>5, <2>2, <2>5, <2>6 DEF Pool
  <2> QED BY <2>3, <2>4, <2>6, <2>7
<1>7. /\ Listed(n, x, <<x>> \o q) /\ ToSet(<<x>> \o q) = ToSet(q) \cup {x}
      /\ Len(<<x>> \o q) = Len(q) + 1 /\ <<x>> \o q # <<>>
      /\ (<<x>> \o q)[1] = x /\ \A i \in 1 .. Len(q) : (<<x>> \o q)[i + 1] = q[i]
  <2>1. Listed(m.next, m.head, q) BY DEF Divided
  <2> QED BY <1>1, <1>2, <1>4, <2>1, ListedPrepend
<1>8. Listed(n, m.free, f)
  <2>1. \A y \in ToSet(f) : n[y] = m.next[y] BY <1>1, <1>2, <1>4, DividedFacts
  <2> QED BY <2>1, ListedFrame DEF Divided
<1>9. IsFiniteSet(H \ {x}) /\ Cardinality(H \ {x}) = Cardinality(H) - 1
  BY FS_RemoveElement DEF Divided
<1>10. Len(<<x>> \o q) + Len(f) + Cardinality(H \ {x}) = MaxMsgs
  <2>1. Len(q) + Len(f) + Cardinality(H) = MaxMsgs BY DEF Divided
  <2> QED BY <1>7, <1>9, <2>1, DividedFacts
<1>11. /\ H \ {x} \subseteq Slot /\ ToSet(<<x>> \o q) \cap ToSet(f) = {}
       /\ (H \ {x}) \cap ToSet(<<x>> \o q) = {} /\ (H \ {x}) \cap ToSet(f) = {}
       /\ ToSet(<<x>> \o q) \cup ToSet(f) \cup (H \ {x}) = Slot
  BY <1>1, <1>7 DEF Divided
<1>12. r.tail = IF <<x>> \o q = <<>> THEN Null ELSE (<<x>> \o q)[Len(<<x>> \o q)]
  <2>1. PICK k \in Nat, a \in {<<x>> \o q} : k = Len(q) BY DividedFacts
  <2>2. Len(a) = k + 1 /\ a # <<>> /\ a[1] = x /\ \A i \in 1 .. k : a[i + 1] = q[i]
    BY <1>7, <2>1
  <2>3. CASE q = <<>>
    <3>1. k = 0 BY <2>1, <2>3
    <3> QED BY <1>3, <1>6, <2>1, <2>2, <2>3, <3>1
  <2>4. CASE q # <<>>
    <3>1. k # 0 BY <2>1, <2>4, DividedFacts
    <3>2. k \in 1 .. k BY <3>1
    <3>3. m.tail = q[k] /\ m.tail # Null BY <1>3, <2>1, <2>4 DEF Divided
    <3> QED BY <1>6, <2>1, <2>2, <3>2, <3>3
  <2> QED BY <2>3, <2>4
<1>13. Divided(r, H \ {x}, <<x>> \o q, f)
  BY <1>6, <1>7, <1>8, <1>9, <1>10, <1>11, <1>12 DEF Divided
<1>14. Content(r, <<x>> \o q) = <<v>> \o Content(m, q)
  <2>1. PICK k \in Nat, a \in {<<x>> \o q} : k = Len(q) BY DividedFacts
  <2>2. PICK p, s : p = Content(m, q) /\ s = Content(r, a) OBVIOUS
  <2>3. \A i \in 1 .. k : q[i] \in Slot /\ q[i] # x
    <3>1. \A i \in 1 .. k : q[i] \in ToSet(q) BY <2>1, DividedFacts, InToSet
    <3> QED BY <1>1, <3>1, DividedFacts
  <2>4. m.data \in [Slot -> Message] BY DividedFacts
  <2>5. p \in [1 .. k -> Message] /\ \A i \in 1 .. k : p[i] = m.data[q[i]]
    BY <2>1, <2>2, <2>3, <2>4 DEF Content
  <2>6. Len(a) = k + 1 /\ a[1] = x /\ \A i \in 1 .. k : a[i + 1] = q[i]
    BY <1>7, <2>1
  <2>7. s = [i \in 1 .. k + 1 |-> r.data[a[i]]] BY <2>2, <2>6 DEF Content
  <2>8. ASSUME NEW i \in 1 .. k PROVE s[i + 1] = p[i]
    <3>1. i + 1 \in 1 .. k + 1 OBVIOUS
    <3>2. s[i + 1] = r.data[q[i]] BY <2>6, <2>7, <3>1
    <3>3. r.data[q[i]] = m.data[q[i]] BY <1>6, <2>3, <2>4
    <3> QED BY <2>5, <3>2, <3>3
  <2>9. s[1] = v BY <1>1, <1>6, <2>4, <2>6, <2>7
  <2>10. s \in [1 .. k + 1 -> Message]
    <3>1. ASSUME NEW i \in 1 .. k + 1 PROVE s[i] \in Message
      <4>1. CASE i = 1 BY <2>9, <4>1
      <4>2. CASE i # 1
        <5>1. i - 1 \in 1 .. k /\ (i - 1) + 1 = i BY <4>2
        <5> QED BY <2>5, <2>8, <5>1
      <4> QED BY <4>1, <4>2
    <3> QED BY <2>7, <3>1
  <2>11. s = <<v>> \o p BY <2>5, <2>8, <2>9, <2>10, GivenPrepend
  <2> QED BY <2>1, <2>2, <2>11
<1> QED BY <1>6, <1>13, <1>14 DEF PutFirst

\* The slot of the first message leaves the queue, and belongs to the caller.
LEMMA UnlinkedOK ==
  ASSUME NEW m, NEW H, NEW q, NEW f, Divided(m, H, q, f), m.head # Null,
         NEW x, x = m.head, NEW r, r = Unlinked(m)
  PROVE  /\ Divided(r, H \cup {x}, Tail(q), f) /\ x \in Slot /\ x \notin H
         /\ r.entry = m.entry /\ q # <<>> /\ Len(Tail(q)) = Len(q) - 1
         /\ Content(m, q) # <<>> /\ Content(r, Tail(q)) = Tail(Content(m, q))
<1>1. /\ q # <<>> /\ x \in Slot /\ x \in ToSet(q) /\ x = q[1] /\ Listed(m.next, m.next[x], Tail(q))
      /\ ToSet(Tail(q)) = ToSet(q) \ {x} /\ Len(Tail(q)) = Len(q) - 1
      /\ Len(q) \in Nat /\ Len(q) > 0 /\ \A i \in 1 .. Len(q) - 1 : Tail(q)[i] = q[i + 1]
  BY ListedTail DEF Divided
<1>2. m.next[x] \in Link BY <1>1, DividedFacts
<1>3. /\ r \in Pool /\ r.head = m.next[x] /\ r.next = m.next /\ r.free = m.free
      /\ r.tail = (IF m.tail = x THEN Null ELSE m.tail) /\ r.entry = m.entry /\ r.data = m.data
  BY <1>2 DEF Unlinked, Divided, Pool, Link
<1>4. x \notin H /\ x \notin ToSet(f) BY <1>1 DEF Divided
<1>5. IsFiniteSet(H \cup {x}) /\ Cardinality(H \cup {x}) = Cardinality(H) + 1
  BY <1>4, FS_AddElement DEF Divided
<1>6. Len(Tail(q)) + Len(f) + Cardinality(H \cup {x}) = MaxMsgs
  <2>1. Len(q) + Len(f) + Cardinality(H) = MaxMsgs BY DEF Divided
  <2> QED BY <1>1, <1>5, <2>1, DividedFacts
<1>7. /\ H \cup {x} \subseteq Slot /\ ToSet(Tail(q)) \cap ToSet(f) = {}
      /\ (H \cup {x}) \cap ToSet(Tail(q)) = {} /\ (H \cup {x}) \cap ToSet(f) = {}
      /\ ToSet(Tail(q)) \cup ToSet(f) \cup (H \cup {x}) = Slot
  BY <1>1, <1>4 DEF Divided
<1>8. r.tail = IF Tail(q) = <<>> THEN Null ELSE Tail(q)[Len(Tail(q))]
  <2>1. PICK k \in Nat, a \in {Tail(q)} : k = Len(q) BY <1>1
  <2>2. /\ k > 0 /\ Len(a) = k - 1 /\ (\A i \in 1 .. k - 1 : a[i] = q[i + 1]) /\ a \in Seq(Slot)
    BY <1>1, <2>1 DEF Listed
  <2>3. m.tail = q[k] /\ (m.tail = x <=> k <= 1) BY <1>1, <2>1, DividedFacts DEF Divided
  <2>4. CASE k = 1
    <3>1. a = <<>> BY <2>2, <2>4
    <3> QED BY <1>3, <2>1, <2>3, <2>4, <3>1
  <2>5. CASE k # 1
    <3>1. a # <<>> /\ k - 1 \in 1 .. k - 1 /\ (k - 1) + 1 = k /\ ~(k <= 1) BY <2>2, <2>5
    <3>2. a[Len(a)] = q[k] BY <2>2, <3>1
    <3> QED BY <1>3, <2>1, <2>3, <3>1, <3>2
  <2> QED BY <2>4, <2>5
<1>9. Listed(r.next, r.head, Tail(q)) /\ Listed(r.next, r.free, f) BY <1>1, <1>3 DEF Divided
<1>10. Divided(r, H \cup {x}, Tail(q), f) BY <1>3, <1>5, <1>6, <1>7, <1>8, <1>9 DEF Divided
<1>11. Content(m, q) # <<>> /\ Content(r, Tail(q)) = Tail(Content(m, q))
  <2>1. PICK k \in Nat, a \in {Tail(q)} : k = Len(q) BY <1>1
  <2>2. PICK p, s : p = Content(m, q) /\ s = Content(r, a) OBVIOUS
  <2>3. \A i \in 1 .. k : q[i] \in Slot BY <2>1, DividedFacts
  <2>4. m.data \in [Slot -> Message] BY DividedFacts
  <2>5. p \in [1 .. k -> Message] /\ \A i \in 1 .. k : p[i] = m.data[q[i]]
    BY <2>1, <2>2, <2>3, <2>4 DEF Content
  <2>6. k > 0 /\ Len(a) = k - 1 /\ \A i \in 1 .. k - 1 : a[i] = q[i + 1] BY <1>1, <2>1
  <2>7. s = [i \in 1 .. k - 1 |-> m.data[a[i]]] BY <1>3, <2>2, <2>6 DEF Content
  <2>8. ASSUME NEW i \in 1 .. k - 1 PROVE s[i] = p[i + 1]
    <3>1. i + 1 \in 1 .. k OBVIOUS
    <3> QED BY <2>5, <2>6, <2>7, <3>1
  <2>9. s \in [1 .. k - 1 -> Message]
    <3>1. ASSUME NEW i \in 1 .. k - 1 PROVE s[i] \in Message
      <4>1. i + 1 \in 1 .. k OBVIOUS
      <4> QED BY <2>5, <2>8, <4>1
    <3> QED BY <2>7, <3>1
  <2>10. p # <<>> /\ s = Tail(p) BY <2>5, <2>6, <2>8, <2>9, GivenTail
  <2> QED BY <2>1, <2>2, <2>10
<1> QED BY <1>1, <1>3, <1>4, <1>10, <1>11

LEMMA UnlinkFirstOK ==
  ASSUME NEW m, NEW H, NEW q, NEW f, Divided(m, H, q, f), m.head # Null,
         NEW x, x = m.head, NEW r, r = UnlinkFirst(m)
  PROVE  /\ Divided(r, H \cup {x}, Tail(q), f) /\ x \in Slot /\ x \notin H
         /\ r.entry = m.entry - 1 /\ Len(q) > 0 /\ Len(Tail(q)) = Len(q) - 1
         /\ Content(m, q) # <<>> /\ Content(r, Tail(q)) = Tail(Content(m, q))
<1>1. PICK u : u = Unlinked(m) OBVIOUS
<1>2. /\ Divided(u, H \cup {x}, Tail(q), f) /\ x \in Slot /\ x \notin H
      /\ u.entry = m.entry /\ q # <<>> /\ Len(Tail(q)) = Len(q) - 1
      /\ Content(m, q) # <<>> /\ Content(u, Tail(q)) = Tail(Content(m, q))
  BY <1>1, UnlinkedOK
<1>3. r = [u EXCEPT !.entry = @ - 1] BY <1>1 DEF UnlinkFirst
<1>4. u \in Pool BY <1>2 DEF Divided
<1>5. /\ r \in Pool /\ r.head = u.head /\ r.tail = u.tail /\ r.free = u.free /\ r.next = u.next
      /\ r.data = u.data /\ r.entry = u.entry - 1
  BY <1>3, <1>4 DEF Pool
<1>6. Divided(r, H \cup {x}, Tail(q), f) BY <1>2, <1>5 DEF Divided
<1>7. Content(r, Tail(q)) = Content(u, Tail(q)) BY <1>5 DEF Content
<1>8. Len(q) \in Nat /\ (q = <<>> <=> Len(q) = 0) BY DividedFacts
<1> QED BY <1>2, <1>5, <1>6, <1>7, <1>8

\* One turn of the loop of the reset.
LEMMA ClearedOK ==
  ASSUME NEW m, NEW H, NEW q, NEW f, Divided(m, H, q, f), NEW r, r = Cleared(m)
  PROVE  \E p, g : /\ Divided(r, H, p, g)
                   /\ Len(p) = IF Len(q) = 0 THEN 0 ELSE Len(q) - 1
<1>1. CASE m.head = Null
  <2>1. r = m /\ Len(q) = 0 BY <1>1, DividedFacts DEF Cleared
  <2> QED BY <2>1
<1>2. CASE m.head # Null
  <2>1. PICK x, u : x = m.head /\ u = Unlinked(m) OBVIOUS
  <2>2. /\ Divided(u, H \cup {x}, Tail(q), f) /\ x \notin H
        /\ q # <<>> /\ Len(Tail(q)) = Len(q) - 1
    BY <1>2, <2>1, UnlinkedOK
  <2>3. r = Freed(u, x) BY <1>2, <2>1 DEF Cleared
  <2>4. PICK G : G = H \cup {x} OBVIOUS
  <2>5. Divided(r, G \ {x}, Tail(q), <<x>> \o f)
    <3>1. Divided(u, G, Tail(q), f) /\ x \in G BY <2>2, <2>4
    <3> QED BY <2>3, <3>1, FreedOK
  <2>6. G \ {x} = H BY <2>2, <2>4
  <2>7. Divided(r, H, Tail(q), <<x>> \o f) BY <2>5, <2>6
  <2>8. Len(q) # 0 BY <2>2, DividedFacts
  <2> QED BY <2>2, <2>7, <2>8
<1> QED BY <1>1, <1>2

\* The records after each turn exist.
LEMMA EmptiedTurns ==
  ASSUME NEW m
  PROVE  \E g : /\ Emptied(m) = [g[MaxMsgs] EXCEPT !.entry = 0] /\ g[0] = m
                /\ \A i \in 0 .. MaxMsgs - 1 : g[i + 1] = Cleared(g[i])
<1> DEFINE n == MaxMsgs
           Turn(g, i) == IF i = 0 THEN m ELSE Cleared(g[i - 1])
           Has(k)  == \E g : g = [i \in 0 .. k |-> Turn(g, i)]
           S       == {k \in 0 .. n : Has(k)}
<1>0. n \in Nat BY SlotFacts
<1>1. 0 \in S
  <2>1. PICK g : g = [i \in 0 .. 0 |-> m] OBVIOUS
  <2>2. g = [i \in 0 .. 0 |-> Turn(g, i)] BY <2>1
  <2> QED BY <1>0, <2>2
<1>2. ASSUME NEW k \in 0 .. n - 1, k \in S PROVE k + 1 \in S
  <2>1. PICK g : g = [i \in 0 .. k |-> Turn(g, i)] BY <1>2
  <2>2. PICK h : h = [i \in 0 .. k + 1 |-> IF i = k + 1 THEN Cleared(g[k]) ELSE g[i]]
    OBVIOUS
  <2>3. ASSUME NEW i \in 0 .. k + 1 PROVE h[i] = Turn(h, i)
    <3>1. CASE i = k + 1
      <4>1. i # 0 /\ i - 1 = k /\ k \in 0 .. k + 1 /\ k # k + 1 BY <3>1
      <4>2. h[k] = g[k] BY <2>2, <4>1
      <4>3. h[i] = Cleared(g[k]) BY <2>2, <3>1
      <4> QED BY <4>1, <4>2, <4>3
    <3>2. CASE i # k + 1 /\ i # 0
      <4>1. i \in 0 .. k /\ i - 1 \in 0 .. k + 1 /\ i - 1 # k + 1 BY <3>2
      <4>2. h[i] = g[i] /\ h[i - 1] = g[i - 1] BY <2>2, <3>2, <4>1
      <4>3. g[i] = Cleared(g[i - 1]) BY <2>1, <3>2, <4>1
      <4> QED BY <3>2, <4>2, <4>3
    <3>3. CASE i = 0
      <4>1. i \in 0 .. k /\ i # k + 1 BY <3>3
      <4>2. h[i] = g[i] BY <2>2, <4>1
      <4>3. g[i] = m BY <2>1, <3>3, <4>1
      <4> QED BY <3>3, <4>2, <4>3
    <3> QED BY <3>1, <3>2, <3>3
  <2>4. h = [i \in 0 .. k + 1 |-> Turn(h, i)]
    <3>1. h = [i \in 0 .. k + 1 |-> h[i]] BY <2>2
    <3> HIDE DEF Turn
    <3> QED BY <2>3, <3>1
  <2>5. k + 1 \in 0 .. n BY <1>0
  <2> QED BY <2>4, <2>5
<1>3. n \in S
  <2> HIDE DEF S
  <2>2. \A i \in 0 .. n : i \in S BY <1>0, <1>1, <1>2, CountUp
  <2> QED BY <1>0, <2>2
<1>4. PICK g : g = [i \in 0 .. n |-> Turn(g, i)] BY <1>3
<1> DEFINE h == CHOOSE f : f = [i \in 0 .. n |-> Turn(f, i)]
<1>5. h = [i \in 0 .. n |-> Turn(h, i)] BY <1>4, Zenon
<1>6. Emptied(m) = [h[n] EXCEPT !.entry = 0] BY DEF Emptied
<1> HIDE DEF h
<1>7. h[0] = m BY <1>0, <1>5
<1>8. ASSUME NEW i \in 0 .. n - 1 PROVE h[i + 1] = Cleared(h[i])
  <2>1. i + 1 \in 0 .. n /\ i + 1 # 0 /\ (i + 1) - 1 = i BY <1>0
  <2> QED BY <1>5, <2>1
<1> QED BY <1>6, <1>7, <1>8

\* The reset leaves an empty queue, and the callers' slots with them.
LEMMA EmptiedOK ==
  ASSUME NEW m, NEW H, NEW q, NEW f, Divided(m, H, q, f), NEW r, r = Emptied(m)
  PROVE  r.entry = 0 /\ \E g : Divided(r, H, <<>>, g)
<1>1. PICK g : /\ r = [g[MaxMsgs] EXCEPT !.entry = 0] /\ g[0] = m
               /\ \A i \in 0 .. MaxMsgs - 1 : g[i + 1] = Cleared(g[i])
  BY EmptiedTurns
<1> DEFINE Fits(i, p) == Len(p) \in Nat /\ Len(p) <= MaxMsgs - i
           Good(i) == \E p, d : Divided(g[i], H, p, d) /\ Fits(i, p)
           S == {i \in 0 .. MaxMsgs : Good(i)}
<1>2. MaxMsgs \in Nat BY SlotFacts
<1>3. 0 \in S
  <2>1. Fits(0, q) BY <1>2, DividedFacts
  <2>2. Divided(g[0], H, q, f) BY <1>1
  <2>3. 0 \in 0 .. MaxMsgs BY <1>2
  <2> QED BY <2>1, <2>2, <2>3
<1>4. ASSUME NEW i \in 0 .. MaxMsgs - 1, i \in S PROVE i + 1 \in S
  <2>1. PICK p, d : Divided(g[i], H, p, d) /\ Fits(i, p) BY <1>4
  <2>2. PICK a, b : a = g[i] /\ b = g[i + 1] OBVIOUS
  <2>3. Divided(a, H, p, d) /\ b = Cleared(a) BY <1>1, <2>1, <2>2
  <2>4. PICK p2, d2 : Divided(b, H, p2, d2) /\ Len(p2) = IF Len(p) = 0 THEN 0 ELSE Len(p) - 1
    BY <2>3, ClearedOK
  <2>5. Fits(i + 1, p2) BY <1>2, <2>1, <2>4
  <2>6. i + 1 \in 0 .. MaxMsgs BY <1>2
  <2> HIDE DEF Fits
  <2>7. Good(i + 1) BY <2>2, <2>4, <2>5
  <2> HIDE DEF Good
  <2> QED BY <2>6, <2>7
<1>5. MaxMsgs \in S
  <2> HIDE DEF S
  <2>1. \A i \in 0 .. MaxMsgs : i \in S BY <1>2, <1>3, <1>4, CountUp
  <2> QED BY <1>2, <2>1
<1>6. PICK p, d : Divided(g[MaxMsgs], H, p, d) /\ Fits(MaxMsgs, p) BY <1>5
<1>7. PICK a : a = g[MaxMsgs] OBVIOUS
<1>8. Len(p) = 0 BY <1>2, <1>6
<1>9. p = <<>> BY <1>6, <1>8, DividedFacts
<1>10. Divided(a, H, <<>>, d) BY <1>6, <1>7, <1>9
<1>11. r = [a EXCEPT !.entry = 0] /\ a \in Pool BY <1>1, <1>7, <1>10 DEF Divided
<1>12. /\ r \in Pool /\ r.head = a.head /\ r.tail = a.tail /\ r.free = a.free /\ r.next = a.next
       /\ r.entry = 0
  BY <1>11 DEF Pool
<1>13. Divided(r, H, <<>>, d) BY <1>10, <1>12 DEF Divided
<1> QED BY <1>12, <1>13

-----------------------------------------------------------------------------
(* The invariant of MessageQueue *)

MqPC   == {"run", "fill", "ufill", "recv", "rback", "copy", "give"}
Owning == {"fill", "ufill", "copy"}

\* The waiting receivers, and the woken ones on their way to a message.
Blocked  == ToSet(sys.wait["recv"])
Fetching == {t \in Thread : /\ pc[t] \in {"recv", "rback"}
                            /\ sys.stat[t] = "READY"
                            /\ sys.error[t] = "EOK"}
HeldSlots == {slot[t] : t \in Held}

\* The current thread can run, or is about to leave the processor; before the
\* system is started no thread is inside a call.
MqCurrent ==
  /\ sys.cur # NoThread => sys.stat[sys.cur] = "READY" \/ pc[sys.cur] = "recv"
  /\ sys.cur = NoThread => \A t \in Thread : pc[t] = "run"

\* A thread waits inside rt_mq_recv, for EOK unless something else happens.
MqWaits == \A t \in Blocked : pc[t] \in {"recv", "rback"} /\ sys.error[t] = "EOK"

\* While a thread waits there are no more messages than woken receivers.
MqCount == IsFiniteSet(Fetching) /\ (Blocked # {} => mq.entry <= Cardinality(Fetching))

\* Between its two critical sections a call holds a slot of its own.
MqHolds ==
  /\ \A t \in Thread : slot[t] # Null <=> pc[t] \in Owning
  /\ \A t, u \in Held : slot[t] = slot[u] => t = u

\* rt_mq_urgent sends the urgent messages, rt_mq_send the others.
MqKinds ==
  \A t \in Thread : /\ pc[t] = "fill" => message[t] \notin Urgent
                    /\ pc[t] = "ufill" => message[t] \in Urgent

\* The queue, the free list and the callers divide the slots, and entry counts
\* the queue.
Lists(q, f) == Divided(mq, HeldSlots, q, f) /\ Len(q) = mq.entry

MqInv ==
  /\ MqTypeOK /\ Base(sys) /\ MqCurrent /\ MqWaits /\ MqCount
  /\ MqHolds /\ MqKinds /\ \E q, f : Lists(q, f)

\* The facts every step starts from.
LEMMA MqFacts ==
  ASSUME MqInv
  PROVE  /\ sys \in KernelState /\ KernelOK(sys, {}) /\ Base(sys)
         /\ "recv" \in WaitList /\ Idle \in Thread /\ NoThread \notin Thread
         /\ sys.stat \in [Thread -> Stat] /\ sys.error \in [Thread -> Error]
         /\ pc \in [Thread -> MqPC] /\ slot \in [Thread -> Link]
         /\ message \in [Thread -> Message] /\ limit \in [Thread -> {"none", "timed", "forever"}]
         /\ mq.entry \in 0 .. MaxMsgs /\ MaxMsgs \in Nat
         /\ Blocked \subseteq Thread /\ (sys.wait["recv"] = <<>> <=> Blocked = {})
         /\ Fetching \subseteq Thread /\ IsFiniteSet(Fetching)
         /\ \A t \in Blocked : sys.stat[t] = "SUSPEND" /\ t \notin Fetching
<1>1. Base(sys) /\ MqTypeOK /\ IsFiniteSet(Fetching) BY DEF MqInv, MqCount
<1>2. sys \in KernelState /\ KernelOK(sys, {}) BY <1>1 DEF Base, Sound
<1>3. "recv" \in WaitList /\ MaxMsgs \in Nat BY MessageQueueAssumption
<1>4. /\ sys.stat \in [Thread -> Stat] /\ sys.error \in [Thread -> Error]
      /\ sys.wait["recv"] \in Seq(Thread)
  BY <1>2, <1>3, KernelTypes
<1>5. /\ pc \in [Thread -> MqPC] /\ slot \in [Thread -> Link]
      /\ message \in [Thread -> Message] /\ limit \in [Thread -> {"none", "timed", "forever"}]
      /\ mq.entry \in 0 .. MaxMsgs
  BY <1>1 DEF MqTypeOK, PoolTypeOK, MqPC
<1>6. Blocked \subseteq Thread /\ (sys.wait["recv"] = <<>> <=> Blocked = {})
  BY <1>4, EmptyList DEF Blocked
<1>7. \A t \in Blocked : sys.stat[t] = "SUSPEND"
  BY <1>2, <1>3 DEF Blocked, KernelOK, WaitListsOK
<1>8. \A t \in Blocked : t \notin Fetching BY <1>7 DEF Fetching
<1>9. Fetching \subseteq Thread BY DEF Fetching
<1> QED BY <1>1, <1>2, <1>3, <1>4, <1>5, <1>6, <1>7, <1>8, <1>9, KernelAssumption

\* A thread that is not about to leave the processor can run and waits nowhere.
LEMMA MqCaller ==
  ASSUME MqInv, NEW c \in Thread, sys.cur = c, pc[c] # "recv"
  PROVE  sys.cur # NoThread /\ sys.stat[c] = "READY" /\ c \notin Blocked
BY MqFacts DEF MqInv, MqCurrent

\* What may happen to pc when c goes on at l.
LEMMA MqGoto ==
  ASSUME MqInv, NEW c \in Thread, NEW l \in MqPC, Goto(c, l)
  PROVE  /\ pc'[c] = l /\ \A t \in Thread \ {c} : pc'[t] = pc[t]
         /\ pc' \in [Thread -> MqPC]
BY MqFacts DEF Goto

\* The types follow from the parts.
LEMMA MqTypes ==
  ASSUME Base(sys'), pc' \in [Thread -> MqPC], slot' \in [Thread -> Link],
         message' \in [Thread -> Message], limit' \in [Thread -> {"none", "timed", "forever"}],
         NEW q, NEW f, Lists(q, f)'
  PROVE  MqTypeOK'
<1>1. Divided(mq', HeldSlots', q, f) /\ Len(q) = mq'.entry BY DEF Lists
<1>2. Len(q) \in Nat /\ Len(q) <= MaxMsgs /\ MaxMsgs \in Nat BY <1>1, DividedFacts
<1>3. mq'.entry \in 0 .. MaxMsgs BY <1>1, <1>2
<1>4. mq' \in Pool BY <1>1 DEF Divided
<1>5. mq' \in [head : Link, tail : Link, free : Link, entry : 0 .. MaxMsgs,
               next : [Slot -> Link], data : [Slot -> Message]]
  BY <1>3, <1>4 DEF Pool
<1>6. sys' \in KernelState BY DEF Base, Sound
<1> QED BY <1>5, <1>6 DEF MqTypeOK, PoolTypeOK, MqPC

-----------------------------------------------------------------------------
(* The receivers *)

\* What a step does to the receivers and the number of messages.
Counted ==
  \/ mq'.entry = mq.entry /\ Fetching' = Fetching /\ Blocked' \subseteq Blocked
  \/ mq'.entry = 0 /\ Fetching' \subseteq Fetching
  \/ /\ mq'.entry = mq.entry - 1 /\ Blocked' \subseteq Blocked
     /\ \E c : Fetching' \subseteq Fetching /\ Fetching \subseteq Fetching' \cup {c}
  \/ mq'.entry = mq.entry + 1 /\ Fetching' = Fetching /\ Blocked' = {}
  \/ mq'.entry = mq.entry + 1 /\ \E t \in Blocked : Fetching' = Fetching \cup {t}

LEMMA CountedOK ==
  ASSUME MqInv, Counted
  PROVE  MqCount'
<1>1. /\ IsFiniteSet(Fetching) /\ mq.entry \in Int
      /\ Blocked # {} => mq.entry <= Cardinality(Fetching)
  BY MqFacts DEF MqInv, MqCount
<1>2. CASE mq'.entry = mq.entry /\ Fetching' = Fetching /\ Blocked' \subseteq Blocked
  BY <1>1, <1>2 DEF MqCount
<1>3. CASE mq'.entry = 0 /\ Fetching' \subseteq Fetching
  <2>1. IsFiniteSet(Fetching') BY <1>1, <1>3, FS_Subset
  <2>2. Cardinality(Fetching') \in Nat BY <2>1, FS_CardinalityType
  <2> QED BY <1>3, <2>1, <2>2 DEF MqCount
<1>4. ASSUME mq'.entry = mq.entry - 1, Blocked' \subseteq Blocked,
             NEW c, Fetching' \subseteq Fetching, Fetching \subseteq Fetching' \cup {c}
      PROVE  MqCount'
  <2>1. PICK n \in Int, P \in {Fetching}, Q \in {Fetching'} : n = mq.entry BY <1>1
  <2>2. IsFiniteSet(P) /\ Q \subseteq P /\ P \subseteq Q \cup {c} BY <1>1, <1>4, <2>1
  <2>3. IsFiniteSet(Q) BY <2>2, FS_Subset
  <2>4. ASSUME Blocked' # {} PROVE n - 1 <= Cardinality(Q)
    <3>1. n <= Cardinality(P) BY <1>1, <1>4, <2>1, <2>4
    <3> QED BY <2>2, <3>1, OneLess
  <2> QED BY <1>4, <2>1, <2>3, <2>4 DEF MqCount
<1>5. CASE mq'.entry = mq.entry + 1 /\ Fetching' = Fetching /\ Blocked' = {}
  BY <1>1, <1>5 DEF MqCount
<1>6. ASSUME mq'.entry = mq.entry + 1, NEW t \in Blocked, Fetching' = Fetching \cup {t}
      PROVE  MqCount'
  <2>1. PICK n \in Int, P \in {Fetching} : n = mq.entry BY <1>1
  <2>2. t \notin P /\ IsFiniteSet(P) /\ n <= Cardinality(P) BY <1>1, <1>6, <2>1, MqFacts
  <2>3. IsFiniteSet(P \cup {t}) /\ n + 1 <= Cardinality(P \cup {t}) BY <2>2, OneMore
  <2> QED BY <1>6, <2>1, <2>3 DEF MqCount
<1> QED BY <1>2, <1>3, <1>4, <1>5, <1>6 DEF Counted

\* What every step keeps of the threads.
ThreadsKept == Base(sys') /\ MqCurrent' /\ MqWaits' /\ pc' \in [Thread -> MqPC]

\* c goes on outside rt_mq_recv's wait.
LEMMA GoOn ==
  ASSUME MqInv, NEW c \in Thread, sys.cur = c, pc[c] # "recv", sys' = sys,
         NEW l \in MqPC \ {"recv", "rback"}, Goto(c, l)
  PROVE  /\ ThreadsKept /\ Fetching' = Fetching \ {c} /\ Blocked' = Blocked
         /\ pc[c] # "rback" => Fetching' = Fetching
<1>1. sys.cur # NoThread /\ sys.stat[c] = "READY" /\ c \notin Blocked BY MqCaller
<1>2. /\ pc'[c] = l /\ (\A t \in Thread \ {c} : pc'[t] = pc[t]) /\ pc' \in [Thread -> MqPC]
  BY MqGoto
<1>3. Blocked' = Blocked BY DEF Blocked
<1>4. Fetching' = Fetching \ {c}
  <2>1. Fetching' = {t \in Thread : pc'[t] \in {"recv", "rback"} /\ sys'.stat[t] = "READY"
                                    /\ sys'.error[t] = "EOK"}
    BY DEF Fetching
  <2> QED BY <1>2, <2>1 DEF Fetching
<1>5. pc[c] # "rback" => c \notin Fetching BY DEF Fetching
<1>6. MqCurrent' BY <1>1 DEF MqCurrent
<1>7. MqWaits'
  <2>1. \A t \in Blocked : t \in Thread \ {c} BY <1>1, MqFacts
  <2> QED BY <1>2, <1>3, <2>1 DEF MqInv, MqWaits
<1> QED BY <1>2, <1>3, <1>4, <1>5, <1>6, <1>7, MqFacts DEF ThreadsKept

\* A message arrived for the receivers: the first one was woken, by a thread
\* that goes on or in a handler.
WokenReceiver ==
  /\ Base(sys') /\ sys'.error = sys.error
  /\ \/ Blocked = {} /\ sys'.stat = sys.stat /\ Blocked' = {}
     \/ \E t \in Blocked : /\ sys'.stat = [sys.stat EXCEPT ![t] = "READY"]
                           /\ Blocked' = Blocked \ {t}

LEMMA WokenReceiverOK ==
  ASSUME MqInv, NEW k, k = rt_ipc_list_resume(sys, "recv"),
         IF sys.wait["recv"] # <<>> THEN sys' = k \/ (sys.cur # NoThread /\ sys' = rt_schedule(k))
                                    ELSE sys' = sys
  PROVE  /\ WokenReceiver
         /\ sys'.cur = sys.cur \/ (sys'.cur # NoThread /\ sys'.stat[sys'.cur] = "READY")
<1>1. "recv" \in WaitList /\ Base(sys) BY MqFacts
<1>2. CASE sys.wait["recv"] = <<>>
  <2>1. sys' = sys /\ Blocked = {} BY <1>2, MqFacts
  <2>2. Blocked' = Blocked BY <2>1 DEF Blocked
  <2> QED BY <1>1, <2>1, <2>2 DEF WokenReceiver
<1>3. CASE sys.wait["recv"] # <<>>
  <2>1. PICK t : Resumed(sys, k, "recv", t) BY <1>1, <1>3, ListResumeBase
  <2>2. /\ t \in Blocked /\ Base(k) /\ k.stat = [sys.stat EXCEPT ![t] = "READY"]
        /\ k.error = sys.error /\ k.cur = sys.cur /\ ToSet(k.wait["recv"]) = Blocked \ {t}
    BY <1>1, <2>1 DEF Blocked, Resumed
  <2>3. CASE sys' = k
    <3>1. Blocked' = Blocked \ {t} BY <2>2, <2>3 DEF Blocked
    <3> QED BY <2>2, <2>3, <3>1 DEF WokenReceiver
  <2>4. CASE sys.cur # NoThread /\ sys' = rt_schedule(k)
    <3>1. k.cur # NoThread BY <2>2, <2>4
    <3>2. /\ Base(sys') /\ sys'.stat = k.stat /\ sys'.error = k.error /\ sys'.wait = k.wait
          /\ sys'.cur # NoThread /\ sys'.stat[sys'.cur] = "READY"
      BY <2>2, <2>4, <3>1, DispatchBase
    <3>3. Blocked' = Blocked \ {t} BY <2>2, <3>2 DEF Blocked
    <3> QED BY <2>2, <3>2, <3>3 DEF WokenReceiver
  <2> QED BY <1>3, <2>3, <2>4
<1> QED BY <1>2, <1>3

\* What that does to the receivers, when pc changes only for a thread that can
\* run and neither was nor is in rt_mq_recv's wait.
LEMMA WokenCounts ==
  ASSUME MqInv, WokenReceiver, mq'.entry = mq.entry + 1, pc' \in [Thread -> MqPC],
         \A t \in Thread : pc'[t] = pc[t] \/ (/\ sys.stat[t] = "READY"
                                              /\ pc[t] \notin {"recv", "rback"}
                                              /\ pc'[t] \notin {"recv", "rback"})
  PROVE  Counted /\ MqWaits'
<1>1. Fetching' = {t \in Thread : pc'[t] \in {"recv", "rback"} /\ sys'.stat[t] = "READY"
                                  /\ sys'.error[t] = "EOK"}
  BY DEF Fetching
<1>2. \A t \in Thread : pc'[t] \in {"recv", "rback"} <=> pc[t] \in {"recv", "rback"} OBVIOUS
<1>3. sys'.error = sys.error BY DEF WokenReceiver
<1>4. MqWaits'
  <2>1. Blocked' \subseteq Blocked BY DEF WokenReceiver
  <2>2. \A t \in Blocked : t \in Thread BY MqFacts
  <2> QED BY <1>2, <1>3, <2>1, <2>2 DEF MqInv, MqWaits
<1>5. CASE Blocked = {} /\ sys'.stat = sys.stat /\ Blocked' = {}
  <2>1. Fetching' = Fetching BY <1>1, <1>2, <1>3, <1>5 DEF Fetching
  <2> QED BY <1>4, <1>5, <2>1 DEF Counted
<1>6. ASSUME NEW t \in Blocked, sys'.stat = [sys.stat EXCEPT ![t] = "READY"]
      PROVE  Counted /\ MqWaits'
  <2>1. t \in Thread /\ sys'.stat[t] = "READY" /\ \A u \in Thread \ {t} : sys'.stat[u] = sys.stat[u]
    BY <1>6, MqFacts
  <2>2. pc[t] \in {"recv", "rback"} /\ sys.error[t] = "EOK" BY <1>6 DEF MqInv, MqWaits
  <2>3. Fetching' = Fetching \cup {t} BY <1>1, <1>2, <1>3, <2>1, <2>2 DEF Fetching
  <2> QED BY <1>4, <1>6, <2>3 DEF Counted
<1> QED BY <1>5, <1>6 DEF WokenReceiver

-----------------------------------------------------------------------------
(* The slots of the callers *)

\* c takes the slot x.
LEMMA TakeSlot ==
  ASSUME MqInv, NEW c \in Thread, pc[c] \notin Owning, NEW x \in Slot, x \notin HeldSlots,
         slot' = [slot EXCEPT ![c] = x], pc'[c] \in Owning,
         \A t \in Thread \ {c} : pc'[t] = pc[t]
  PROVE  MqHolds' /\ HeldSlots' = HeldSlots \cup {x} /\ slot' \in [Thread -> Link]
<1>1. /\ \A t \in Thread : slot[t] # Null <=> pc[t] \in Owning
      /\ \A t, u \in Held : slot[t] = slot[u] => t = u
      /\ slot \in [Thread -> Link] /\ slot[c] = Null
  BY MqFacts DEF MqInv, MqHolds
<1>2. x # Null /\ x \in Link BY SlotFacts
<1>3. slot'[c] = x /\ \A t \in Thread \ {c} : slot'[t] = slot[t] BY <1>1
<1>4. Held' = Held \cup {c} BY <1>2, <1>3 DEF Held
<1>5. c \notin Held BY <1>1 DEF Held
<1>6. Held \subseteq Thread BY DEF Held
<1>7. \A t \in Held : slot[t] \in HeldSlots BY DEF HeldSlots
<1>8. HeldSlots' = HeldSlots \cup {x}
  <2>1. HeldSlots' = {slot'[t] : t \in Held'} BY DEF HeldSlots
  <2> QED BY <1>3, <1>4, <1>5, <1>6, <2>1 DEF HeldSlots
<1>9. \A t, u \in Held' : slot'[t] = slot'[u] => t = u
  BY <1>1, <1>3, <1>4, <1>5, <1>6, <1>7
<1>10. \A t \in Thread : slot'[t] # Null <=> pc'[t] \in Owning BY <1>1, <1>2, <1>3
<1> QED BY <1>1, <1>2, <1>8, <1>9, <1>10 DEF MqHolds

\* c gives its slot back.
LEMMA GiveSlot ==
  ASSUME MqInv, NEW c \in Thread, pc[c] \in Owning, slot' = [slot EXCEPT ![c] = Null],
         pc'[c] \notin Owning, \A t \in Thread \ {c} : pc'[t] = pc[t]
  PROVE  /\ MqHolds' /\ HeldSlots' = HeldSlots \ {slot[c]} /\ slot' \in [Thread -> Link]
         /\ slot[c] \in HeldSlots
<1>1. /\ \A t \in Thread : slot[t] # Null <=> pc[t] \in Owning
      /\ \A t, u \in Held : slot[t] = slot[u] => t = u
      /\ slot \in [Thread -> Link] /\ slot[c] # Null
  BY MqFacts DEF MqInv, MqHolds
<1>2. Null \in Link BY SlotFacts
<1>3. slot'[c] = Null /\ \A t \in Thread \ {c} : slot'[t] = slot[t] BY <1>1
<1>4. Held' = Held \ {c} /\ c \in Held /\ Held \subseteq Thread BY <1>1, <1>3 DEF Held
<1>5. slot[c] \in HeldSlots BY <1>4 DEF HeldSlots
<1>6. HeldSlots' = HeldSlots \ {slot[c]}
  <2>1. HeldSlots' = {slot'[t] : t \in Held'} BY DEF HeldSlots
  <2>2. HeldSlots' = {slot[t] : t \in Held \ {c}} BY <1>3, <1>4, <2>1
  <2>3. \A t \in Held \ {c} : slot[t] # slot[c] BY <1>1, <1>4
  <2> QED BY <1>4, <2>2, <2>3 DEF HeldSlots
<1>7. \A t, u \in Held' : slot'[t] = slot'[u] => t = u BY <1>1, <1>3, <1>4
<1>8. \A t \in Thread : slot'[t] # Null <=> pc'[t] \in Owning BY <1>1, <1>3
<1> QED BY <1>1, <1>2, <1>5, <1>6, <1>7, <1>8 DEF MqHolds

\* Nobody takes or gives a slot.
LEMMA KeepSlots ==
  ASSUME MqInv, slot' = slot, message' = message,
         \A t \in Thread : pc'[t] = pc[t] \/ (pc[t] \notin Owning /\ pc'[t] \notin Owning)
  PROVE  MqHolds' /\ MqKinds' /\ HeldSlots' = HeldSlots /\ slot' \in [Thread -> Link]
<1>1. Held' = Held /\ HeldSlots' = HeldSlots BY DEF Held, HeldSlots
<1>2. \A t \in Thread : pc'[t] \in Owning <=> pc[t] \in Owning OBVIOUS
<1>3. MqHolds' BY <1>1, <1>2 DEF MqInv, MqHolds
<1>4. MqKinds' BY DEF MqInv, MqKinds, Owning
<1> QED BY <1>1, <1>3, <1>4, MqFacts

-----------------------------------------------------------------------------
(* Each step: what it does to the messages *)

Moved(a, b) ==
  \/ b = a
  \/ Len(a) < MaxMsgs /\ \E m \in Message \ Urgent : b = Append(a, m)
  \/ Len(a) < MaxMsgs /\ \E m \in Urgent : b = <<m>> \o a
  \/ a # <<>> /\ b = Tail(a)
  \/ b = <<>>

MqMoved ==
  \E q, f, q2, f2 : /\ Lists(q, f) /\ Lists(q2, f2)'
                    /\ Moved(Content(mq, q), Content(mq', q2))

MqDone ==
  /\ ThreadsKept /\ Counted /\ MqHolds' /\ MqKinds' /\ MqMoved
  /\ slot' \in [Thread -> Link] /\ message' \in [Thread -> Message]
  /\ limit' \in [Thread -> {"none", "timed", "forever"}]

LEMMA MqDoneOK ==
  ASSUME MqInv, MqDone
  PROVE  MqInv'
<1>1. PICK q, f : Lists(q, f)' BY DEF MqDone, MqMoved
<1>2. Base(sys') /\ MqCurrent' /\ MqWaits' /\ pc' \in [Thread -> MqPC] BY DEF MqDone, ThreadsKept
<1>3. MqTypeOK' BY <1>1, <1>2, MqTypes DEF MqDone
<1>4. MqCount' BY CountedOK DEF MqDone
<1> QED BY <1>1, <1>2, <1>3, <1>4 DEF MqInv, MqDone

\* The lists stay when nothing touches them.
LEMMA ListsKept ==
  ASSUME MqInv, mq' = mq, HeldSlots' = HeldSlots
  PROVE  MqMoved
<1>1. PICK q, f : Lists(q, f) BY DEF MqInv
<1>2. Lists(q, f)' BY <1>1 DEF Lists
<1>3. Moved(Content(mq, q), Content(mq', q)) BY DEF Moved
<1> QED BY <1>1, <1>2, <1>3 DEF MqMoved

\* A slot is taken from the free list.
LEMMA MqClaimOK ==
  ASSUME MqInv, NEW c \in Thread, NEW v \in Message, NEW l \in {"fill", "ufill"},
         l = "fill" => v \notin Urgent, l = "ufill" => v \in Urgent, Claim(c, v, l)
  PROVE  MqDone
<1>1. /\ sys.cur = c /\ pc[c] = "run" /\ mq.free # Null /\ mq' = Claimed(mq)
      /\ slot' = [slot EXCEPT ![c] = mq.free] /\ message' = [message EXCEPT ![c] = v]
      /\ Goto(c, l) /\ sys' = sys /\ limit' = limit
  BY DEF Claim, Running, At
<1>2. pc[c] # "recv" /\ pc[c] # "rback" /\ pc[c] \notin Owning /\ l \in Owning
      /\ l \in MqPC \ {"recv", "rback"}
  BY <1>1 DEF Owning, MqPC
<1>3. ThreadsKept /\ Fetching' = Fetching /\ Blocked' = Blocked BY <1>1, <1>2, GoOn
<1>4. pc'[c] = l /\ \A t \in Thread \ {c} : pc'[t] = pc[t] BY <1>1, <1>2, MqGoto
<1>5. PICK q, f : Lists(q, f) BY DEF MqInv
<1>6. PICK H, m, x : H = HeldSlots /\ m = mq' /\ x = mq.free OBVIOUS
<1>7. Divided(mq, H, q, f) /\ Len(q) = mq.entry BY <1>5, <1>6 DEF Lists
<1>8. /\ Divided(m, H \cup {x}, q, Tail(f)) /\ x \in Slot /\ x \notin H
      /\ m.entry = mq.entry /\ m.data = mq.data
  BY <1>1, <1>6, <1>7, ClaimedOK, SMTT(30)
<1>9. MqHolds' /\ HeldSlots' = HeldSlots \cup {x} /\ slot' \in [Thread -> Link]
  BY <1>1, <1>2, <1>4, <1>6, <1>8, TakeSlot
<1>10. Lists(q, Tail(f))' BY <1>6, <1>7, <1>8, <1>9 DEF Lists
<1>11. Content(mq', q) = Content(mq, q) BY <1>6, <1>8 DEF Content
<1>12. MqMoved BY <1>5, <1>10, <1>11 DEF MqMoved, Moved
<1>13. message' \in [Thread -> Message] /\ message'[c] = v
       /\ \A t \in Thread \ {c} : message'[t] = message[t]
  BY <1>1, MqFacts
<1>14. MqKinds' BY <1>4, <1>13 DEF MqInv, MqKinds
<1>15. Counted BY <1>3, <1>6, <1>8 DEF Counted
<1> QED BY <1>1, <1>3, <1>9, <1>12, <1>13, <1>14, <1>15, MqFacts DEF MqDone

\* A receiver's slot goes back to the free list.
LEMMA MqRecvFreeOK ==
  ASSUME MqInv, NEW c \in Thread, RecvFree(c)
  PROVE  MqDone
<1>1. /\ sys.cur = c /\ pc[c] = "copy" /\ mq' = Freed(mq, slot[c])
      /\ slot' = [slot EXCEPT ![c] = Null] /\ Goto(c, "run")
      /\ sys' = sys /\ message' = message /\ limit' = limit
  BY DEF RecvFree, At
<1>2. pc[c] # "recv" /\ pc[c] # "rback" /\ pc[c] \in Owning /\ "run" \notin Owning
      /\ "run" \in MqPC \ {"recv", "rback"} /\ "run" \in MqPC
  BY <1>1 DEF Owning, MqPC
<1>3. ThreadsKept /\ Fetching' = Fetching /\ Blocked' = Blocked BY <1>1, <1>2, GoOn
<1>4. pc'[c] = "run" /\ \A t \in Thread \ {c} : pc'[t] = pc[t] BY <1>1, <1>2, MqGoto
<1>5. PICK q, f : Lists(q, f) BY DEF MqInv
<1>6. PICK H, m, x : H = HeldSlots /\ m = mq' /\ x = slot[c] OBVIOUS
<1>7. Divided(mq, H, q, f) /\ Len(q) = mq.entry BY <1>5, <1>6 DEF Lists
<1>8. MqHolds' /\ HeldSlots' = HeldSlots \ {x} /\ slot' \in [Thread -> Link] /\ x \in HeldSlots
  BY <1>1, <1>2, <1>4, <1>6, GiveSlot
<1>9. /\ Divided(m, H \ {x}, q, <<x>> \o f) /\ m.entry = mq.entry /\ m.data = mq.data
  BY <1>1, <1>6, <1>7, <1>8, FreedOK
<1>10. Lists(q, <<x>> \o f)' BY <1>6, <1>7, <1>8, <1>9 DEF Lists
<1>11. Content(mq', q) = Content(mq, q) BY <1>6, <1>9 DEF Content
<1>12. MqMoved BY <1>5, <1>10, <1>11 DEF MqMoved, Moved
<1>13. MqKinds' BY <1>1, <1>4 DEF MqInv, MqKinds
<1>14. Counted BY <1>3, <1>6, <1>9 DEF Counted
<1> QED BY <1>1, <1>3, <1>8, <1>12, <1>13, <1>14, MqFacts DEF MqDone

\* A receiver takes the first message.
LEMMA MqGetOK ==
  ASSUME MqInv, NEW c \in Thread, sys.cur = c, pc[c] \in {"run", "rback"}, GetMessage(c)
  PROVE  MqDone
<1>1. /\ mq.entry > 0 /\ mq' = UnlinkFirst(mq) /\ slot' = [slot EXCEPT ![c] = mq.head]
      /\ Goto(c, "copy") /\ sys' = sys /\ message' = message /\ limit' = limit
  BY DEF GetMessage
<1>2. pc[c] # "recv" /\ pc[c] \notin Owning /\ "copy" \in Owning
      /\ "copy" \in MqPC \ {"recv", "rback"} /\ "copy" \in MqPC
  BY DEF Owning, MqPC
<1>3. ThreadsKept /\ Fetching' = Fetching \ {c} /\ Blocked' = Blocked BY <1>1, <1>2, GoOn
<1>4. pc'[c] = "copy" /\ \A t \in Thread \ {c} : pc'[t] = pc[t] BY <1>1, <1>2, MqGoto
<1>5. PICK q, f : Lists(q, f) BY DEF MqInv
<1>6. PICK H, m, x : H = HeldSlots /\ m = mq' /\ x = mq.head OBVIOUS
<1>7. Divided(mq, H, q, f) /\ Len(q) = mq.entry BY <1>5, <1>6 DEF Lists
<1>8. mq.head # Null
  <2>1. Len(q) # 0 BY <1>1, <1>7
  <2> QED BY <1>7, <2>1, DividedFacts
<1>9. /\ Divided(m, H \cup {x}, Tail(q), f) /\ x \in Slot /\ x \notin H
      /\ m.entry = mq.entry - 1 /\ Len(Tail(q)) = Len(q) - 1
      /\ Content(mq, q) # <<>> /\ Content(m, Tail(q)) = Tail(Content(mq, q))
  BY <1>1, <1>6, <1>7, <1>8, UnlinkFirstOK
<1>10. MqHolds' /\ HeldSlots' = HeldSlots \cup {x} /\ slot' \in [Thread -> Link]
  BY <1>1, <1>2, <1>4, <1>6, <1>9, TakeSlot
<1>11. Lists(Tail(q), f)' BY <1>6, <1>7, <1>9, <1>10 DEF Lists
<1>12. MqMoved BY <1>5, <1>6, <1>9, <1>11 DEF MqMoved, Moved
<1>13. MqKinds' BY <1>1, <1>4 DEF MqInv, MqKinds
<1>14. Counted
  <2>1. Fetching' \subseteq Fetching /\ Fetching \subseteq Fetching' \cup {c} BY <1>3
  <2> QED BY <1>3, <1>6, <1>9, <2>1 DEF Counted
<1> QED BY <1>1, <1>3, <1>10, <1>12, <1>13, <1>14, MqFacts DEF MqDone

\* A message is linked, and the first receiver woken.
LEMMA MqSendLinkOK ==
  ASSUME MqInv, NEW c \in Thread, SendLink(c)
  PROVE  MqDone
<1>1. /\ sys.cur = c /\ pc[c] \in {"fill", "ufill"}
      /\ mq' = IF pc[c] = "fill" THEN LinkLast(mq, slot[c], message[c])
                                 ELSE LinkFirst(mq, slot[c], message[c])
      /\ slot' = [slot EXCEPT ![c] = Null] /\ message' = message /\ limit' = limit
      /\ IF sys.wait["recv"] # <<>> THEN sys' = rt_ipc_list_resume(sys, "recv") ELSE sys' = sys
  BY DEF SendLink, At
<1>2. PICK l \in {"give", "run"} : Goto(c, l) BY DEF SendLink
<1>3. pc[c] # "recv" /\ pc[c] \in Owning /\ l \notin Owning /\ l \in MqPC
      /\ pc[c] \notin {"recv", "rback"} /\ l \notin {"recv", "rback"}
  BY <1>1 DEF Owning, MqPC
<1>4. /\ pc'[c] = l /\ (\A t \in Thread \ {c} : pc'[t] = pc[t]) /\ pc' \in [Thread -> MqPC]
  BY <1>2, <1>3, MqGoto
<1>5. sys.cur # NoThread /\ sys.stat[c] = "READY" /\ c \notin Blocked BY <1>1, <1>3, MqCaller
<1>6. PICK q, f : Lists(q, f) BY DEF MqInv
<1>7. PICK H, m, x : H = HeldSlots /\ m = mq' /\ x = slot[c] OBVIOUS
<1>8. PICK v \in Message : v = message[c] BY MqFacts
<1>9. Divided(mq, H, q, f) /\ Len(q) = mq.entry BY <1>6, <1>7 DEF Lists
<1>10. MqHolds' /\ HeldSlots' = H \ {x} /\ slot' \in [Thread -> Link] /\ x \in H
  BY <1>1, <1>3, <1>4, <1>7, GiveSlot
<1>11. Len(Content(mq, q)) = Len(q) /\ Len(q) < MaxMsgs
  <2>1. Len(q) \in Nat /\ Len(f) \in Nat /\ MaxMsgs \in Nat BY <1>9, DividedFacts
  <2>2. Len(Content(mq, q)) = Len(q) BY <2>1 DEF Content
  <2>3. Cardinality(H) \in Nat /\ Cardinality(H) > 0
    <3>1. IsFiniteSet(H) /\ H # {} BY <1>9, <1>10 DEF Divided
    <3> QED BY <3>1, FS_CardinalityType, FS_EmptySet
  <2>4. Len(q) + Len(f) + Cardinality(H) = MaxMsgs BY <1>9 DEF Divided
  <2> QED BY <2>1, <2>2, <2>3, <2>4
<1>12. MqMoved /\ mq'.entry = mq.entry + 1
  <2>1. CASE pc[c] = "fill"
    <3>1. m = LinkLast(mq, x, v) BY <1>1, <1>7, <1>8, <2>1
    <3>2. /\ Divided(m, H \ {x}, Append(q, x), f) /\ m.entry = mq.entry + 1
          /\ Content(m, Append(q, x)) = Append(Content(mq, q), v)
      <4>1. Divided(mq, H, q, f) /\ x \in H /\ v \in Message BY <1>9, <1>10
      <4>2. PutLast(mq, m, H, q, f, x, v) BY <3>1, <4>1, LinkLastOK
      <4> QED BY <4>2 DEF PutLast
    <3>3. Len(Append(q, x)) = Len(q) + 1 BY <1>9, DividedFacts
    <3>4. Lists(Append(q, x), f)' BY <1>7, <1>9, <1>10, <3>2, <3>3 DEF Lists
    <3>5. v \notin Urgent BY <1>8, <2>1 DEF MqInv, MqKinds
    <3>6. Moved(Content(mq, q), Content(mq', Append(q, x))) BY <1>7, <1>11, <3>2, <3>5 DEF Moved
    <3> QED BY <1>6, <1>7, <3>2, <3>4, <3>6 DEF MqMoved
  <2>2. CASE pc[c] = "ufill"
    <3>1. m = LinkFirst(mq, x, v) BY <1>1, <1>7, <1>8, <2>2
    <3>2. /\ Divided(m, H \ {x}, <<x>> \o q, f) /\ m.entry = mq.entry + 1
          /\ Content(m, <<x>> \o q) = <<v>> \o Content(mq, q)
      <4>1. Divided(mq, H, q, f) /\ x \in H /\ v \in Message BY <1>9, <1>10
      <4>2. PutFirst(mq, m, H, q, f, x, v) BY <3>1, <4>1, LinkFirstOK
      <4> QED BY <4>2 DEF PutFirst
    <3>3. Len(<<x>> \o q) = Len(q) + 1
      <4>1. q \in Seq(Slot) /\ x \in Slot BY <1>9, <1>10, DividedFacts DEF Divided
      <4> QED BY <4>1
    <3>4. Lists(<<x>> \o q, f)' BY <1>7, <1>9, <1>10, <3>2, <3>3 DEF Lists
    <3>5. v \in Urgent BY <1>8, <2>2 DEF MqInv, MqKinds
    <3>6. Moved(Content(mq, q), Content(mq', <<x>> \o q)) BY <1>7, <1>11, <3>2, <3>5 DEF Moved
    <3> QED BY <1>6, <1>7, <3>2, <3>4, <3>6 DEF MqMoved
  <2> QED BY <1>1, <2>1, <2>2
<1>13. MqKinds' BY <1>1, <1>2, <1>4 DEF MqInv, MqKinds
<1>14. /\ WokenReceiver
       /\ sys'.cur = sys.cur \/ (sys'.cur # NoThread /\ sys'.stat[sys'.cur] = "READY")
  <2>1. PICK k : k = rt_ipc_list_resume(sys, "recv") OBVIOUS
  <2>2. IF sys.wait["recv"] # <<>> THEN sys' = k \/ (sys.cur # NoThread /\ sys' = rt_schedule(k))
                                   ELSE sys' = sys
    BY <1>1, <2>1
  <2> QED BY <2>1, <2>2, WokenReceiverOK
<1>15. Counted /\ MqWaits'
  <2>1. \A t \in Thread : pc'[t] = pc[t] \/ (/\ sys.stat[t] = "READY"
                                             /\ pc[t] \notin {"recv", "rback"}
                                             /\ pc'[t] \notin {"recv", "rback"})
    BY <1>3, <1>4, <1>5
  <2> QED BY <1>4, <1>12, <1>14, <2>1, WokenCounts
<1>16. sys'.stat[c] = "READY"
  <2>1. CASE sys'.stat = sys.stat BY <1>5, <2>1
  <2>2. ASSUME NEW t \in Blocked, sys'.stat = [sys.stat EXCEPT ![t] = "READY"]
        PROVE  sys'.stat[c] = "READY"
    BY <1>5, <2>2, MqFacts
  <2> QED BY <1>14, <2>1, <2>2 DEF WokenReceiver
<1>17. MqCurrent' BY <1>1, <1>5, <1>14, <1>16 DEF MqCurrent
<1>18. ThreadsKept BY <1>4, <1>14, <1>15, <1>17 DEF ThreadsKept, WokenReceiver
<1> QED BY <1>1, <1>10, <1>12, <1>13, <1>15, <1>18, MqFacts DEF MqDone

\* rt_mq_send in a handler.
LEMMA MqInterruptOK ==
  ASSUME MqInv, NEW v \in Message \ Urgent, MqFromInterrupt(v)
  PROVE  MqDone
<1>1. /\ sys.cur # NoThread /\ mq.free # Null /\ mq' = LinkLast(Claimed(mq), mq.free, v)
      /\ UNCHANGED <<pc, slot, message, limit>>
      /\ IF sys.wait["recv"] # <<>> THEN sys' = rt_schedule(rt_ipc_list_resume(sys, "recv"))
                                    ELSE sys' = sys
  BY DEF MqFromInterrupt
<1>2. sys.cur \in Thread BY <1>1, MqFacts DEF Base
<1>3. MqHolds' /\ MqKinds' /\ HeldSlots' = HeldSlots /\ slot' \in [Thread -> Link]
  BY <1>1, KeepSlots
<1>4. PICK q, f : Lists(q, f) BY DEF MqInv
<1>5. PICK H, m, x, k : H = HeldSlots /\ m = mq' /\ x = mq.free /\ k = Claimed(mq) OBVIOUS
<1>6. Divided(mq, H, q, f) /\ Len(q) = mq.entry BY <1>4, <1>5 DEF Lists
<1>7. /\ Divided(k, H \cup {x}, q, Tail(f)) /\ x \notin H
      /\ k.entry = mq.entry /\ k.data = mq.data
  <2>1. Divided(mq, H, q, f) /\ mq.free # Null /\ x = mq.free /\ k = Claimed(mq)
    BY <1>1, <1>5, <1>6
  <2> QED BY <2>1, ClaimedOK
<1>8. PICK G : G = H \cup {x} OBVIOUS
<1>9. /\ Divided(m, G \ {x}, Append(q, x), Tail(f)) /\ m.entry = k.entry + 1
      /\ Content(m, Append(q, x)) = Append(Content(k, q), v)
  <2>1. Divided(k, G, q, Tail(f)) /\ x \in G /\ v \in Message BY <1>7, <1>8
  <2>2. m = LinkLast(k, x, v) BY <1>1, <1>5
  <2>3. PutLast(k, m, G, q, Tail(f), x, v) BY <2>1, <2>2, LinkLastOK
  <2> QED BY <2>3 DEF PutLast
<1>10. G \ {x} = H BY <1>7, <1>8
<1>11. Len(Append(q, x)) = Len(q) + 1 BY <1>6, DividedFacts
<1>12. Lists(Append(q, x), Tail(f))' BY <1>3, <1>5, <1>6, <1>7, <1>9, <1>10, <1>11 DEF Lists
<1>13. Content(k, q) = Content(mq, q) BY <1>7 DEF Content
<1>14. Len(Content(mq, q)) = Len(q) /\ Len(q) < MaxMsgs
  <2>1. Len(q) \in Nat /\ Len(f) \in Nat /\ MaxMsgs \in Nat /\ Cardinality(H) \in Nat
        /\ (mq.free = Null <=> f = <<>>) /\ f \in Seq(Slot)
    BY <1>6, DividedFacts
  <2>2. Len(f) > 0 BY <1>1, <2>1
  <2>3. Len(q) + Len(f) + Cardinality(H) = MaxMsgs BY <1>6 DEF Divided
  <2>4. Len(Content(mq, q)) = Len(q) BY <2>1 DEF Content
  <2> QED BY <2>1, <2>2, <2>3, <2>4
<1>15. MqMoved /\ mq'.entry = mq.entry + 1
  <2>1. Moved(Content(mq, q), Content(mq', Append(q, x))) BY <1>5, <1>9, <1>13, <1>14 DEF Moved
  <2> QED BY <1>4, <1>5, <1>7, <1>9, <1>12, <2>1 DEF MqMoved
<1>16. /\ WokenReceiver
       /\ sys'.cur = sys.cur \/ (sys'.cur # NoThread /\ sys'.stat[sys'.cur] = "READY")
  <2>1. PICK r : r = rt_ipc_list_resume(sys, "recv") OBVIOUS
  <2>2. IF sys.wait["recv"] # <<>> THEN sys' = r \/ (sys.cur # NoThread /\ sys' = rt_schedule(r))
                                   ELSE sys' = sys
    BY <1>1, <2>1
  <2> QED BY <2>1, <2>2, WokenReceiverOK
<1>17. Counted /\ MqWaits' BY <1>1, <1>15, <1>16, WokenCounts, MqFacts
<1>18. MqCurrent'
  <2>1. CASE sys'.cur # NoThread /\ sys'.stat[sys'.cur] = "READY" BY <2>1 DEF MqCurrent
  <2>2. CASE sys'.cur = sys.cur
    <3>1. sys'.stat[sys.cur] = sys.stat[sys.cur] \/ sys'.stat[sys.cur] = "READY"
      <4>1. CASE sys'.stat = sys.stat BY <4>1
      <4>2. ASSUME NEW t \in Blocked, sys'.stat = [sys.stat EXCEPT ![t] = "READY"]
            PROVE  sys'.stat[sys.cur] = sys.stat[sys.cur] \/ sys'.stat[sys.cur] = "READY"
        BY <1>2, <4>2, MqFacts
      <4> QED BY <1>16, <4>1, <4>2 DEF WokenReceiver
    <3> QED BY <1>1, <2>2, <3>1 DEF MqInv, MqCurrent
  <2> QED BY <1>16, <2>1, <2>2
<1>19. ThreadsKept BY <1>1, <1>16, <1>17, <1>18, MqFacts DEF ThreadsKept, WokenReceiver
<1> QED BY <1>1, <1>3, <1>15, <1>17, <1>19, MqFacts DEF MqDone

-----------------------------------------------------------------------------
(* Steps that leave the queue alone *)

\* The parts of MqDone that follow.
LEMMA MqQuietOK ==
  ASSUME MqInv, mq' = mq, slot' = slot, message' = message,
         limit' \in [Thread -> {"none", "timed", "forever"}], ThreadsKept,
         \A t \in Thread : pc'[t] = pc[t] \/ (pc[t] \notin Owning /\ pc'[t] \notin Owning),
         \/ Fetching' = Fetching /\ Blocked' \subseteq Blocked
         \/ mq.entry = 0 /\ Fetching' \subseteq Fetching
  PROVE  MqDone
<1>1. MqHolds' /\ MqKinds' /\ HeldSlots' = HeldSlots /\ slot' \in [Thread -> Link] BY KeepSlots
<1>2. MqMoved BY <1>1, ListsKept
<1>3. Counted BY DEF Counted
<1> QED BY <1>1, <1>2, <1>3, MqFacts DEF MqDone

\* A thread is started, or the scheduler is.
LEMMA MqBootOK ==
  ASSUME MqInv, Boot, UNCHANGED <<mq, slot, message, limit>>
  PROVE  MqDone
<1>1. /\ Base(sys') /\ pc' = pc /\ sys.cur = NoThread
      /\ sys'.error = sys.error /\ sys'.wait = sys.wait
      /\ \/ sys'.cur # NoThread /\ sys'.stat = sys.stat /\ sys'.stat[sys'.cur] = "READY"
         \/ sys'.cur = NoThread
  BY BootBase DEF MqInv
<1>2. \A t \in Thread : pc[t] = "run" BY <1>1 DEF MqInv, MqCurrent
<1>3. MqCurrent' BY <1>1, <1>2 DEF MqCurrent
<1>4. Blocked' = Blocked BY <1>1 DEF Blocked
<1>5. MqWaits' BY <1>1, <1>4 DEF MqInv, MqWaits
<1>6. Fetching' = {} /\ Fetching = {} BY <1>1, <1>2 DEF Fetching
<1>7. ThreadsKept BY <1>1, <1>3, <1>5, MqFacts DEF ThreadsKept
<1> QED BY <1>1, <1>4, <1>6, <1>7, MqQuietOK, MqFacts

\* The tick.
LEMMA MqTickOK ==
  ASSUME MqInv, Tick, UNCHANGED <<mq, slot, message, limit>>
  PROVE  MqDone
<1>1. /\ Base(sys') /\ pc' = pc /\ sys.cur # NoThread /\ sys'.cur # NoThread
      /\ \/ sys' = sys
         \/ Same(sys, sys') /\ sys'.stat[sys'.cur] = "READY"
         \/ \E t \in Thread : Expired(sys, sys', t) /\ sys'.stat[sys'.cur] = "READY"
  BY TickBase DEF MqInv
<1>2. MqCurrent' BY <1>1 DEF MqInv, MqCurrent
<1>3. Fetching' = {t \in Thread : pc[t] \in {"recv", "rback"} /\ sys'.stat[t] = "READY"
                                  /\ sys'.error[t] = "EOK"}
  BY <1>1 DEF Fetching
<1>4. CASE sys' = sys \/ Same(sys, sys')
  <2>1. Blocked' = Blocked /\ Fetching' = Fetching BY <1>3, <1>4 DEF Same, Blocked, Fetching
  <2>2. MqWaits' BY <1>1, <1>4, <2>1 DEF Same, MqInv, MqWaits
  <2>3. ThreadsKept BY <1>1, <1>2, <2>2, MqFacts DEF ThreadsKept
  <2> QED BY <1>1, <2>1, <2>3, MqQuietOK, MqFacts
<1>5. ASSUME NEW t \in Thread, Expired(sys, sys', t) PROVE MqDone
  <2>1. /\ sys.stat[t] = "SUSPEND" /\ sys'.stat = [sys.stat EXCEPT ![t] = "READY"]
        /\ sys'.error = [sys.error EXCEPT ![t] = "ETIMEOUT"] /\ Blocked' = Blocked \ {t}
    BY <1>5, MqFacts DEF Expired, Blocked
  <2>2. /\ sys'.error[t] # "EOK"
        /\ \A u \in Thread \ {t} : sys'.stat[u] = sys.stat[u] /\ sys'.error[u] = sys.error[u]
    BY <2>1, MqFacts
  <2>3. Fetching' = Fetching BY <1>3, <2>1, <2>2 DEF Fetching
  <2>4. MqWaits'
    <3>1. \A u \in Blocked' : u \in Blocked /\ u \in Thread \ {t} BY <2>1, MqFacts
    <3> QED BY <1>1, <2>2, <3>1 DEF MqInv, MqWaits
  <2>5. ThreadsKept BY <1>1, <1>2, <2>4, MqFacts DEF ThreadsKept
  <2> QED BY <1>1, <2>1, <2>3, <2>5, MqQuietOK, MqFacts
<1> QED BY <1>1, <1>4, <1>5

\* rt_schedule after a wait or after a thread was woken.
LEMMA MqScheduleOK ==
  ASSUME MqInv, NEW c \in Thread, MqSchedule(c)
  PROVE  MqDone
<1>1. PICK a, l : /\ (a = "recv" /\ l = "rback") \/ (a = "give" /\ l = "run")
                  /\ Schedule(c, a, l) /\ UNCHANGED <<mq, slot, message, limit>>
  BY DEF MqSchedule
<1>2. sys.cur = c /\ pc[c] = a /\ sys' = rt_schedule(sys) /\ Goto(c, l) /\ l \in MqPC
  BY <1>1 DEF Schedule, At, MqPC
<1>3. sys.cur # NoThread BY <1>2, MqFacts
<1>4. /\ Base(sys') /\ sys'.stat = sys.stat /\ sys'.error = sys.error /\ sys'.wait = sys.wait
      /\ sys'.cur # NoThread /\ sys'.stat[sys'.cur] = "READY"
  BY <1>2, <1>3, MqFacts, DispatchBase
<1>5. /\ pc'[c] = l /\ (\A t \in Thread \ {c} : pc'[t] = pc[t]) /\ pc' \in [Thread -> MqPC]
  BY <1>2, MqGoto
<1>6. MqCurrent' BY <1>4 DEF MqCurrent
<1>7. Blocked' = Blocked BY <1>4 DEF Blocked
<1>8. \A t \in Thread : pc'[t] \in {"recv", "rback"} <=> pc[t] \in {"recv", "rback"}
  BY <1>1, <1>2, <1>5
<1>9. Fetching' = Fetching
  <2>1. Fetching' = {t \in Thread : pc'[t] \in {"recv", "rback"} /\ sys'.stat[t] = "READY"
                                    /\ sys'.error[t] = "EOK"}
    BY DEF Fetching
  <2> QED BY <1>4, <1>8, <2>1 DEF Fetching
<1>10. MqWaits' BY <1>4, <1>7, <1>8, MqFacts DEF MqInv, MqWaits
<1>11. ThreadsKept BY <1>4, <1>5, <1>6, <1>10 DEF ThreadsKept
<1>12. pc[c] \notin Owning /\ l \notin Owning BY <1>1, <1>2 DEF Owning
<1> QED BY <1>1, <1>5, <1>7, <1>9, <1>11, <1>12, MqQuietOK, MqFacts

\* The call of c ends without success: there is no message for it.
LEMMA MqRefuseOK ==
  ASSUME MqInv, NEW c \in Thread, sys.cur = c, pc[c] \in {"run", "rback"},
         NEW e \in Error, MqRefuse(c, e)
  PROVE  MqDone
<1>1. /\ mq.entry = 0 /\ sys' = SetError(sys, c, e) /\ Goto(c, "run")
      /\ UNCHANGED <<mq, slot, message, limit>>
  BY DEF MqRefuse
<1>2. sys.cur # NoThread /\ sys.stat[c] = "READY" /\ c \notin Blocked BY MqCaller
<1>3. PICK X : X = {} OBVIOUS
<1>4. sys \in KernelState /\ KernelOK(sys, X) BY <1>3, MqFacts
<1>5. /\ sys' \in KernelState /\ KernelOK(sys', X)
      /\ sys'.stat = sys.stat /\ sys'.cur = sys.cur /\ sys'.nest = sys.nest
      /\ sys'.wait = sys.wait
  BY <1>1, <1>4, ErrorOK
<1>6. sys'.error = [sys.error EXCEPT ![c] = e] BY <1>1, <1>4 DEF SetError, KernelState
<1>7. \A t \in Thread \ {c} : sys'.error[t] = sys.error[t] BY <1>6, MqFacts
<1>8. Base(sys') BY <1>3, <1>5, MqFacts DEF Base, Sound
<1>9. /\ pc'[c] = "run" /\ (\A t \in Thread \ {c} : pc'[t] = pc[t]) /\ pc' \in [Thread -> MqPC]
  <2>1. "run" \in MqPC BY DEF MqPC
  <2> QED BY <1>1, <2>1, MqGoto
<1>10. MqCurrent' BY <1>2, <1>5 DEF MqCurrent
<1>11. Blocked' = Blocked BY <1>5 DEF Blocked
<1>12. MqWaits'
  <2>1. \A t \in Blocked : t \in Thread \ {c} BY <1>2, MqFacts
  <2> QED BY <1>7, <1>9, <1>11, <2>1 DEF MqInv, MqWaits
<1>13. Fetching' \subseteq Fetching
  <2>1. Fetching' = {t \in Thread : pc'[t] \in {"recv", "rback"} /\ sys'.stat[t] = "READY"
                                    /\ sys'.error[t] = "EOK"}
    BY DEF Fetching
  <2> QED BY <1>5, <1>7, <1>9, <2>1 DEF Fetching
<1>14. ThreadsKept BY <1>8, <1>9, <1>10, <1>12 DEF ThreadsKept
<1>15. pc[c] \notin Owning /\ "run" \notin Owning BY DEF Owning
<1> QED BY <1>1, <1>9, <1>13, <1>14, <1>15, MqQuietOK, MqFacts

\* c waits for a message.
LEMMA MqBlockOK ==
  ASSUME MqInv, NEW c \in Thread \ {Idle}, sys.cur = c, pc[c] \in {"run", "rback"},
         NEW tm \in {"none", "timed", "forever"}, MqBlock(c, tm)
  PROVE  MqDone
<1>1. /\ mq.entry = 0 /\ sys' = WaitOn(sys, "recv", c, MqFlag, tm)
      /\ limit' = [limit EXCEPT ![c] = tm] /\ Goto(c, "recv")
      /\ UNCHANGED <<mq, slot, message>>
  BY DEF MqBlock
<1>2. sys.cur # NoThread /\ sys.stat[c] = "READY" /\ c \notin Blocked BY MqCaller
<1>3. Base(sys') /\ Queued(sys, sys', "recv", c, tm)
  <2>1. "recv" \in WaitList /\ Base(sys) BY MqFacts
  <2>2. PICK w \in WaitList, fl \in {MqFlag} : w = "recv" BY <2>1
  <2>3. sys' = WaitOn(sys, w, c, fl, tm) BY <1>1, <2>2
  <2>4. Base(sys') /\ Queued(sys, sys', w, c, tm) BY <1>2, <2>1, <2>3, WaitBase
  <2> QED BY <2>2, <2>4
<1>4. /\ sys'.stat = [sys.stat EXCEPT ![c] = "SUSPEND"] /\ sys'.cur = c
      /\ sys'.error = [sys.error EXCEPT ![c] = "EOK"]
      /\ Blocked' = Blocked \cup {c}
  BY <1>3, MqFacts DEF Queued, Blocked
<1>5. /\ pc'[c] = "recv" /\ (\A t \in Thread \ {c} : pc'[t] = pc[t]) /\ pc' \in [Thread -> MqPC]
  <2>1. "recv" \in MqPC BY DEF MqPC
  <2> QED BY <1>1, <2>1, MqGoto
<1>6. /\ sys'.stat[c] = "SUSPEND" /\ sys'.error[c] = "EOK"
      /\ \A t \in Thread \ {c} : sys'.stat[t] = sys.stat[t] /\ sys'.error[t] = sys.error[t]
  BY <1>4, MqFacts
<1>7. limit' \in [Thread -> {"none", "timed", "forever"}] BY <1>1, MqFacts
<1>8. MqCurrent' BY <1>2, <1>4, <1>5 DEF MqCurrent
<1>9. MqWaits'
  <2>1. \A t \in Blocked : t \in Thread \ {c} BY <1>2, MqFacts
  <2> QED BY <1>4, <1>5, <1>6, <2>1 DEF MqInv, MqWaits
<1>10. Fetching' \subseteq Fetching
  <2>1. Fetching' = {t \in Thread : pc'[t] \in {"recv", "rback"} /\ sys'.stat[t] = "READY"
                                    /\ sys'.error[t] = "EOK"}
    BY DEF Fetching
  <2> QED BY <1>5, <1>6, <2>1 DEF Fetching
<1>11. ThreadsKept BY <1>3, <1>5, <1>8, <1>9 DEF ThreadsKept
<1>12. pc[c] \notin Owning /\ "recv" \notin Owning BY DEF Owning
<1> QED BY <1>1, <1>5, <1>7, <1>10, <1>11, <1>12, MqQuietOK, MqFacts

\* A woken thread that was not woken for a message gives up.
LEMMA MqGiveUpOK ==
  ASSUME MqInv, NEW c \in Thread, sys.cur = c, pc[c] = "rback", sys.error[c] # "EOK",
         Goto(c, "run"), UNCHANGED <<sys, mq, slot, message, limit>>
  PROVE  MqDone
<1>1. "run" \in MqPC \ {"recv", "rback"} /\ "run" \in MqPC BY DEF MqPC
<1>2. ThreadsKept /\ Fetching' = Fetching \ {c} /\ Blocked' = Blocked BY <1>1, GoOn
<1>3. c \notin Fetching BY DEF Fetching
<1>4. pc'[c] = "run" /\ \A t \in Thread \ {c} : pc'[t] = pc[t] BY <1>1, MqGoto
<1>5. "rback" \notin Owning /\ "run" \notin Owning BY DEF Owning
<1> QED BY <1>2, <1>3, <1>4, <1>5, MqQuietOK, MqFacts

\* The reset: nobody waits any more, and every queued slot is free.
LEMMA MqControlOK ==
  ASSUME MqInv, NEW c \in Thread, rt_mq_control(c)
  PROVE  MqDone
<1>1. /\ sys.cur = c /\ pc[c] = "run" /\ sys' = ResumeAll(sys, "recv") /\ mq' = Emptied(mq)
      /\ Goto(c, "give") /\ UNCHANGED <<slot, message, limit>>
  BY DEF rt_mq_control, Running, At
<1>2. sys.cur # NoThread /\ sys.stat[c] = "READY" /\ c \notin Blocked BY <1>1, MqCaller
<1>3. /\ Base(sys') /\ sys'.cur = sys.cur /\ Blocked' = {}
      /\ \A t \in Thread : /\ sys'.stat[t] = IF t \in Blocked THEN "READY" ELSE sys.stat[t]
                           /\ sys'.error[t] = IF t \in Blocked THEN "ERROR" ELSE sys.error[t]
  <2>1. PICK k, D : k = sys' /\ D = Blocked OBVIOUS
  <2>2. "recv" \in WaitList /\ Base(sys) /\ k = ResumeAll(sys, "recv") BY <1>1, <2>1, MqFacts
  <2>3. AllWoken(sys, k, ToSet(sys.wait["recv"])) BY <2>2, ResumeAllBase
  <2>4. AllWoken(sys, k, D) BY <2>1, <2>3 DEF Blocked
  <2>5. /\ Base(k) /\ k.cur = sys.cur /\ ToSet(k.wait["recv"]) = ToSet(sys.wait["recv"]) \ D
        /\ k.stat = [t \in Thread |-> IF t \in D THEN "READY" ELSE sys.stat[t]]
        /\ k.error = [t \in Thread |-> IF t \in D THEN "ERROR" ELSE sys.error[t]]
    BY <2>2, <2>4 DEF AllWoken
  <2>6. Blocked' = {} BY <2>1, <2>5 DEF Blocked
  <2> QED BY <2>1, <2>5, <2>6
<1>4. /\ pc'[c] = "give" /\ (\A t \in Thread \ {c} : pc'[t] = pc[t]) /\ pc' \in [Thread -> MqPC]
  <2>1. "give" \in MqPC BY DEF MqPC
  <2> QED BY <1>1, <2>1, MqGoto
<1>5. MqCurrent' BY <1>1, <1>2, <1>3 DEF MqCurrent
<1>6. MqWaits' BY <1>3 DEF MqWaits
<1>7. ThreadsKept BY <1>3, <1>4, <1>5, <1>6 DEF ThreadsKept
<1>8. Fetching' \subseteq Fetching
  <2>1. Fetching' = {t \in Thread : pc'[t] \in {"recv", "rback"} /\ sys'.stat[t] = "READY"
                                    /\ sys'.error[t] = "EOK"}
    BY DEF Fetching
  <2>2. ASSUME NEW t \in Fetching' PROVE t \in Fetching
    <3>1. t \in Thread /\ sys'.error[t] = "EOK" BY <2>1
    <3>2. t \notin Blocked BY <1>3, <3>1
    <3> QED BY <1>3, <1>4, <2>1, <3>1, <3>2 DEF Fetching
  <2> QED BY <2>2
<1>9. pc[c] \notin Owning /\ "give" \notin Owning BY <1>1 DEF Owning
<1>10. MqHolds' /\ MqKinds' /\ HeldSlots' = HeldSlots /\ slot' \in [Thread -> Link]
  BY <1>1, <1>4, <1>9, KeepSlots
<1>11. PICK q, f : Lists(q, f) BY DEF MqInv
<1>12. PICK H, m : H = HeldSlots /\ m = mq' OBVIOUS
<1>13. Divided(mq, H, q, f) /\ m = Emptied(mq) BY <1>1, <1>11, <1>12 DEF Lists
<1>14. PICK g : m.entry = 0 /\ Divided(m, H, <<>>, g) BY <1>13, EmptiedOK
<1>15. Lists(<<>>, g)' BY <1>10, <1>12, <1>14 DEF Lists
<1>16. Content(mq', <<>>) = <<>> BY DEF Content
<1>17. Moved(Content(mq, q), Content(mq', <<>>)) BY <1>16 DEF Moved
<1>18. MqMoved BY <1>11, <1>15, <1>17 DEF MqMoved
<1>19. Counted BY <1>8, <1>12, <1>14 DEF Counted
<1> QED BY <1>1, <1>7, <1>10, <1>18, <1>19, MqFacts DEF MqDone

-----------------------------------------------------------------------------
(* Every step *)

LEMMA MqCallOK ==
  ASSUME MqInv, NEW c \in Thread \ {Idle}, MqCall(c)
  PROVE  MqDone
<1>1. /\ sys.error[c] \in Error /\ "ETIMEOUT" \in Error
      /\ MqTime \subseteq {"none", "timed", "forever"}
      /\ MqLeft(c) \subseteq {"none", "timed", "forever"}
  BY MqFacts, Errors, MessageQueueAssumption DEF MqLeft
<1>2. ASSUME NEW v \in Message, rt_mq_send(c, v) PROVE MqDone
  <2>1. PICK l \in {"fill", "ufill"} : l = "fill" OBVIOUS
  <2>2. Claim(c, v, l) /\ v \notin Urgent /\ l # "ufill" BY <1>2, <2>1 DEF rt_mq_send
  <2> QED BY <2>2, MqClaimOK
<1>3. ASSUME NEW v \in Message, rt_mq_urgent(c, v) PROVE MqDone
  <2>1. PICK l \in {"fill", "ufill"} : l = "ufill" OBVIOUS
  <2>2. Claim(c, v, l) /\ v \in Urgent /\ l # "fill" BY <1>3, <2>1 DEF rt_mq_urgent
  <2> QED BY <2>2, MqClaimOK
<1>4. ASSUME NEW tm \in MqTime, rt_mq_recv(c, tm) PROVE MqDone
  <2>1. sys.cur = c /\ pc[c] \in {"run", "rback"} BY <1>4 DEF rt_mq_recv, Running, At
  <2>2. CASE GetMessage(c) BY <2>1, <2>2, MqGetOK
  <2>3. CASE MqRefuse(c, sys.error[c])
    <3>1. PICK e \in Error : e = sys.error[c] BY <1>1
    <3>2. MqRefuse(c, e) BY <2>3, <3>1
    <3> QED BY <2>1, <3>2, MqRefuseOK
  <2>4. CASE MqBlock(c, tm)
    <3>1. tm \in {"none", "timed", "forever"} BY <1>1
    <3> QED BY <2>1, <2>4, <3>1, MqBlockOK
  <2> QED BY <1>4, <2>2, <2>3, <2>4 DEF rt_mq_recv
<1>5. CASE SendLink(c) BY <1>5, MqSendLinkOK
<1>6. CASE MqRecvAgain(c)
  <2>1. sys.cur = c /\ pc[c] = "rback" /\ pc[c] \in {"run", "rback"} BY <1>6 DEF MqRecvAgain, At
  <2>2. CASE sys.error[c] # "EOK" /\ Goto(c, "run") /\ UNCHANGED <<sys, mq, slot, message, limit>>
    BY <2>1, <2>2, MqGiveUpOK
  <2>3. CASE GetMessage(c) BY <2>1, <2>3, MqGetOK
  <2>4. CASE MqRefuse(c, "ETIMEOUT")
    <3>1. PICK e \in Error : e = "ETIMEOUT" BY <1>1
    <3>2. MqRefuse(c, e) BY <2>4, <3>1
    <3> QED BY <2>1, <3>2, MqRefuseOK
  <2>5. ASSUME NEW tm \in MqLeft(c), MqBlock(c, tm) PROVE MqDone
    <3>1. tm \in {"none", "timed", "forever"} BY <1>1
    <3> QED BY <2>1, <2>5, <3>1, MqBlockOK
  <2> QED BY <1>6, <2>2, <2>3, <2>4, <2>5 DEF MqRecvAgain
<1>7. CASE RecvFree(c) BY <1>7, MqRecvFreeOK
<1>8. CASE rt_mq_control(c) BY <1>8, MqControlOK
<1>9. CASE MqSchedule(c) BY <1>9, MqScheduleOK
<1> QED BY <1>2, <1>3, <1>4, <1>5, <1>6, <1>7, <1>8, <1>9 DEF MqCall

LEMMA MqNextOK == MqInv /\ [MqNext]_mqVars => MqInv' /\ MqMoved
<1> SUFFICES ASSUME MqInv, [MqNext]_mqVars PROVE MqInv' /\ MqMoved OBVIOUS
<1>1. CASE UNCHANGED mqVars
  <2>1. sys' = sys /\ pc' = pc /\ UNCHANGED <<mq, slot, message, limit>> BY <1>1 DEF mqVars
  <2>2. Fetching' = Fetching /\ Blocked' = Blocked BY <2>1 DEF Fetching, Blocked
  <2>3. MqCurrent' /\ MqWaits' BY <2>1, <2>2 DEF MqInv, MqCurrent, MqWaits
  <2>4. ThreadsKept BY <2>1, <2>3, MqFacts DEF ThreadsKept
  <2>5. MqDone BY <2>1, <2>2, <2>4, MqQuietOK, MqFacts
  <2> QED BY <2>5, MqDoneOK DEF MqDone
<1>2. CASE MqNext
  <2>1. MqDone BY <1>2, MqBootOK, MqTickOK, MqInterruptOK, MqCallOK DEF MqNext
  <2> QED BY <2>1, MqDoneOK DEF MqDone
<1> QED BY <1>1, <1>2

-----------------------------------------------------------------------------
(* The theorems *)

\* rt_mq_init links all slots into the free list.
LEMMA MqInitLists ==
  ASSUME MqInit
  PROVE  \E f : Lists(<<>>, f) /\ Held = {}
<1>1. PICK n \in Nat : n = MaxMsgs /\ n > 0 /\ Slot = 1 .. n BY SlotFacts DEF Slot
<1>2. PICK v \in Message :
        mq = [head |-> Null, tail |-> Null, free |-> MaxMsgs, entry |-> 0,
              next |-> [s \in Slot |-> s - 1], data |-> [s \in Slot |-> v]]
  BY DEF MqInit
<1>3. PICK f : f = [i \in 1 .. n |-> n + 1 - i] OBVIOUS
<1>4. f \in Seq(Slot) /\ Len(f) = n /\ f # <<>>
  <2>1. \A i \in 1 .. n : f[i] \in 1 .. n BY <1>3
  <2> QED BY <1>1, <1>3, <2>1
<1>5. NoDup(f)
  <2>1. \A i, j \in 1 .. n : f[i] = f[j] => i = j BY <1>3
  <2> QED BY <1>4, <2>1, NoDupByIndex
<1>6. ToSet(f) = Slot
  <2>1. \A x : x \in ToSet(f) <=> \E i \in 1 .. n : x = f[i] BY <1>4, InToSet
  <2>2. ASSUME NEW x \in 1 .. n PROVE \E i \in 1 .. n : x = f[i]
    <3>1. n + 1 - x \in 1 .. n BY <2>2
    <3>2. f[n + 1 - x] = x BY <1>3, <3>1
    <3> QED BY <3>1, <3>2
  <2>3. ASSUME NEW i \in 1 .. n PROVE f[i] \in 1 .. n BY <1>3
  <2>4. \A x : x \in ToSet(f) <=> x \in 1 .. n BY <2>1, <2>2, <2>3
  <2> QED BY <1>1, <2>4
<1>7. PICK next : next = [s \in Slot |-> s - 1] OBVIOUS
<1>8. Listed(next, n, f)
  <2>1. f[1] = n BY <1>1, <1>3
  <2>2. ASSUME NEW i \in 1 .. n PROVE next[f[i]] = IF i = n THEN Null ELSE f[i + 1]
    <3>1. f[i] = n + 1 - i /\ f[i] \in Slot BY <1>1, <1>3
    <3>2. next[f[i]] = n - i BY <1>7, <3>1
    <3>3. i # n => i + 1 \in 1 .. n BY <1>1
    <3>4. i # n => f[i + 1] = n + 1 - (i + 1) BY <1>3, <3>3
    <3> QED BY <3>2, <3>4 DEF Null
  <2> QED BY <1>4, <1>5, <2>1, <2>2 DEF Listed
<1>9. Listed(next, Null, <<>>)
  <2>1. <<>> \in Seq(Slot) /\ Len(<<>>) = 0 /\ NoDup(<<>>) BY DEF NoDup
  <2> QED BY <2>1 DEF Listed
<1>10. mq.next = next /\ mq.head = Null /\ mq.tail = Null /\ mq.free = n /\ mq.entry = 0
  BY <1>1, <1>2, <1>7
<1>11. mq \in Pool
  <2>1. next \in [Slot -> Link] BY <1>1, <1>7 DEF Link, Null
  <2>2. n \in Link /\ Null \in Link BY <1>1 DEF Link
  <2>3. [s \in Slot |-> v] \in [Slot -> Message] BY <1>2
  <2> QED BY <1>1, <1>2, <1>7, <2>1, <2>2, <2>3 DEF Pool
<1>12. Held = {} /\ HeldSlots = {} BY DEF MqInit, Held, HeldSlots
<1>13. IsFiniteSet({}) /\ Cardinality({}) = 0 BY FS_EmptySet
<1>14. ToSet(<<>>) = {} /\ Len(<<>>) = 0
  <2>1. <<>> \in Seq(Slot) OBVIOUS
  <2> QED BY <2>1, EmptyList
<1>15. Divided(mq, {}, <<>>, f)
  BY <1>1, <1>4, <1>6, <1>8, <1>9, <1>10, <1>11, <1>13, <1>14 DEF Divided
<1> QED BY <1>10, <1>12, <1>14, <1>15 DEF Lists

LEMMA MqInitOK == MqInit => MqInv
<1> SUFFICES ASSUME MqInit PROVE MqInv OBVIOUS
<1>1. /\ sys = KernelInit /\ pc = [t \in Thread |-> "run"] /\ slot = [t \in Thread |-> Null]
      /\ limit = [t \in Thread |-> "none"] /\ message \in [Thread -> Message]
      /\ "recv" \in WaitList
  BY MessageQueueAssumption DEF MqInit
<1>2. PICK f : Lists(<<>>, f) /\ Held = {} BY MqInitLists
<1>3. Base(sys) /\ sys.cur = NoThread /\ Blocked = {}
  BY <1>1, KernelInitSound DEF Base, Blocked
<1>4. MqTypeOK
  <2>1. /\ Divided(mq, HeldSlots, <<>>, f) /\ Len(<<>>) = mq.entry /\ Len(<<>>) = 0
    BY <1>2 DEF Lists
  <2>2. mq \in Pool /\ MaxMsgs \in Nat BY <2>1, SlotFacts DEF Divided
  <2>3. mq.entry \in 0 .. MaxMsgs BY <2>1, <2>2
  <2>4. PoolTypeOK BY <1>1, <2>2, <2>3, SlotFacts DEF PoolTypeOK, Pool
  <2>5. sys \in KernelState BY <1>3 DEF Base, Sound
  <2> QED BY <1>1, <2>4, <2>5 DEF MqTypeOK
<1>5. MqCurrent BY <1>1, <1>3 DEF MqCurrent
<1>6. MqWaits BY <1>3 DEF MqWaits
<1>7. MqCount
  <2>1. Fetching = {} BY <1>1 DEF Fetching
  <2> QED BY <1>3, <2>1, FS_EmptySet DEF MqCount
<1>8. MqHolds BY <1>1, <1>2 DEF MqHolds, Owning
<1>9. MqKinds BY <1>1 DEF MqKinds
<1> QED BY <1>2, <1>3, <1>4, <1>5, <1>6, <1>7, <1>8, <1>9 DEF MqInv

\* The invariant, in the words of the properties.
LEMMA MqSlots == MqInv => SlotsDivided
<1> SUFFICES ASSUME MqInv PROVE SlotsDivided OBVIOUS
<1>1. PICK q, f : Divided(mq, HeldSlots, q, f) /\ Len(q) = mq.entry BY DEF MqInv, Lists
<1>2. Len(q) <= MaxMsgs /\ Len(f) <= MaxMsgs BY <1>1, DividedFacts
<1>3. Chain(mq.head) = q
  <2>1. PICK h : h = mq.head OBVIOUS
  <2>2. Listed(mq.next, h, q) BY <1>1, <2>1 DEF Divided
  <2> QED BY <1>2, <2>1, <2>2, ChainIs
<1>4. Chain(mq.free) = f
  <2>1. PICK h : h = mq.free OBVIOUS
  <2>2. Listed(mq.next, h, f) BY <1>1, <2>1 DEF Divided
  <2> QED BY <1>2, <2>1, <2>2, ChainIs
<1>5. Cardinality(Held) = Cardinality(HeldSlots)
  <2>1. PICK g : g = [t \in Held |-> slot[t]] OBVIOUS
  <2>2. g \in [Held -> HeldSlots] /\ \A t, u \in Held : g[t] = g[u] => t = u
    BY <2>1 DEF MqInv, MqHolds, HeldSlots
  <2>3. \A x \in HeldSlots : \E t \in Held : g[t] = x BY <2>1 DEF HeldSlots
  <2>4. g \in Injection(Held, HeldSlots) BY <2>2 DEF Injection, IsInjective
  <2>5. g \in Surjection(Held, HeldSlots) BY <2>2, <2>3 DEF Surjection
  <2>6. IsFiniteSet(HeldSlots) BY <1>1 DEF Divided
  <2> QED BY <2>4, <2>5, <2>6, FS_Injection
<1>6. /\ Len(q) + Len(f) + Cardinality(HeldSlots) = MaxMsgs
      /\ ToSet(q) \cup ToSet(f) \cup HeldSlots = Slot
      /\ mq.tail = IF q = <<>> THEN Null ELSE q[Len(q)]
  BY <1>1 DEF Divided
<1>7. PoolTypeOK BY DEF MqInv, MqTypeOK
<1> QED BY <1>1, <1>3, <1>4, <1>5, <1>6, <1>7 DEF SlotsDivided, HeldSlots

\* The messages that the links lead to are those of the list of slots.
ContentsOf == \A q, f : Lists(q, f) => Contents = Content(mq, q)

LEMMA ContentsAre == ContentsOf
<1>1. ASSUME NEW q, NEW f, Lists(q, f)
      PROVE  Contents = Content(mq, q)
  <2>1. Divided(mq, HeldSlots, q, f) BY <1>1 DEF Lists
  <2>2. PICK h : h = mq.head OBVIOUS
  <2>3. Listed(mq.next, h, q) /\ Len(q) <= MaxMsgs BY <2>1, <2>2, DividedFacts DEF Divided
  <2>4. Chain(mq.head) = q BY <2>2, <2>3, ChainIs
  <2> QED BY <2>4 DEF Contents, Content
<1> QED BY <1>1 DEF ContentsOf

\* For all threads, priorities and messages, both orders of the waiting list
\* and every number of slots: the queue, the free list and the calls between
\* their two critical sections divide the slots among them.
THEOREM MessageSlots == MqSpec => [](MqTypeOK /\ SlotsDivided)
<1>1. MqInv => MqTypeOK BY DEF MqInv
<1> QED BY <1>1, MqInitOK, MqNextOK, MqSlots, PTL DEF MqSpec

\* For all of them: no message is left to a waiting receiver without a woken
\* receiver on its way to it.
THEOREM MessageNotOverslept == MqSpec => []NoLostMessage
<1>1. MqInv => NoLostMessage
  <2> SUFFICES ASSUME MqInv PROVE NoLostMessage OBVIOUS
  <2>1. sys.wait["recv"] # <<>> => mq.entry <= Cardinality(Fetching)
    BY MqFacts DEF MqInv, MqCount
  <2> QED BY <2>1 DEF NoLostMessage, Fetching
<1> QED BY <1>1, MqInitOK, MqNextOK, PTL DEF MqSpec

\* For all of them: the message queue is a bounded first-in first-out queue,
\* whose urgent messages go to the front.
THEOREM MessagesInOrder == MqSpec => DeliversInOrder
<1>1. MqInit => MessageList!Init
  <2> SUFFICES ASSUME MqInit PROVE Contents = <<>> BY DEF MessageList!Init
  <2>1. PICK f : Lists(<<>>, f) BY MqInitLists
  <2>2. Contents = Content(mq, <<>>) BY <2>1, ContentsAre DEF ContentsOf
  <2> QED BY <2>2 DEF Content
<1>2. MqInv /\ [MqNext]_mqVars => [MessageList!Next]_Contents
  <2> SUFFICES ASSUME MqInv, MqMoved PROVE [MessageList!Next]_Contents BY MqNextOK
  <2>1. PICK q, f, q2, f2 : /\ Lists(q, f) /\ Lists(q2, f2)'
                            /\ Moved(Content(mq, q), Content(mq', q2))
    BY DEF MqMoved
  <2>2. Contents = Content(mq, q) BY <2>1, ContentsAre DEF ContentsOf
  <2>3. ContentsOf' BY ContentsAre, PTL
  <2>4. Contents' = Content(mq', q2) BY <2>1, <2>3 DEF ContentsOf
  <2>5. Moved(Contents, Contents') BY <2>1, <2>2, <2>4
  <2> QED BY <2>5 DEF Moved, MessageList!Next, MessageList!Put, MessageList!Push,
             MessageList!Get, MessageList!Reset
<1>3. MqInv /\ [MqNext]_mqVars => MqInv' BY MqNextOK
<1> QED BY <1>1, <1>2, <1>3, MqInitOK, PTL DEF MqSpec, DeliversInOrder, MessageList!Spec
=============================================================================
