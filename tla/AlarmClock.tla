----------------------------- MODULE AlarmClock -----------------------------
(***************************************************************************)
(* What the timers promise: a timer that is set goes off in the first tick *)
(* at which its time is up, the one that is due first goes first, and of   *)
(* two due at the same time the one set earlier.  Time is unbounded here.  *)
(***************************************************************************)
EXTENDS Lists

CONSTANTS
  Timer,    \* the timers
  MaxTime,  \* the longest time a timer is set to
  Delay,    \* how many ticks late a thread may set a timer
  Off       \* the time left of a timer that is not set, none that is reached

VARIABLES
  left,      \* ticks to go for each timer, or Off
  order,     \* the timers that are set, in the order they were set
  checking   \* whether the tick is being handled
vars == <<left, order, checking>>

Init ==
  /\ left = [t \in Timer |-> Off]
  /\ order = <<>>
  /\ checking = FALSE

Without(t)   == Unlink(order, t)
Position(t)  == SelectInSeq(order, LAMBDA u : u = t)
GoesFirst(t) ==
  \A u \in ToSet(order) \ {t} :
    left[t] < left[u] \/ (left[t] = left[u] /\ Position(t) < Position(u))

Set(t) ==
  /\ ~checking
  /\ \E d \in -Delay .. MaxTime : left' = [left EXCEPT ![t] = d]
  /\ order' = Append(Without(t), t)
  /\ UNCHANGED checking

Cancel(t) ==
  /\ ~checking
  /\ left' = [left EXCEPT ![t] = Off]
  /\ order' = Without(t)
  /\ UNCHANGED checking

Tick ==
  /\ ~checking
  /\ left' = [t \in Timer |-> IF left[t] = Off THEN Off ELSE left[t] - 1]
  /\ checking' = TRUE
  /\ UNCHANGED order

\* t goes off and is set again, for a later tick, if it is periodic.
GoOff(t) ==
  /\ checking /\ left[t] # Off /\ left[t] <= 0 /\ GoesFirst(t)
  /\ \/ left' = [left EXCEPT ![t] = Off] /\ order' = Without(t)
     \/ /\ \E d \in 1 .. MaxTime : left' = [left EXCEPT ![t] = d]
        /\ order' = Append(Without(t), t)
  /\ UNCHANGED checking

\* The tick is handled when nothing that was due is left.
Handled ==
  /\ checking /\ \A t \in Timer : left[t] # Off => left[t] > 0
  /\ checking' = FALSE
  /\ UNCHANGED <<left, order>>

Next == Tick \/ Handled \/ \E t \in Timer : Set(t) \/ Cancel(t) \/ GoOff(t)
Spec == Init /\ [][Next]_vars
=============================================================================
