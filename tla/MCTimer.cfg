SPECIFICATION FairSpec
CONSTANTS
  Timer = {a, b}
  TicksWrap = 10
  Time = {1, 2}
  Delay = 1
  OneShotRestart = FALSE
INVARIANTS PendingCanBeStopped
PROPERTIES FiresOnTime CheckEnds
