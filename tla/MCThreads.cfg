SPECIFICATION FairSpec
CONSTANTS
  t1 = t1  t2 = t2  idle = idle
  Thread = {t1, t2, idle}
  Idle = idle
  PRIORITY_MAX = 2
  InitPriority <- TwoPriority
  WaitList = {"v", "w"}
  NoThread = NoThread
  Static = {t1, idle}
  MaxNest = 2
  NewPriority = {0, 1}
INVARIANTS ReadyQueueOK SuspendedOK ClosedNotScheduled
PROPERTIES SwitchToHighest RoundRobin
