SPECIFICATION EventSpec
CONSTANTS
  t1 = t1  t2 = t2  t3 = t3  idle = idle
  Thread = {t1, t2, t3, idle}
  Idle = idle
  PRIORITY_MAX = 3
  InitPriority <- ThreePriority
  WaitList = {"event"}
  NoThread = NoThread
  Bit = {1, 2}
  EventFlag = "PRIO"
  EventTime = {"none", "timed"}
  Request <- ThreeRequests
INVARIANTS NoWaitSatisfied HandedOver
PROPERTIES ConsumedOnce
