SPECIFICATION SerialFairSpec
CONSTANTS
  w1 = w1  w2 = w2  idle = idle
  Thread = {w1, w2, idle}
  Idle = idle
  PRIORITY_MAX = 2
  InitPriority <- WriterPriority
  WaitList = {"push", "done", "rx"}
  NoThread = NoThread
  Data = {1, 2}
  Size = 4
  Lwm = 2
  IndexWrap = 8
  MaxPush = 9
  BufSize = 3
  MaxChar = 5
  Writer = {w1, w2}
  Shell = w1
INVARIANTS NoLostWakeup
PROPERTIES DropsOldest Served
