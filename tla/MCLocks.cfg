SPECIFICATION LSpec
CONSTANTS
  t1 = t1  t2 = t2  t3 = t3  idle = idle
  Thread = {t1, t2, t3, idle}
  Idle = idle
  PRIORITY_MAX = 4
  InitPriority <- ThreePriority
  WaitList = {"sem", "mutex"}
  NoThread = NoThread
  Flag = "FIFO"
  InitValue = 1
  MaxValue = 2
  ResetValue = {0, 1}
  WaitTime = {"none", "timed", "forever"}
  Detacher = {t1, t3}
  DetachQuiescent = TRUE
  Mutexes = {"mutex"}
  MutexFlag = "PRIO"
  LockTime = {"none", "timed", "forever"}
  MaxHold = 2
  Sleepers = {t1, t2}
INVARIANTS PermitNotWithheld NoSpuriousTimeout HeldByOne OwnerInherits RestoresPriority
PROPERTIES CountsPermits WaiterServed
