SPECIFICATION QSpec
CONSTANTS
  t1 = t1  t2 = t2  t3 = t3  idle = idle
  Thread = {t1, t2, t3, idle}
  Idle = idle
  PRIORITY_MAX = 3
  InitPriority <- ClientPriority
  WaitList = {"recv", "send"}
  NoThread = NoThread
  Mail = {1, 2}
  Size = 2
  Flag = "PRIO"
  WaitTime = {"none", "timed", "forever"}
  Message = {1, 2}
  MaxMsgs = 2
  MqFlag = "PRIO"
  MqTime = {"none", "timed", "forever"}
  Urgent = {2}
INVARIANTS NoLostWakeup SlotsDivided NoLostMessage
PROPERTIES FirstInFirstOut MailFetched DeliversInOrder
