SPECIFICATION FairSpec
CONSTANTS
  erx = erx  etx = etx  uip = uip  idle = idle
  Thread = {erx, etx, uip, idle}
  Idle = idle
  PRIORITY_MAX = 3
  InitPriority <- ThreadPriority
  WaitList = {"erxmb", "etxmb", "tx_ack", "tx_buf_free"}
  NoThread = NoThread
  Erx = erx
  Etx = etx
  Uip = uip
  ETH_RXBUFNB = 2
  ETH_TXBUFNB = 2
  MboxSize = 1
  Outcome = {TRUE, FALSE}
  MaxDirect = 1
INVARIANTS MessageAlive PermitsCovered NoFrameStranded
PROPERTIES Acked
