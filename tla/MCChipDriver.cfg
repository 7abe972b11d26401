SPECIFICATION ChipFairSpec
CONSTANTS
  Blocks = 2
  Retries = 2
  CrcPolls = 3
  REC_FIFO_BLK_NUM = 3
  Msg = {1, 2}
  MaxLate = 1
INVARIANTS BootVerified
PROPERTIES MessagesInOrder ReceptionResumes
CHECK_DEADLOCK FALSE
