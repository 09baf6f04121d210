CONSTANTS
  TX_QUEUE_SIZE = 2
  SPP_TX_MAX = 4
  MaxOpens = 2
  platform_num = 1
  PayloadSize = 2
  MaxMessages = 2
SPECIFICATION FairSpec
INVARIANTS
  TypeOK
  InOrder
  Lossless
  FileHoldsReports
PROPERTIES
  Delivered
CHECK_DEADLOCK FALSE
