CONSTANTS
  MaxStream = 6
  MSS = 3
  RecvBufferSize = 5
  DelayedAck = TRUE
SPECIFICATION FairSpec
INVARIANTS AckTruthful NoStrandedData OooAccounting AckOwed
PROPERTIES AckMonotone EventuallyAcked ImplementsStream
CHECK_DEADLOCK FALSE
