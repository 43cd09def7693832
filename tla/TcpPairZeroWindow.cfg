CONSTANTS
  SeqSpace = 32
  MSS = 2
  MAX_TCP_SIZE = 2
  MaxWindow = 7
  SendBufferSize = 4
  RecvBufferSize = 4
  MaxRetransmit = 2
  Nagle = TRUE
  DelayedAck = TRUE
  MaxWritten = 8
  Isn <- MCIsn
  Scenarios <- MCChatter
  MaxLost = 0
  MaxDuplicated = 0
  MaxReordered = 0
SPECIFICATION Spec
CHECK_DEADLOCK FALSE
INVARIANT AckWithinSent
