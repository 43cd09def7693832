CONSTANTS
  SeqSpace = 32
  MSS = 2
  MAX_TCP_SIZE = 2
  MaxWindow = 7
  SendBufferSize = 8
  RecvBufferSize = 8
  MaxRetransmit = 2
  Nagle = TRUE
  DelayedAck = TRUE
  MaxWritten = 3
  Isn <- MCIsn
  Scenarios <- MCBothClose
  MaxLost = 0
  MaxDuplicated = 0
  MaxReordered = 0
SPECIFICATION Spec
CHECK_DEADLOCK FALSE
INVARIANT NoSpuriousAbort
