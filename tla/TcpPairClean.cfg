CONSTANTS
  SeqSpace = 32
  MSS = 2
  MAX_TCP_SIZE = 2
  MaxWindow = 7
  SendBufferSize = 8
  RecvBufferSize = 8
  MaxRetransmit = 2
  Nagle = TRUE
  DelayedAck = TRUE
  MaxWritten = 3
  Isn <- MCIsn
  Scenarios <- MCClean
  MaxLost = 0
  MaxDuplicated = 1
  MaxReordered = 0
SPECIFICATION FairSpec
INVARIANTS NoSilentStall AckWithinSent NoSpuriousAbort
PROPERTIES EventuallyClosed EventuallyDelivered
CHECK_DEADLOCK FALSE
