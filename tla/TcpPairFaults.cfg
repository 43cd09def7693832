CONSTANTS
  SeqSpace = 32
  MSS = 2
  MAX_TCP_SIZE = 2
  MaxWindow = 7
  SendBufferSize = 2
  RecvBufferSize = 8
  MaxRetransmit = 1
  Nagle = FALSE
  DelayedAck = FALSE
  MaxWritten = 3
  Isn <- MCIsn
  Scenarios <- MCFaults
  MaxLost = 1
  MaxDuplicated = 1
  MaxReordered = 2
SPECIFICATION Spec
INVARIANTS FinAfterData QueueCoversInFlight
PROPERTIES ImplementsStreams
CHECK_DEADLOCK FALSE
