CONSTANTS
  f1 = f1
  f2 = f2
  f3 = f3
  f4 = f4
  f5 = f5
  Frames <- FiveFrames
  FillSize = 4
  CompSize = 2
  RxSize = 4
  TxSize = 2
  BatchSize = 2
SPECIFICATION FairSpec
INVARIANTS OneOwner RingsFit ReceptionFed
PROPERTIES FramesKeepMoving
