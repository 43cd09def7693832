CONSTANTS
  c1 = c1
  c2 = c2
  Conns = {c1, c2}
  Alphas = {10}
  Bandwidths = {1, 3, 4}
  ClearRequired = 2
  TicksRequired = 2
  QueueSize = 2
  v1 = v1
  v2 = v2
  Values = {v1, v2}
  N = 4
  IndexSpace = 8
  Observable = {1, 2}
  MaxObserved = 2
  boundaries <- MCBoundaries
SPECIFICATION ThreadsSpec
INVARIANTS
  ControllersFollowAgent
  AttackIffRecentAlarm
  DegradedJustified
  NoDataRace
  HistogramSound
PROPERTIES
  AttackPasses
  ImplementsFifo
