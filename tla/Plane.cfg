SPECIFICATION PlaneSpec
CONSTANTS
  Bytes = {1, 2}
  capacity = 3
  MaxCall = 3
  PoolSize = 3
  Ips = {a, b, c}
  SECOND = 2
  MaxRate = 2
  MaxBurst = 2
  MAX_TRACKED_IPS = 2
  AnyIp = any
  Rules <- MCRules
  MAX_RULES = 3
  Setups <- MCSetups
  TICK_INTERVAL = 1
  INFERENCE_INTERVAL = 1
  WINDOW_SIZE = 1
  MaxCount = 2
  ESCALATE = 2
  DEESCALATE = 2
  COOLDOWN = 3
  BATCH_SIZE = 2
  RxRing = 3
  TIMER_INTERVAL = 1
  FW_TIMER_INTERVAL = 2
  SECURITY_TICKS = 2
  Configs <- MCConfigs
  Hosts = {h1, h2}
  Broadcast = bc
  Unanswerable = {zero}
  MaxSent = 2
  N = 2
  Drawn <- MCDrawn
  READ_MAX = 2
  MAX_HISTORY = 2
  MaxPushed = 3
INVARIANTS
  LimiterSound
  FirewallSound
  PoolSound
  NothingLeaks
  ErrorsJustified
  SamplesIntact
PROPERTIES
  ModeChanges
  ImplementsQueue
  NothingIsNeglected
\* The bounded models stop when their bound is reached, and an idle stack has
\* nothing to do.
CHECK_DEADLOCK FALSE
