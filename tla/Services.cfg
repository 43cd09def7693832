SPECIFICATION ServicesSpec
CONSTANTS
  Peers = {p}
  PortSpace = 3
  EPHEMERAL_START = 2
  ServerPorts = {1}
  MAX_CONNECTIONS = 2
  MAX_TIME_WAIT_ENTRIES = 1
  TIME_WAIT_DURATION = 1
  MaxEstablished = 2
  MaxRepeated = 1
  Names = {a, b}
  IdSpace = 2
  UdpPortSpace = 2
  EPHEMERAL_PORT_MIN = 1
  MAX_RETRIES = 1
  RETRY_TICKS = 1
  MaxResolved = 3
  MaxRequests = 2
  SEND_BUFFER = 2
  BodyUnits = 3
  MAX_BUFFER_SIZE = 3
  MSS = 1
  MIN_MSS = 2
  INITIAL_SSTHRESH = 12
  MAX_CWND = 32
  WORD = 128
  ALPHA_ONE = 1
  Modulation <- MCModulation
  Targets = {0, 9, 20, 33, 60, 90, 127}
  Alphas <- MCAlphas
INVARIANTS TablesSound DnsSound ExchangeSound
PROPERTIES
  NothingWaitsForever
  WindowSound
\* The bounded models stop when their bound is reached, and an idle server or
\* client has nothing to do.
CHECK_DEADLOCK FALSE
