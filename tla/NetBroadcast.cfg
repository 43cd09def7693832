SPECIFICATION NetSpec
CONSTANTS
  Hosts = {h1, h2}
  Broadcast = bc
  Unanswerable = {zero}
  MaxSent = 1
INVARIANT ErrorsSpareBroadcast
\* The network falls silent.
CHECK_DEADLOCK FALSE
