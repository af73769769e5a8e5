SPECIFICATION RouterFairSpec
CONSTANTS
  Requests = {r1}
  Workers = {w1}
  None = None
  Priorities = {1}
  Dests = {d1}
  Kinds <- DispatchOnly
PROPERTY AcknowledgedIsSent
CHECK_DEADLOCK FALSE
