SPECIFICATION MCFairSpec
CONSTANTS
  Requests = {q1, q2, q3, q4}
  Workers = {w1}
  None = None
  Priorities = {1, 2}
  Racers = {q1, q2, q3}
INVARIANTS TypeOK QueuedIsKept AtMostOnce
PROPERTIES ImplementsQueue QueuedIsHandled ShutdownCompletes
CHECK_DEADLOCK FALSE
