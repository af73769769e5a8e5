SPECIFICATION MCRouterFairSpec
CONSTANTS
  Requests = {r1, r2}
  Workers = {w1}
  None = None
  Priorities = {1}
  Dests = {d1}
  Kinds <- AllKinds
INVARIANTS RouterTypeOK OnlyAdmittedSent SentOnce
PROPERTIES EveryDispatchReported
CHECK_DEADLOCK FALSE
