SPECIFICATION LifeFairSpec
CONSTANTS
  Requests = {r1, r2}
  Workers = {w1}
  None = None
  Priorities = {1}
  Tickers = {t1, t2}
INVARIANTS LifeTypeOK AllServicesReturned NoHandlerCutOff AtMostOneLate
PROPERTY SignalEndsProcess
CHECK_DEADLOCK FALSE
