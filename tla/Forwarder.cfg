SPECIFICATION FairSpec
CONSTANTS
  Calls = {c1}
  Dests = {d1, d2, d3}
INVARIANTS TypeOK LoadIsInFlight NeverSendOnClosed ReturnedClean
PROPERTIES CompleteUnlessCancelled CallReturns ImplementsForwardCall
CHECK_DEADLOCK FALSE
