SPECIFICATION FairSpec
CONSTANTS
  Second = 4
  Requests = {r1, r2}
  Reloader = Reloader
  None = None
  Configs <- AllConfigs
  Loads = {0, 10}
  Readings <- CalmOrBusy
  MaxAge = 3
  MaxFailures = 2
INVARIANTS TypeOK DisabledIsNeutral ClosedBelowThreshold
PROPERTIES ClosesOnlyWhenDue NoAdmissionWhileOpen EveryDispatchFinishes
