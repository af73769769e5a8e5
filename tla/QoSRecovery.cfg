SPECIFICATION FairSpec
CONSTANTS
  Second = 4
  Requests = {r1, r2}
  Reloader = Reloader
  None = None
  Configs <- StrictOnly
  Loads = {0}
  Readings <- CalmOrBusy
  MaxAge = 2
  MaxFailures = 2
PROPERTY BreakerRecovers
