CONSTANTS
  Cursors = {k1, k2, k3, k4}
  NoCursor = NoCursor
  MaximumDeliveryAttempts = 1
  MaximumFailures = 2
  MaxRelease = 2
  TypeCount = 2
  MaxId = 1
  PageSize = 1
  Dispatchers = {d1, d2}
  MaxFaults = 1
SPECIFICATION FairSpec
INVARIANTS
  TypeOK
  CaughtUp
  FailuresAreFaults
PROPERTY EveryInstallationCatchesUp
