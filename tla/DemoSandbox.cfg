SPECIFICATION FairSpec
CONSTANTS
  r1 = r1  r2 = r2  r3 = r3  cron = cron  d1 = d1  d2 = d2
  NoSession = NoSession  NoTask = NoTask
  Requests = {r1, r2, r3}
  Asks <- TabAsks
  Sweeps = {cron}
  Sandboxes = {d1, d2}
  Standing = {d1}
  Ttl = 3  IdleTimeout = 2  MaxBookings = 1  MaxWrites = 1  MaxActive = 1
  MaxClock = 3
INVARIANTS
  TypeOK
  LedgerExact
  OrphansOnlyFromSweep
PROPERTIES
  KeepsBookingQuota
  KeepsWriteQuota
  ResetIsClean
  LapseIsFinal
  ExpiredIsRemoved
  EveryVisitorAnswered
