\* Two threads, a table that the second id finds full, and metrics that wrap around.
CONSTANTS
  t1 = t1
  t2 = t2
  Threads = {t1, t2}
  Nobody = Nobody
  Ids = {"a", "b"}
  StoredId <- FitsAll
  Types = {"TEMP"}
  NaN = NaN
  Values = {80}
  MaxSensors = 1
  MaxMetrics = 2
  MaxAlerts = 1
SPECIFICATION FairLockSpec
INVARIANT
  LockTypeOK
PROPERTIES
  CallsAreAtomic
  CallsReturn
