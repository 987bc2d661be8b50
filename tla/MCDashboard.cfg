\* Pages put together while two handlers report for one sensor, and both tables wrap around.
CONSTANTS
  c1 = c1
  c2 = c2
  r1 = r1
  Conns = {c1, c2}
  Readers = {r1}
  Ids = {"a"}
  StoredId <- FitsAll
  Speaks <- SharedSensor
  Types = {"TEMP"}
  NaN = NaN
  Values = {60, 80}
  MaxSensors = 1
  MaxMetrics = 3
  MaxAlerts = 2
  PageRows = 1
SPECIFICATION HttpSpec
SYMMETRY HandlerSymmetry
INVARIANTS
  HttpTypeOK
  DashboardAlertsWithinMetrics
  RowsReachHeading
  RowsAreWritten
  EachAnomalyOneAlert
  AlertsWithinMetrics
