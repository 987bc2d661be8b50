\* A second program with the id of the first.
CONSTANTS
  c1 = c1
  c2 = c2
  Conns = {c1, c2}
  Ids = {"a"}
  StoredId <- FitsAll
  Speaks <- SpeaksAll
  Types = {"TEMP"}
  Type = "TEMP"
  NaN = NaN
  Values = {80}
  Reading = {80}
  MaxSensors = 1
  MaxMetrics = 1
  MaxAlerts = 1
  MaxMessages = 1
  Java = {}
  Comma = {}
SPECIFICATION ClientsSpec
INVARIANT
  RegisteredStaysActive
