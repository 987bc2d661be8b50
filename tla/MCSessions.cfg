\* Two programs and room for one sensor: late replies, kills and lost connections.
CONSTANTS
  c1 = c1
  c2 = c2
  Conns = {c1, c2}
  Ids = {"a", "b"}
  StoredId <- FitsAll
  Speaks <- SpeaksAll
  Types = {"TEMP"}
  Type = "TEMP"
  NaN = NaN
  Values = {80}
  Reading = {80}
  MaxSensors = 1
  MaxMetrics = 1
  MaxAlerts = 1
  MaxMessages = 1
  Java = {c2}
  Comma = {c2}
SPECIFICATION ClientsSpec
INVARIANTS
  ClientsTypeOK
  NeverNotFound
PROPERTIES
  ByeMeansInactive
  SensorsEndInactive
