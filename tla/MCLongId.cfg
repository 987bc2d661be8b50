\* An id of MAX_ID_LEN characters or more is registered.
CONSTANTS
  c1 = c1
  c2 = c2
  c3 = c3
  Conns = {c1, c2}
  Ids = {"long", "lon"}
  StoredId <- CutsLong
  Speaks <- SharedSensor
  Types <- Temp
  NaN = NaN
  Values = {60}
  MaxSensors = 2
  MaxMetrics = 2
  MaxAlerts = 2
SPECIFICATION Spec
INVARIANT
  RegisteredIsKnown
