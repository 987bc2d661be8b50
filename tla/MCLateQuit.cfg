\* Two connections speak for one sensor: the QUIT of one meets the METRIC of the other.
CONSTANTS
  c1 = c1
  c2 = c2
  c3 = c3
  Conns = {c1, c2}
  Ids = {"a"}
  StoredId <- FitsAll
  Speaks <- SharedSensor
  Types <- Temp
  NaN = NaN
  Values = {60}
  MaxSensors = 1
  MaxMetrics = 2
  MaxAlerts = 1
SPECIFICATION FairSpec
PROPERTY
  StoredWhileActive
