\* One sensor for each connection: the level follows the value.
CONSTANTS
  c1 = c1
  c2 = c2
  c3 = c3
  Conns = {c1, c2}
  Ids = {"a", "b"}
  StoredId <- FitsAll
  Speaks <- OneSensorEach
  Types <- Power
  NaN = NaN
  Values = {5, 60, NaN}
  MaxSensors = 2
  MaxMetrics = 2
  MaxAlerts = 1
SPECIFICATION FairSpec
INVARIANTS
  LevelMatchesValue
PROPERTY
  LevelSettles
