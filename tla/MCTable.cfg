\* Two handlers, two ids, two types; every table fills up, and the alerts wrap around.
\* No symmetry: two of the properties are temporal.
CONSTANTS
  c1 = c1
  c2 = c2
  c3 = c3
  Conns = {c1, c2}
  Ids = {"a", "b"}
  StoredId <- FitsAll
  Speaks <- SharedSensor
  Types <- TempVib
  NaN = NaN
  Values = {60}
  MaxSensors = 2
  MaxMetrics = 2
  MaxAlerts = 1
SPECIFICATION FairSpec
INVARIANTS
  TypeOK
  CountMatchesTable
  UniqueIds
  CopiedTypeIsCurrent
  RowsAreExplained
PROPERTIES
  SensorsArePermanent
  ImplementsService
  PaysItsDues
