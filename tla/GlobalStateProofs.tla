-------------------------- MODULE GlobalStateProofs --------------------------
(***************************************************************************)
(* What each function of state.c does to the global state, for tables of   *)
(* every capacity and for every set of ids: the lemmas the theorems about  *)
(* the threads rest on.                                                    *)
(***************************************************************************)
EXTENDS GlobalState, TLAPS

\* What the functions keep of the sensor table, all in one.
TableInv ==
  /\ StateTypeOK
  /\ CountMatchesTable
  /\ \A s \in Slots : sensors[s].active = 1 => StoredId[sensors[s].id] = sensors[s].id
  /\ metric_count < MaxMetrics => metric_next = metric_count
  /\ alert_count < MaxAlerts => alert_next = alert_count

TableStep == TableInv' /\ SensorsKept

\* A write to a circular table that keeps its indices in range.
LEMMA RingIndices ==
  ASSUME NEW max \in Nat \ {0}, NEW next \in 0 .. max - 1, NEW count \in 0 .. max,
         count < max => next = count
  PROVE  /\ Advanced(next, max) \in 0 .. max - 1
         /\ Saturated(count, max) \in 0 .. max
         /\ count <= Saturated(count, max)
         /\ Saturated(count, max) < max => Advanced(next, max) = Saturated(count, max)
         /\ \A i \in 0 .. Saturated(count, max) - 1 : i = next \/ i \in 0 .. count - 1
BY SMT DEF Advanced, Saturated

\* The remainder of a number that is less than twice the modulus.
LEMMA SmallRemainder ==
  ASSUME NEW max \in Nat \ {0}, NEW a \in 0 .. 2 * max - 1
  PROVE  a % max = IF a < max THEN a ELSE a - max
<1>1. CASE a < max
  BY <1>1, SMT
<1>2. CASE a >= max
  <2>1. a = (a - max) + 1 * max /\ a - max \in 0 .. max - 1
    BY <1>2
  <2>2. QED
    BY <1>2, <2>1, SMT
<1>3. QED
  BY <1>1, <1>2

\* Row j of a table with its write index at next.
LEMMA RowIndex ==
  ASSUME NEW max \in Nat \ {0}, NEW next \in 0 .. max - 1, NEW j \in 0 .. max - 1
  PROVE  Row(next, max, j) = IF j < next THEN next - 1 - j ELSE next - 1 - j + max
<1> DEFINE a == next - 1 - j + max
<1>1. a \in 0 .. 2 * max - 1
  OBVIOUS
<1>2. a % max = IF a < max THEN a ELSE a - max
  <2> HIDE DEF a
  <2> QED
    BY <1>1, SmallRemainder
<1>3. Row(next, max, j) = a % max
  BY DEF Row
<1> HIDE DEF a
<1>4. QED
  BY <1>1, <1>2, <1>3 DEF a

\* The rows of a listing are entries that were written.
LEMMA RowInUse ==
  ASSUME NEW max \in Nat \ {0}, NEW next \in 0 .. max - 1, NEW count \in 0 .. max,
         count < max => next = count, NEW j \in 0 .. count - 1
  PROVE  Row(next, max, j) \in 0 .. count - 1
<1>1. Row(next, max, j) = IF j < next THEN next - 1 - j ELSE next - 1 - j + max
  BY RowIndex
<1> QED
  BY <1>1

\* The initial state has every sensor slot free and every table empty.
LEMMA TableInitially == StateInit => TableInv
<1> SUFFICES ASSUME StateInit PROVE TableInv
  OBVIOUS
<1>1. StateTypeOK
  BY CapacityAssumption DEF StateInit, StateTypeOK
<1>2. CountMatchesTable
  BY CapacityAssumption DEF StateInit, CountMatchesTable, Slots, FreeSlot
<1>3. \A s \in Slots : sensors[s].active # 1
  BY DEF StateInit, FreeSlot
<1> QED
  BY <1>1, <1>2, <1>3 DEF TableInv, StateInit

\* A sensor the scan stops at goes on being the one it stops at.
LEMMA FoundStays ==
  ASSUME TableInv, SensorsKept, NEW id, NEW s \in Slots, FoundAt(s, id)
  PROVE  FoundAt(s, id)' /\ sensors'[s].type = sensors[s].type
<1>1. \A t \in Slots : t < s => sensors[t].active = 1
  BY SMT DEF TableInv, StateTypeOK, CountMatchesTable, FoundAt, Holds, Slots
<1> QED
  BY <1>1 DEF FoundAt, Holds, SensorsKept, Slots


\* state_register_sensor, whatever it returns.
LEMMA RegisterStep ==
  ASSUME TableInv, NEW id \in Ids, NEW type \in Types, NEW result,
         RegisterSensor(id, type, result)
  PROVE  TableStep
<1> USE DEF TableInv, StateTypeOK, metricVars, alertVars
<1>u. UNCHANGED <<metricVars, alertVars>>
  BY DEF RegisterSensor
<1>1. CASE Reactivate(id)
  <2>1. PICK s \in Slots : FoundAt(s, id) /\ sensors' = [sensors EXCEPT ![s].status = "ACTIVE"]
    BY <1>1 DEF Reactivate
  <2>2. sensors[s] \in Sensor
    BY <2>1 DEF FoundAt, Holds, FreeSlot
  <2>3. [sensors[s] EXCEPT !.status = "ACTIVE"] \in Sensor
    BY <2>2 DEF Sensor
  <2>4. sensors' = [sensors EXCEPT ![s] = [sensors[s] EXCEPT !.status = "ACTIVE"]]
    BY <2>1
  <2>5. sensors' \in [Slots -> Sensor \cup {FreeSlot}] /\ UNCHANGED sensor_count
    BY <1>1, <2>3, <2>4 DEF Reactivate
  <2>6. \A t \in Slots : /\ sensors'[t].active = sensors[t].active
                         /\ sensors[t].active = 1 => /\ sensors'[t].id = sensors[t].id
                                                     /\ sensors'[t].type = sensors[t].type
    BY <2>2, <2>4 DEF Sensor
  <2> QED
    BY <1>u, <2>5, <2>6 DEF TableStep, SensorsKept, CountMatchesTable
<1>2. CASE AddSensor(id, type)
  <2>1. PICK s \in Slots : FreeAt(s) /\ sensors' = [sensors EXCEPT ![s] = NewSensor(id, type)]
    BY <1>2 DEF AddSensor
  <2>2. sensor_count' = sensor_count + 1
    BY <1>2 DEF AddSensor
  <2>3. s = sensor_count /\ sensors[s].active # 1
    <3>1. sensors[s].active # 1 /\ \A t \in Slots : t < s => sensors[t].active = 1
      BY <2>1 DEF FreeAt
    <3>2. ~(s < sensor_count)
      BY <3>1 DEF CountMatchesTable
    <3>3. ~(sensor_count < s)
      <4> SUFFICES ASSUME sensor_count < s PROVE FALSE
        OBVIOUS
      <4>1. sensor_count \in Slots
        BY CapacityAssumption DEF Slots
      <4>2. sensor_count < sensor_count
        BY <3>1, <4>1 DEF CountMatchesTable
      <4> QED
        BY <4>2
    <3> QED
      BY <3>1, <3>2, <3>3 DEF Slots
  <2>4. NewSensor(id, type) \in Sensor
    BY DataAssumption DEF NewSensor, Sensor
  <2>5. StoredId[NewSensor(id, type).id] = NewSensor(id, type).id /\ NewSensor(id, type).active = 1
    BY DataAssumption DEF NewSensor
  <2>6. sensors' \in [Slots -> Sensor \cup {FreeSlot}]
    BY <2>1, <2>4
  <2>7. \A t \in Slots : t # s => sensors'[t] = sensors[t]
    BY <2>1
  <2>8. sensors'[s] = NewSensor(id, type)
    BY <2>1
  <2>9. CountMatchesTable'
    BY <2>2, <2>3, <2>5, <2>7, <2>8, SMT DEF CountMatchesTable, Slots
  <2> QED
    BY <1>u, <2>2, <2>3, <2>5, <2>6, <2>7, <2>8, <2>9, CapacityAssumption
    DEF TableStep, SensorsKept, Slots
<1>3. CASE UNCHANGED sensorVars
  BY <1>u, <1>3 DEF TableStep, SensorsKept, sensorVars, CountMatchesTable
<1> QED
  BY <1>1, <1>2, <1>3 DEF RegisterSensor

\* A function that rewrites one sensor, and neither frees it nor changes its id or
\* its type.
LEMMA RewriteStep ==
  ASSUME TableInv, sensors' \in [Slots -> Sensor \cup {FreeSlot}], UNCHANGED sensor_count,
         \A s \in Slots : /\ sensors'[s].active = sensors[s].active
                          /\ sensors[s].active = 1 => /\ sensors'[s].id = sensors[s].id
                                                      /\ sensors'[s].type = sensors[s].type
  PROVE  /\ SensorsKept
         /\ CountMatchesTable'
         /\ \A s \in Slots : sensors'[s].active = 1 => StoredId[sensors'[s].id] = sensors'[s].id
BY DEF TableInv, CountMatchesTable, SensorsKept

\* state_add_metric, for an entry of the right type.
LEMMA AddMetricStep ==
  ASSUME TableInv, NEW id \in Ids, NEW value \in Values, NEW type \in Types,
         AddMetric(id, value, type)
  PROVE  TableStep
<1> USE DEF TableInv, StateTypeOK
<1>1. UNCHANGED <<sensor_count, alertVars>>
  BY DEF AddMetric
<1>2. \A s \in Slots : sensors'[s] =
        IF FoundAt(s, id)
        THEN [sensors[s] EXCEPT !.last_value = value, !.last_timestamp = "ISO"]
        ELSE sensors[s]
  BY DEF AddMetric
<1>3. \A s \in Slots : FoundAt(s, id) => sensors[s] \in Sensor
  BY DEF FoundAt, Holds, FreeSlot
<1>4. \A s \in Slots : FoundAt(s, id) =>
        [sensors[s] EXCEPT !.last_value = value, !.last_timestamp = "ISO"] \in Sensor
  <2> TAKE s \in Slots
  <2> HAVE FoundAt(s, id)
  <2>1. [sensors[s] EXCEPT !.last_value = value] \in Sensor
    BY <1>3 DEF Sensor
  <2> QED
    BY <2>1 DEF Sensor
<1>5. sensors' \in [Slots -> Sensor \cup {FreeSlot}]
  BY <1>4 DEF AddMetric
<1>6. \A s \in Slots : /\ sensors'[s].active = sensors[s].active
                       /\ sensors[s].active = 1 => /\ sensors'[s].id = sensors[s].id
                                                   /\ sensors'[s].type = sensors[s].type
  BY <1>2, <1>3 DEF Sensor
<1>7. /\ metrics' \in [0 .. MaxMetrics - 1 -> Entry \cup {ZeroEntry}]
      /\ metric_count' \in 0 .. MaxMetrics
      /\ metric_next' \in 0 .. MaxMetrics - 1
      /\ metric_count' < MaxMetrics => metric_next' = metric_count'
  <2>1. CASE AddMetricResult(id) = 0
    <3>1. [sensor_id |-> StoredId[id], value |-> value, type_str |-> type] \in Entry
      BY DataAssumption DEF Entry
    <3>2. metrics' \in [0 .. MaxMetrics - 1 -> Entry \cup {ZeroEntry}]
      BY <2>1, <3>1 DEF AddMetric, Written
    <3>3. /\ metric_count' = Saturated(metric_count, MaxMetrics)
          /\ metric_next' = Advanced(metric_next, MaxMetrics)
      BY <2>1 DEF AddMetric
    <3> QED
      BY <3>2, <3>3, RingIndices, CapacityAssumption
  <2>2. CASE AddMetricResult(id) # 0
    BY <2>2 DEF AddMetric, metricVars
  <2> QED
    BY <2>1, <2>2
<1> QED
  BY <1>1, <1>5, <1>6, <1>7, RewriteStep DEF TableStep, alertVars

\* state_add_alert, for an entry of the right type.
LEMMA AddAlertStep ==
  ASSUME TableInv, NEW id \in Ids, NEW value \in Values, NEW type \in Types,
         AddAlert(id, value, type)
  PROVE  TableStep
<1> USE DEF TableInv, StateTypeOK
<1>1. [sensor_id |-> StoredId[id], value |-> value, type_str |-> type] \in Entry
  BY DataAssumption DEF Entry
<1>2. alerts' \in [0 .. MaxAlerts - 1 -> Entry \cup {ZeroEntry}]
  BY <1>1 DEF AddAlert, Written
<1>3. /\ alert_count' \in 0 .. MaxAlerts
      /\ alert_next' \in 0 .. MaxAlerts - 1
      /\ alert_count' < MaxAlerts => alert_next' = alert_count'
  BY RingIndices, CapacityAssumption DEF AddAlert
<1> QED
  BY <1>2, <1>3 DEF AddAlert, TableStep, SensorsKept, CountMatchesTable, sensorVars, metricVars

\* state_deactivate_sensor and state_set_alert_level.
LEMMA DeactivateStep ==
  ASSUME TableInv, NEW id, DeactivateSensor(id)
  PROVE  TableStep
<1> USE DEF TableInv, StateTypeOK
<1>1. \A s \in Slots : FoundAt(s, id) => sensors[s] \in Sensor
  BY DEF FoundAt, Holds, FreeSlot
<1>2. \A s \in Slots : FoundAt(s, id) => [sensors[s] EXCEPT !.status = "INACTIVE"] \in Sensor
  BY <1>1 DEF Sensor
<1>3. sensors' \in [Slots -> Sensor \cup {FreeSlot}]
  BY <1>2 DEF DeactivateSensor
<1>4. \A s \in Slots : /\ sensors'[s].active = sensors[s].active
                       /\ sensors[s].active = 1 => /\ sensors'[s].id = sensors[s].id
                                                   /\ sensors'[s].type = sensors[s].type
  BY <1>1 DEF Sensor, DeactivateSensor
<1> QED
  BY <1>3, <1>4, RewriteStep DEF TableStep, DeactivateSensor, metricVars, alertVars

\* state_set_alert_level changes a level and nothing the table invariant is about.
LEMMA SetLevelStep ==
  ASSUME TableInv, NEW id, NEW level \in {"NORMAL", "ALERT"}, SetAlertLevel(id, level)
  PROVE  TableStep
<1> USE DEF TableInv, StateTypeOK
<1>1. \A s \in Slots : FoundAt(s, id) => sensors[s] \in Sensor
  BY DEF FoundAt, Holds, FreeSlot
<1>2. \A s \in Slots : FoundAt(s, id) => [sensors[s] EXCEPT !.alert_level = level] \in Sensor
  BY <1>1 DEF Sensor
<1>3. sensors' \in [Slots -> Sensor \cup {FreeSlot}]
  BY <1>2 DEF SetAlertLevel
<1>4. \A s \in Slots : /\ sensors'[s].active = sensors[s].active
                       /\ sensors[s].active = 1 => /\ sensors'[s].id = sensors[s].id
                                                   /\ sensors'[s].type = sensors[s].type
  BY <1>1 DEF Sensor, SetAlertLevel
<1> QED
  BY <1>3, <1>4, RewriteStep DEF TableStep, SetAlertLevel, metricVars, alertVars

\* A step that does not touch the global state.
LEMMA IdleStep ==
  ASSUME TableInv, UNCHANGED stateVars
  PROVE  TableStep
BY DEF TableInv, TableStep, StateTypeOK, CountMatchesTable, SensorsKept, stateVars
=============================================================================
