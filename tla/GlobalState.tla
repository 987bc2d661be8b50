----------------------------- MODULE GlobalState -----------------------------
(***************************************************************************)
(* The global state of the server (server/src/state.c, state.h) and the    *)
(* thresholds of alerts.h.                                                 *)
(*                                                                         *)
(* Every function of state.c locks g_state.lock on entry, releases it on   *)
(* every path out, calls nothing that blocks and takes no other lock, so   *)
(* each one is a single step here.  What runs between two of these calls   *)
(* is not protected: the modules that call them take one step per call.    *)
(*                                                                         *)
(* Data.  A timestamp is kept only as "N/A" (never reported) or "ISO" (a   *)
(* timestamp the server accepted), a value as the number strtod() returned *)
(* and a message not at all.                                               *)
(***************************************************************************)
EXTENDS Integers, CircularTable

CONSTANTS
  Ids,          \* sensor ids that occur in protocol lines
  StoredId,     \* StoredId[id]: what safe_strncpy(s->id, id, MAX_ID_LEN) keeps
  Types,        \* the sensor types in use
  Values,       \* metric values that occur, numbers or NaN
  NaN,          \* strtod() accepts "nan"
  MaxSensors,   \* MAX_SENSORS
  MaxMetrics,   \* MAX_METRICS
  MaxAlerts     \* MAX_ALERTS

ASSUME CapacityAssumption ==
  /\ MaxSensors \in Nat \ {0}
  /\ MaxMetrics \in Nat \ {0}
  /\ MaxAlerts \in Nat \ {0}
  /\ MaxAlerts <= MaxMetrics

ASSUME DataAssumption ==
  /\ Types \subseteq {"TEMP", "VIB", "POWER"}
  /\ NaN \notin Int
  /\ Values \subseteq Int \cup {NaN}
  /\ StoredId \in [Ids -> Ids]
  /\ \A id \in Ids : StoredId[StoredId[id]] = StoredId[id]

VARIABLES
  sensors,       \* sensors[s]: slot s of the sensor table
  sensor_count,
  metrics, metric_count, metric_next,
  alerts, alert_count, alert_next

sensorVars == <<sensors, sensor_count>>
metricVars == <<metrics, metric_count, metric_next>>
alertVars  == <<alerts, alert_count, alert_next>>
stateVars  == <<sensors, sensor_count, metrics, metric_count, metric_next,
                alerts, alert_count, alert_next>>

Slots == 0 .. MaxSensors - 1

\* memset() leaves slots and entries zeroed until they are first written.
FreeSlot  == [active |-> 0]
NoId      == ""
NoType    == ""
ZeroEntry == [sensor_id |-> NoId, value |-> 0, type_str |-> NoType]

Sensor == [active : {1}, id : Ids, type : Types,
           status : {"ACTIVE", "INACTIVE"}, alert_level : {"NORMAL", "ALERT"},
           last_value : Values \cup {0}, last_timestamp : {"N/A", "ISO"}]
Entry  == [sensor_id : Ids, value : Values, type_str : Types]

StateTypeOK ==
  /\ sensors \in [Slots -> Sensor \cup {FreeSlot}]
  /\ sensor_count \in 0 .. MaxSensors
  /\ metrics \in [0 .. MaxMetrics - 1 -> Entry \cup {ZeroEntry}]
  /\ metric_count \in 0 .. MaxMetrics
  /\ metric_next \in 0 .. MaxMetrics - 1
  /\ alerts \in [0 .. MaxAlerts - 1 -> Entry \cup {ZeroEntry}]
  /\ alert_count \in 0 .. MaxAlerts
  /\ alert_next \in 0 .. MaxAlerts - 1

-----------------------------------------------------------------------------
(* Thresholds (alerts.h, alerts_evaluate).  A comparison with NaN is false. *)

TempThresholdHigh  == 70
VibThresholdHigh   == 50
PowerThresholdLow  == 10
PowerThresholdHigh == 100

Above(value, threshold) == value # NaN /\ value > threshold
Below(value, threshold) == value # NaN /\ value < threshold

Anomalous(type, value) ==
  \/ type = "TEMP"  /\ Above(value, TempThresholdHigh)
  \/ type = "VIB"   /\ Above(value, VibThresholdHigh)
  \/ type = "POWER" /\ (Below(value, PowerThresholdLow) \/ Above(value, PowerThresholdHigh))

-----------------------------------------------------------------------------
(* The linear scans of the sensor table. *)

Holds(s, id) == sensors[s].active = 1 /\ sensors[s].id = id

Known(id) == \E s \in Slots : Holds(s, id)

\* The slot a scan for id stops at, and the slot a new sensor is put in.
FoundAt(s, id) == Holds(s, id) /\ \A t \in Slots : t < s => ~Holds(t, id)
FreeAt(s) == sensors[s].active = 0 /\ \A t \in Slots : t < s => sensors[t].active = 1

\* What state_get_active_sensor_count counts.
ActiveSensors == {s \in Slots : sensors[s].active = 1 /\ sensors[s].status = "ACTIVE"}

StateInit ==
  /\ sensors = [s \in Slots |-> FreeSlot]
  /\ sensor_count = 0
  /\ metrics = [i \in 0 .. MaxMetrics - 1 |-> ZeroEntry]
  /\ metric_count = 0
  /\ metric_next = 0
  /\ alerts = [i \in 0 .. MaxAlerts - 1 |-> ZeroEntry]
  /\ alert_count = 0
  /\ alert_next = 0

NewSensor(id, type) ==
  [active |-> 1, id |-> StoredId[id], type |-> type, status |-> "ACTIVE",
   alert_level |-> "NORMAL", last_value |-> 0, last_timestamp |-> "N/A"]

\* Mutants: a reactivated sensor is counted again; a sensor is added without the
\* scan for its id.
ReactivateCounted(id) ==
  /\ \E s \in Slots :
       /\ FoundAt(s, id)
       /\ sensors[s].status = "INACTIVE"
       /\ sensors' = [sensors EXCEPT ![s].status = "ACTIVE"]
  /\ sensor_count' = sensor_count + 1

AddSensorUnscanned(id, type) ==
  /\ \E s \in Slots :
       /\ FreeAt(s)
       /\ sensors' = [sensors EXCEPT ![s] = NewSensor(id, type)]
  /\ sensor_count' = sensor_count + 1

(***************************************************************************)
(* state_register_sensor.  The scan compares the whole id with the stored  *)
(* ones; the stored id may be shorter.  An inactive sensor is reactivated  *)
(* as it is: neither its type nor its last reading is touched.             *)
(***************************************************************************)
Reactivate(id) ==
  /\ \E s \in Slots :
       /\ FoundAt(s, id)
       /\ sensors[s].status = "INACTIVE"
       /\ sensors' = [sensors EXCEPT ![s].status = "ACTIVE"]
  /\ UNCHANGED sensor_count

AddSensor(id, type) ==
  /\ ~Known(id)
  /\ \E s \in Slots :
       /\ FreeAt(s)
       /\ sensors' = [sensors EXCEPT ![s] = NewSensor(id, type)]
  /\ sensor_count' = sensor_count + 1

\* Mutant: reactivation takes over the type of the REGISTER line.
RegisterSensorRetyping(id, type, result) ==
  /\ result = 0
  /\ \/ \E s \in Slots :
          /\ FoundAt(s, id)
          /\ sensors[s].status = "INACTIVE"
          /\ sensors' = [sensors EXCEPT ![s].status = "ACTIVE", ![s].type = type]
          /\ UNCHANGED sensor_count
     \/ AddSensor(id, type)
  /\ UNCHANGED <<metricVars, alertVars>>

RegisterSensor(id, type, result) ==
  /\ \/ result = 0 /\ (Reactivate(id) \/ AddSensor(id, type))
     \/ /\ result = -1
        /\ ~Known(id) /\ \A s \in Slots : sensors[s].active = 1
        /\ UNCHANGED sensorVars
     \/ /\ result = -2
        /\ \E s \in Slots : FoundAt(s, id) /\ sensors[s].status = "ACTIVE"
        /\ UNCHANGED sensorVars
  /\ UNCHANGED <<metricVars, alertVars>>

\* state_add_metric: the reading of the sensor and the metrics table together; -1
\* and no change for an id that is not in the table.
AddMetricResult(id) == IF Known(id) THEN 0 ELSE -1

AddMetric(id, value, type) ==
  /\ sensors' = [s \in Slots |->
       IF FoundAt(s, id)
       THEN [sensors[s] EXCEPT !.last_value = value, !.last_timestamp = "ISO"]
       ELSE sensors[s]]
  /\ IF AddMetricResult(id) = 0
     THEN /\ metrics' = Written(metrics, metric_next,
               [sensor_id |-> StoredId[id], value |-> value, type_str |-> type])
          /\ metric_next' = Advanced(metric_next, MaxMetrics)
          /\ metric_count' = Saturated(metric_count, MaxMetrics)
     ELSE UNCHANGED metricVars
  /\ UNCHANGED <<sensor_count, alertVars>>

\* state_add_alert
AddAlert(id, value, type) ==
  /\ alerts' = Written(alerts, alert_next,
                  [sensor_id |-> StoredId[id], value |-> value, type_str |-> type])
  /\ alert_next' = Advanced(alert_next, MaxAlerts)
  /\ alert_count' = Saturated(alert_count, MaxAlerts)
  /\ UNCHANGED <<sensorVars, metricVars>>

\* Mutant: QUIT frees the slot of the sensor.
DeactivateFreeing(id) ==
  /\ sensors' = [s \in Slots |-> IF FoundAt(s, id) THEN FreeSlot ELSE sensors[s]]
  /\ UNCHANGED <<sensor_count, metricVars, alertVars>>

\* state_deactivate_sensor and state_set_alert_level; an unknown id is ignored.
DeactivateSensor(id) ==
  /\ sensors' = [s \in Slots |->
       IF FoundAt(s, id) THEN [sensors[s] EXCEPT !.status = "INACTIVE"]
                         ELSE sensors[s]]
  /\ UNCHANGED <<sensor_count, metricVars, alertVars>>

SetAlertLevel(id, level) ==
  /\ sensors' = [s \in Slots |->
       IF FoundAt(s, id) THEN [sensors[s] EXCEPT !.alert_level = level]
                         ELSE sensors[s]]
  /\ UNCHANGED <<sensor_count, metricVars, alertVars>>

-----------------------------------------------------------------------------
(* What must hold of the sensor table. *)

\* Slots are handed out in order and never taken back, and sensor_count counts
\* them: what state_get_sensor_count returns is what a scan of the table finds.
CountMatchesTable == \A s \in Slots : sensors[s].active = 1 <=> s < sensor_count

\* Two slots never hold the same sensor: state_register_sensor answers -2, or
\* reactivates, for an id that is already in the table.
UniqueIds ==
  \A s, t \in Slots :
    s # t /\ sensors[s].active = 1 /\ sensors[t].active = 1 => sensors[s].id # sensors[t].id

\* A step that leaves every sensor its slot, its id and its type.
SensorsKept ==
  \A s \in Slots : sensors[s].active = 1 =>
    /\ sensors'[s].active = 1
    /\ sensors'[s].id = sensors[s].id
    /\ sensors'[s].type = sensors[s].type
=============================================================================
