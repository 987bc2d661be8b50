---------------------------- MODULE SensorService ----------------------------
(***************************************************************************)
(* What the server promises its sensors and its operators, without slots,  *)
(* scans, circular arrays, copies or locks: a registry of sensors by id    *)
(* and two logs of bounded length, the newest row first.                   *)
(*                                                                         *)
(* Three things are promised in so many steps on purpose, because the      *)
(* program shows the states in between: a report stores its row, then      *)
(* raises its alert if the value calls for one, then settles the level of  *)
(* the sensor.  due[c] is what the report of connection c still owes.      *)
(***************************************************************************)
EXTENDS Integers, Sequences, FiniteSets

CONSTANTS Conns, Ids, Types, Values, NoId, MaxSensors, MaxMetrics, MaxAlerts,
          Anomalous(_, _)     \* Anomalous(type, value)

VARIABLES registry, metricLog, alertLog, due

serviceVars == <<registry, metricLog, alertLog, due>>

Newcomer(type) == [type |-> type, status |-> "ACTIVE", level |-> "NORMAL",
                   value |-> 0, timestamp |-> "N/A"]

NothingDue == [id |-> NoId, value |-> 0, owes |-> "nothing"]

\* A log with a new row in front; the oldest row goes when the log is full.
Pushed(log, row, capacity) ==
  [i \in 1 .. IF Len(log) < capacity THEN Len(log) + 1 ELSE Len(log) |->
     IF i = 1 THEN row ELSE log[i - 1]]

Init ==
  /\ registry = [id \in {} |-> Newcomer("TEMP")]
  /\ metricLog = <<>>
  /\ alertLog = <<>>
  /\ due = [c \in Conns |-> NothingDue]

\* The registry takes new ids up to its capacity, and never gives one up.
Join(id, type) ==
  /\ id \notin DOMAIN registry
  /\ Cardinality(DOMAIN registry) < MaxSensors
  /\ registry' = [i \in DOMAIN registry \cup {id} |->
                    IF i = id THEN Newcomer(type) ELSE registry[i]]
  /\ UNCHANGED <<metricLog, alertLog, due>>

SetStatus(id, status) ==
  /\ id \in DOMAIN registry
  /\ registry' = [registry EXCEPT ![id].status = status]
  /\ UNCHANGED <<metricLog, alertLog, due>>

Row(id, value) == [sensor_id |-> id, value |-> value, type_str |-> registry[id].type]

\* A report is judged by the type its sensor has in the registry.
Report(c, id, value) ==
  /\ due[c] = NothingDue
  /\ id \in DOMAIN registry
  /\ registry' = [registry EXCEPT ![id].value = value, ![id].timestamp = "ISO"]
  /\ metricLog' = Pushed(metricLog, Row(id, value), MaxMetrics)
  /\ due' = [due EXCEPT ![c] =
               [id |-> id, value |-> value,
                owes |-> IF Anomalous(registry[id].type, value) THEN "alert" ELSE "level"]]
  /\ UNCHANGED alertLog

Alarm(c) ==
  /\ due[c].owes = "alert"
  /\ alertLog' = Pushed(alertLog, Row(due[c].id, due[c].value), MaxAlerts)
  /\ due' = [due EXCEPT ![c].owes = "level"]
  /\ UNCHANGED <<registry, metricLog>>

Settle(c) ==
  /\ due[c].owes = "level"
  /\ registry' = [registry EXCEPT ![due[c].id].level =
       IF Anomalous(registry[due[c].id].type, due[c].value) THEN "ALERT" ELSE "NORMAL"]
  /\ due' = [due EXCEPT ![c] = NothingDue]
  /\ UNCHANGED <<metricLog, alertLog>>

Next ==
  \/ \E id \in Ids :
       \/ \E type \in Types : Join(id, type)
       \/ \E status \in {"ACTIVE", "INACTIVE"} : SetStatus(id, status)
       \/ \E c \in Conns, value \in Values : Report(c, id, value)
  \/ \E c \in Conns : Alarm(c) \/ Settle(c)

Spec == Init /\ [][Next]_serviceVars

\* What a report owes is paid, however long its client then takes to listen.
FairSpec == Spec /\ \A c \in Conns : WF_serviceVars(Alarm(c) \/ Settle(c))
=============================================================================
