------------------------------ MODULE StateLock ------------------------------
(***************************************************************************)
(* The functions of state.c statement by statement, under g_state.lock.    *)
(* In GlobalState each of them is one step; here a thread calls one, waits *)
(* for the lock, scans the table a slot at a time, writes one part after   *)
(* the other, and unlocks on every path.  Threads of the console list a    *)
(* table row by row under the same lock (route_metrics).                   *)
(*                                                                         *)
(* seen is the state as the last thread to unlock left it: what the next   *)
(* one will find.  It is not part of the program.                          *)
(***************************************************************************)
EXTENDS GlobalState, FiniteSets, Sequences

CONSTANTS Threads, Nobody

ASSUME LockAssumption == Nobody \notin Threads

VARIABLES
  lock,         \* the thread that holds g_state.lock
  at,           \* where each thread is
  call,         \* the function it has called and its arguments
  slot,         \* i of the loop it is in
  result,       \* what it is going to return
  listed,       \* the rows it has listed
  seen

tableVars == <<sensors, sensor_count, metrics, metric_count, metric_next,
               alerts, alert_count, alert_next>>
threadVars == <<lock, at, call, slot, result, listed>>
lockVars == <<tableVars, threadVars, seen>>

\* stamp .. saturate: between two writes of state_add_metric, state_add_alert or
\* state_register_sensor.
Labels == {"idle", "called", "scan", "free", "count", "stamp", "row", "advance",
           "saturate", "rows", "tally", "read", "unlock"}

\* The functions that return a count as it is.
Counts == {"sensor_count", "metric_count", "alert_count"}

Calls ==
  [op : {"register"}, id : Ids, type : Types]
    \cup [op : {"metric", "alert"}, id : Ids, type : Types, value : Values]
    \cup [op : {"deactivate", "find"}, id : Ids]
    \cup [op : {"level"}, id : Ids, level : {"NORMAL", "ALERT"}]
    \cup [op : {"list", "active"} \cup Counts]

NoCall == [op |-> "none"]

\* An index, a count or an error.
Results == -2 .. MaxSensors + MaxMetrics + MaxAlerts

Now == [sensors |-> sensors, sensor_count |-> sensor_count,
        metrics |-> metrics, metric_count |-> metric_count, metric_next |-> metric_next,
        alerts |-> alerts, alert_count |-> alert_count, alert_next |-> alert_next]

LockInit ==
  /\ StateInit
  /\ lock = Nobody
  /\ at = [t \in Threads |-> "idle"]
  /\ call = [t \in Threads |-> NoCall]
  /\ slot = [t \in Threads |-> 0]
  /\ result = [t \in Threads |-> 0]
  /\ listed = [t \in Threads |-> <<>>]
  /\ seen = Now

Goto(t, label) == at' = [at EXCEPT ![t] = label]

Returns(t, value) == Goto(t, "unlock") /\ result' = [result EXCEPT ![t] = value]

-----------------------------------------------------------------------------
Call(t, c) ==
  /\ at[t] = "idle"
  /\ Goto(t, "called")
  /\ call' = [call EXCEPT ![t] = c]
  /\ UNCHANGED <<tableVars, lock, slot, result, listed, seen>>

FirstLabel(op) ==
  CASE op = "alert"   -> "row"
    [] op = "list"    -> "rows"
    [] op = "active"  -> "tally"
    [] op \in Counts  -> "read"
    [] OTHER          -> "scan"

Lock(t) ==
  /\ at[t] = "called" /\ lock = Nobody
  /\ lock' = t
  /\ Goto(t, FirstLabel(call[t].op))
  /\ UNCHANGED <<tableVars, call, slot, result, listed, seen>>

-----------------------------------------------------------------------------
(* The loop that looks for the id, and what is done with the slot it is in. *)

WriteSensor(t, sensor) ==
  /\ sensors' = [sensors EXCEPT ![slot[t]] = sensor]
  /\ UNCHANGED <<sensor_count, metricVars, alertVars>>

Found(t) ==
  LET sensor == sensors[slot[t]]  op == call[t].op IN
  \/ /\ op = "register" /\ sensor.status = "INACTIVE"
     /\ WriteSensor(t, [sensor EXCEPT !.status = "ACTIVE"])
     /\ Returns(t, 0)
  \/ /\ op = "register" /\ sensor.status = "ACTIVE"
     /\ Returns(t, -2) /\ UNCHANGED tableVars
  \/ /\ op = "metric"
     /\ WriteSensor(t, [sensor EXCEPT !.last_value = call[t].value])
     /\ Goto(t, "stamp") /\ UNCHANGED result
  \/ /\ op = "deactivate"
     /\ WriteSensor(t, [sensor EXCEPT !.status = "INACTIVE"])
     /\ Returns(t, 0)
  \/ /\ op = "level"
     /\ WriteSensor(t, [sensor EXCEPT !.alert_level = call[t].level])
     /\ Returns(t, 0)
  \/ /\ op = "find"
     /\ Returns(t, slot[t]) /\ UNCHANGED tableVars

\* Mutant: the second loop goes on where the first one ended.
NotFoundGoingOn(t) ==
  /\ IF call[t].op = "register"
     THEN Goto(t, "free") /\ UNCHANGED <<slot, result>>
     ELSE Returns(t, -1) /\ UNCHANGED slot
  /\ UNCHANGED tableVars

\* The end of the loop: a new sensor needs a slot, for the others it is an error.
NotFound(t) ==
  /\ IF call[t].op = "register"
     THEN Goto(t, "free") /\ slot' = [slot EXCEPT ![t] = 0] /\ UNCHANGED result
     ELSE Returns(t, -1) /\ UNCHANGED slot
  /\ UNCHANGED tableVars

\* Mutant: the loop does not go on to the next slot.
ScanStanding(t) ==
  /\ at[t] = "scan"
  /\ \/ slot[t] = MaxSensors /\ NotFound(t)
     \/ slot[t] < MaxSensors /\ Holds(slot[t], call[t].id) /\ Found(t) /\ UNCHANGED slot
     \/ /\ slot[t] < MaxSensors /\ ~Holds(slot[t], call[t].id)
        /\ UNCHANGED <<tableVars, at, slot, result>>
  /\ UNCHANGED <<lock, call, listed, seen>>

Scan(t) ==
  /\ at[t] = "scan"
  /\ \/ slot[t] = MaxSensors /\ NotFound(t)
     \/ slot[t] < MaxSensors /\ Holds(slot[t], call[t].id) /\ Found(t) /\ UNCHANGED slot
     \/ /\ slot[t] < MaxSensors /\ ~Holds(slot[t], call[t].id)
        /\ slot' = [slot EXCEPT ![t] = @ + 1]
        /\ UNCHANGED <<tableVars, at, result>>
  /\ UNCHANGED <<lock, call, listed, seen>>

-----------------------------------------------------------------------------
(* state_register_sensor: the free slot, and the count. *)

Free(t) ==
  /\ at[t] = "free"
  /\ \/ /\ slot[t] = MaxSensors
        /\ Returns(t, -1) /\ UNCHANGED <<tableVars, slot>>
     \/ /\ slot[t] < MaxSensors /\ sensors[slot[t]].active = 0
        /\ WriteSensor(t, NewSensor(call[t].id, call[t].type))
        /\ Goto(t, "count") /\ UNCHANGED <<slot, result>>
     \/ /\ slot[t] < MaxSensors /\ sensors[slot[t]].active = 1
        /\ slot' = [slot EXCEPT ![t] = @ + 1]
        /\ UNCHANGED <<tableVars, at, result>>
  /\ UNCHANGED <<lock, call, listed, seen>>

Count(t) ==
  /\ at[t] = "count"
  /\ sensor_count' = sensor_count + 1
  /\ Returns(t, 0)
  /\ UNCHANGED <<sensors, metricVars, alertVars, lock, call, slot, listed, seen>>

-----------------------------------------------------------------------------
(* state_add_metric and state_add_alert: the row, the index, the count. *)

Stamp(t) ==
  /\ at[t] = "stamp"
  /\ WriteSensor(t, [sensors[slot[t]] EXCEPT !.last_timestamp = "ISO"])
  /\ Goto(t, "row")
  /\ UNCHANGED <<lock, call, slot, result, listed, seen>>

NewEntry(c) == [sensor_id |-> StoredId[c.id], value |-> c.value, type_str |-> c.type]

WriteRow(t) ==
  /\ at[t] = "row"
  /\ IF call[t].op = "metric"
     THEN metrics' = Written(metrics, metric_next, NewEntry(call[t])) /\ UNCHANGED alerts
     ELSE alerts' = Written(alerts, alert_next, NewEntry(call[t])) /\ UNCHANGED metrics
  /\ Goto(t, "advance")
  /\ UNCHANGED <<sensorVars, metric_count, metric_next, alert_count, alert_next,
                 lock, call, slot, result, listed, seen>>

Advance(t) ==
  /\ at[t] = "advance"
  /\ IF call[t].op = "metric"
     THEN metric_next' = Advanced(metric_next, MaxMetrics) /\ UNCHANGED alert_next
     ELSE alert_next' = Advanced(alert_next, MaxAlerts) /\ UNCHANGED metric_next
  /\ Goto(t, "saturate")
  /\ UNCHANGED <<sensorVars, metrics, metric_count, alerts, alert_count,
                 lock, call, slot, result, listed, seen>>

Saturate(t) ==
  /\ at[t] = "saturate"
  /\ IF call[t].op = "metric"
     THEN metric_count' = Saturated(metric_count, MaxMetrics) /\ UNCHANGED alert_count
     ELSE alert_count' = Saturated(alert_count, MaxAlerts) /\ UNCHANGED metric_count
  /\ Returns(t, 0)
  /\ UNCHANGED <<sensorVars, metrics, metric_next, alerts, alert_next,
                 lock, call, slot, listed, seen>>

-----------------------------------------------------------------------------
\* One turn of the loop of route_metrics, which reads the index anew for every row.
ListRow(t) ==
  /\ at[t] = "rows"
  /\ IF Len(listed[t]) < metric_count
     THEN /\ listed' = [listed EXCEPT ![t] =
                 Append(@, metrics[Row(metric_next, MaxMetrics, Len(@))])]
          /\ UNCHANGED at
     ELSE Goto(t, "unlock") /\ UNCHANGED listed
  /\ UNCHANGED <<tableVars, lock, call, slot, result, seen>>

-----------------------------------------------------------------------------
(* The functions that count: one has a loop, the others read a field. *)

Tally(t) ==
  /\ at[t] = "tally"
  /\ IF slot[t] = MaxSensors
     THEN Goto(t, "unlock") /\ UNCHANGED <<slot, result>>
     ELSE /\ slot' = [slot EXCEPT ![t] = @ + 1]
          /\ result' = IF slot[t] \in ActiveSensors THEN [result EXCEPT ![t] = @ + 1] ELSE result
          /\ UNCHANGED at
  /\ UNCHANGED <<tableVars, lock, call, listed, seen>>

ReadCount(t) ==
  /\ at[t] = "read"
  /\ Returns(t, Now[call[t].op])
  /\ UNCHANGED <<tableVars, lock, call, slot, listed, seen>>

-----------------------------------------------------------------------------
\* The locals of the function are gone.
Leave(t) ==
  /\ call' = [call EXCEPT ![t] = NoCall]
  /\ slot' = [slot EXCEPT ![t] = 0]
  /\ result' = [result EXCEPT ![t] = 0]
  /\ listed' = [listed EXCEPT ![t] = <<>>]

Unlock(t) ==
  /\ at[t] = "unlock"
  /\ Goto(t, "idle")
  /\ lock' = Nobody
  /\ seen' = Now
  /\ Leave(t)
  /\ UNCHANGED tableVars

Inside(t) ==
  \/ Scan(t) \/ Free(t) \/ Count(t)
  \/ Stamp(t) \/ WriteRow(t) \/ Advance(t) \/ Saturate(t)
  \/ ListRow(t) \/ Tally(t) \/ ReadCount(t) \/ Unlock(t)

LockNext ==
  \E t \in Threads : (\E c \in Calls : Call(t, c)) \/ Lock(t) \/ Inside(t)

LockSpec == LockInit /\ [][LockNext]_lockVars

\* A thread that holds the lock runs on.  A mutex is not fair in turn, but a thread that
\* waits for it is not passed over for ever.
FairLockSpec ==
  LockSpec /\ \A t \in Threads : WF_lockVars(Inside(t)) /\ SF_lockVars(Lock(t))

-----------------------------------------------------------------------------
\* Who is between lock and unlock holds the lock, so there is one such thread at most.
HoldersHold == \A t \in Threads : at[t] \notin {"idle", "called"} <=> lock = t

LockTypeOK ==
  /\ StateTypeOK
  /\ lock \in Threads \cup {Nobody}
  /\ at \in [Threads -> Labels]
  /\ call \in [Threads -> Calls \cup {NoCall}]
  /\ \A t \in Threads : call[t] = NoCall <=> at[t] = "idle"
  /\ slot \in [Threads -> 0 .. MaxSensors]
  /\ result \in [Threads -> Results]
  /\ \A t \in Threads : Len(listed[t]) <= MaxMetrics
  /\ HoldersHold

Atomic == INSTANCE GlobalState WITH
  sensors <- seen.sensors, sensor_count <- seen.sensor_count,
  metrics <- seen.metrics, metric_count <- seen.metric_count, metric_next <- seen.metric_next,
  alerts <- seen.alerts, alert_count <- seen.alert_count, alert_next <- seen.alert_next

\* What the function t has called is in GlobalState: one step.
Performs(t) ==
  LET c == call[t] IN
  CASE c.op = "register"   -> Atomic!RegisterSensor(c.id, c.type, result[t])
    [] c.op = "metric"     -> /\ Atomic!AddMetric(c.id, c.value, c.type)
                              /\ result[t] = Atomic!AddMetricResult(c.id)
    [] c.op = "alert"      -> Atomic!AddAlert(c.id, c.value, c.type)
    [] c.op = "deactivate" -> Atomic!DeactivateSensor(c.id)
    [] c.op = "level"      -> Atomic!SetAlertLevel(c.id, c.level)
    [] c.op = "find"       -> /\ IF Atomic!Known(c.id) THEN Atomic!FoundAt(result[t], c.id)
                                                       ELSE result[t] = -1
                              /\ UNCHANGED seen
    [] c.op = "list"       -> /\ listed[t] = Listing(seen.metrics, seen.metric_count,
                                                     seen.metric_next, MaxMetrics)
                              /\ UNCHANGED seen
    [] c.op = "active"     -> result[t] = Cardinality(Atomic!ActiveSensors) /\ UNCHANGED seen
    [] c.op \in Counts     -> result[t] = seen[c.op] /\ UNCHANGED seen

\* Every function of state.c, results included, acts as if it were one step, taken when it
\* unlocks: nobody finds a state that a thread has left half written, the statements of two
\* threads never mix, and no path leaves work undone.
CallsAreAtomic ==
  /\ Atomic!StateInit
  /\ [](lock = Nobody => seen = Now)
  /\ [][IF lock # Nobody /\ lock' = Nobody THEN Performs(lock) ELSE UNCHANGED seen]_lockVars

\* Every call returns, long listings of other threads or not: all paths unlock, and a
\* thread takes no lock while it has one.
CallsReturn == \A t \in Threads : at[t] = "called" ~> at[t] = "idle"
=============================================================================
