--------------------------- MODULE StateLockProofs ---------------------------
(***************************************************************************)
(* The lock of the state, for every number of threads and every capacity:  *)
(* who is inside holds it, and the functions of state.c act as the single  *)
(* steps of GlobalState.  The invariant says, for each label, what the     *)
(* thread that holds the lock has done so far to the state that was left   *)
(* to it (seen), and so for the last label what the whole call did.        *)
(***************************************************************************)
EXTENDS StateLock, GlobalStateProofs, FiniteSetTheorems, SequenceTheorems

Scanning == {"register", "metric", "deactivate", "find", "level"}

SensorsSame == sensors = seen.sensors /\ sensor_count = seen.sensor_count
MetricsSame ==
  metrics = seen.metrics /\ metric_count = seen.metric_count /\ metric_next = seen.metric_next
AlertsSame ==
  alerts = seen.alerts /\ alert_count = seen.alert_count /\ alert_next = seen.alert_next

Untouched == SensorsSame /\ MetricsSame /\ AlertsSame

-----------------------------------------------------------------------------
(* What the holder has done when it is at a label. *)

Scanned(t) ==
  /\ Untouched /\ call[t].op \in Scanning
  /\ \A s \in Slots : s < slot[t] => ~Holds(s, call[t].id)

Unfilled(t) ==
  /\ Untouched /\ call[t].op = "register"
  /\ \A s \in Slots : ~Holds(s, call[t].id)
  /\ \A s \in Slots : s < slot[t] => sensors[s].active = 1

\* A new sensor is in the first free slot.
Added(t) ==
  /\ slot[t] \in Slots
  /\ ~Atomic!Known(call[t].id) /\ Atomic!FreeAt(slot[t])
  /\ sensors = [seen.sensors EXCEPT ![slot[t]] = NewSensor(call[t].id, call[t].type)]

Filled(t) ==
  /\ MetricsSame /\ AlertsSame /\ call[t].op = "register"
  /\ Added(t)
  /\ sensor_count = seen.sensor_count
  /\ \A s \in Slots : sensors[s].active = 1 <=> s <= sensor_count
  /\ sensor_count \in Slots

\* The slot the scan stopped at, as it was and as it is now.
Was(t) == seen.sensors[slot[t]]

Stopped(t) == slot[t] \in Slots /\ Atomic!FoundAt(slot[t], call[t].id)

Rewrote(t, sensor) ==
  /\ Stopped(t)
  /\ sensors = [seen.sensors EXCEPT ![slot[t]] = sensor]
  /\ sensor_count = seen.sensor_count

Valued(t) ==
  /\ MetricsSame /\ AlertsSame /\ call[t].op = "metric"
  /\ Rewrote(t, [Was(t) EXCEPT !.last_value = call[t].value])

\* The sensor of a metric is up to date; an alert does not touch the sensors.
Read(t) ==
  \/ /\ call[t].op = "metric" /\ AlertsSame
     /\ Rewrote(t, [Was(t) EXCEPT !.last_value = call[t].value, !.last_timestamp = "ISO"])
  \/ call[t].op = "alert" /\ SensorsSame /\ MetricsSame

Stamped(t) == Read(t) /\ MetricsSame /\ AlertsSame

\* The table of the call has the row, and the write index and the count that are given.
Entered(t, next1, count1, next2, count2) ==
  /\ Read(t)
  /\ call[t].op = "metric" =>
       /\ metrics = Written(seen.metrics, seen.metric_next, NewEntry(call[t]))
       /\ metric_next = next1 /\ metric_count = count1
  /\ call[t].op = "alert" =>
       /\ alerts = Written(seen.alerts, seen.alert_next, NewEntry(call[t]))
       /\ alert_next = next2 /\ alert_count = count2

RowWritten(t) ==
  Entered(t, seen.metric_next, seen.metric_count, seen.alert_next, seen.alert_count)

Forward(t) ==
  Entered(t, Advanced(seen.metric_next, MaxMetrics), seen.metric_count,
          Advanced(seen.alert_next, MaxAlerts), seen.alert_count)

Counted(t) ==
  Entered(t, Advanced(seen.metric_next, MaxMetrics), Saturated(seen.metric_count, MaxMetrics),
          Advanced(seen.alert_next, MaxAlerts), Saturated(seen.alert_count, MaxAlerts))

Listed(t) ==
  /\ Untouched /\ call[t].op = "list"
  /\ Len(listed[t]) <= metric_count
  /\ \A i \in 1 .. Len(listed[t]) : listed[t][i] = metrics[Row(metric_next, MaxMetrics, i - 1)]

\* A call whose id the scan did not find changed nothing.
Missed(t) == Untouched /\ ~Atomic!Known(call[t].id)

Registered(t) ==
  /\ call[t].op = "register" /\ MetricsSame /\ AlertsSame
  /\ \/ /\ result[t] = 0 /\ Rewrote(t, [Was(t) EXCEPT !.status = "ACTIVE"])
        /\ Was(t).status = "INACTIVE"
     \/ result[t] = 0 /\ Added(t) /\ sensor_count = seen.sensor_count + 1
     \/ result[t] = -1 /\ Missed(t) /\ \A s \in Slots : sensors[s].active = 1
     \/ result[t] = -2 /\ Untouched /\ Stopped(t) /\ Was(t).status = "ACTIVE"

Recorded(t) ==
  \/ result[t] = 0 /\ Counted(t)
  \/ result[t] = -1 /\ call[t].op = "metric" /\ Missed(t)

Changed(t) ==
  /\ call[t].op \in {"deactivate", "level"} /\ MetricsSame /\ AlertsSame
  /\ \/ Missed(t)
     \/ call[t].op = "deactivate" /\ Rewrote(t, [Was(t) EXCEPT !.status = "INACTIVE"])
     \/ call[t].op = "level" /\ Rewrote(t, [Was(t) EXCEPT !.alert_level = call[t].level])

Looked(t) ==
  /\ call[t].op = "find" /\ Untouched
  /\ \/ Missed(t) /\ result[t] = -1
     \/ Stopped(t) /\ result[t] = slot[t]

\* The slots the count has passed, and those of them it has counted.
Passed(t) == {s \in ActiveSensors : s < slot[t]}

Tallied(t) ==
  /\ Untouched /\ call[t].op = "active"
  /\ result[t] = Cardinality(Passed(t))

Reading(t) == Untouched /\ call[t].op \in Counts

Numbered(t) ==
  \/ Tallied(t) /\ slot[t] = MaxSensors
  \/ Reading(t) /\ result[t] = Now[call[t].op]

Finished(t) ==
  \/ Numbered(t)
  \/ Registered(t) \/ Recorded(t) \/ Changed(t) \/ Looked(t)
  \/ Listed(t) /\ Len(listed[t]) = metric_count

-----------------------------------------------------------------------------
Progress(t) ==
  /\ at[t] = "scan" => Scanned(t)
  /\ at[t] = "free" => Unfilled(t)
  /\ at[t] = "count" => Filled(t)
  /\ at[t] = "stamp" => Valued(t)
  /\ at[t] = "row" => Stamped(t)
  /\ at[t] = "advance" => RowWritten(t)
  /\ at[t] = "saturate" => Forward(t)
  /\ at[t] = "rows" => Listed(t)
  /\ at[t] = "tally" => Tallied(t)
  /\ at[t] = "read" => Reading(t)
  /\ at[t] = "unlock" => Finished(t)

\* Between the new sensor and its count the table has one more than it counts.
CountsSlots == (\A t \in Threads : at[t] # "count") => CountMatchesTable

LockTypes ==
  /\ LockTypeOK
  /\ listed \in [Threads -> Seq(Entry \cup {ZeroEntry})]
  /\ seen.sensors \in [Slots -> Sensor \cup {FreeSlot}]
  /\ \A t \in Threads :
       at[t] \in {"idle", "called"} => slot[t] = 0 /\ result[t] = 0 /\ listed[t] = <<>>

LockInv ==
  /\ LockTypes
  /\ CountsSlots
  /\ lock = Nobody => seen = Now
  /\ lock # Nobody => Progress(lock)

-----------------------------------------------------------------------------
\* The arguments each function is called with.
LEMMA CallFields ==
  ASSUME NEW c \in Calls
  PROVE  /\ c.op = "register" => c.id \in Ids /\ c.type \in Types
         /\ c.op \in {"metric", "alert"} => c.id \in Ids /\ c.value \in Values /\ c.type \in Types
         /\ c.op \in {"deactivate", "find"} => c.id \in Ids
         /\ c.op = "level" => c.id \in Ids /\ c.level \in {"NORMAL", "ALERT"}
         /\ c.op \in Scanning \cup {"alert", "list", "active"} \cup Counts
         /\ c # NoCall
BY DEF Calls, NoCall, Scanning, Counts

\* Errors, indices and counts are results.
LEMMA ResultRange ==
  /\ \A i \in Slots \cup {-1, -2} : i \in Results
  /\ \A n \in 0 .. MaxSensors : n \in Results
  /\ \A n \in 0 .. MaxMetrics : n \in Results
  /\ \A n \in 0 .. MaxAlerts : n \in Results
BY CapacityAssumption DEF Slots, Results

\* Nobody calls, holds or has seen anything, and the tables are empty.
LEMMA LockInitially == LockInit => LockInv
<1> SUFFICES ASSUME LockInit PROVE LockInv
  OBVIOUS
<1>1. TableInv
  BY TableInitially DEF LockInit
<1>2. <<>> \in Seq(Entry \cup {ZeroEntry}) /\ Len(<<>>) = 0
  BY EmptySeq
<1>r. 0 \in Results
  BY ResultRange, CapacityAssumption
<1>3. LockTypeOK
  BY <1>1, <1>2, <1>r, CapacityAssumption, LockAssumption
  DEF LockInit, LockTypeOK, TableInv, Labels, NoCall, HoldersHold, Slots
<1>4. seen.sensors = sensors
  BY DEF LockInit, Now
<1> QED
  BY <1>1, <1>2, <1>3, <1>4 DEF LockInit, LockInv, LockTypes, CountsSlots, TableInv, StateTypeOK

\* What a thread has done does not change while others only call functions.
LEMMA StandsStill ==
  ASSUME NEW t, UNCHANGED <<tableVars, slot, result, listed, seen>>,
         at'[t] = at[t], call'[t] = call[t], Progress(t)
  PROVE  Progress(t)'
<1> USE DEF tableVars
<1>s. UNCHANGED SensorsSame /\ UNCHANGED MetricsSame /\ UNCHANGED AlertsSame /\ UNCHANGED Untouched
  BY DEF Untouched, SensorsSame, MetricsSame, AlertsSame
<1>1. UNCHANGED Scanned(t) /\ UNCHANGED Unfilled(t) /\ UNCHANGED Listed(t)
  BY <1>s DEF Scanned, Unfilled, Listed, Holds
<1>2. UNCHANGED Stopped(t) /\ UNCHANGED Was(t) /\ UNCHANGED Added(t) /\ UNCHANGED Missed(t)
  BY <1>s DEF Stopped, Was, Added, Missed, Atomic!FoundAt, Atomic!Known, Atomic!Holds, Atomic!FreeAt
<1>3. UNCHANGED Filled(t) /\ UNCHANGED Valued(t) /\ UNCHANGED Read(t)
  BY <1>s, <1>2 DEF Filled, Valued, Read, Rewrote
<1>4. /\ UNCHANGED Stamped(t) /\ UNCHANGED RowWritten(t)
      /\ UNCHANGED Forward(t) /\ UNCHANGED Counted(t)
  BY <1>s, <1>3 DEF Stamped, RowWritten, Forward, Counted, Entered
<1>5. /\ UNCHANGED Registered(t) /\ UNCHANGED Recorded(t)
      /\ UNCHANGED Changed(t) /\ UNCHANGED Looked(t)
  BY <1>s, <1>2, <1>4 DEF Registered, Recorded, Changed, Looked, Rewrote
<1>6. UNCHANGED Tallied(t) /\ UNCHANGED Reading(t) /\ UNCHANGED Numbered(t)
  BY <1>s DEF Tallied, Reading, Numbered, Passed, ActiveSensors, Counts, Now
<1> QED
  BY <1>1, <1>3, <1>4, <1>5, <1>6 DEF Progress, Finished

\* A thread that is called or waits disturbs nobody.
LEMMA CallStep ==
  ASSUME LockInv, NEW t \in Threads, NEW c \in Calls, Call(t, c)
  PROVE  LockInv'
<1> USE DEF LockInv, LockTypes, LockTypeOK
<1>1. /\ at' = [at EXCEPT ![t] = "called"] /\ call' = [call EXCEPT ![t] = c]
      /\ UNCHANGED <<tableVars, lock, slot, result, listed, seen>> /\ at[t] = "idle"
  BY DEF Call, Goto
<1>2. lock # t /\ HoldersHold'
  BY <1>1 DEF HoldersHold
<1>3. LockTypes'
  BY <1>1, <1>2, CallFields DEF tableVars, StateTypeOK, Labels
<1>4. lock # Nobody => at'[lock] = at[lock] /\ call'[lock] = call[lock]
  BY <1>1, <1>2
<1>5. lock' # Nobody => (Progress(lock))'
  BY <1>1, <1>4, StandsStill
<1>6. CountsSlots'
  BY <1>1 DEF CountsSlots, CountMatchesTable, tableVars
<1> QED
  BY <1>1, <1>3, <1>5, <1>6 DEF Now, tableVars

-----------------------------------------------------------------------------
\* A step of the thread that holds the lock, which it keeps.
LEMMA HolderStep ==
  ASSUME LockInv, NEW t \in Threads, lock = t,
         NEW l \in Labels \ {"idle", "called"}, at' = [at EXCEPT ![t] = l],
         UNCHANGED <<lock, call, seen>>,
         StateTypeOK', slot' \in [Threads -> 0 .. MaxSensors],
         result' \in [Threads -> Results],
         listed' \in [Threads -> Seq(Entry \cup {ZeroEntry})],
         \A q \in Threads : Len(listed'[q]) <= MaxMetrics,
         \A q \in Threads :
           q # t => slot'[q] = slot[q] /\ result'[q] = result[q] /\ listed'[q] = listed[q],
         l # "count" => CountMatchesTable',
         Progress(t)'
  PROVE  LockInv'
<1> USE DEF LockInv, LockTypes, LockTypeOK
<1>1. at[t] \notin {"idle", "called"} /\ HoldersHold'
  BY DEF HoldersHold
<1>2. LockTypes'
  BY <1>1 DEF Labels
<1>3. CountsSlots'
  BY DEF CountsSlots
<1> QED
  BY <1>2, <1>3, LockAssumption

\* Whoever gets the lock finds the state as the last one left it.
LEMMA LockStep ==
  ASSUME LockInv, NEW t \in Threads, Lock(t)
  PROVE  LockInv'
<1> USE DEF LockInv, LockTypes, LockTypeOK
<1> DEFINE l == FirstLabel(call[t].op)
<1>1. /\ at' = [at EXCEPT ![t] = l] /\ lock' = t /\ lock = Nobody /\ at[t] = "called"
      /\ UNCHANGED <<tableVars, call, slot, result, listed, seen>>
  BY DEF Lock, Goto
<1>2. call[t].op \in Scanning \cup {"alert", "list", "active"} \cup Counts /\ call[t] # NoCall
  BY <1>1, CallFields
<1>3. /\ call[t].op \in Scanning => l = "scan"
      /\ call[t].op = "alert" => l = "row"
      /\ call[t].op = "list" => l = "rows"
      /\ call[t].op = "active" => l = "tally"
      /\ call[t].op \in Counts => l = "read"
  BY <1>2 DEF FirstLabel, Scanning, Counts
<1> HIDE DEF l
<1>4. l \in Labels \ {"idle", "called"}
  BY <1>2, <1>3 DEF Labels
<1>5. HoldersHold'
  BY <1>1, <1>4, LockAssumption DEF HoldersHold
<1>6. LockTypes'
  <2>1. /\ at' \in [Threads -> Labels]
        /\ \A q \in Threads : call'[q] = NoCall <=> at'[q] = "idle"
        /\ \A q \in Threads :
             at'[q] \in {"idle", "called"} => slot'[q] = 0 /\ result'[q] = 0 /\ listed'[q] = <<>>
    BY <1>1, <1>2, <1>4
  <2>2. StateTypeOK'
    BY <1>1 DEF tableVars, StateTypeOK
  <2>3. LockTypeOK'
    BY <1>1, <1>5, <2>1, <2>2
  <2>4. /\ listed' \in [Threads -> Seq(Entry \cup {ZeroEntry})]
        /\ seen'.sensors \in [Slots -> Sensor \cup {FreeSlot}]
    BY <1>1
  <2> QED
    BY <2>1, <2>3, <2>4
<1>7. CountsSlots'
  <2>1. \A q \in Threads : at[q] # "count"
    BY <1>1, LockAssumption DEF HoldersHold
  <2> QED
    BY <1>1, <2>1 DEF CountsSlots, CountMatchesTable, tableVars
<1>8. Untouched'
  BY <1>1 DEF Now, tableVars, Untouched, SensorsSame, MetricsSame, AlertsSame
<1>9. Progress(t)'
  <2>1. CASE l = "scan"
    <3>1. Scanned(t)'
      BY <1>1, <1>2, <1>3, <1>8, <2>1, CapacityAssumption DEF Scanned, Slots
    <3> QED
      BY <1>1, <2>1, <3>1 DEF Progress
  <2>2. CASE l = "row"
    <3>1. Stamped(t)'
      BY <1>1, <1>2, <1>3, <1>8, <2>2 DEF Stamped, Read, Untouched, Scanning
    <3> QED
      BY <1>1, <2>2, <3>1 DEF Progress
  <2>3. CASE l = "rows"
    <3>1. Len(listed[t]) = 0 /\ metric_count \in Nat
      BY <1>1, EmptySeq, CapacityAssumption DEF StateTypeOK
    <3>2. Listed(t)'
      BY <1>1, <1>2, <1>3, <1>8, <2>3, <3>1 DEF Listed, Scanning, tableVars
    <3> QED
      BY <1>1, <2>3, <3>2 DEF Progress
  <2>4. CASE l = "tally"
    <3>1. call[t].op = "active"
      BY <1>2, <1>3, <2>4 DEF Scanning, Counts
    <3>2. Passed(t)' = {}
      BY <1>1, CapacityAssumption DEF Passed, ActiveSensors, Slots
    <3>3. Tallied(t)'
      BY <1>1, <1>8, <3>1, <3>2, FS_EmptySet DEF Tallied
    <3> QED
      BY <1>1, <2>4, <3>3 DEF Progress
  <2>5. CASE l = "read"
    <3>1. Reading(t)'
      BY <1>1, <1>2, <1>3, <1>8, <2>5 DEF Reading
    <3> QED
      BY <1>1, <2>5, <3>1 DEF Progress
  <2> QED
    BY <1>2, <1>3, <2>1, <2>2, <2>3, <2>4, <2>5
<1> QED
  BY <1>1, <1>6, <1>7, <1>9, LockAssumption

-----------------------------------------------------------------------------
(* The steps of the holder. *)

\* Two scans for one id stop at one slot.
LEMMA StopsOnce ==
  ASSUME NEW id, NEW s \in Slots, NEW t \in Slots, Atomic!FoundAt(s, id), Atomic!FoundAt(t, id)
  PROVE  s = t
BY DEF Atomic!FoundAt, Atomic!Slots, Slots

\* The holder is between lock and unlock and nobody else is.
LEMMA Holder ==
  ASSUME LockInv, NEW t \in Threads, at[t] \notin {"idle", "called"}
  PROVE  /\ lock = t /\ lock # Nobody /\ call[t] \in Calls /\ Progress(t)
         /\ \A q \in Threads : q # t => at[q] \in {"idle", "called"}
BY LockAssumption DEF LockInv, LockTypes, LockTypeOK, HoldersHold

\* A rewritten sensor is in use as before.
LEMMA SensorRewritten ==
  ASSUME LockInv, NEW s \in Slots, sensors[s].active = 1, NEW sensor \in Sensor,
         sensors' = [sensors EXCEPT ![s] = sensor], UNCHANGED <<sensor_count, metricVars, alertVars>>
  PROVE  StateTypeOK' /\ (CountMatchesTable => CountMatchesTable')
<1>1. StateTypeOK' /\ sensor.active = 1
  BY DEF LockInv, LockTypes, LockTypeOK, StateTypeOK, metricVars, alertVars, Sensor
<1> QED
  BY <1>1 DEF CountMatchesTable, LockInv, LockTypes, LockTypeOK, StateTypeOK

\* What every step below may rely on.
LEMMA HolderTypes ==
  ASSUME LockInv, NEW t \in Threads, at[t] \notin {"idle", "called"}
  PROVE  /\ StateTypeOK /\ at \in [Threads -> Labels]
         /\ slot \in [Threads -> 0 .. MaxSensors]
         /\ result \in [Threads -> Results]
         /\ listed \in [Threads -> Seq(Entry \cup {ZeroEntry})]
         /\ \A q \in Threads : Len(listed[q]) <= MaxMetrics
         /\ seen.sensors \in [Slots -> Sensor \cup {FreeSlot}]
         /\ at[t] # "count" => CountMatchesTable
<1>1. \A q \in Threads : q # t => at[q] # "count"
  BY Holder
<1> QED
  BY <1>1 DEF LockInv, LockTypes, LockTypeOK, CountsSlots

\* The scan passes a slot.
LEMMA PassStep ==
  ASSUME LockInv, NEW t \in Threads, at[t] = "scan", slot[t] < MaxSensors,
         ~Holds(slot[t], call[t].id), slot' = [slot EXCEPT ![t] = @ + 1],
         UNCHANGED <<tableVars, at, result, lock, call, listed, seen>>
  PROVE  LockInv'
<1> USE HolderTypes
<1>1. lock = t /\ Scanned(t)
  BY Holder DEF Progress
<1>2. slot' \in [Threads -> 0 .. MaxSensors] /\ slot'[t] = slot[t] + 1 /\ slot[t] \in Nat
  BY CapacityAssumption
<1>3. StateTypeOK' /\ CountMatchesTable'
  BY DEF StateTypeOK, CountMatchesTable, tableVars
<1>4. Untouched'
  BY <1>1 DEF Scanned, Untouched, SensorsSame, MetricsSame, AlertsSame, tableVars
<1>5. Scanned(t)'
  BY <1>1, <1>2, <1>4 DEF Scanned, Slots, Holds, tableVars
<1>6. Progress(t)'
  BY <1>5 DEF Progress
<1>7. at' = [at EXCEPT ![t] = "scan"]
  OBVIOUS
<1> QED
  BY <1>1, <1>2, <1>3, <1>6, <1>7, HolderStep DEF Labels

\* The scan ends without the id.
LEMMA MissStep ==
  ASSUME LockInv, NEW t \in Threads, at[t] = "scan", slot[t] = MaxSensors, NotFound(t),
         UNCHANGED <<lock, call, listed, seen>>
  PROVE  LockInv'
<1> USE HolderTypes
<1>1. lock = t /\ Scanned(t)
  BY Holder DEF Progress
<1>2. UNCHANGED tableVars
  BY DEF NotFound
<1>3. StateTypeOK' /\ CountMatchesTable'
  BY <1>2 DEF StateTypeOK, CountMatchesTable, tableVars
<1>4. Untouched' /\ Untouched
  BY <1>1, <1>2 DEF Scanned, Untouched, SensorsSame, MetricsSame, AlertsSame, tableVars
<1>5. \A s \in Slots : ~Holds(s, call[t].id)
  BY <1>1, CapacityAssumption DEF Scanned, Slots
<1>6. CASE call[t].op = "register"
  <2>1. at' = [at EXCEPT ![t] = "free"] /\ slot' = [slot EXCEPT ![t] = 0] /\ result' = result
    BY <1>6 DEF NotFound, Goto
  <2>2. slot' \in [Threads -> 0 .. MaxSensors] /\ slot'[t] = 0
    BY <2>1, CapacityAssumption
  <2>3. Unfilled(t)'
    BY <1>2, <1>4, <1>5, <1>6, <2>2 DEF Unfilled, Holds, tableVars, Slots
  <2>4. Progress(t)'
    BY <2>1, <2>3 DEF Progress
  <2> QED
    BY <1>1, <1>3, <2>1, <2>2, <2>4, HolderStep DEF Labels
<1>7. CASE call[t].op # "register"
  <2>1. at' = [at EXCEPT ![t] = "unlock"] /\ slot' = slot /\ result' = [result EXCEPT ![t] = -1]
    BY <1>7 DEF NotFound, Returns, Goto
  <2>2. result' \in [Threads -> Results]
    BY <2>1, ResultRange
  <2>3. Missed(t)'
    BY <1>2, <1>4, <1>5 DEF Missed, Atomic!Known, Atomic!Holds, Atomic!Slots, Slots, Holds,
       Untouched, SensorsSame
  <2>4. (Recorded(t) \/ Changed(t) \/ Looked(t))'
    BY <1>1, <1>4, <1>7, <2>1, <2>3
    DEF Scanned, Scanning, Recorded, Changed, Looked, Untouched
  <2>5. Progress(t)'
    BY <2>1, <2>4 DEF Progress, Finished
  <2> QED
    BY <1>1, <1>3, <2>1, <2>2, <2>5, HolderStep DEF Labels
<1> QED
  BY <1>6, <1>7

\* The scan stops at the sensor: it is what GlobalState finds, and the function does with
\* it what is its own.
LEMMA FoundStep ==
  ASSUME LockInv, NEW t \in Threads, at[t] = "scan", slot[t] < MaxSensors,
         Holds(slot[t], call[t].id), Found(t), UNCHANGED <<slot, lock, call, listed, seen>>
  PROVE  LockInv'
<1> USE HolderTypes
<1> DEFINE sensor == sensors[slot[t]]
<1>1. lock = t /\ Scanned(t) /\ call[t] \in Calls
  BY Holder DEF Progress
<1>2. slot[t] \in Slots /\ sensor \in Sensor /\ sensor.active = 1 /\ Was(t) = sensor
  <2>1. slot[t] \in Slots
    BY CapacityAssumption DEF Slots
  <2>2. sensor.active = 1
    BY DEF Holds
  <2>3. sensor \in Sensor \cup {FreeSlot}
    BY <2>1 DEF StateTypeOK
  <2>4. sensor # FreeSlot
    BY <2>2 DEF FreeSlot
  <2>5. Was(t) = sensor
    BY <1>1 DEF Was, Scanned, Untouched, SensorsSame
  <2> QED
    BY <2>1, <2>2, <2>3, <2>4, <2>5
<1>3. Stopped(t)
  BY <1>1, <1>2 DEF Stopped, Scanned, Untouched, SensorsSame, Holds, Slots,
     Atomic!FoundAt, Atomic!Holds, Atomic!Slots
<1>4. Stopped(t)' /\ Was(t)' = sensor /\ slot'[t] = slot[t]
  BY <1>2, <1>3 DEF Stopped, Was, Atomic!FoundAt, Atomic!Holds, Atomic!Slots
<1>5. /\ sensors = seen.sensors /\ sensor_count = seen.sensor_count
      /\ MetricsSame /\ AlertsSame /\ Untouched
  BY <1>1 DEF Scanned, Untouched, SensorsSame
<1>6. ASSUME NEW new \in Sensor, WriteSensor(t, new)
      PROVE  /\ StateTypeOK' /\ CountMatchesTable'
             /\ Rewrote(t, new)' /\ MetricsSame' /\ AlertsSame'
  <2>1. StateTypeOK' /\ CountMatchesTable'
    BY <1>2, <1>6, SensorRewritten DEF WriteSensor
  <2>2. Rewrote(t, new)'
    BY <1>4, <1>5, <1>6 DEF Rewrote, WriteSensor
  <2> QED
    BY <1>5, <1>6, <2>1, <2>2 DEF WriteSensor, MetricsSame, AlertsSame, metricVars, alertVars
<1>7. ASSUME UNCHANGED tableVars
      PROVE  StateTypeOK' /\ CountMatchesTable' /\ Untouched' /\ MetricsSame' /\ AlertsSame'
  BY <1>5, <1>7 DEF StateTypeOK, CountMatchesTable, tableVars, Untouched, SensorsSame,
     MetricsSame, AlertsSame
<1>8. ASSUME NEW value \in Slots \cup {-1, -2}, Returns(t, value), Finished(t)',
             StateTypeOK', CountMatchesTable'
      PROVE  LockInv'
  <2>1. at' = [at EXCEPT ![t] = "unlock"] /\ result' \in [Threads -> Results]
    BY <1>8, ResultRange DEF Returns, Goto
  <2>2. Progress(t)'
    BY <1>8, <2>1 DEF Progress
  <2>3. \A q \in Threads : q # t => result'[q] = result[q]
    BY <1>8 DEF Returns
  <2> QED
    BY <1>1, <1>8, <2>1, <2>2, <2>3, HolderStep DEF Labels
<1>9. 0 \in Slots /\ \A value : Returns(t, value) => result'[t] = value
  BY CapacityAssumption DEF Slots, Returns
<1>10. CASE /\ call[t].op = "register" /\ sensor.status = "INACTIVE"
            /\ WriteSensor(t, [sensor EXCEPT !.status = "ACTIVE"])
            /\ Returns(t, 0)
  <2>1. [sensor EXCEPT !.status = "ACTIVE"] \in Sensor
    BY <1>2 DEF Sensor
  <2>2. Registered(t)'
    BY <1>4, <1>6, <1>9, <1>10, <2>1 DEF Registered
  <2> QED
    BY <1>6, <1>8, <1>9, <1>10, <2>1, <2>2 DEF Finished
<1>11. CASE /\ call[t].op = "register" /\ sensor.status = "ACTIVE"
            /\ Returns(t, -2) /\ UNCHANGED tableVars
  <2>1. Registered(t)'
    BY <1>4, <1>7, <1>9, <1>11 DEF Registered
  <2> QED
    BY <1>7, <1>8, <1>11, <2>1 DEF Finished
<1>12. CASE /\ call[t].op = "metric"
            /\ WriteSensor(t, [sensor EXCEPT !.last_value = call[t].value])
            /\ Goto(t, "stamp") /\ UNCHANGED result
  <2>1. [sensor EXCEPT !.last_value = call[t].value] \in Sensor
    BY <1>1, <1>2, <1>12, CallFields DEF Sensor
  <2>2. Valued(t)' /\ StateTypeOK' /\ CountMatchesTable'
    BY <1>4, <1>6, <1>12, <2>1 DEF Valued
  <2>3. at' = [at EXCEPT ![t] = "stamp"] /\ Progress(t)'
    BY <1>12, <2>2 DEF Goto, Progress
  <2> QED
    BY <1>1, <1>12, <2>2, <2>3, HolderStep DEF Labels
<1>13. CASE /\ call[t].op = "deactivate"
            /\ WriteSensor(t, [sensor EXCEPT !.status = "INACTIVE"])
            /\ Returns(t, 0)
  <2>1. [sensor EXCEPT !.status = "INACTIVE"] \in Sensor
    BY <1>2 DEF Sensor
  <2>2. Changed(t)'
    BY <1>4, <1>6, <1>13, <2>1 DEF Changed
  <2> QED
    BY <1>6, <1>8, <1>9, <1>13, <2>1, <2>2 DEF Finished
<1>14. CASE /\ call[t].op = "level"
            /\ WriteSensor(t, [sensor EXCEPT !.alert_level = call[t].level])
            /\ Returns(t, 0)
  <2>1. [sensor EXCEPT !.alert_level = call[t].level] \in Sensor
    BY <1>1, <1>2, <1>14, CallFields DEF Sensor
  <2>2. Changed(t)'
    BY <1>4, <1>6, <1>14, <2>1 DEF Changed
  <2> QED
    BY <1>6, <1>8, <1>9, <1>14, <2>1, <2>2 DEF Finished
<1>15. CASE call[t].op = "find" /\ Returns(t, slot[t]) /\ UNCHANGED tableVars
  <2>1. Looked(t)'
    BY <1>4, <1>7, <1>9, <1>15 DEF Looked
  <2> QED
    BY <1>2, <1>7, <1>8, <1>15, <2>1 DEF Finished
<1> QED
  BY <1>10, <1>11, <1>12, <1>13, <1>14, <1>15 DEF Found

\* Every turn of the loop that looks for the id.
LEMMA ScanStep ==
  ASSUME LockInv, NEW t \in Threads, Scan(t)
  PROVE  LockInv'
BY PassStep, MissStep, FoundStep DEF Scan

\* The loop that looks for a free slot.
LEMMA FreeStep ==
  ASSUME LockInv, NEW t \in Threads, Free(t)
  PROVE  LockInv'
<1> USE HolderTypes DEF Free
<1>1. lock = t /\ Unfilled(t) /\ call[t] \in Calls
  BY Holder DEF Progress
<1>c. CountMatchesTable
  OBVIOUS
<1>2. Untouched /\ call[t].op = "register" /\ \A s \in Slots : s < slot[t] => sensors[s].active = 1
  BY <1>1 DEF Unfilled
<1>3. ~Atomic!Known(call[t].id)
  BY <1>1 DEF Unfilled, Untouched, SensorsSame, Holds, Slots,
     Atomic!Known, Atomic!Holds, Atomic!Slots
<1>4. ASSUME UNCHANGED tableVars
      PROVE  StateTypeOK' /\ CountMatchesTable' /\ Untouched' /\ MetricsSame' /\ AlertsSame'
  BY <1>2, <1>4 DEF StateTypeOK, CountMatchesTable, tableVars, Untouched, SensorsSame,
     MetricsSame, AlertsSame
<1>5. CASE slot[t] = MaxSensors /\ Returns(t, -1) /\ UNCHANGED <<tableVars, slot>>
  <2>1. at' = [at EXCEPT ![t] = "unlock"] /\ result' = [result EXCEPT ![t] = -1]
    BY <1>5 DEF Returns, Goto
  <2>2. result' \in [Threads -> Results] /\ result'[t] = -1
    BY <2>1, ResultRange
  <2>3. \A s \in Slots : sensors[s].active = 1
    BY <1>2, <1>5, CapacityAssumption DEF Slots
  <2>4. Missed(t)'
    BY <1>3, <1>4, <1>5 DEF Missed, Atomic!Known, Atomic!Holds, Atomic!Slots
  <2>5. Registered(t)'
    BY <1>2, <1>4, <1>5, <2>2, <2>3, <2>4 DEF Registered, tableVars
  <2>6. Progress(t)'
    BY <2>1, <2>5 DEF Progress, Finished
  <2> QED
    BY <1>1, <1>4, <1>5, <2>1, <2>2, <2>6, HolderStep DEF Labels
<1>6. CASE /\ slot[t] < MaxSensors /\ sensors[slot[t]].active = 0
           /\ WriteSensor(t, NewSensor(call[t].id, call[t].type))
           /\ Goto(t, "count") /\ UNCHANGED <<slot, result>>
  <2> DEFINE new == NewSensor(call[t].id, call[t].type)
  <2>1. at' = [at EXCEPT ![t] = "count"] /\ sensors' = [sensors EXCEPT ![slot[t]] = new]
        /\ UNCHANGED <<sensor_count, metricVars, alertVars, slot, result>>
    BY <1>6 DEF Goto, WriteSensor
  <2>2. slot[t] \in Slots
    BY <1>6, CapacityAssumption DEF Slots
  <2>3. new \in Sensor /\ new.active = 1
    BY <1>1, <1>2, CallFields, DataAssumption DEF NewSensor, Sensor
  <2> HIDE DEF new
  <2>4. StateTypeOK'
    BY <2>1, <2>2, <2>3 DEF StateTypeOK, metricVars, alertVars
  <2>5. slot[t] = sensor_count
    <3>1. ~(slot[t] < sensor_count)
      BY <1>6, <1>c, <2>2 DEF CountMatchesTable
    <3>2. ~(sensor_count < slot[t])
      <4> SUFFICES ASSUME sensor_count < slot[t] PROVE FALSE
        OBVIOUS
      <4>1. sensor_count \in Slots
        BY <2>2, CapacityAssumption DEF Slots, StateTypeOK
      <4> QED
        BY <1>2, <1>c, <2>2, <4>1 DEF CountMatchesTable, Slots
    <3> QED
      BY <2>2, <3>1, <3>2, CapacityAssumption DEF Slots, StateTypeOK
  <2>6. sensor_count' \in Slots /\ \A s \in Slots : sensors'[s].active = 1 <=> s <= sensor_count'
    <3>1. \A s \in Slots : sensors[s].active = 1 <=> s < sensor_count
      BY <1>c DEF CountMatchesTable
    <3>2. \A s \in Slots : sensors'[s] = IF s = slot[t] THEN new ELSE sensors[s]
      BY <2>1 DEF StateTypeOK
    <3>3. ASSUME NEW s \in Slots PROVE sensors'[s].active = 1 <=> s <= sensor_count
      <4>1. CASE s = slot[t]
        BY <2>2, <2>3, <2>5, <3>2, <4>1 DEF Slots
      <4>2. CASE s # slot[t]
        BY <2>2, <2>5, <3>1, <3>2, <4>2 DEF Slots
      <4> QED
        BY <4>1, <4>2
    <3> QED
      BY <2>1, <2>2, <2>5, <3>3
  <2>7. Added(t)'
    <3>1. Atomic!FreeAt(slot[t])
      BY <1>2, <1>6, <2>2 DEF Untouched, SensorsSame, Atomic!FreeAt, Atomic!Slots, Slots
    <3>2. (~Atomic!Known(call[t].id) /\ Atomic!FreeAt(slot[t]))'
      BY <1>3, <2>1, <3>1 DEF Atomic!Known, Atomic!Holds, Atomic!FreeAt, Atomic!Slots
    <3>3. sensors' = [seen'.sensors EXCEPT ![slot'[t]] = NewSensor(call'[t].id, call'[t].type)]
      BY <1>2, <2>1 DEF Untouched, SensorsSame, new
    <3> QED
      BY <2>1, <2>2, <3>2, <3>3 DEF Added
  <2>8. Filled(t)'
    BY <1>2, <2>1, <2>6, <2>7 DEF Filled, Untouched, SensorsSame, MetricsSame, AlertsSame,
       metricVars, alertVars
  <2>9. Progress(t)'
    BY <2>1, <2>8 DEF Progress
  <2> QED
    BY <1>1, <2>1, <2>4, <2>9, HolderStep DEF Labels
<1>7. CASE /\ slot[t] < MaxSensors /\ sensors[slot[t]].active = 1
           /\ slot' = [slot EXCEPT ![t] = @ + 1]
           /\ UNCHANGED <<tableVars, at, result>>
  <2>1. slot' \in [Threads -> 0 .. MaxSensors] /\ slot'[t] = slot[t] + 1 /\ slot[t] \in Nat
    BY <1>7, CapacityAssumption
  <2>2. Unfilled(t)'
    <3>1. \A s \in Slots : s < slot'[t] => sensors[s].active = 1
      BY <1>2, <1>7, <2>1 DEF Slots
    <3>2. \A s \in Slots : ~Holds(s, call[t].id)'
      BY <1>1, <1>7 DEF Unfilled, Holds, tableVars
    <3> QED
      BY <1>2, <1>4, <1>7, <3>1, <3>2 DEF Unfilled, tableVars
  <2>3. at' = [at EXCEPT ![t] = "free"] /\ Progress(t)'
    BY <1>7, <2>2 DEF Progress
  <2> QED
    BY <1>1, <1>4, <1>7, <2>1, <2>3, HolderStep DEF Labels
<1> QED
  BY <1>5, <1>6, <1>7 DEF Free

\* The count catches up with the new sensor.
LEMMA CountStep ==
  ASSUME LockInv, NEW t \in Threads, Count(t)
  PROVE  LockInv'
<1> USE HolderTypes DEF Count
<1>1. lock = t /\ Filled(t)
  BY Holder DEF Progress
<1>2. /\ at' = [at EXCEPT ![t] = "unlock"] /\ result' = [result EXCEPT ![t] = 0]
      /\ sensor_count' = sensor_count + 1
      /\ UNCHANGED <<sensors, metricVars, alertVars, lock, call, slot, listed, seen>>
  BY DEF Returns, Goto
<1>3. sensor_count \in Slots /\ \A s \in Slots : sensors[s].active = 1 <=> s <= sensor_count
  BY <1>1 DEF Filled
<1>4. StateTypeOK' /\ CountMatchesTable'
  <2>1. sensor_count' \in 0 .. MaxSensors
    BY <1>2, <1>3, CapacityAssumption DEF Slots
  <2>2. \A s \in Slots : s <= sensor_count <=> s < sensor_count'
    BY <1>2, <1>3 DEF Slots
  <2> QED
    BY <1>2, <1>3, <2>1, <2>2 DEF StateTypeOK, CountMatchesTable, metricVars, alertVars
<1>5. result' \in [Threads -> Results] /\ result'[t] = 0
  BY <1>2, ResultRange, CapacityAssumption DEF Slots
<1>6. Added(t)'
  BY <1>1, <1>2 DEF Filled, Added, Atomic!Known, Atomic!Holds, Atomic!FreeAt, Atomic!Slots
<1>7. Registered(t)'
  BY <1>1, <1>2, <1>5, <1>6 DEF Filled, Registered, MetricsSame, AlertsSame, metricVars, alertVars
<1>8. Progress(t)'
  BY <1>2, <1>7 DEF Progress, Finished
<1> QED
  BY <1>1, <1>2, <1>4, <1>5, <1>8, HolderStep DEF Labels

\* The timestamp of the metric.
LEMMA StampStep ==
  ASSUME LockInv, NEW t \in Threads, Stamp(t)
  PROVE  LockInv'
<1> USE HolderTypes DEF Stamp
<1> DEFINE sensor == [Was(t) EXCEPT !.last_value = call[t].value]
           new    == [sensors[slot[t]] EXCEPT !.last_timestamp = "ISO"]
<1>1. lock = t /\ Valued(t) /\ call[t] \in Calls
  BY Holder DEF Progress
<1>2. /\ slot[t] \in Slots /\ sensors = [seen.sensors EXCEPT ![slot[t]] = sensor]
      /\ call[t].op = "metric" /\ MetricsSame /\ AlertsSame /\ Stopped(t)
      /\ sensor_count = seen.sensor_count
  BY <1>1 DEF Valued, Rewrote, Stopped
<1>3. Was(t) \in Sensor /\ call[t].value \in Values
  BY <1>1, <1>2, CallFields DEF Was, Stopped, Atomic!FoundAt, Atomic!Holds, FreeSlot
<1>4. sensor \in Sensor
  BY <1>3 DEF Sensor
<1>5. sensors[slot[t]] = sensor
  BY <1>2
<1>6. new = [Was(t) EXCEPT !.last_value = call[t].value, !.last_timestamp = "ISO"]
  BY <1>3, <1>5 DEF Sensor
<1>7. new \in Sensor /\ sensor.active = 1
  BY <1>4, <1>5 DEF Sensor
<1>8. /\ at' = [at EXCEPT ![t] = "row"] /\ WriteSensor(t, new)
      /\ UNCHANGED <<lock, call, slot, result, listed, seen>>
  BY DEF Goto
<1> HIDE DEF sensor, new
<1>9. StateTypeOK' /\ CountMatchesTable'
  BY <1>2, <1>5, <1>7, <1>8, SensorRewritten DEF WriteSensor
<1>10. sensors' = [seen.sensors EXCEPT ![slot[t]] = new]
  BY <1>2, <1>8 DEF WriteSensor
<1>11. Stopped(t)' /\ Was(t)' = Was(t)
  BY <1>2, <1>8 DEF Stopped, Was, Atomic!FoundAt, Atomic!Holds, Atomic!Slots
<1>12. Rewrote(t, [Was(t) EXCEPT !.last_value = call[t].value, !.last_timestamp = "ISO"])'
  BY <1>2, <1>6, <1>8, <1>10, <1>11 DEF Rewrote, WriteSensor
<1>13. Stamped(t)'
  BY <1>2, <1>8, <1>12 DEF Stamped, Read, WriteSensor, MetricsSame, AlertsSame,
     metricVars, alertVars
<1>14. Progress(t)'
  BY <1>8, <1>13 DEF Progress
<1> QED
  BY <1>1, <1>8, <1>9, <1>14, HolderStep DEF Labels

\* What Read says of the sensors and of the other table stays true.
LEMMA StillRead ==
  ASSUME NEW t, Read(t), UNCHANGED <<sensorVars, call, slot, seen>>,
         call[t].op = "metric" => UNCHANGED alertVars,
         call[t].op = "alert" => UNCHANGED metricVars
  PROVE  Read(t)'
BY DEF Read, Rewrote, Stopped, Was, SensorsSame, MetricsSame, AlertsSame, sensorVars,
   metricVars, alertVars, Atomic!FoundAt, Atomic!Holds, Atomic!Slots

\* The row itself.
LEMMA WriteRowStep ==
  ASSUME LockInv, NEW t \in Threads, WriteRow(t)
  PROVE  LockInv'
<1> USE HolderTypes DEF WriteRow
<1>1. lock = t /\ Stamped(t) /\ call[t] \in Calls
  BY Holder DEF Progress
<1>2. call[t].op \in {"metric", "alert"} /\ Read(t) /\ MetricsSame /\ AlertsSame
  BY <1>1 DEF Stamped, Read
<1>3. NewEntry(call[t]) \in Entry
  BY <1>1, <1>2, CallFields, DataAssumption DEF NewEntry, Entry
<1>4. at' = [at EXCEPT ![t] = "advance"]
  BY DEF Goto
<1>5. StateTypeOK' /\ CountMatchesTable'
  BY <1>3 DEF StateTypeOK, CountMatchesTable, Written, sensorVars
<1>6. Read(t)'
  BY <1>2, StillRead DEF metricVars, alertVars
<1>7. NewEntry(call[t])' = NewEntry(call[t])
  BY DEF NewEntry
<1>8. RowWritten(t)'
  BY <1>2, <1>6, <1>7 DEF RowWritten, Entered, MetricsSame, AlertsSame
<1>9. Progress(t)'
  BY <1>4, <1>8 DEF Progress
<1> QED
  BY <1>1, <1>4, <1>5, <1>9, HolderStep DEF Labels

\* The write index.
LEMMA AdvanceStep ==
  ASSUME LockInv, NEW t \in Threads, Advance(t)
  PROVE  LockInv'
<1> USE HolderTypes DEF Advance
<1>1. lock = t /\ RowWritten(t)
  BY Holder DEF Progress
<1>2. call[t].op \in {"metric", "alert"} /\ Read(t)
  BY <1>1 DEF RowWritten, Entered, Read
<1>3. at' = [at EXCEPT ![t] = "saturate"]
  BY DEF Goto
<1>4. ASSUME NEW max \in Nat \ {0}, NEW next \in 0 .. max - 1
      PROVE  Advanced(next, max) \in 0 .. max - 1
  BY <1>4 DEF Advanced
<1>5. StateTypeOK' /\ CountMatchesTable'
  <2>1. /\ metric_next \in 0 .. MaxMetrics - 1 /\ alert_next \in 0 .. MaxAlerts - 1
        /\ MaxMetrics \in Nat \ {0} /\ MaxAlerts \in Nat \ {0}
    BY CapacityAssumption DEF StateTypeOK
  <2>2. metric_next' \in 0 .. MaxMetrics - 1 /\ alert_next' \in 0 .. MaxAlerts - 1
    BY <1>4, <2>1
  <2> QED
    BY <2>2 DEF StateTypeOK, CountMatchesTable, sensorVars
<1>6. Read(t)'
  BY <1>2, StillRead DEF metricVars, alertVars
<1>7. NewEntry(call[t])' = NewEntry(call[t])
  BY DEF NewEntry
<1>8. Forward(t)'
  BY <1>1, <1>2, <1>6, <1>7 DEF RowWritten, Forward, Entered
<1>9. Progress(t)'
  BY <1>3, <1>8 DEF Progress
<1> QED
  BY <1>1, <1>3, <1>5, <1>9, HolderStep DEF Labels

\* The count.
LEMMA SaturateStep ==
  ASSUME LockInv, NEW t \in Threads, Saturate(t)
  PROVE  LockInv'
<1> USE HolderTypes DEF Saturate
<1>1. lock = t /\ Forward(t)
  BY Holder DEF Progress
<1>2. call[t].op \in {"metric", "alert"} /\ Read(t)
  BY <1>1 DEF Forward, Entered, Read
<1>3. at' = [at EXCEPT ![t] = "unlock"] /\ result' = [result EXCEPT ![t] = 0]
  BY DEF Returns, Goto
<1>4. result' \in [Threads -> Results] /\ result'[t] = 0
  BY <1>3, ResultRange, CapacityAssumption DEF Slots
<1>5. ASSUME NEW max \in Nat \ {0}, NEW count \in 0 .. max
      PROVE  Saturated(count, max) \in 0 .. max
  BY <1>5 DEF Saturated
<1>6. StateTypeOK' /\ CountMatchesTable'
  <2>1. /\ metric_count \in 0 .. MaxMetrics /\ alert_count \in 0 .. MaxAlerts
        /\ MaxMetrics \in Nat \ {0} /\ MaxAlerts \in Nat \ {0}
    BY CapacityAssumption DEF StateTypeOK
  <2>2. metric_count' \in 0 .. MaxMetrics /\ alert_count' \in 0 .. MaxAlerts
    BY <1>5, <2>1
  <2> QED
    BY <2>2 DEF StateTypeOK, CountMatchesTable, sensorVars
<1>7. Read(t)'
  BY <1>2, StillRead DEF metricVars, alertVars
<1>8. NewEntry(call[t])' = NewEntry(call[t])
  BY DEF NewEntry
<1>9. Counted(t)'
  BY <1>1, <1>2, <1>7, <1>8 DEF Counted, Forward, Entered
<1>10. Progress(t)'
  BY <1>3, <1>4, <1>9 DEF Progress, Finished, Recorded
<1> QED
  BY <1>1, <1>3, <1>4, <1>6, <1>10, HolderStep DEF Labels

\* One more row of a page.
LEMMA ListRowStep ==
  ASSUME LockInv, NEW t \in Threads, ListRow(t)
  PROVE  LockInv'
<1> USE HolderTypes DEF ListRow
<1>1. lock = t /\ Listed(t)
  BY Holder DEF Progress
<1>2. StateTypeOK' /\ CountMatchesTable' /\ Untouched'
  BY <1>1 DEF StateTypeOK, CountMatchesTable, tableVars, Listed, Untouched, SensorsSame,
     MetricsSame, AlertsSame
<1>3. metric_count \in Nat /\ metric_count <= MaxMetrics /\ Len(listed[t]) \in Nat
  BY CapacityAssumption, LenProperties DEF StateTypeOK
<1>4. CASE Len(listed[t]) < metric_count
  <2> DEFINE row == metrics[Row(metric_next, MaxMetrics, Len(listed[t]))]
  <2>1. listed' = [listed EXCEPT ![t] = Append(@, row)] /\ at' = [at EXCEPT ![t] = "rows"]
    BY <1>4
  <2>2. row \in Entry \cup {ZeroEntry}
    <3>1. Len(listed[t]) \in 0 .. MaxMetrics - 1 /\ metric_next \in 0 .. MaxMetrics - 1
      BY <1>3, <1>4, CapacityAssumption DEF StateTypeOK
    <3>2. Row(metric_next, MaxMetrics, Len(listed[t])) \in 0 .. MaxMetrics - 1
      <4> DEFINE j == Len(listed[t])
      <4>1. Row(metric_next, MaxMetrics, j) =
              IF j < metric_next THEN metric_next - 1 - j ELSE metric_next - 1 - j + MaxMetrics
        <5> HIDE DEF j
        <5> QED
          BY <3>1, RowIndex, CapacityAssumption DEF j
      <4> HIDE DEF j
      <4> QED
        BY <3>1, <4>1, CapacityAssumption DEF j
    <3> QED
      BY <3>2 DEF StateTypeOK
  <2> HIDE DEF row
  <2>3. /\ Append(listed[t], row) \in Seq(Entry \cup {ZeroEntry})
        /\ Len(Append(listed[t], row)) = Len(listed[t]) + 1
        /\ \A i \in 1 .. Len(listed[t]) : Append(listed[t], row)[i] = listed[t][i]
        /\ Append(listed[t], row)[Len(listed[t]) + 1] = row
    BY <2>2, AppendProperties
  <2>4. /\ listed' \in [Threads -> Seq(Entry \cup {ZeroEntry})]
        /\ \A q \in Threads : Len(listed'[q]) <= MaxMetrics
        /\ listed'[t] = Append(listed[t], row)
    <3>1. listed'[t] = Append(listed[t], row) /\ \A q \in Threads : q # t => listed'[q] = listed[q]
      BY <2>1
    <3>2. Len(listed'[t]) <= MaxMetrics
      <4>1. Len(listed[t]) + 1 <= MaxMetrics
        BY <1>3, <1>4, CapacityAssumption
      <4>2. Len(listed'[t]) = Len(listed[t]) + 1
        BY <2>3, <3>1
      <4> QED
        BY <4>1, <4>2
    <3>3. \A q \in Threads : Len(listed'[q]) <= MaxMetrics
      BY <3>1, <3>2
    <3>4. listed' \in [Threads -> Seq(Entry \cup {ZeroEntry})]
      <4> DEFINE list == Append(listed[t], row)
      <4>1. list \in Seq(Entry \cup {ZeroEntry}) /\ listed' = [listed EXCEPT ![t] = list]
        BY <2>1, <2>3
      <4> HIDE DEF list
      <4> QED
        BY <4>1
    <3> QED
      BY <3>1, <3>3, <3>4
  <2>5. \A i \in 1 .. Len(listed'[t]) :
          listed'[t][i] = metrics[Row(metric_next, MaxMetrics, i - 1)]
    <3> SUFFICES ASSUME NEW i \in 1 .. Len(listed[t]) + 1
                 PROVE  Append(listed[t], row)[i] = metrics[Row(metric_next, MaxMetrics, i - 1)]
      BY <2>3, <2>4
    <3>1. CASE i = Len(listed[t]) + 1
      BY <1>3, <2>3, <3>1 DEF row
    <3>2. CASE i \in 1 .. Len(listed[t])
      BY <1>1, <2>3, <3>2 DEF Listed
    <3> QED
      BY <1>3, <3>1, <3>2
  <2>6. Listed(t)'
    BY <1>1, <1>2, <1>3, <1>4, <2>3, <2>4, <2>5 DEF Listed, tableVars
  <2>7. Progress(t)'
    BY <2>1, <2>6 DEF Progress
  <2> QED
    BY <1>1, <1>2, <2>1, <2>4, <2>7, HolderStep DEF Labels
<1>5. CASE ~(Len(listed[t]) < metric_count)
  <2>1. at' = [at EXCEPT ![t] = "unlock"] /\ listed' = listed
    BY <1>5 DEF Goto
  <2>2. Listed(t)' /\ (Len(listed[t]) = metric_count)'
    BY <1>1, <1>2, <1>3, <1>5, <2>1 DEF Listed, tableVars
  <2>3. Progress(t)'
    BY <2>1, <2>2 DEF Progress, Finished
  <2> QED
    BY <1>1, <1>2, <2>1, <2>3, HolderStep DEF Labels
<1> QED
  BY <1>4, <1>5

\* The slots a count passes are finitely many, and one more at each turn.
LEMMA PassesOne ==
  ASSUME NEW t, slot[t] \in Slots, NEW next, next = {s \in ActiveSensors : s < slot[t] + 1}
  PROVE  /\ IsFiniteSet(Passed(t)) /\ Cardinality(Passed(t)) \in Nat
         /\ Cardinality(next) = Cardinality(Passed(t)) + (IF slot[t] \in ActiveSensors THEN 1 ELSE 0)
<1>1. IsFiniteSet(Slots)
  BY FS_Interval, CapacityAssumption DEF Slots
<1>2. IsFiniteSet(Passed(t)) /\ Cardinality(Passed(t)) \in Nat
  BY <1>1, FS_Subset, FS_CardinalityType DEF Passed, ActiveSensors
<1>3. CASE slot[t] \in ActiveSensors
  <2>1. next = Passed(t) \cup {slot[t]} /\ slot[t] \notin Passed(t)
    BY <1>3, CapacityAssumption DEF Passed, ActiveSensors, Slots
  <2> QED
    BY <1>2, <1>3, <2>1, FS_AddElement
<1>4. CASE slot[t] \notin ActiveSensors
  <2>1. next = Passed(t)
    BY <1>4, CapacityAssumption DEF Passed, ActiveSensors, Slots
  <2> QED
    BY <1>2, <1>4, <2>1
<1> QED
  BY <1>2, <1>3, <1>4

\* There are no more sensors than slots.
LEMMA FewSensors ==
  ASSUME NEW S \in SUBSET Slots
  PROVE  Cardinality(S) \in 0 .. MaxSensors
<1>1. IsFiniteSet(Slots) /\ Cardinality(Slots) = MaxSensors
  <2>1. MaxSensors - 1 \in Int /\ ~(0 > MaxSensors - 1) /\ (MaxSensors - 1) - 0 + 1 = MaxSensors
    BY CapacityAssumption
  <2>2. /\ IsFiniteSet(0 .. MaxSensors - 1)
        /\ Cardinality(0 .. MaxSensors - 1) =
             IF 0 > MaxSensors - 1 THEN 0 ELSE (MaxSensors - 1) - 0 + 1
    BY <2>1, FS_Interval
  <2> QED
    BY <2>1, <2>2 DEF Slots
<1> QED
  BY <1>1, FS_Subset, FS_CardinalityType, CapacityAssumption

\* One turn of the loop that counts.
LEMMA TallyStep ==
  ASSUME LockInv, NEW t \in Threads, Tally(t)
  PROVE  LockInv'
<1> USE HolderTypes DEF Tally
<1>1. lock = t /\ Tallied(t)
  BY Holder DEF Progress
<1>2. StateTypeOK' /\ CountMatchesTable' /\ Untouched' /\ UNCHANGED ActiveSensors
  BY <1>1 DEF StateTypeOK, CountMatchesTable, tableVars, Tallied, Untouched, SensorsSame,
     MetricsSame, AlertsSame, ActiveSensors
<1>3. CASE slot[t] = MaxSensors
  <2>1. at' = [at EXCEPT ![t] = "unlock"] /\ UNCHANGED <<slot, result>>
    BY <1>3 DEF Goto
  <2>2. Tallied(t)' /\ slot'[t] = MaxSensors
    BY <1>1, <1>2, <1>3, <2>1 DEF Tallied, Passed
  <2>3. Progress(t)'
    BY <2>1, <2>2 DEF Progress, Finished, Numbered
  <2> QED
    BY <1>1, <1>2, <2>1, <2>3, HolderStep DEF Labels
<1>4. CASE slot[t] # MaxSensors
  <2>1. /\ slot' = [slot EXCEPT ![t] = @ + 1] /\ at' = [at EXCEPT ![t] = "tally"]
        /\ result' = IF slot[t] \in ActiveSensors THEN [result EXCEPT ![t] = @ + 1] ELSE result
    BY <1>4
  <2>2. slot[t] \in Slots /\ slot'[t] = slot[t] + 1 /\ slot'[t] \in 0 .. MaxSensors
    BY <1>4, <2>1, CapacityAssumption DEF Slots
  <2>3. Passed(t)' = {s \in ActiveSensors : s < slot[t] + 1}
    BY <1>2, <2>2 DEF Passed
  <2>4. result'[t] = Cardinality(Passed(t)')
    <3>1. /\ Cardinality(Passed(t)) \in Nat
          /\ Cardinality(Passed(t)') =
               Cardinality(Passed(t)) + (IF slot[t] \in ActiveSensors THEN 1 ELSE 0)
      BY <2>2, <2>3, PassesOne
    <3>2. result[t] = Cardinality(Passed(t))
      BY <1>1 DEF Tallied
    <3>3. result'[t] = IF slot[t] \in ActiveSensors THEN result[t] + 1 ELSE result[t]
      BY <2>1
    <3> QED
      BY <3>1, <3>2, <3>3
  <2>5. Tallied(t)'
    BY <1>1, <1>2, <2>4 DEF Tallied
  <2>6. Cardinality(Passed(t)') \in 0 .. MaxSensors
    <3>1. Passed(t)' \in SUBSET Slots
      BY <2>3 DEF ActiveSensors
    <3> QED
      BY <3>1, FewSensors
  <2>7. result' \in [Threads -> Results] /\ slot' \in [Threads -> 0 .. MaxSensors]
    BY <2>1, <2>2, <2>4, <2>6, ResultRange
  <2>8. Progress(t)'
    BY <2>1, <2>5 DEF Progress
  <2>9. \A q \in Threads : q # t => slot'[q] = slot[q] /\ result'[q] = result[q]
    BY <2>1
  <2> QED
    BY <1>1, <1>2, <2>1, <2>7, <2>8, <2>9, HolderStep DEF Labels
<1> QED
  BY <1>3, <1>4

\* A count is read as it is.
LEMMA ReadCountStep ==
  ASSUME LockInv, NEW t \in Threads, ReadCount(t)
  PROVE  LockInv'
<1> USE HolderTypes DEF ReadCount
<1>1. lock = t /\ Reading(t)
  BY Holder DEF Progress
<1>2. StateTypeOK' /\ CountMatchesTable' /\ Untouched' /\ UNCHANGED Now
  BY <1>1 DEF StateTypeOK, CountMatchesTable, tableVars, Reading, Untouched, SensorsSame,
     MetricsSame, AlertsSame, Now
<1>3. /\ at' = [at EXCEPT ![t] = "unlock"]
      /\ result' = [result EXCEPT ![t] = Now[call[t].op]]
  BY DEF Returns, Goto
<1>4. Now[call[t].op] \in Results
  <2>1. /\ Now["sensor_count"] = sensor_count /\ Now["metric_count"] = metric_count
        /\ Now["alert_count"] = alert_count
    BY DEF Now
  <2> QED
    BY <1>1, <2>1, ResultRange DEF Reading, Counts, StateTypeOK
<1>5. Numbered(t)'
  BY <1>1, <1>2, <1>3 DEF Numbered, Reading
<1>6. Progress(t)'
  BY <1>3, <1>5 DEF Progress, Finished
<1> QED
  BY <1>1, <1>2, <1>3, <1>4, <1>6, HolderStep DEF Labels

\* Whoever leaves hands over the state as it is, and nothing else of it is left.
LEMMA UnlockStep ==
  ASSUME LockInv, NEW t \in Threads, Unlock(t)
  PROVE  LockInv'
<1> USE HolderTypes DEF Unlock, Leave
<1>1. /\ lock = t /\ at' = [at EXCEPT ![t] = "idle"]
      /\ \A q \in Threads : q # t => at[q] \in {"idle", "called"}
      /\ call \in [Threads -> Calls \cup {NoCall}]
      /\ \A q \in Threads : call[q] = NoCall <=> at[q] = "idle"
      /\ \A q \in Threads :
           at[q] \in {"idle", "called"} => slot[q] = 0 /\ result[q] = 0 /\ listed[q] = <<>>
  BY Holder DEF Goto, LockInv, LockTypes, LockTypeOK
<1>2. StateTypeOK' /\ CountMatchesTable' /\ seen' = Now'
  BY DEF StateTypeOK, CountMatchesTable, tableVars, Now
<1>3. HoldersHold'
  BY <1>1, LockAssumption DEF HoldersHold
<1>4. 0 \in 0 .. MaxSensors /\ 0 \in Slots /\ <<>> \in Seq(Entry \cup {ZeroEntry})
      /\ Len(<<>>) <= MaxMetrics
  BY CapacityAssumption, EmptySeq DEF Slots
<1>r. 0 \in Results
  BY <1>4, ResultRange
<1>5. /\ at' \in [Threads -> Labels] /\ call' \in [Threads -> Calls \cup {NoCall}]
      /\ \A q \in Threads : call'[q] = NoCall <=> at'[q] = "idle"
      /\ slot' \in [Threads -> 0 .. MaxSensors]
      /\ result' \in [Threads -> Results]
  BY <1>1, <1>4, <1>r DEF Labels
<1>6. listed' \in [Threads -> Seq(Entry \cup {ZeroEntry})]
      /\ \A q \in Threads : Len(listed'[q]) <= MaxMetrics
  <2>1. \A q \in Threads : listed'[q] = IF q = t THEN <<>> ELSE listed[q]
    OBVIOUS
  <2> QED
    BY <1>4, <2>1
<1>7. \A q \in Threads :
        at'[q] \in {"idle", "called"} => slot'[q] = 0 /\ result'[q] = 0 /\ listed'[q] = <<>>
  BY <1>1
<1>8. LockTypeOK'
  BY <1>2, <1>3, <1>5, <1>6 DEF LockTypeOK
<1>9. seen'.sensors \in [Slots -> Sensor \cup {FreeSlot}]
  BY <1>2 DEF StateTypeOK, Now
<1> QED
  BY <1>2, <1>6, <1>7, <1>8, <1>9 DEF LockInv, LockTypes, CountsSlots

\* Every step of every thread keeps the invariant.
LEMMA LockInvNext == LockInv /\ [LockNext]_lockVars => LockInv'
<1> SUFFICES ASSUME LockInv, LockNext \/ UNCHANGED lockVars PROVE LockInv'
  OBVIOUS
<1>1. ASSUME NEW t \in Threads, Inside(t) PROVE LockInv'
  BY <1>1, ScanStep, FreeStep, CountStep, StampStep, WriteRowStep, AdvanceStep, SaturateStep,
     ListRowStep, TallyStep, ReadCountStep, UnlockStep DEF Inside
<1>2. CASE UNCHANGED lockVars
  <2>1. UNCHANGED <<tableVars, lock, at, call, slot, result, listed, seen>>
    BY <1>2 DEF lockVars, threadVars
  <2>2. (lock # Nobody => Progress(lock))'
    BY <2>1, StandsStill DEF LockInv
  <2>3. StateTypeOK' /\ CountsSlots' /\ (lock = Nobody => seen = Now)'
    BY <2>1 DEF LockInv, LockTypes, LockTypeOK, StateTypeOK, CountsSlots, CountMatchesTable,
       tableVars, Now
  <2>4. LockTypes'
    BY <2>1, <2>3 DEF LockInv, LockTypes, LockTypeOK, HoldersHold
  <2> QED
    BY <2>2, <2>3, <2>4 DEF LockInv
<1> QED
  BY <1>1, <1>2, CallStep, LockStep DEF LockNext

\* What the holder has done at each label is an invariant of the lock.
LEMMA LockInvariant == LockSpec => []LockInv
BY LockInitially, LockInvNext, PTL DEF LockSpec

\* One thread at most is between lock and unlock, the one that holds the lock, and the
\* tables have their types between any two statements of state.c.
THEOREM LockIsHeld == LockSpec => []LockTypeOK
<1>1. LockInv => LockTypeOK
  BY DEF LockInv, LockTypes
<1> QED
  BY <1>1, LockInvariant, PTL

-----------------------------------------------------------------------------
(* What a call did, put together when it unlocks. *)

\* The state the next thread finds, part by part.
LEMMA HandedOver ==
  ASSUME NEW t, Unlock(t)
  PROVE  /\ seen'.sensors = sensors /\ seen'.sensor_count = sensor_count
         /\ seen'.metrics = metrics /\ seen'.metric_count = metric_count
         /\ seen'.metric_next = metric_next
         /\ seen'.alerts = alerts /\ seen'.alert_count = alert_count
         /\ seen'.alert_next = alert_next
BY DEF Unlock, Now, tableVars

\* Rewriting the slot the scan stopped at is rewriting every slot a scan would stop at.
LEMMA RewroteFound ==
  ASSUME LockInv, NEW t \in Threads, at[t] = "unlock", NEW sensor, Rewrote(t, sensor)
  PROVE  /\ Atomic!Known(call[t].id)
         /\ sensors = [s \in Slots |-> IF Atomic!FoundAt(s, call[t].id) THEN sensor
                                                                       ELSE seen.sensors[s]]
         /\ \A s \in Slots : Atomic!FoundAt(s, call[t].id) => seen.sensors[s] = Was(t)
<1>1. slot[t] \in Slots /\ Atomic!FoundAt(slot[t], call[t].id)
  BY DEF Rewrote, Stopped
<1>2. \A s \in Slots : Atomic!FoundAt(s, call[t].id) => s = slot[t]
  BY <1>1, StopsOnce
<1>3. seen.sensors = [s \in Slots |-> seen.sensors[s]]
  BY HolderTypes
<1>4. sensors = [s \in Slots |-> IF s = slot[t] THEN sensor ELSE seen.sensors[s]]
  BY <1>3 DEF Rewrote
<1> QED
  BY <1>1, <1>2, <1>4 DEF Was, Atomic!Known, Atomic!FoundAt, Atomic!Slots, Slots

\* A scan that missed finds no slot.
LEMMA MissedFound ==
  ASSUME LockInv, NEW t \in Threads, at[t] = "unlock", Missed(t)
  PROVE  /\ \A s \in Slots : ~Atomic!FoundAt(s, call[t].id)
         /\ sensors = [s \in Slots |-> seen.sensors[s]]
BY HolderTypes DEF Missed, Untouched, SensorsSame, Atomic!Known, Atomic!FoundAt,
   Atomic!Slots, Slots

\* A call to state_register_sensor is the step of GlobalState with the same result.
LEMMA RegisteredAtomically ==
  ASSUME LockInv, NEW t \in Threads, Unlock(t), Registered(t)
  PROVE  Atomic!RegisterSensor(call[t].id, call[t].type, result[t])
<1> USE HandedOver DEF Atomic!metricVars, Atomic!alertVars, Atomic!sensorVars, Unlock
<1> DEFINE id == call[t].id
<1>1. UNCHANGED <<Atomic!metricVars, Atomic!alertVars>>
  BY DEF Registered, MetricsSame, AlertsSame
<1>2. CASE /\ result[t] = 0 /\ Rewrote(t, [Was(t) EXCEPT !.status = "ACTIVE"])
           /\ Was(t).status = "INACTIVE"
  <2>1. /\ slot[t] \in Atomic!Slots /\ Atomic!FoundAt(slot[t], id)
        /\ seen.sensors[slot[t]].status = "INACTIVE"
        /\ seen'.sensors = [seen.sensors EXCEPT ![slot[t]].status = "ACTIVE"]
        /\ seen'.sensor_count = seen.sensor_count
    BY <1>2 DEF Rewrote, Stopped, Was, Slots, Atomic!Slots
  <2>2. Atomic!Reactivate(id)
    BY <2>1 DEF Atomic!Reactivate
  <2> QED
    BY <1>1, <1>2, <2>2 DEF Atomic!RegisterSensor
<1>3. CASE result[t] = 0 /\ Added(t) /\ sensor_count = seen.sensor_count + 1
  <2>1. /\ slot[t] \in Atomic!Slots /\ ~Atomic!Known(id) /\ Atomic!FreeAt(slot[t])
        /\ seen'.sensors = [seen.sensors EXCEPT ![slot[t]] = Atomic!NewSensor(id, call[t].type)]
        /\ seen'.sensor_count = seen.sensor_count + 1
    BY <1>3 DEF Added, Slots, Atomic!Slots, NewSensor, Atomic!NewSensor
  <2>2. Atomic!AddSensor(id, call[t].type)
    BY <2>1 DEF Atomic!AddSensor
  <2> QED
    BY <1>1, <1>3, <2>2 DEF Atomic!RegisterSensor
<1>4. CASE result[t] = -1 /\ Missed(t) /\ \A s \in Slots : sensors[s].active = 1
  BY <1>1, <1>4 DEF Missed, Untouched, SensorsSame, Slots, Atomic!Slots, Atomic!RegisterSensor
<1>5. CASE result[t] = -2 /\ Untouched /\ Stopped(t) /\ Was(t).status = "ACTIVE"
  <2>1. slot[t] \in Atomic!Slots /\ Atomic!FoundAt(slot[t], id)
        /\ seen.sensors[slot[t]].status = "ACTIVE"
    BY <1>5 DEF Stopped, Was, Slots, Atomic!Slots
  <2> QED
    BY <1>1, <1>5, <2>1 DEF Untouched, SensorsSame, Atomic!RegisterSensor
<1> QED
  BY <1>2, <1>3, <1>4, <1>5 DEF Registered

\* So are calls to state_add_metric and state_add_alert.
LEMMA RecordedAtomically ==
  ASSUME LockInv, NEW t \in Threads, Unlock(t), Recorded(t)
  PROVE  \/ /\ call[t].op = "metric"
            /\ Atomic!AddMetric(call[t].id, call[t].value, call[t].type)
            /\ result[t] = Atomic!AddMetricResult(call[t].id)
         \/ /\ call[t].op = "alert"
            /\ Atomic!AddAlert(call[t].id, call[t].value, call[t].type)
<1> USE HandedOver DEF Atomic!metricVars, Atomic!alertVars, Atomic!sensorVars, Unlock
<1> DEFINE id == call[t].id
           new == [Was(t) EXCEPT !.last_value = call[t].value, !.last_timestamp = "ISO"]
<1>1. CASE result[t] = 0 /\ Counted(t) /\ call[t].op = "metric"
  <2>1. Rewrote(t, new) /\ AlertsSame
    BY <1>1 DEF Counted, Entered, Read
  <2>2. /\ metrics = Written(seen.metrics, seen.metric_next, NewEntry(call[t]))
        /\ metric_next = Advanced(seen.metric_next, MaxMetrics)
        /\ metric_count = Saturated(seen.metric_count, MaxMetrics)
    BY <1>1 DEF Counted, Entered
  <2>3. Atomic!Known(id) /\ sensor_count = seen.sensor_count
    BY <2>1, RewroteFound DEF Rewrote
  <2>4. sensors = [s \in Slots |->
          IF Atomic!FoundAt(s, id)
          THEN [seen.sensors[s] EXCEPT !.last_value = call[t].value, !.last_timestamp = "ISO"]
          ELSE seen.sensors[s]]
    <3> HIDE DEF new
    <3>1. sensors = [s \in Slots |-> IF Atomic!FoundAt(s, id) THEN new ELSE seen.sensors[s]]
          /\ \A s \in Slots : Atomic!FoundAt(s, id) => seen.sensors[s] = Was(t)
      BY <2>1, RewroteFound
    <3> QED
      BY <3>1 DEF new
  <2>5. Atomic!AddMetricResult(id) = 0
    BY <2>3 DEF Atomic!AddMetricResult
  <2>6. Atomic!AddMetric(id, call[t].value, call[t].type)
    BY <2>1, <2>2, <2>3, <2>4, <2>5
    DEF Atomic!AddMetric, Atomic!Slots, Slots, AlertsSame, NewEntry,
        Atomic!Written, Written, Atomic!Advanced, Advanced, Atomic!Saturated, Saturated
  <2> QED
    BY <1>1, <2>5, <2>6
<1>2. CASE result[t] = 0 /\ Counted(t) /\ call[t].op = "alert"
  BY <1>2 DEF Counted, Entered, Read, SensorsSame, MetricsSame, NewEntry, Atomic!AddAlert,
     Atomic!Written, Written, Atomic!Advanced, Advanced, Atomic!Saturated, Saturated
<1>3. CASE result[t] = -1 /\ call[t].op = "metric" /\ Missed(t)
  <2>1. Atomic!AddMetricResult(id) = -1
    BY <1>3 DEF Missed, Atomic!AddMetricResult
  <2>2. seen'.sensors = [s \in Slots |->
          IF Atomic!FoundAt(s, id)
          THEN [seen.sensors[s] EXCEPT !.last_value = call[t].value, !.last_timestamp = "ISO"]
          ELSE seen.sensors[s]]
    <3>1. \A s \in Slots : ~Atomic!FoundAt(s, id)
      BY <1>3, MissedFound
    <3>2. seen'.sensors = [s \in Slots |-> seen.sensors[s]]
      BY <1>3, MissedFound
    <3> QED
      BY <3>1, <3>2
  <2>3. /\ UNCHANGED <<Atomic!metricVars, Atomic!alertVars>>
        /\ seen'.sensor_count = seen.sensor_count
    BY <1>3 DEF Missed, Untouched, SensorsSame, MetricsSame, AlertsSame
  <2>4. ~(Atomic!AddMetricResult(id) = 0)
    BY <2>1
  <2>5. Atomic!AddMetric(id, call[t].value, call[t].type)
    <3> HIDE HandedOver DEF Unlock, id
    <3>1. seen'.sensors = [s \in Atomic!Slots |->
            IF Atomic!FoundAt(s, id)
            THEN [seen.sensors[s] EXCEPT !.last_value = call[t].value, !.last_timestamp = "ISO"]
            ELSE seen.sensors[s]]
      BY <2>2 DEF Slots, Atomic!Slots
    <3>2. /\ UNCHANGED <<Atomic!metricVars, Atomic!alertVars>>
          /\ seen'.sensor_count = seen.sensor_count
      BY <2>3
    <3> QED
      BY <2>4, <3>1, <3>2 DEF Atomic!AddMetric
  <2> QED
    BY <1>3, <2>1, <2>5
<1> QED
  BY <1>1, <1>2, <1>3 DEF Recorded, Counted, Entered, Read

\* And calls to state_deactivate_sensor and state_set_alert_level.
LEMMA ChangedAtomically ==
  ASSUME LockInv, NEW t \in Threads, Unlock(t), Changed(t)
  PROVE  \/ call[t].op = "deactivate" /\ Atomic!DeactivateSensor(call[t].id)
         \/ call[t].op = "level" /\ Atomic!SetAlertLevel(call[t].id, call[t].level)
<1> USE HandedOver DEF Atomic!metricVars, Atomic!alertVars, Unlock
<1> DEFINE id == call[t].id
<1>1. UNCHANGED <<Atomic!metricVars, Atomic!alertVars>>
  BY DEF Changed, MetricsSame, AlertsSame
<1>2. CASE Missed(t)
  <2>1. \A s \in Slots : ~Atomic!FoundAt(s, id)
    BY <1>2, MissedFound
  <2>2. seen'.sensors = [s \in Slots |-> seen.sensors[s]] /\ seen'.sensor_count = seen.sensor_count
    BY <1>2, MissedFound DEF Missed, Untouched, SensorsSame
  <2> QED
    BY <1>1, <2>1, <2>2
    DEF Changed, Atomic!DeactivateSensor, Atomic!SetAlertLevel, Atomic!Slots, Slots
<1>3. CASE call[t].op = "deactivate" /\ Rewrote(t, [Was(t) EXCEPT !.status = "INACTIVE"])
  <2> DEFINE new == [Was(t) EXCEPT !.status = "INACTIVE"]
  <2>1. sensors = [s \in Slots |-> IF Atomic!FoundAt(s, id) THEN new ELSE seen.sensors[s]]
        /\ \A s \in Slots : Atomic!FoundAt(s, id) => seen.sensors[s] = Was(t)
    <3>1. Rewrote(t, new)
      BY <1>3
    <3> HIDE DEF new
    <3> QED
      BY <3>1, RewroteFound
  <2>2. seen'.sensor_count = seen.sensor_count
    BY <1>3 DEF Rewrote
  <2> QED
    BY <1>1, <1>3, <2>1, <2>2 DEF Atomic!DeactivateSensor, Atomic!Slots, Slots
<1>4. CASE call[t].op = "level" /\ Rewrote(t, [Was(t) EXCEPT !.alert_level = call[t].level])
  <2> DEFINE new == [Was(t) EXCEPT !.alert_level = call[t].level]
  <2>1. sensors = [s \in Slots |-> IF Atomic!FoundAt(s, id) THEN new ELSE seen.sensors[s]]
        /\ \A s \in Slots : Atomic!FoundAt(s, id) => seen.sensors[s] = Was(t)
    <3>1. Rewrote(t, new)
      BY <1>4
    <3> HIDE DEF new
    <3> QED
      BY <3>1, RewroteFound
  <2>2. seen'.sensor_count = seen.sensor_count
    BY <1>4 DEF Rewrote
  <2> QED
    BY <1>1, <1>4, <2>1, <2>2 DEF Atomic!SetAlertLevel, Atomic!Slots, Slots
<1> QED
  BY <1>2, <1>3, <1>4 DEF Changed

\* seen is a record of the parts of the state, and of nothing else.
SeenWhole ==
  seen = [sensors |-> seen.sensors, sensor_count |-> seen.sensor_count,
          metrics |-> seen.metrics, metric_count |-> seen.metric_count,
          metric_next |-> seen.metric_next,
          alerts |-> seen.alerts, alert_count |-> seen.alert_count,
          alert_next |-> seen.alert_next]

\* No step but Unlock writes to seen, and Unlock writes all of it.
LEMMA SeenStep == [LockNext]_lockVars => UNCHANGED seen \/ \E t \in Threads : Unlock(t)
BY DEF LockNext, Call, Lock, Inside, Scan, Free, Count, Stamp, WriteRow, Advance, Saturate,
   ListRow, Tally, ReadCount, lockVars

\* It stays such a record.
LEMMA SeenInvariant == LockSpec => []SeenWhole
<1>1. LockInit => SeenWhole
  BY DEF LockInit, SeenWhole, Now
<1>2. SeenWhole /\ [LockNext]_lockVars => SeenWhole'
  <2>1. CASE UNCHANGED seen
    BY <2>1 DEF SeenWhole
  <2>2. ASSUME NEW t \in Threads, Unlock(t) PROVE SeenWhole'
    BY <2>2 DEF Unlock, SeenWhole, Now
  <2> QED
    BY <2>1, <2>2, SeenStep
<1> QED
  BY <1>1, <1>2, PTL DEF LockSpec

\* Lookups and listings leave the state as it was handed to them.
LEMMA UntouchedSeen ==
  ASSUME SeenWhole, NEW t \in Threads, Unlock(t), Untouched
  PROVE  UNCHANGED seen
<1>1. seen' = Now
  BY DEF Unlock, Now, tableVars
<1> QED
  BY <1>1 DEF SeenWhole, Now, Untouched, SensorsSame, MetricsSame, AlertsSame

\* Every function acts as the step of GlobalState it is there.
LEMMA PerformsStep ==
  ASSUME LockInv, SeenWhole, NEW t \in Threads, Unlock(t)
  PROVE  Performs(t)
<1>1. Finished(t)
  BY Holder DEF Progress, Unlock
<1>2. CASE Registered(t)
  <2>1. call[t].op = "register"
    BY <1>2 DEF Registered
  <2> QED
    BY <1>2, <2>1, RegisteredAtomically DEF Performs, Counts
<1>3. CASE Recorded(t)
  BY <1>3, RecordedAtomically DEF Performs, Counts
<1>4. CASE Changed(t)
  BY <1>4, ChangedAtomically DEF Performs, Counts
<1>5. CASE Looked(t)
  <2>1. call[t].op = "find" /\ UNCHANGED seen
    BY <1>5, UntouchedSeen DEF Looked
  <2>2. IF Atomic!Known(call[t].id) THEN Atomic!FoundAt(result[t], call[t].id)
                                    ELSE result[t] = -1
    BY <1>5 DEF Looked, Missed, Stopped, Atomic!Known, Atomic!FoundAt, Atomic!Slots, Slots
  <2> QED
    BY <2>1, <2>2 DEF Performs, Counts
<1>6. CASE Listed(t) /\ Len(listed[t]) = metric_count
  <2>1. call[t].op = "list" /\ UNCHANGED seen /\ MetricsSame
    BY <1>6, UntouchedSeen DEF Listed, Untouched
  <2>2. listed[t] \in Seq(Entry \cup {ZeroEntry})
    BY HolderTypes DEF Unlock
  <2>3. listed[t] = [i \in 1 .. metric_count |-> listed[t][i]]
    BY <1>6, <2>2, LenProperties
  <2>4. listed[t] = [i \in 1 .. metric_count |-> metrics[Row(metric_next, MaxMetrics, i - 1)]]
    BY <1>6, <2>3 DEF Listed
  <2>5. listed[t] = Listing(seen.metrics, seen.metric_count, seen.metric_next, MaxMetrics)
    BY <2>1, <2>4 DEF Listing, MetricsSame
  <2> QED
    BY <2>1, <2>5 DEF Performs, Counts
<1>7. CASE Tallied(t) /\ slot[t] = MaxSensors
  <2>1. call[t].op = "active" /\ UNCHANGED seen /\ SensorsSame
    BY <1>7, UntouchedSeen DEF Tallied, Untouched
  <2>2. Passed(t) = ActiveSensors
    BY <1>7, CapacityAssumption DEF Passed, ActiveSensors, Slots
  <2>3. ActiveSensors = Atomic!ActiveSensors
    BY <2>1 DEF SensorsSame, ActiveSensors, Atomic!ActiveSensors, Atomic!Slots, Slots
  <2>4. result[t] = Cardinality(Atomic!ActiveSensors)
    BY <1>7, <2>2, <2>3 DEF Tallied
  <2> QED
    BY <2>1, <2>4 DEF Performs, Counts
<1>8. CASE Reading(t) /\ result[t] = Now[call[t].op]
  <2>1. call[t].op \in Counts /\ UNCHANGED seen /\ Untouched
    BY <1>8, UntouchedSeen DEF Reading
  <2>2. seen = Now
    BY <2>1 DEF SeenWhole, Now, Untouched, SensorsSame, MetricsSame, AlertsSame
  <2> QED
    BY <1>8, <2>1, <2>2 DEF Performs, Counts
<1> QED
  BY <1>1, <1>2, <1>3, <1>4, <1>5, <1>6, <1>7, <1>8 DEF Finished, Numbered

\* Every function of state.c, with its result, acts as the one step GlobalState takes it
\* for, and whoever gets the lock finds the state as the last one left it: for every number
\* of threads, and of slots and entries.
THEOREM FunctionsAreAtomic == LockSpec => CallsAreAtomic
<1>1. LockInit => Atomic!StateInit
  <2> SUFFICES ASSUME LockInit PROVE Atomic!StateInit
    OBVIOUS
  <2>1. /\ seen.sensors = sensors /\ seen.sensor_count = sensor_count
        /\ seen.metrics = metrics /\ seen.metric_count = metric_count
        /\ seen.metric_next = metric_next
        /\ seen.alerts = alerts /\ seen.alert_count = alert_count
        /\ seen.alert_next = alert_next
    BY DEF LockInit, Now
  <2> QED
    BY <2>1 DEF LockInit, StateInit, Atomic!StateInit, Slots, Atomic!Slots, FreeSlot,
       Atomic!FreeSlot, ZeroEntry, Atomic!ZeroEntry, NoId, Atomic!NoId, NoType, Atomic!NoType
<1>2. LockInv => (lock = Nobody => seen = Now)
  BY DEF LockInv
<1>3. LockInv /\ SeenWhole /\ [LockNext]_lockVars =>
        [IF lock # Nobody /\ lock' = Nobody THEN Performs(lock) ELSE UNCHANGED seen]_lockVars
  <2> SUFFICES ASSUME LockInv, SeenWhole, LockNext
               PROVE  IF lock # Nobody /\ lock' = Nobody THEN Performs(lock) ELSE UNCHANGED seen
    OBVIOUS
  <2>1. ASSUME NEW t \in Threads, NEW c \in Calls, Call(t, c)
        PROVE  UNCHANGED <<lock, seen>>
    BY <2>1 DEF Call
  <2>2. ASSUME NEW t \in Threads, Lock(t) PROVE lock = Nobody /\ UNCHANGED seen
    BY <2>2 DEF Lock
  <2>3. ASSUME NEW t \in Threads, Inside(t), ~Unlock(t) PROVE UNCHANGED <<lock, seen>>
    BY <2>3 DEF Inside, Scan, Free, Count, Stamp, WriteRow, Advance, Saturate, ListRow,
       Tally, ReadCount
  <2>4. ASSUME NEW t \in Threads, Unlock(t)
        PROVE  lock = t /\ lock' = Nobody /\ lock # Nobody /\ Performs(t)
    <3>1. at[t] = "unlock" /\ lock' = Nobody
      BY <2>4 DEF Unlock
    <3> QED
      BY <2>4, <3>1, Holder, PerformsStep
  <2> QED
    BY <2>1, <2>2, <2>3, <2>4 DEF LockNext
<1> QED
  BY <1>1, <1>2, <1>3, LockInvariant, SeenInvariant, PTL DEF LockSpec, CallsAreAtomic
=============================================================================
