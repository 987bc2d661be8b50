---------------------------- MODULE SensorHandler ----------------------------
(***************************************************************************)
(* The threads that serve sensor connections (server/src/sensor_handler.c, *)
(* alerts.c) over the global state.  sensor_server_start detaches one      *)
(* thread per connection; a member of Conns is such a thread, and its      *)
(* connection is closed before the first accept() and after the thread is  *)
(* done, when the same member may stand for a later connection.            *)
(*                                                                         *)
(* A handler reads a line, calls state.c between zero and three times and  *)
(* sends one reply.  Each call is a step, and what the handler remembers   *)
(* between two calls is in job: the id and value of the line, and the type *)
(* it copied out of the table when it looked the sensor up.                *)
(***************************************************************************)
EXTENDS GlobalState, FiniteSets

CONSTANTS
  Conns,        \* the handler threads
  Speaks        \* Speaks[c]: the ids that lines of connection c name

ASSUME ConnsAssumption == IsFiniteSet(Conns) /\ Speaks \in [Conns -> SUBSET Ids]

VARIABLES
  pc,           \* where each handler is
  job,          \* the line it is serving
  reply         \* the reply it is about to send

handlerVars == <<pc, job, reply>>
vars == <<stateVars, handlerVars>>

NoReply == "none"
Replies ==
  {"200 REGISTERED", "200 OK", "200 STATUS", "200 PONG", "200 BYE",
   "400 BAD_REQUEST", "403 SENSOR_NOT_REGISTERED", "404 SENSOR_NOT_FOUND",
   "409 SENSOR_ALREADY_EXISTS", "422 INVALID_SENSOR_TYPE", "422 INVALID_VALUE",
   "500 INTERNAL_ERROR"}

NoJob == [id |-> NoId, value |-> 0, type |-> NoType]
Job   == [id : Ids, value : Values \cup {0}, type : Types \cup {NoType}]

\* recv: in recv_line(); add, alert, level: about to make that call; send: in
\* send_response().
PCs == {"closed", "recv", "add", "alert", "level", "send"}

TypeOK ==
  /\ StateTypeOK
  /\ pc \in [Conns -> PCs]
  /\ job \in [Conns -> Job \cup {NoJob}]
  /\ reply \in [Conns -> Replies \cup {NoReply}]

Init ==
  /\ StateInit
  /\ pc = [c \in Conns |-> "closed"]
  /\ job = [c \in Conns |-> NoJob]
  /\ reply = [c \in Conns |-> NoReply]

Goto(c, label) == pc' = [pc EXCEPT ![c] = label]
Remember(c, id, value, type) ==
  job' = [job EXCEPT ![c] = [id |-> id, value |-> value, type |-> type]]

\* The handler has settled on a reply and is about to call send_response.
Answer(c, r) == Goto(c, "send") /\ reply' = [reply EXCEPT ![c] = r]

-----------------------------------------------------------------------------
(* The connection. *)

Accept(c) ==
  /\ pc[c] = "closed"
  /\ Goto(c, "recv")
  /\ UNCHANGED <<stateVars, job, reply>>

\* recv_line returned 0 or -1: the peer closed or reset the connection.  The
\* sensor it had registered stays as it is in the table.
HangUp(c) ==
  /\ pc[c] = "recv"
  /\ Goto(c, "closed")
  /\ UNCHANGED <<stateVars, job, reply>>

\* A line of blanks, an unknown command, or a command with a wrong number of
\* arguments.
BadLine(c) ==
  /\ pc[c] = "recv"
  /\ Answer(c, "400 BAD_REQUEST")
  /\ UNCHANGED <<stateVars, job>>

\* The reply is sent; the handler leaves its loop after 200 BYE.
Respond(c) ==
  /\ pc[c] = "send"
  /\ Goto(c, IF reply[c] = "200 BYE" THEN "closed" ELSE "recv")
  /\ job' = [job EXCEPT ![c] = NoJob]
  /\ reply' = [reply EXCEPT ![c] = NoReply]
  /\ UNCHANGED stateVars

-----------------------------------------------------------------------------
(* REGISTER, STATUS, PING and QUIT: at most one call to state.c. *)

RegisterReply(result) ==
  CASE result = 0  -> "200 REGISTERED"
    [] result = -2 -> "409 SENSOR_ALREADY_EXISTS"
    [] OTHER       -> "500 INTERNAL_ERROR"

Register(c, id, type) ==
  /\ pc[c] = "recv"
  /\ \E result \in {0, -1, -2} :
       RegisterSensor(id, type, result) /\ Answer(c, RegisterReply(result))
  /\ Remember(c, id, 0, type)

RegisterInvalid(c) ==
  /\ pc[c] = "recv"
  /\ Answer(c, "422 INVALID_SENSOR_TYPE")
  /\ UNCHANGED <<stateVars, job>>

Status(c, id) ==
  /\ pc[c] = "recv"
  /\ Answer(c, IF Known(id) THEN "200 STATUS" ELSE "404 SENSOR_NOT_FOUND")
  /\ UNCHANGED <<stateVars, job>>

Ping(c) ==
  /\ pc[c] = "recv"
  /\ Answer(c, "200 PONG")
  /\ UNCHANGED <<stateVars, job>>

\* Mutant: QUIT is answered and the sensor is left as it is.
QuitAnswering(c, id) ==
  /\ pc[c] = "recv"
  /\ Answer(c, "200 BYE")
  /\ Remember(c, id, 0, NoType)
  /\ UNCHANGED stateVars

Quit(c, id) ==
  /\ pc[c] = "recv"
  /\ DeactivateSensor(id)
  /\ Answer(c, "200 BYE")
  /\ Remember(c, id, 0, NoType)

-----------------------------------------------------------------------------
\* Mutant: the status of the sensor is not checked.
MetricFindUnchecked(c, id, value) ==
  /\ pc[c] = "recv"
  /\ \E s \in Slots : FoundAt(s, id) /\ Remember(c, id, value, sensors[s].type)
  /\ Goto(c, "add")
  /\ UNCHANGED <<stateVars, reply>>

(***************************************************************************)
(* METRIC.  handle_metric copies the sensor out of the table, decides on   *)
(* the copy, and then makes up to three more calls, each with its own      *)
(* lock and unlock: state_add_metric, state_add_alert if the value is      *)
(* anomalous for the copied type, and state_set_alert_level.               *)
(***************************************************************************)
MetricFind(c, id, value) ==
  /\ pc[c] = "recv"
  /\ \E s \in Slots :
       /\ FoundAt(s, id)
       /\ sensors[s].status = "ACTIVE"
       /\ Remember(c, id, value, sensors[s].type)
  /\ Goto(c, "add")
  /\ UNCHANGED <<stateVars, reply>>

\* The checks in the order of the code: the sensor, its status, the value (which
\* may not parse), the timestamp.
MetricRefused(c, id) ==
  /\ pc[c] = "recv"
  /\ \/ ~Known(id) /\ Answer(c, "404 SENSOR_NOT_FOUND")
     \/ \E s \in Slots :
          /\ FoundAt(s, id)
          /\ \/ sensors[s].status = "INACTIVE" /\ Answer(c, "403 SENSOR_NOT_REGISTERED")
             \/ sensors[s].status = "ACTIVE" /\ Answer(c, "422 INVALID_VALUE")
             \/ sensors[s].status = "ACTIVE" /\ Answer(c, "400 BAD_REQUEST")
  /\ UNCHANGED <<stateVars, job>>

MetricAdd(c) ==
  /\ pc[c] = "add"
  /\ AddMetric(job[c].id, job[c].value, job[c].type)
  /\ IF AddMetricResult(job[c].id) = 0
     THEN /\ Goto(c, IF Anomalous(job[c].type, job[c].value) THEN "alert" ELSE "level")
          /\ UNCHANGED reply
     ELSE Answer(c, "500 INTERNAL_ERROR")
  /\ UNCHANGED job

\* Mutants: the level is left alone after an alert; it is raised and never lowered; a
\* full table of alerts is waited for.
RaiseAlertOnly(c) ==
  /\ pc[c] = "alert"
  /\ AddAlert(job[c].id, job[c].value, job[c].type)
  /\ Answer(c, "200 OK")
  /\ UNCHANGED job

RaiseAlertIfRoom(c) ==
  /\ pc[c] = "alert" /\ alert_count < MaxAlerts
  /\ AddAlert(job[c].id, job[c].value, job[c].type)
  /\ Goto(c, "level")
  /\ UNCHANGED <<job, reply>>

SetLevelRaising(c) ==
  /\ pc[c] = "level"
  /\ IF Anomalous(job[c].type, job[c].value)
     THEN SetAlertLevel(job[c].id, "ALERT")
     ELSE UNCHANGED stateVars
  /\ Answer(c, "200 OK")
  /\ UNCHANGED job

\* alerts_evaluate: first the alert, then the level of the sensor.
RaiseAlert(c) ==
  /\ pc[c] = "alert"
  /\ AddAlert(job[c].id, job[c].value, job[c].type)
  /\ Goto(c, "level")
  /\ UNCHANGED <<job, reply>>

SetLevel(c) ==
  /\ pc[c] = "level"
  /\ SetAlertLevel(job[c].id,
                   IF Anomalous(job[c].type, job[c].value) THEN "ALERT" ELSE "NORMAL")
  /\ Answer(c, "200 OK")
  /\ UNCHANGED job

-----------------------------------------------------------------------------
\* The lines a client may send next on connection c.
Line(c) ==
  \/ BadLine(c)
  \/ RegisterInvalid(c)
  \/ Ping(c)
  \/ \E id \in Speaks[c] :
       \/ \E type \in Types : Register(c, id, type)
       \/ \E value \in Values : MetricFind(c, id, value)
       \/ MetricRefused(c, id)
       \/ Status(c, id)
       \/ Quit(c, id)

\* What the handler does by itself once it has a line.
Serve(c) == MetricAdd(c) \/ RaiseAlert(c) \/ SetLevel(c) \/ Respond(c)

HandlerNext(c) == Accept(c) \/ HangUp(c) \/ Line(c) \/ Serve(c)

Next == \E c \in Conns : HandlerNext(c)

Spec == Init /\ [][Next]_vars

\* A handler that is to call state.c gets the lock and makes the call.  Clients need
\* not send, hang up or read: send_response may block for good.
Fairness == \A c \in Conns : WF_vars(MetricAdd(c) \/ RaiseAlert(c) \/ SetLevel(c))

FairSpec == Spec /\ Fairness

-----------------------------------------------------------------------------
(* What must hold of the tables whatever the clients do. *)

\* A sensor keeps its slot, its id and its type for good.  handle_metric relies on
\* it: it uses the type it copied before the lock was released.
SensorsArePermanent == [][SensorsKept]_vars

\* What a METRIC handler copied out of the table is still so at each of its later
\* calls: the sensor is found, so 500 INTERNAL_ERROR never answers a METRIC, and
\* the value is judged by the type the sensor has.
CopiedTypeIsCurrent ==
  \A c \in Conns : pc[c] \in {"add", "alert", "level"} =>
    \E s \in Slots : FoundAt(s, job[c].id) /\ sensors[s].type = job[c].type

\* Every row of the two circular tables names a sensor of the sensor table and its
\* type, and every alert is for a value outside the thresholds of that type.
RowsAreExplained ==
  /\ \A i \in 0 .. metric_count - 1 : \E s \in Slots :
       Holds(s, metrics[i].sensor_id) /\ sensors[s].type = metrics[i].type_str
  /\ \A i \in 0 .. alert_count - 1 :
       /\ Anomalous(alerts[i].type_str, alerts[i].value)
       /\ \E s \in Slots :
            Holds(s, alerts[i].sensor_id) /\ sensors[s].type = alerts[i].type_str

\* The handlers that have stored an anomalous metric and not yet its alert.
Pending == {c \in Conns : pc[c] = "alert"}

AnomalousRows ==
  {i \in 0 .. metric_count - 1 : Anomalous(metrics[i].type_str, metrics[i].value)}

\* No alert is lost and none is raised twice: until one of the tables wraps around,
\* each anomalous metric has its alert or a handler that is about to raise it.
EachAnomalyOneAlert ==
  metric_count < MaxMetrics /\ alert_count < MaxAlerts =>
    alert_count + Cardinality(Pending) = Cardinality(AnomalousRows)

\* There are never more alerts than metrics, wrapped around or not, although the
\* two tables are written under different critical sections.
AlertsWithinMetrics == alert_count <= metric_count

-----------------------------------------------------------------------------
(* What holds as long as no two connections speak for one sensor. *)

DisjointSpeaks == \A c, d \in Conns : c # d => Speaks[c] \cap Speaks[d] = {}

LevelAgrees(s) ==
  (sensors[s].alert_level = "ALERT") <=> Anomalous(sensors[s].type, sensors[s].last_value)

Busy(id) == \E c \in Conns : pc[c] \in {"alert", "level"} /\ job[c].id = id

\* A sensor that has reported and whose level is not that of its last value.
Misjudged(s) ==
  sensors[s].active = 1 /\ sensors[s].last_timestamp = "ISO" /\ ~LevelAgrees(s)

\* Outside alerts_evaluate, the level of a sensor that has reported is that of its
\* last value: alerts_evaluate "actualiza el alert_level del sensor" (alerts.h).
LevelMatchesValue == \A s \in Slots : Misjudged(s) => Busy(sensors[s].id)

\* A level that disagrees with the last value is put right in the end: the handler
\* that stored the value is still on its way to state_set_alert_level.
LevelSettles == \A s \in Slots : Misjudged(s) ~> ~Misjudged(s)

-----------------------------------------------------------------------------
(* What the protocol document says and the handlers do not keep. *)

\* A sensor that was just told it is registered is in the table: not for an id that is cut.
RegisteredIsKnown ==
  \A c \in Conns : reply[c] = "200 REGISTERED" => Known(job[c].id)

\* The METRIC of a sensor that is INACTIVE is refused ("403 SENSOR_NOT_REGISTERED: Sensor
\* inactivo"), never stored: not when another connection's QUIT comes between the copy
\* state_find_sensor makes, where the handler reads the status, and state_add_metric.
StoredWhileActive ==
  [][metric_next' # metric_next =>
       \A s \in Slots : FoundAt(s, metrics'[metric_next].sensor_id)
                            => sensors[s].status = "ACTIVE"]_vars
=============================================================================
