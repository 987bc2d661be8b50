------------------------- MODULE SensorHandlerProofs -------------------------
(***************************************************************************)
(* Theorems about the sensor handlers for every number of connections,     *)
(* every assignment of sensors to them and tables of every capacity.       *)
(*                                                                         *)
(* 1. HandlerInv is the inductive invariant the theorems have in common.   *)
(*    It adds to type correctness what a handler between two calls to      *)
(*    state.c relies on: its job is complete, the sensor of its job is     *)
(*    still in the table under the type it copied, and it only heads for   *)
(*    state_add_alert with an anomalous value.                             *)
(* 2. The metrics and alerts tables.  The two are written by different     *)
(*    calls, in separate critical sections, so what relates them has to    *)
(*    count the handlers that are between the two calls.                   *)
(* 3. Sensors that one connection at a time speaks for.  handle_metric     *)
(*    decides on a copy of the sensor and then makes three more calls;     *)
(*    with DisjointSpeaks nobody else changes that sensor in between, and  *)
(*    what was decided on the copy still holds of the table.               *)
(* 4. The handlers implement SensorService, as long as ids are stored      *)
(*    whole.                                                               *)
(***************************************************************************)
EXTENDS ServiceRefinement, GlobalStateProofs, FiniteSetTheorems, Sequences

(* 1. The handlers. *)

\* Where a handler is between two calls of a METRIC line, and what it then remembers.
Working == {"add", "alert", "level"}

FullJob == [id : Ids, value : Values, type : Types]

HandlerTypes ==
  /\ pc \in [Conns -> PCs]
  /\ job \in [Conns -> Job \cup {NoJob}]
  /\ reply \in [Conns -> Replies \cup {NoReply}]

JobsComplete == \A c \in Conns : pc[c] \in Working => job[c] \in FullJob

AlertsJustified ==
  \A c \in Conns : pc[c] = "alert" => Anomalous(job[c].type, job[c].value)

HandlerInv ==
  /\ TableInv
  /\ HandlerTypes
  /\ JobsComplete
  /\ CopiedTypeIsCurrent
  /\ AlertsJustified

-----------------------------------------------------------------------------
\* Every step of a handler calls at most one function of state.c.
LEMMA StateStep ==
  ASSUME HandlerInv, NEW c \in Conns, HandlerNext(c)
  PROVE  TableStep
<1> USE DEF HandlerInv
<1>j. pc[c] \in Working => job[c].id \in Ids /\ job[c].value \in Values /\ job[c].type \in Types
  BY DEF JobsComplete, FullJob
<1>1. CASE Accept(c) \/ HangUp(c)
  BY <1>1, IdleStep DEF Accept, HangUp
<1>2. CASE Line(c)
  <2>1. CASE BadLine(c) \/ RegisterInvalid(c) \/ Ping(c)
    BY <2>1, IdleStep DEF BadLine, RegisterInvalid, Ping
  <2>2. ASSUME NEW id \in Speaks[c], NEW type \in Types, Register(c, id, type)
        PROVE  TableStep
    BY <2>2, RegisterStep, ConnsAssumption DEF Register
  <2>3. ASSUME NEW id \in Speaks[c], NEW value \in Values, MetricFind(c, id, value)
        PROVE  TableStep
    BY <2>3, IdleStep DEF MetricFind
  <2>4. ASSUME NEW id \in Speaks[c], MetricRefused(c, id) \/ Status(c, id)
        PROVE  TableStep
    BY <2>4, IdleStep DEF MetricRefused, Status
  <2>5. ASSUME NEW id \in Speaks[c], Quit(c, id)
        PROVE  TableStep
    BY <2>5, DeactivateStep DEF Quit
  <2> QED
    BY <1>2, <2>1, <2>2, <2>3, <2>4, <2>5 DEF Line
<1>3. CASE MetricAdd(c)
  BY <1>3, <1>j, AddMetricStep DEF MetricAdd, Working
<1>4. CASE RaiseAlert(c)
  BY <1>4, <1>j, AddAlertStep DEF RaiseAlert, Working
<1>5. CASE SetLevel(c)
  BY <1>5, <1>j, SetLevelStep DEF SetLevel, Working
<1>6. CASE Respond(c)
  BY <1>6, IdleStep DEF Respond
<1> QED
  BY <1>1, <1>2, <1>3, <1>4, <1>5, <1>6 DEF HandlerNext, Serve

\* A step after which the handler is not between two calls.
LEMMA DoneStep ==
  ASSUME HandlerInv, TableStep, NEW c \in Conns,
         NEW l \in PCs \ Working, pc' = [pc EXCEPT ![c] = l],
         job' \in [Conns -> Job \cup {NoJob}], \A d \in Conns : d # c => job'[d] = job[d],
         reply' \in [Conns -> Replies \cup {NoReply}]
  PROVE  HandlerInv'
<1>1. HandlerTypes'
  BY DEF HandlerInv, HandlerTypes
<1>2. \A d \in Conns : pc'[d] \in Working => d # c /\ pc'[d] = pc[d] /\ job'[d] = job[d]
  BY DEF HandlerInv, HandlerTypes
<1>3. JobsComplete' /\ AlertsJustified'
  BY <1>2 DEF HandlerInv, JobsComplete, AlertsJustified, Working
<1>4. CopiedTypeIsCurrent'
  BY <1>2, FoundStays DEF HandlerInv, TableStep, CopiedTypeIsCurrent, Working
<1> QED
  BY <1>1, <1>3, <1>4 DEF HandlerInv, TableStep

\* A step to the next call of the same METRIC line.
LEMMA NextCallStep ==
  ASSUME HandlerInv, TableStep, NEW c \in Conns, pc[c] \in Working,
         NEW l \in Working, pc' = [pc EXCEPT ![c] = l], UNCHANGED <<job, reply>>,
         l = "alert" => Anomalous(job[c].type, job[c].value)
  PROVE  HandlerInv'
<1>1. HandlerTypes'
  BY DEF HandlerInv, HandlerTypes, Working, PCs
<1>2. \A d \in Conns : pc'[d] \in Working => pc[d] \in Working
  BY DEF HandlerInv, HandlerTypes
<1>3. JobsComplete'
  BY <1>2 DEF HandlerInv, JobsComplete
<1>4. AlertsJustified'
  BY DEF HandlerInv, HandlerTypes, AlertsJustified
<1>5. CopiedTypeIsCurrent'
  BY <1>2, FoundStays DEF HandlerInv, TableStep, CopiedTypeIsCurrent, Working
<1> QED
  BY <1>1, <1>3, <1>4, <1>5 DEF HandlerInv, TableStep

\* state_find_sensor gives METRIC a job whose type is that of the sensor found.
LEMMA FindStep ==
  ASSUME HandlerInv, TableStep, NEW c \in Conns, NEW id \in Speaks[c], NEW value \in Values,
         MetricFind(c, id, value)
  PROVE  HandlerInv'
<1>1. PICK s \in Slots : FoundAt(s, id) /\ Remember(c, id, value, sensors[s].type)
  BY DEF MetricFind
<1>2. pc' = [pc EXCEPT ![c] = "add"] /\ UNCHANGED <<stateVars, reply>>
  BY DEF MetricFind, Goto
<1>3. sensors[s].type \in Types
  BY <1>1 DEF HandlerInv, TableInv, StateTypeOK, FoundAt, Holds, Sensor, FreeSlot
<1>4. [id |-> id, value |-> value, type |-> sensors[s].type] \in FullJob
  BY <1>3, ConnsAssumption DEF FullJob
<1>5. job' = [job EXCEPT ![c] = [id |-> id, value |-> value, type |-> sensors[s].type]]
  BY <1>1 DEF Remember
<1>6. HandlerTypes'
  BY <1>2, <1>4, <1>5 DEF HandlerInv, HandlerTypes, FullJob, Job, PCs
<1>7. \A d \in Conns \ {c} : pc'[d] = pc[d] /\ job'[d] = job[d]
  BY <1>2, <1>5 DEF HandlerInv, HandlerTypes
<1>8. pc'[c] = "add" /\ job'[c] = [id |-> id, value |-> value, type |-> sensors[s].type]
  BY <1>2, <1>5 DEF HandlerInv, HandlerTypes
<1>9. JobsComplete' /\ AlertsJustified'
  BY <1>4, <1>7, <1>8 DEF HandlerInv, JobsComplete, AlertsJustified
<1>10. CopiedTypeIsCurrent'
  BY <1>1, <1>7, <1>8, FoundStays DEF HandlerInv, TableStep, CopiedTypeIsCurrent
<1> QED
  BY <1>6, <1>9, <1>10 DEF HandlerInv, TableStep

\* HandlerInv is preserved by every step of a handler.
LEMMA HandlerStep ==
  ASSUME HandlerInv, NEW c \in Conns, HandlerNext(c)
  PROVE  HandlerInv' /\ TableStep
<1>t. TableStep
  BY StateStep
<1>r. reply \in [Conns -> Replies \cup {NoReply}] /\ job \in [Conns -> Job \cup {NoJob}]
  BY DEF HandlerInv, HandlerTypes
<1>a. ASSUME NEW r \in Replies, Answer(c, r)
      PROVE  pc' = [pc EXCEPT ![c] = "send"] /\ reply' \in [Conns -> Replies \cup {NoReply}]
  BY <1>a, <1>r DEF Answer, Goto
<1>m. ASSUME NEW id \in Ids, NEW type \in Types \cup {NoType}, Remember(c, id, 0, type)
      PROVE  job' \in [Conns -> Job \cup {NoJob}] /\ \A d \in Conns : d # c => job'[d] = job[d]
  BY <1>m, <1>r DEF Remember, Job
<1>l. {"closed", "recv", "send"} \subseteq PCs \ Working
  BY DEF PCs, Working
<1>1. CASE Accept(c) \/ HangUp(c)
  BY <1>1, <1>t, <1>r, <1>l, DoneStep DEF Accept, HangUp, Goto
<1>2. CASE Line(c)
  <2>1. CASE BadLine(c) \/ RegisterInvalid(c) \/ Ping(c)
    BY <2>1, <1>t, <1>r, <1>a, <1>l, DoneStep DEF BadLine, RegisterInvalid, Ping, Replies
  <2>2. ASSUME NEW id \in Speaks[c], NEW type \in Types, Register(c, id, type)
        PROVE  HandlerInv'
    <3>1. PICK result \in {0, -1, -2} : Answer(c, RegisterReply(result))
      BY <2>2 DEF Register
    <3>2. RegisterReply(result) \in Replies
      BY DEF RegisterReply, Replies
    <3> QED
      BY <2>2, <3>1, <3>2, <1>t, <1>a, <1>m, <1>l, DoneStep, ConnsAssumption DEF Register
  <2>3. ASSUME NEW id \in Speaks[c], NEW value \in Values, MetricFind(c, id, value)
        PROVE  HandlerInv'
    BY <2>3, <1>t, FindStep
  <2>4. ASSUME NEW id \in Speaks[c], MetricRefused(c, id) \/ Status(c, id)
        PROVE  HandlerInv'
    <3>1. \E r \in Replies : Answer(c, r)
      BY <2>4 DEF MetricRefused, Status, Replies
    <3>2. UNCHANGED job
      BY <2>4 DEF MetricRefused, Status
    <3> QED
      BY <3>1, <3>2, <1>t, <1>r, <1>a, <1>l, DoneStep
  <2>5. ASSUME NEW id \in Speaks[c], Quit(c, id)
        PROVE  HandlerInv'
    BY <2>5, <1>t, <1>a, <1>m, <1>l, DoneStep, ConnsAssumption DEF Quit, Replies
  <2> QED
    BY <1>t, <1>2, <2>1, <2>2, <2>3, <2>4, <2>5 DEF Line
<1>3. CASE MetricAdd(c)
  <2>1. CASE AddMetricResult(job[c].id) = 0
    BY <1>3, <2>1, <1>t, NextCallStep DEF MetricAdd, Goto, Working
  <2>2. CASE AddMetricResult(job[c].id) # 0
    BY <1>3, <2>2, <1>t, <1>r, <1>a, <1>l, DoneStep DEF MetricAdd, Replies
  <2> QED
    BY <2>1, <2>2
<1>4. CASE RaiseAlert(c)
  BY <1>4, <1>t, NextCallStep DEF RaiseAlert, Goto, Working
<1>5. CASE SetLevel(c)
  BY <1>5, <1>t, <1>r, <1>a, <1>l, DoneStep DEF SetLevel, Replies
<1>6. CASE Respond(c)
  BY <1>6, <1>t, <1>r, <1>l, DoneStep DEF Respond, Goto
<1> QED
  BY <1>t, <1>1, <1>2, <1>3, <1>4, <1>5, <1>6 DEF HandlerNext, Serve

\* Every step keeps the invariant, and is a step of the table in the sense of
\* GlobalStateProofs.
LEMMA HandlerInvNext == HandlerInv /\ [Next]_vars => HandlerInv' /\ TableStep
<1> SUFFICES ASSUME HandlerInv, [Next]_vars PROVE HandlerInv' /\ TableStep
  OBVIOUS
<1>1. CASE Next
  BY <1>1, HandlerStep DEF Next
<1>2. CASE UNCHANGED vars
  <2>1. TableStep
    BY <1>2, IdleStep DEF HandlerInv, vars
  <2>2. UNCHANGED <<sensors, pc, job, reply>>
    BY <1>2 DEF vars, stateVars, handlerVars
  <2>3. CopiedTypeIsCurrent'
    BY <2>2 DEF HandlerInv, CopiedTypeIsCurrent, FoundAt, Holds
  <2>4. HandlerTypes' /\ JobsComplete' /\ AlertsJustified'
    BY <2>2 DEF HandlerInv, HandlerTypes, JobsComplete, AlertsJustified
  <2> QED
    BY <2>1, <2>3, <2>4 DEF HandlerInv, TableStep
<1> QED
  BY <1>1, <1>2

\* The invariant holds before the first connection: the table is empty.
LEMMA HandlerInitially == Init => HandlerInv
<1> SUFFICES ASSUME Init PROVE HandlerInv
  OBVIOUS
<1>1. HandlerTypes
  BY DEF Init, HandlerTypes, PCs
<1>2. \A c \in Conns : pc[c] = "closed"
  BY DEF Init
<1> QED
  BY <1>1, <1>2, TableInitially DEF Init, HandlerInv, JobsComplete, CopiedTypeIsCurrent,
     AlertsJustified, Working

\* HandlerInv holds of every reachable state of the handlers.
THEOREM HandlerInvariant == Spec => []HandlerInv
BY HandlerInitially, HandlerInvNext, PTL DEF Spec

-----------------------------------------------------------------------------
\* The variables keep their types: no index of a table leaves its array, and no
\* handler stores an incomplete job.
THEOREM TypeCorrect == Spec => []TypeOK
<1>1. HandlerInv => TypeOK
  BY DEF HandlerInv, TableInv, HandlerTypes, TypeOK
<1> QED
  BY <1>1, HandlerInvariant, PTL

\* sensor_count counts the slots in use, which are the first ones of the table.
THEOREM CountsMatch == Spec => []CountMatchesTable
<1>1. HandlerInv => CountMatchesTable
  BY DEF HandlerInv, TableInv
<1> QED
  BY <1>1, HandlerInvariant, PTL

\* The copy of the sensor a METRIC handler works with is never stale in what it uses
\* of it, so that state_add_metric never fails and METRIC is never answered with 500.
THEOREM CopiedTypeStaysCurrent == Spec => []CopiedTypeIsCurrent
<1>1. HandlerInv => CopiedTypeIsCurrent
  BY DEF HandlerInv
<1> QED
  BY <1>1, HandlerInvariant, PTL

\* No step of any handler frees a slot or changes the id or type of a sensor.
THEOREM SensorsPermanent == Spec => SensorsArePermanent
<1>1. HandlerInv /\ [Next]_vars => [SensorsKept]_vars
  BY HandlerInvNext DEF TableStep
<1> QED
  BY <1>1, HandlerInvariant, PTL DEF Spec, SensorsArePermanent

-----------------------------------------------------------------------------
\* Every id that lines name fits in MAX_ID_LEN.
IdsFit == \A id \in Ids : StoredId[id] = id

\* Only a REGISTER of an unknown id adds a sensor.
LEMMA NewSensorStep ==
  ASSUME [Next]_vars
  PROVE  sensor_count' = sensor_count \/ \E id \in Ids, type \in Types : AddSensor(id, type)
<1>1. ASSUME NEW c \in Conns, HandlerNext(c)
      PROVE  sensor_count' = sensor_count \/ \E id \in Ids, type \in Types : AddSensor(id, type)
  <2>1. CASE Line(c)
    <3>1. ASSUME NEW id \in Speaks[c], NEW type \in Types, Register(c, id, type)
          PROVE  sensor_count' = sensor_count \/ AddSensor(id, type)
      BY <3>1 DEF Register, RegisterSensor, Reactivate, sensorVars
    <3>2. ASSUME NEW id \in Speaks[c], ~\E type \in Types : Register(c, id, type),
                 \/ \E value \in Values : MetricFind(c, id, value)
                 \/ MetricRefused(c, id) \/ Status(c, id) \/ Quit(c, id)
          PROVE  sensor_count' = sensor_count
      BY <3>2 DEF MetricFind, MetricRefused, Status, Quit, DeactivateSensor, stateVars
    <3>3. CASE BadLine(c) \/ RegisterInvalid(c) \/ Ping(c)
      BY <3>3 DEF BadLine, RegisterInvalid, Ping, stateVars
    <3> QED
      BY <2>1, <3>1, <3>2, <3>3, ConnsAssumption DEF Line
  <2>2. CASE Accept(c) \/ HangUp(c) \/ Serve(c)
    BY <2>2 DEF Accept, HangUp, Serve, MetricAdd, AddMetric, RaiseAlert, AddAlert, SetLevel,
       SetAlertLevel, Respond, stateVars, sensorVars
  <2> QED
    BY <1>1, <2>1, <2>2 DEF HandlerNext
<1>2. UNCHANGED vars => sensor_count' = sensor_count
  BY DEF vars, stateVars
<1> QED
  BY <1>1, <1>2 DEF Next

\* A sensor that is added takes an id that no slot holds.
LEMMA UniqueIdsNext ==
  ASSUME IdsFit, HandlerInv, UniqueIds, [Next]_vars
  PROVE  UniqueIds'
<1>1. HandlerInv' /\ TableStep
  BY HandlerInvNext
<1>2. CASE sensor_count' = sensor_count
  <2>1. \A s \in Slots : sensors'[s].active = 1 => sensors[s].active = 1
    BY <1>1, <1>2 DEF TableStep, HandlerInv, TableInv, CountMatchesTable
  <2> QED
    BY <1>1, <2>1 DEF TableStep, SensorsKept, UniqueIds
<1>3. ASSUME NEW id \in Ids, NEW type \in Types, AddSensor(id, type) PROVE UniqueIds'
  <2>1. PICK s \in Slots : FreeAt(s) /\ sensors' = [sensors EXCEPT ![s] = NewSensor(id, type)]
    BY <1>3 DEF AddSensor
  <2>2. \A t \in Slots : sensors[t].active = 1 => sensors[t].id # id
    BY <1>3 DEF AddSensor, Known, Holds
  <2>3. sensors'[s].id = id /\ \A t \in Slots : t # s => sensors'[t] = sensors[t]
    BY <2>1, IdsFit DEF IdsFit, NewSensor, HandlerInv, TableInv, StateTypeOK
  <2> QED
    BY <2>2, <2>3 DEF UniqueIds
<1> QED
  BY <1>2, <1>3, NewSensorStep

\* As long as ids fit in the table, no sensor is in it twice.
THEOREM IdsAreUnique ==
  ASSUME IdsFit
  PROVE  Spec => []UniqueIds
<1>1. Init => UniqueIds
  BY DEF Init, StateInit, UniqueIds, FreeSlot
<1>2. HandlerInv /\ UniqueIds /\ [Next]_vars => UniqueIds'
  BY UniqueIdsNext
<1> QED
  BY <1>1, <1>2, HandlerInvariant, PTL DEF Spec

-----------------------------------------------------------------------------
(* 2. Metrics and alerts. *)

\* The row a handler writes for its job.
RowOf(c) == [sensor_id |-> StoredId[job[c].id], value |-> job[c].value, type_str |-> job[c].type]

Quiet == UNCHANGED <<metricVars, alertVars, Pending>>

\* Only state_add_metric and state_add_alert write to the tables, and only they add
\* to or take from the handlers that owe an alert.
LEMMA LogStep ==
  ASSUME HandlerInv, [Next]_vars
  PROVE  Quiet \/ \E c \in Conns : MetricAdd(c) \/ RaiseAlert(c)
<1> USE DEF HandlerInv, HandlerTypes
<1>1. ASSUME NEW c \in Conns, HandlerNext(c), ~MetricAdd(c), ~RaiseAlert(c)
      PROVE  Quiet
  <2>1. ASSUME NEW l \in PCs, pc[c] # "alert", l # "alert", pc' = [pc EXCEPT ![c] = l]
        PROVE  Pending' = Pending
    BY <2>1 DEF Pending
  <2>2. CASE Line(c)
    <3>1. pc[c] = "recv" /\ \E l \in {"send", "add"} : pc' = [pc EXCEPT ![c] = l]
      BY <2>2 DEF Line, BadLine, RegisterInvalid, Ping, Register, MetricFind, MetricRefused,
         Status, Quit, Answer, Goto
    <3>2. UNCHANGED <<metricVars, alertVars>>
      BY <2>2 DEF Line, BadLine, RegisterInvalid, Ping, Register, MetricFind, MetricRefused,
         Status, Quit, RegisterSensor, DeactivateSensor, stateVars, metricVars, alertVars
    <3> QED
      BY <2>1, <3>1, <3>2 DEF Quiet, PCs
  <2>3. CASE Accept(c) \/ HangUp(c)
    BY <2>1, <2>3 DEF Accept, HangUp, Goto, Quiet, PCs, stateVars, metricVars, alertVars
  <2>4. CASE SetLevel(c)
    BY <2>1, <2>4 DEF SetLevel, SetAlertLevel, Answer, Goto, Quiet, PCs, metricVars, alertVars
  <2>5. CASE Respond(c)
    BY <2>1, <2>5 DEF Respond, Goto, Quiet, PCs, stateVars, metricVars, alertVars
  <2> QED
    BY <1>1, <2>2, <2>3, <2>4, <2>5 DEF HandlerNext, Serve
<1>2. CASE UNCHANGED vars
  BY <1>2 DEF vars, stateVars, handlerVars, metricVars, alertVars, Quiet, Pending
<1> QED
  BY <1>1, <1>2 DEF Next

\* What state_add_metric does for a handler: the sensor is found, the row written.
LEMMA MetricWritten ==
  ASSUME HandlerInv, NEW c \in Conns, MetricAdd(c)
  PROVE  /\ metrics' = Written(metrics, metric_next, RowOf(c))
         /\ metric_next' = Advanced(metric_next, MaxMetrics)
         /\ metric_count' = Saturated(metric_count, MaxMetrics)
         /\ UNCHANGED alertVars
         /\ c \notin Pending
         /\ Pending' = IF Anomalous(job[c].type, job[c].value) THEN Pending \cup {c} ELSE Pending
<1>1. AddMetricResult(job[c].id) = 0
  BY DEF HandlerInv, CopiedTypeIsCurrent, MetricAdd, FoundAt, Known, AddMetricResult
<1>2. pc' = [pc EXCEPT ![c] = IF Anomalous(job[c].type, job[c].value) THEN "alert" ELSE "level"]
  BY <1>1 DEF MetricAdd, Goto
<1>3. pc \in [Conns -> PCs] /\ pc[c] = "add"
  BY DEF MetricAdd, HandlerInv, HandlerTypes
<1> QED
  BY <1>1, <1>2, <1>3 DEF MetricAdd, AddMetric, RowOf, Pending

\* What state_add_alert does to the alerts table, and that the handler owes no alert
\* after it.
LEMMA AlertWritten ==
  ASSUME HandlerInv, NEW c \in Conns, RaiseAlert(c)
  PROVE  /\ alerts' = Written(alerts, alert_next, RowOf(c))
         /\ alert_next' = Advanced(alert_next, MaxAlerts)
         /\ alert_count' = Saturated(alert_count, MaxAlerts)
         /\ UNCHANGED <<sensorVars, metricVars>>
         /\ c \in Pending
         /\ Pending' = Pending \ {c}
BY DEF RaiseAlert, AddAlert, RowOf, Pending, Goto, HandlerInv, HandlerTypes

\* The sensor of a job is stored under the id of the job.
LEMMA JobIdStored ==
  ASSUME HandlerInv, NEW c \in Conns, pc[c] \in Working
  PROVE  /\ RowOf(c).sensor_id = job[c].id
         /\ \E s \in Slots : Holds(s, job[c].id) /\ sensors[s].type = job[c].type
BY DEF HandlerInv, TableInv, CopiedTypeIsCurrent, Working, FoundAt, Holds, RowOf

-----------------------------------------------------------------------------
\* The table has the sensor id under that type, before a step and after it.
Explained(id, type) == \E s \in Slots : Holds(s, id) /\ sensors[s].type = type

ExplainedNext(id, type) ==
  \E s \in Slots : sensors'[s].active = 1 /\ sensors'[s].id = id /\ sensors'[s].type = type

\* A sensor that explains a row before a step explains it after the step.
LEMMA ExplainedStays ==
  ASSUME SensorsKept
  PROVE  \A id, type : Explained(id, type) => ExplainedNext(id, type)
BY DEF Explained, ExplainedNext, SensorsKept, Holds

\* Every row of the two tables belongs to a sensor of the sensor table, and every
\* alert to a value outside the thresholds.
THEOREM RowsExplained == Spec => []RowsAreExplained
<1>1. Init => RowsAreExplained
  BY DEF Init, StateInit, RowsAreExplained
<1>2. HandlerInv /\ RowsAreExplained /\ [Next]_vars => RowsAreExplained'
  <2> SUFFICES ASSUME HandlerInv, RowsAreExplained, [Next]_vars PROVE RowsAreExplained'
    OBVIOUS
  <2> DEFINE MetricsOK == \A i \in 0 .. metric_count' - 1 :
                            ExplainedNext(metrics'[i].sensor_id, metrics'[i].type_str)
             AlertsOK  == \A i \in 0 .. alert_count' - 1 :
                            /\ Anomalous(alerts'[i].type_str, alerts'[i].value)
                            /\ ExplainedNext(alerts'[i].sensor_id, alerts'[i].type_str)
  <2>1. TableInv /\ SensorsKept
    BY HandlerInvNext DEF HandlerInv, TableStep
  <2>n. /\ metric_count \in 0 .. MaxMetrics /\ metric_next \in 0 .. MaxMetrics - 1
        /\ metric_count < MaxMetrics => metric_next = metric_count
        /\ alert_count \in 0 .. MaxAlerts /\ alert_next \in 0 .. MaxAlerts - 1
        /\ alert_count < MaxAlerts => alert_next = alert_count
        /\ MaxMetrics \in Nat \ {0} /\ MaxAlerts \in Nat \ {0}
    BY <2>1, CapacityAssumption DEF TableInv, StateTypeOK
  <2>2. /\ \A i \in 0 .. metric_count - 1 :
             ExplainedNext(metrics[i].sensor_id, metrics[i].type_str)
        /\ \A i \in 0 .. alert_count - 1 :
             /\ Anomalous(alerts[i].type_str, alerts[i].value)
             /\ ExplainedNext(alerts[i].sensor_id, alerts[i].type_str)
    BY <2>1, ExplainedStays DEF RowsAreExplained, Explained
  <2>3. ASSUME Quiet PROVE MetricsOK /\ AlertsOK
    BY <2>2, <2>3 DEF Quiet, metricVars, alertVars
  <2>4. ASSUME NEW c \in Conns, MetricAdd(c) PROVE MetricsOK /\ AlertsOK
    <3>1. /\ metrics' = Written(metrics, metric_next, RowOf(c))
          /\ metric_count' = Saturated(metric_count, MaxMetrics)
          /\ UNCHANGED <<alerts, alert_count>>
      BY <2>4, MetricWritten DEF alertVars
    <3>2. ExplainedNext(RowOf(c).sensor_id, RowOf(c).type_str)
      BY <2>1, <2>4, JobIdStored, ExplainedStays DEF MetricAdd, Working, Explained, RowOf
    <3>3. \A i \in 0 .. metric_count' - 1 :
            i \in 0 .. MaxMetrics - 1 /\ (i = metric_next \/ i \in 0 .. metric_count - 1)
      BY <2>n, <3>1 DEF Saturated
    <3>4. \A i \in 0 .. MaxMetrics - 1 :
            metrics'[i] = IF i = metric_next THEN RowOf(c) ELSE metrics[i]
      BY <2>1, <3>1 DEF Written, TableInv, StateTypeOK
    <3>5. MetricsOK
      BY <2>2, <3>2, <3>3, <3>4
    <3> QED
      BY <2>2, <3>1, <3>5
  <2>5. ASSUME NEW c \in Conns, RaiseAlert(c) PROVE MetricsOK /\ AlertsOK
    <3>1. /\ alerts' = Written(alerts, alert_next, RowOf(c))
          /\ alert_count' = Saturated(alert_count, MaxAlerts)
          /\ UNCHANGED <<metrics, metric_count>>
      BY <2>5, AlertWritten DEF metricVars
    <3>2. /\ ExplainedNext(RowOf(c).sensor_id, RowOf(c).type_str)
          /\ Anomalous(RowOf(c).type_str, RowOf(c).value)
      BY <2>1, <2>5, JobIdStored, ExplainedStays
      DEF RaiseAlert, Working, Explained, RowOf, HandlerInv, AlertsJustified
    <3>3. \A i \in 0 .. alert_count' - 1 :
            i \in 0 .. MaxAlerts - 1 /\ (i = alert_next \/ i \in 0 .. alert_count - 1)
      BY <2>n, <3>1 DEF Saturated
    <3>4. \A i \in 0 .. MaxAlerts - 1 :
            alerts'[i] = IF i = alert_next THEN RowOf(c) ELSE alerts[i]
      BY <2>1, <3>1 DEF Written, TableInv, StateTypeOK
    <3>5. AlertsOK
      BY <2>2, <3>2, <3>3, <3>4
    <3> QED
      BY <2>2, <3>1, <3>5
  <2>6. MetricsOK /\ AlertsOK
    BY <2>3, <2>4, <2>5, LogStep
  <2> QED
    BY <2>6 DEF RowsAreExplained, ExplainedNext, Holds
<1> QED
  BY <1>1, <1>2, HandlerInvariant, PTL DEF Spec

-----------------------------------------------------------------------------
(***************************************************************************)
(* Alerts against metrics.  As long as the metrics table has not wrapped   *)
(* around, its anomalous rows are the alerts plus the handlers that still  *)
(* owe one; once the alerts table has, the alerts are fewer.               *)
(***************************************************************************)
OwedBalance ==
  /\ alert_count + Cardinality(Pending) <= Cardinality(AnomalousRows)
  /\ alert_count < MaxAlerts =>
       alert_count + Cardinality(Pending) = Cardinality(AnomalousRows)

AlertsOwed == metric_count < MaxMetrics => OwedBalance

\* The sets the balance counts are finite: there are finitely many connections and
\* rows.
LEMMA FiniteCounts ==
  ASSUME HandlerInv
  PROVE  /\ IsFiniteSet(Pending) /\ Cardinality(Pending) \in Nat
         /\ IsFiniteSet(AnomalousRows) /\ Cardinality(AnomalousRows) \in Nat
         /\ Cardinality(AnomalousRows) <= metric_count
<1>n. metric_count \in Nat
  BY CapacityAssumption DEF HandlerInv, TableInv, StateTypeOK
<1>1. IsFiniteSet(Pending)
  BY ConnsAssumption, FS_Subset DEF Pending
<1>2. IsFiniteSet(0 .. metric_count - 1) /\ Cardinality(0 .. metric_count - 1) = metric_count
  BY <1>n, FS_Interval
<1>3. AnomalousRows \in SUBSET (0 .. metric_count - 1)
  BY DEF AnomalousRows
<1>4. IsFiniteSet(AnomalousRows) /\ Cardinality(AnomalousRows) <= metric_count
  BY <1>2, <1>3, FS_Subset
<1> QED
  BY <1>1, <1>4, FS_CardinalityType

\* A new row below the capacity is written behind the others.
LEMMA AnomalousRowsAfterAdd ==
  ASSUME HandlerInv, NEW c \in Conns, MetricAdd(c), metric_count' < MaxMetrics
  PROVE  /\ metric_count < MaxMetrics
         /\ metric_count \notin AnomalousRows
         /\ AnomalousRows' = IF Anomalous(job[c].type, job[c].value)
                             THEN AnomalousRows \cup {metric_count} ELSE AnomalousRows
<1>1. /\ metric_count \in 0 .. MaxMetrics /\ MaxMetrics \in Nat
      /\ metric_count < MaxMetrics => metric_next = metric_count
      /\ DOMAIN metrics = 0 .. MaxMetrics - 1
  BY CapacityAssumption DEF HandlerInv, TableInv, StateTypeOK
<1>2. /\ metrics' = Written(metrics, metric_next, RowOf(c))
      /\ metric_count' = Saturated(metric_count, MaxMetrics)
  BY MetricWritten
<1>3. metric_count < MaxMetrics /\ metric_count' = metric_count + 1 /\ metric_next = metric_count
  BY <1>1, <1>2 DEF Saturated
<1>4. \A i \in 0 .. metric_count :
        metrics'[i] = IF i = metric_count THEN RowOf(c) ELSE metrics[i]
  BY <1>1, <1>2, <1>3 DEF Written
<1>5. 0 .. metric_count' - 1 = (0 .. metric_count - 1) \cup {metric_count}
  BY <1>1, <1>3
<1>6. AnomalousRows' = {i \in 0 .. metric_count' - 1 :
                          Anomalous(metrics'[i].type_str, metrics'[i].value)}
  BY DEF AnomalousRows, Anomalous, Above, Below
<1>7. RowOf(c).type_str = job[c].type /\ RowOf(c).value = job[c].value
  BY DEF RowOf
<1> QED
  BY <1>1, <1>3, <1>4, <1>5, <1>6, <1>7 DEF AnomalousRows

\* Every step keeps the balance: an anomalous METRIC adds a row and a pending alert,
\* state_add_alert turns the pending one into an alert, nothing else touches either.
LEMMA AlertsOwedNext ==
  ASSUME HandlerInv, AlertsOwed, [Next]_vars
  PROVE  AlertsOwed'
<1>c. /\ IsFiniteSet(Pending) /\ Cardinality(Pending) \in Nat
      /\ IsFiniteSet(AnomalousRows) /\ Cardinality(AnomalousRows) \in Nat
  BY FiniteCounts
<1>n. /\ alert_count \in 0 .. MaxAlerts /\ MaxAlerts \in Nat \ {0}
      /\ metric_count \in 0 .. MaxMetrics /\ MaxMetrics \in Nat \ {0}
  BY CapacityAssumption DEF HandlerInv, TableInv, StateTypeOK
<1>1. CASE Quiet
  BY <1>1 DEF Quiet, metricVars, alertVars, AlertsOwed, OwedBalance,
     AnomalousRows, Anomalous, Above, Below
<1>2. ASSUME NEW c \in Conns, MetricAdd(c) PROVE AlertsOwed'
  <2> SUFFICES ASSUME metric_count' < MaxMetrics
               PROVE  OwedBalance'
    BY DEF AlertsOwed
  <2>1. UNCHANGED alert_count /\ c \notin Pending
    BY <1>2, MetricWritten DEF alertVars
  <2>2. CASE Anomalous(job[c].type, job[c].value)
    <3>1. Pending' = Pending \cup {c} /\ AnomalousRows' = AnomalousRows \cup {metric_count}
      BY <1>2, <2>2, MetricWritten, AnomalousRowsAfterAdd
    <3>2. Cardinality(Pending') = Cardinality(Pending) + 1
      BY <3>1, <2>1, <1>c, FS_AddElement
    <3>3. Cardinality(AnomalousRows') = Cardinality(AnomalousRows) + 1
      BY <3>1, <1>2, <1>c, AnomalousRowsAfterAdd, FS_AddElement
    <3> QED
      BY <1>2, <2>1, <3>2, <3>3, <1>c, <1>n, AnomalousRowsAfterAdd DEF AlertsOwed, OwedBalance
  <2>3. CASE ~Anomalous(job[c].type, job[c].value)
    <3>1. Pending' = Pending /\ AnomalousRows' = AnomalousRows
      BY <1>2, <2>3, MetricWritten, AnomalousRowsAfterAdd
    <3> QED
      BY <1>2, <2>1, <3>1, AnomalousRowsAfterAdd DEF AlertsOwed, OwedBalance
  <2> QED
    BY <2>2, <2>3
<1>3. ASSUME NEW c \in Conns, RaiseAlert(c) PROVE AlertsOwed'
  <2>1. /\ alert_count' = Saturated(alert_count, MaxAlerts)
        /\ UNCHANGED metricVars /\ c \in Pending /\ Pending' = Pending \ {c}
    BY <1>3, AlertWritten
  <2>2. Cardinality(Pending') = Cardinality(Pending) - 1
    BY <2>1, <1>c, FS_RemoveElement
  <2>3. UNCHANGED metric_count /\ AnomalousRows' = AnomalousRows
    BY <2>1 DEF metricVars, AnomalousRows, Anomalous, Above, Below
  <2> QED
    BY <2>1, <2>2, <2>3, <1>c, <1>n DEF AlertsOwed, OwedBalance, Saturated
<1> QED
  BY <1>1, <1>2, <1>3, LogStep

\* The balance of anomalous metrics, alerts and pending alerts is an invariant.
LEMMA AlertsOwedInvariant == Spec => [](HandlerInv /\ AlertsOwed)
<1>1. Init => AlertsOwed
  <2> SUFFICES ASSUME Init PROVE AlertsOwed
    OBVIOUS
  <2>1. Pending = {} /\ AnomalousRows = {} /\ alert_count = 0
    BY DEF Init, StateInit, Pending, AnomalousRows
  <2> QED
    BY <2>1, FS_EmptySet DEF AlertsOwed, OwedBalance
<1>2. HandlerInv /\ AlertsOwed /\ [Next]_vars => AlertsOwed'
  BY AlertsOwedNext
<1> QED
  BY <1>1, <1>2, HandlerInvariant, PTL DEF Spec

\* No alert is lost and none is raised twice until a table wraps around.
THEOREM EachAnomalyAlerted == Spec => []EachAnomalyOneAlert
<1>1. AlertsOwed => EachAnomalyOneAlert
  BY DEF AlertsOwed, OwedBalance, EachAnomalyOneAlert
<1> QED
  BY <1>1, AlertsOwedInvariant, PTL

\* The alerts table never holds more entries than the metrics table.
THEOREM AlertsBounded == Spec => []AlertsWithinMetrics
<1>1. HandlerInv /\ AlertsOwed => AlertsWithinMetrics
  <2> SUFFICES ASSUME HandlerInv, AlertsOwed PROVE AlertsWithinMetrics
    OBVIOUS
  <2>1. /\ alert_count \in 0 .. MaxAlerts /\ metric_count \in 0 .. MaxMetrics
        /\ MaxAlerts \in Nat /\ MaxMetrics \in Nat /\ MaxAlerts <= MaxMetrics
    BY CapacityAssumption DEF HandlerInv, TableInv, StateTypeOK
  <2> QED
    BY <2>1, FiniteCounts DEF AlertsOwed, OwedBalance, AlertsWithinMetrics
<1> QED
  BY <1>1, AlertsOwedInvariant, PTL

-----------------------------------------------------------------------------
(* 3. Sensors with one connection each. *)

\* A handler between two calls works for an id of its own, whose sensor has taken the
\* value of the job once it is stored.
JobsOwned == \A c \in Conns : pc[c] \in Working => job[c].id \in Speaks[c]

ValueTaken ==
  \A c \in Conns : pc[c] \in {"alert", "level"} =>
    \E s \in Slots : /\ FoundAt(s, job[c].id)
                     /\ sensors[s].type = job[c].type
                     /\ sensors[s].last_value = job[c].value

\* Only the slot a scan stops at ever receives a value.
ReportedIsFound ==
  \A s \in Slots : sensors[s].active = 1 /\ sensors[s].last_timestamp = "ISO"
                     => FoundAt(s, sensors[s].id)

OwnedInv ==
  /\ HandlerInv
  /\ JobsOwned
  /\ ValueTaken
  /\ ReportedIsFound
  /\ LevelMatchesValue

\* At most one slot is the first to hold an id.
LEMMA FoundOnce ==
  ASSUME NEW id, NEW s \in Slots, NEW t \in Slots, FoundAt(s, id), FoundAt(t, id)
  PROVE  s = t
BY DEF FoundAt, Holds, Slots

-----------------------------------------------------------------------------
\* A step of c leaves the sensors of other connections as they are.
LEMMA OthersUntouched ==
  ASSUME HandlerInv, JobsOwned, NEW c \in Conns, HandlerNext(c),
         NEW s \in Slots, NEW id \in Ids \ Speaks[c], FoundAt(s, id)
  PROVE  sensors'[s] = sensors[s]
<1>s. /\ sensors[s].active = 1 /\ sensors[s].id = id
      /\ sensors \in [Slots -> Sensor \cup {FreeSlot}]
  BY DEF FoundAt, Holds, HandlerInv, TableInv, StateTypeOK
<1>o. \A other \in Speaks[c] : ~FoundAt(s, other)
  BY <1>s DEF FoundAt, Holds
<1>1. CASE Line(c)
  <2>1. ASSUME NEW other \in Speaks[c], NEW type \in Types, Register(c, other, type)
        PROVE  sensors'[s] = sensors[s]
    <3>1. CASE Reactivate(other)
      BY <1>s, <1>o, <3>1 DEF Reactivate
    <3>2. CASE AddSensor(other, type)
      BY <1>s, <3>2 DEF AddSensor, FreeAt
    <3> QED
      BY <2>1, <3>1, <3>2 DEF Register, RegisterSensor, sensorVars
  <2>2. ASSUME NEW other \in Speaks[c], Quit(c, other)
        PROVE  sensors'[s] = sensors[s]
    BY <1>o, <2>2 DEF Quit, DeactivateSensor
  <2>3. ASSUME NEW other \in Speaks[c],
               (\E value \in Values : MetricFind(c, other, value)) \/ MetricRefused(c, other)
               \/ Status(c, other)
        PROVE  sensors'[s] = sensors[s]
    BY <2>3 DEF MetricFind, MetricRefused, Status, stateVars
  <2>4. CASE BadLine(c) \/ RegisterInvalid(c) \/ Ping(c)
    BY <2>4 DEF BadLine, RegisterInvalid, Ping, stateVars
  <2> QED
    BY <1>1, <2>1, <2>2, <2>3, <2>4 DEF Line
<1>2. CASE MetricAdd(c)
  BY <1>o, <1>2 DEF MetricAdd, AddMetric, JobsOwned, Working
<1>3. CASE RaiseAlert(c)
  BY <1>3 DEF RaiseAlert, AddAlert, sensorVars
<1>4. CASE SetLevel(c)
  BY <1>o, <1>4 DEF SetLevel, SetAlertLevel, JobsOwned, Working
<1>5. CASE Accept(c) \/ HangUp(c) \/ Respond(c)
  BY <1>5 DEF Accept, HangUp, Respond, stateVars
<1> QED
  BY <1>1, <1>2, <1>3, <1>4, <1>5 DEF HandlerNext, Serve

\* The handlers of other connections do not move.
LEMMA OthersWait ==
  ASSUME HandlerInv, NEW c \in Conns, HandlerNext(c), NEW d \in Conns \ {c}
  PROVE  pc'[d] = pc[d] /\ job'[d] = job[d]
BY DEF HandlerInv, HandlerTypes, HandlerNext, Accept, HangUp, Line, BadLine, RegisterInvalid, Ping,
   Register, MetricFind, MetricRefused, Status, Quit, Serve, MetricAdd, RaiseAlert, SetLevel,
   Respond, Answer, Goto, Remember

\* Only state_add_metric and state_set_alert_level change the reading of a sensor or
\* its level.
LEMMA ReadingsKept ==
  ASSUME HandlerInv, NEW c \in Conns, HandlerNext(c), ~MetricAdd(c), ~SetLevel(c),
         NEW s \in Slots, sensors'[s].active = 1, sensors'[s].last_timestamp = "ISO"
  PROVE  /\ sensors[s].active = 1 /\ sensors[s].last_timestamp = "ISO"
         /\ sensors'[s].id = sensors[s].id
         /\ sensors'[s].type = sensors[s].type
         /\ sensors'[s].last_value = sensors[s].last_value
         /\ sensors'[s].alert_level = sensors[s].alert_level
<1>s. sensors \in [Slots -> Sensor \cup {FreeSlot}]
  BY DEF HandlerInv, TableInv, StateTypeOK
<1>1. CASE UNCHANGED sensors
  BY <1>1
<1>2. ASSUME NEW status, sensors'[s] = [sensors[s] EXCEPT !.status = status], sensors[s].active = 1
      PROVE  /\ sensors'[s].active = sensors[s].active
             /\ sensors'[s].last_timestamp = sensors[s].last_timestamp
             /\ sensors'[s].id = sensors[s].id
             /\ sensors'[s].type = sensors[s].type
             /\ sensors'[s].last_value = sensors[s].last_value
             /\ sensors'[s].alert_level = sensors[s].alert_level
  <2>1. sensors[s] \in Sensor
    BY <1>s, <1>2 DEF FreeSlot
  <2> QED
    BY <1>2, <2>1 DEF Sensor
<1>3. CASE \E id \in Speaks[c] : Quit(c, id)
  <2>1. PICK id \in Speaks[c] : DeactivateSensor(id)
    BY <1>3 DEF Quit
  <2>2. CASE FoundAt(s, id)
    BY <2>1, <2>2, <1>2 DEF DeactivateSensor, FoundAt, Holds
  <2>3. CASE ~FoundAt(s, id)
    BY <2>1, <2>3 DEF DeactivateSensor
  <2> QED
    BY <2>2, <2>3
<1>4. CASE \E id \in Speaks[c], type \in Types : Register(c, id, type)
  <2>1. PICK id \in Speaks[c], type \in Types :
          Reactivate(id) \/ AddSensor(id, type) \/ UNCHANGED sensors
    BY <1>4 DEF Register, RegisterSensor, sensorVars
  <2>2. CASE Reactivate(id)
    <3>1. PICK t \in Slots : FoundAt(t, id) /\ sensors' = [sensors EXCEPT ![t].status = "ACTIVE"]
      BY <2>2 DEF Reactivate
    <3>2. CASE s = t
      <4>1. sensors'[s] = [sensors[s] EXCEPT !.status = "ACTIVE"] /\ sensors[s].active = 1
        BY <1>s, <3>1, <3>2 DEF FoundAt, Holds
      <4> QED
        BY <4>1, <1>2
    <3>3. CASE s # t
      BY <1>s, <3>1, <3>3
    <3> QED
      BY <3>2, <3>3
  <2>3. CASE AddSensor(id, type)
    <3>1. PICK t \in Slots : sensors' = [sensors EXCEPT ![t] = NewSensor(id, type)]
      BY <2>3 DEF AddSensor
    <3>2. s # t
      BY <1>s, <3>1 DEF NewSensor
    <3> QED
      BY <1>s, <3>1, <3>2
  <2> QED
    BY <2>1, <2>2, <2>3, <1>1
<1>5. CASE ~(\E id \in Speaks[c] : Quit(c, id))
           /\ ~(\E id \in Speaks[c], type \in Types : Register(c, id, type))
  <2>1. UNCHANGED sensors
    BY <1>5 DEF HandlerNext, Accept, HangUp, Line, BadLine, RegisterInvalid, Ping, MetricFind,
       MetricRefused, Status, Serve, RaiseAlert, AddAlert, Respond, stateVars, sensorVars
  <2> QED
    BY <2>1, <1>1
<1> QED
  BY <1>3, <1>4, <1>5

-----------------------------------------------------------------------------
\* How a handler comes to be between two calls.
LEMMA OwnMove ==
  ASSUME HandlerInv, NEW c \in Conns, HandlerNext(c), pc'[c] \in Working
  PROVE  \/ pc'[c] = "add" /\ \E id \in Speaks[c], value \in Values : MetricFind(c, id, value)
         \/ pc'[c] \in {"alert", "level"} /\ job'[c] = job[c] /\ (MetricAdd(c) \/ RaiseAlert(c))
<1> USE DEF HandlerInv, HandlerTypes, Working
<1>1. CASE Line(c)
  BY <1>1 DEF Line, BadLine, RegisterInvalid, Ping, Register, MetricFind, MetricRefused, Status,
     Quit, Answer, Goto
<1>2. CASE MetricAdd(c)
  BY <1>2 DEF MetricAdd, Answer, Goto
<1>3. CASE RaiseAlert(c)
  BY <1>3 DEF RaiseAlert, Goto
<1>4. CASE Accept(c) \/ HangUp(c) \/ SetLevel(c) \/ Respond(c)
  BY <1>4 DEF Accept, HangUp, SetLevel, Respond, Answer, Goto
<1> QED
  BY <1>1, <1>2, <1>3, <1>4 DEF HandlerNext, Serve

\* state_add_metric puts the value of the job where the sensor of the job is.
LEMMA ValueStored ==
  ASSUME HandlerInv, NEW c \in Conns, MetricAdd(c)
  PROVE  \E s \in Slots :
           /\ FoundAt(s, job[c].id)
           /\ sensors[s].type = job[c].type
           /\ sensors'[s].last_value = job[c].value
           /\ \A t \in Slots \ {s} : sensors'[t] = sensors[t]
<1>1. PICK s \in Slots : FoundAt(s, job[c].id) /\ sensors[s].type = job[c].type
  BY DEF HandlerInv, CopiedTypeIsCurrent, MetricAdd
<1>2. sensors[s] \in Sensor
  BY <1>1 DEF FoundAt, Holds, FreeSlot, HandlerInv, TableInv, StateTypeOK
<1>3. sensors'[s] = [sensors[s] EXCEPT !.last_value = job[c].value, !.last_timestamp = "ISO"]
  BY <1>1 DEF MetricAdd, AddMetric
<1>4. sensors'[s].last_value = job[c].value
  BY <1>2, <1>3 DEF Sensor
<1>5. \A t \in Slots \ {s} : sensors'[t] = sensors[t]
  BY <1>1, FoundOnce DEF MetricAdd, AddMetric
<1> QED
  BY <1>1, <1>4, <1>5

\* state_set_alert_level gives that sensor the level of the value of the job.
LEMMA LevelStored ==
  ASSUME HandlerInv, NEW c \in Conns, SetLevel(c), NEW s \in Slots
  PROVE  /\ ~FoundAt(s, job[c].id) => sensors'[s] = sensors[s]
         /\ FoundAt(s, job[c].id) =>
              /\ sensors'[s].alert_level =
                   IF Anomalous(job[c].type, job[c].value) THEN "ALERT" ELSE "NORMAL"
              /\ sensors'[s].active = sensors[s].active
              /\ sensors'[s].id = sensors[s].id
              /\ sensors'[s].type = sensors[s].type
              /\ sensors'[s].last_value = sensors[s].last_value
              /\ sensors'[s].last_timestamp = sensors[s].last_timestamp
<1> DEFINE level == IF Anomalous(job[c].type, job[c].value) THEN "ALERT" ELSE "NORMAL"
<1>1. ~FoundAt(s, job[c].id) => sensors'[s] = sensors[s]
  BY DEF SetLevel, SetAlertLevel
<1>2. ASSUME FoundAt(s, job[c].id)
      PROVE  sensors[s] \in Sensor /\ sensors'[s] = [sensors[s] EXCEPT !.alert_level = level]
  <2>1. sensors[s] \in Sensor
    BY <1>2 DEF FoundAt, Holds, FreeSlot, HandlerInv, TableInv, StateTypeOK
  <2> QED
    BY <1>2, <2>1 DEF SetLevel, SetAlertLevel
<1> QED
  BY <1>1, <1>2 DEF Sensor

-----------------------------------------------------------------------------
(* The conjuncts of OwnedInv, one at a time. *)

\* Between its calls a handler keeps working for an id of its own, whose sensor keeps the
\* value that was stored until its level is set.
LEMMA OwnedJobsStep ==
  ASSUME DisjointSpeaks, OwnedInv, NEW c \in Conns, HandlerNext(c)
  PROVE  JobsOwned' /\ ValueTaken'
<1> USE DEF OwnedInv
<1>1. HandlerInv' /\ TableInv /\ SensorsKept
  BY HandlerStep DEF TableStep, HandlerInv
<1>2. JobsOwned'
  <2> SUFFICES ASSUME NEW d \in Conns, pc'[d] \in Working PROVE job'[d].id \in Speaks[d]
    BY DEF JobsOwned
  <2>1. CASE d # c
    BY <2>1, OthersWait DEF JobsOwned
  <2>2. ASSUME d = c, NEW id \in Speaks[c], NEW value \in Values, MetricFind(c, id, value)
        PROVE  job'[d].id \in Speaks[d]
    BY <2>2 DEF MetricFind, Remember, HandlerInv, HandlerTypes
  <2>3. CASE d = c /\ job'[c] = job[c] /\ (MetricAdd(c) \/ RaiseAlert(c))
    BY <2>3 DEF JobsOwned, Working, MetricAdd, RaiseAlert
  <2> QED
    BY <2>1, <2>2, <2>3, OwnMove
<1>3. ASSUME NEW d \in Conns \ {c}, pc[d] \in Working, NEW s \in Slots, FoundAt(s, job[d].id)
      PROVE  sensors'[s] = sensors[s] /\ FoundAt(s, job[d].id)'
  <2>1. job[d].id \in Ids \ Speaks[c]
    BY <1>3, ConnsAssumption DEF JobsOwned, DisjointSpeaks
  <2>2. sensors'[s] = sensors[s]
    BY <1>3, <2>1, OthersUntouched
  <2>3. job'[d] = job[d]
    BY OthersWait
  <2> QED
    BY <1>1, <1>3, <2>2, <2>3, FoundStays DEF HandlerInv
<1>4. ValueTaken'
  <2> SUFFICES ASSUME NEW d \in Conns, pc'[d] \in {"alert", "level"}
               PROVE  \E s \in Slots : /\ FoundAt(s, job[d].id)'
                                       /\ sensors'[s].type = job'[d].type
                                       /\ sensors'[s].last_value = job'[d].value
    BY DEF ValueTaken
  <2>1. CASE d # c
    BY <1>3, <2>1, OthersWait DEF ValueTaken, Working
  <2>2. CASE d = c /\ MetricAdd(c)
    <3>1. PICK s \in Slots : /\ FoundAt(s, job[c].id)
                            /\ sensors[s].type = job[c].type
                            /\ sensors'[s].last_value = job[c].value
      BY <2>2, ValueStored
    <3>2. job'[c] = job[c]
      BY <2>2 DEF MetricAdd
    <3> QED
      BY <1>1, <2>2, <3>1, <3>2, FoundStays
  <2>3. CASE d = c /\ RaiseAlert(c)
    <3>1. UNCHANGED <<sensors, job>> /\ pc[c] = "alert"
      BY <2>3 DEF RaiseAlert, AddAlert, sensorVars
    <3> QED
      BY <2>3, <3>1 DEF ValueTaken, FoundAt, Holds
  <2> QED
    BY <2>1, <2>2, <2>3, OwnMove DEF Working
<1> QED
  BY <1>2, <1>4

\* A value is only ever stored in the slot a scan for its id stops at.
LEMMA ReportedStep ==
  ASSUME OwnedInv, NEW c \in Conns, HandlerNext(c)
  PROVE  ReportedIsFound'
<1> USE DEF OwnedInv
<1>1. TableInv /\ SensorsKept
  BY HandlerStep DEF TableStep, HandlerInv
<1> SUFFICES ASSUME NEW s \in Slots, sensors'[s].active = 1, sensors'[s].last_timestamp = "ISO"
             PROVE  FoundAt(s, sensors[s].id)'
  BY DEF ReportedIsFound
<1>2. SUFFICES sensors[s].active = 1 /\ FoundAt(s, sensors[s].id)
  BY <1>1, FoundStays DEF SensorsKept
<1>3. CASE MetricAdd(c)
  <2>1. PICK t \in Slots : FoundAt(t, job[c].id) /\ \A u \in Slots \ {t} : sensors'[u] = sensors[u]
    BY <1>3, ValueStored
  <2> QED
    BY <2>1 DEF ReportedIsFound, FoundAt, Holds
<1>4. CASE SetLevel(c)
  BY <1>4, LevelStored DEF ReportedIsFound
<1>5. CASE ~MetricAdd(c) /\ ~SetLevel(c)
  BY <1>5, ReadingsKept DEF ReportedIsFound
<1> QED
  BY <1>3, <1>4, <1>5

\* Storing a value leaves the handler on its way to state_set_alert_level, and
\* setting the level makes it that of the last value.
LEMMA LevelStep ==
  ASSUME OwnedInv, NEW c \in Conns, HandlerNext(c)
  PROVE  LevelMatchesValue'
<1> USE DEF OwnedInv
<1> SUFFICES ASSUME NEW s \in Slots, Misjudged(s)'
             PROVE  \E d \in Conns : pc'[d] \in {"alert", "level"} /\ job'[d].id = sensors'[s].id
  BY DEF LevelMatchesValue, Busy
<1>h. HandlerInv' /\ SensorsKept
  BY HandlerStep DEF TableStep
<1>m. /\ sensors'[s].active = 1 /\ sensors'[s].last_timestamp = "ISO"
      /\ ~((sensors'[s].alert_level = "ALERT") <=>
            Anomalous(sensors'[s].type, sensors'[s].last_value))
  BY DEF Misjudged, LevelAgrees, Anomalous, Above, Below
<1>b. ASSUME Misjudged(s), sensors'[s].id = sensors[s].id
      PROVE  \E d \in Conns : /\ pc[d] \in {"alert", "level"} /\ job[d].id = sensors'[s].id
                              /\ d # c => pc'[d] = pc[d] /\ job'[d] = job[d]
  BY <1>b, OthersWait DEF LevelMatchesValue, Busy
<1>1. CASE MetricAdd(c)
  <2>1. PICK t \in Slots : /\ FoundAt(t, job[c].id)
                          /\ \A u \in Slots \ {t} : sensors'[u] = sensors[u]
    BY <1>1, ValueStored
  <2>2. CASE s = t
    <3>1. AddMetricResult(job[c].id) = 0
      BY <2>1 DEF AddMetricResult, Known, FoundAt
    <3>2. pc'[c] \in {"alert", "level"} /\ job'[c] = job[c]
      BY <1>1, <3>1 DEF MetricAdd, Goto, HandlerInv, HandlerTypes
    <3>3. sensors'[s].id = job[c].id
      BY <1>h, <2>1, <2>2 DEF SensorsKept, FoundAt, Holds
    <3> QED
      BY <3>2, <3>3
  <2>3. CASE s # t
    <3>1. sensors'[s] = sensors[s] /\ Misjudged(s)
      BY <1>m, <2>1, <2>3 DEF Misjudged, LevelAgrees
    <3>2. pc[c] = "add"
      BY <1>1 DEF MetricAdd
    <3> QED
      BY <1>b, <3>1, <3>2
  <2> QED
    BY <2>2, <2>3
<1>2. CASE SetLevel(c)
  <2>1. ~FoundAt(s, job[c].id)
    <3> SUFFICES ASSUME FoundAt(s, job[c].id) PROVE FALSE
      OBVIOUS
    <3>1. sensors[s].type = job[c].type /\ sensors[s].last_value = job[c].value
      BY <1>2, FoundOnce DEF ValueTaken, SetLevel
    <3> QED
      BY <1>2, <1>m, <3>1, LevelStored
  <2>2. sensors'[s] = sensors[s] /\ Misjudged(s)
    BY <1>2, <1>m, <2>1, LevelStored DEF Misjudged, LevelAgrees
  <2>3. job[c].id # sensors[s].id
    BY <2>1, <2>2 DEF ReportedIsFound, Misjudged
  <2> QED
    BY <1>b, <2>2, <2>3
<1>3. CASE ~MetricAdd(c) /\ ~SetLevel(c)
  <2>1. sensors'[s].id = sensors[s].id /\ Misjudged(s)
    BY <1>3, <1>m, ReadingsKept DEF Misjudged, LevelAgrees
  <2>2. pc[c] \in {"alert", "level"} => pc'[c] = "level" /\ job'[c] = job[c]
    BY <1>3 DEF HandlerNext, Accept, HangUp, Line, BadLine, RegisterInvalid, Ping, Register,
       MetricFind, MetricRefused, Status, Quit, Serve, RaiseAlert, Respond, Goto,
       HandlerInv, HandlerTypes
  <2> QED
    BY <1>b, <2>1, <2>2
<1> QED
  BY <1>1, <1>2, <1>3

\* With one connection for each sensor the invariant of owned sensors holds.
LEMMA OwnedInvariant ==
  ASSUME DisjointSpeaks
  PROVE  Spec => []OwnedInv
<1>1. Init => OwnedInv
  <2> SUFFICES ASSUME Init PROVE OwnedInv
    OBVIOUS
  <2>1. HandlerInv
    BY HandlerInitially
  <2>2. (\A c \in Conns : pc[c] = "closed") /\ (\A s \in Slots : sensors[s].active # 1)
    BY DEF Init, StateInit, FreeSlot
  <2> QED
    BY <2>1, <2>2 DEF OwnedInv, JobsOwned, ValueTaken, ReportedIsFound,
       LevelMatchesValue, Misjudged, Working
<1>2. OwnedInv /\ [Next]_vars => OwnedInv'
  <2> SUFFICES ASSUME OwnedInv, [Next]_vars PROVE OwnedInv'
    OBVIOUS
  <2>1. ASSUME NEW c \in Conns, HandlerNext(c) PROVE OwnedInv'
    BY <2>1, HandlerStep, OwnedJobsStep, ReportedStep, LevelStep DEF OwnedInv
  <2>2. CASE UNCHANGED vars
    <3>1. HandlerInv'
      BY HandlerInvNext DEF OwnedInv
    <3>2. UNCHANGED <<sensors, pc, job>>
      BY <2>2 DEF vars, stateVars, handlerVars
    <3>3. JobsOwned' /\ ValueTaken' /\ ReportedIsFound'
      BY <3>2 DEF OwnedInv, JobsOwned, ValueTaken, ReportedIsFound, FoundAt, Holds
    <3>4. LevelMatchesValue'
      BY <3>2 DEF OwnedInv, LevelMatchesValue, Misjudged, LevelAgrees, Busy, Anomalous, Above, Below
    <3> QED
      BY <3>1, <3>3, <3>4 DEF OwnedInv
  <2> QED
    BY <2>1, <2>2 DEF Next
<1> QED
  BY <1>1, <1>2, PTL DEF Spec

\* If no two connections speak for one sensor, the level of every sensor is that of
\* its last value whenever no handler is inside alerts_evaluate for it.
THEOREM LevelMatches ==
  ASSUME DisjointSpeaks
  PROVE  Spec => []LevelMatchesValue
<1>1. OwnedInv => LevelMatchesValue
  BY DEF OwnedInv
<1> QED
  BY <1>1, OwnedInvariant, PTL

-----------------------------------------------------------------------------
(* 4. The service. *)

(* Circular tables listed newest first. *)

\* The row that is i - 2 places behind the newest is one further behind after a write.
LEMMA RowsShift ==
  ASSUME NEW max \in Nat \ {0}, NEW next \in 0 .. max - 1, NEW i \in 2 .. max,
         NEW adv, adv = IF next + 1 < max THEN next + 1 ELSE 0,
         NEW row, row = IF i - 2 < next THEN next - 1 - (i - 2) ELSE next - 1 - (i - 2) + max
  PROVE  /\ row = IF i - 1 < adv THEN adv - 1 - (i - 1) ELSE adv - 1 - (i - 1) + max
         /\ row \in (0 .. max - 1) \ {next}
<1>1. CASE next + 1 < max
  <2>1. adv = next + 1
    BY <1>1
  <2> QED
    BY <1>1, <2>1
<1>2. CASE next + 1 = max
  <2>1. adv = 0
    BY <1>2
  <2>2. row = next + 1 - i
    BY <1>2
  <2> QED
    BY <1>2, <2>1, <2>2
<1> QED
  BY <1>1, <1>2

\* Writing to a circular table puts a row in front of its listing.
LEMMA WrittenIsPushed ==
  ASSUME NEW max \in Nat \ {0}, NEW next \in 0 .. max - 1, NEW count \in 0 .. max,
         count < max => next = count, NEW table, NEW row,
         table = [i \in 0 .. max - 1 |-> table[i]]
  PROVE  Listing(Written(table, next, row), Saturated(count, max), Advanced(next, max), max)
           = Service!Pushed(Listing(table, count, next, max), row, max)
<1> DEFINE old == Listing(table, count, next, max)
           grown == IF count < max THEN count + 1 ELSE count
           adv == IF next + 1 < max THEN next + 1 ELSE 0
<1>1. Len(old) = count
  BY DEF Listing
<1>2. Saturated(count, max) = grown /\ grown \in 1 .. max
  BY DEF Saturated
<1>3. Advanced(next, max) = adv /\ adv \in 0 .. max - 1
  <2>1. next + 1 \in 0 .. 2 * max - 1
    OBVIOUS
  <2>2. QED
    BY <2>1, SmallRemainder DEF Advanced
<1>r. \A n \in 0 .. max - 1, j \in 0 .. max - 1 :
        Row(n, max, j) = IF j < n THEN n - 1 - j ELSE n - 1 - j + max
  BY RowIndex
<1>4. ASSUME NEW i \in 1 .. grown
      PROVE  Written(table, next, row)[Row(adv, max, i - 1)] = IF i = 1 THEN row ELSE old[i - 1]
  <2>1. i - 1 \in 0 .. max - 1
    BY <1>2
  <2>2. Row(adv, max, i - 1) = IF i - 1 < adv THEN adv - 1 - (i - 1) ELSE adv - 1 - (i - 1) + max
    <3> HIDE DEF adv
    <3> QED
      BY <2>1, <1>3, <1>r
  <2>3. CASE i = 1
    <3>1. Row(adv, max, i - 1) = next
      BY <2>2, <2>3
    <3>2. QED
      BY <2>3, <3>1 DEF Written
  <2>4. CASE i # 1
    <3>1. i - 2 \in 0 .. max - 1 /\ i - 1 \in 1 .. count
      BY <1>2, <2>4
    <3>2. Row(next, max, i - 2) = IF i - 2 < next THEN next - 1 - (i - 2) ELSE next - 1 - (i - 2) + max
      BY <3>1, <1>r
    <3>3. Row(adv, max, i - 1) = Row(next, max, i - 2)
      <4>1. i \in 2 .. max
        BY <2>1, <2>4
      <4> HIDE DEF old, grown
      <4> QED
        BY <2>2, <3>2, <4>1, RowsShift
    <3>4. Row(next, max, i - 2) \in (0 .. max - 1) \ {next}
      <4>1. i \in 2 .. max
        BY <2>1, <2>4
      <4> HIDE DEF old, grown, adv
      <4> QED
        BY <3>2, <4>1, RowsShift
    <3>5. old[i - 1] = table[Row(next, max, i - 2)]
      <4>1. old[i - 1] = table[Row(next, max, i - 1 - 1)]
        BY <3>1 DEF Listing
      <4>2. QED
        BY <4>1, <3>1
    <3>6. QED
      BY <2>4, <3>3, <3>4, <3>5 DEF Written
  <2>5. QED
    BY <2>3, <2>4
<1>5. Listing(Written(table, next, row), grown, adv, max)
        = [i \in 1 .. grown |-> IF i = 1 THEN row ELSE old[i - 1]]
  BY <1>4 DEF Listing
<1>6. Service!Pushed(old, row, max) = [i \in 1 .. grown |-> IF i = 1 THEN row ELSE old[i - 1]]
  BY <1>1 DEF Service!Pushed
<1>7. QED
  BY <1>2, <1>3, <1>5, <1>6

-----------------------------------------------------------------------------
(* The registry behind the sensor table. *)

\* A sensor that is in the table once is the one every scan for its id stops at.
LEMMA TheSlot ==
  ASSUME UniqueIds, NEW id, NEW s \in Slots, Holds(s, id)
  PROVE  Known(id) /\ FoundAt(s, id) /\ SlotOf(id) = s
<1>1. FoundAt(s, id) /\ \A t \in Slots : FoundAt(t, id) => t = s
  <2>1. \A t \in Slots : Holds(t, id) => t = s
    BY DEF UniqueIds, Holds
  <2>2. \A t \in Slots : t < s => t # s
    BY CapacityAssumption DEF Slots
  <2>3. QED
    BY <2>1, <2>2 DEF FoundAt
<1>2. SlotOf(id) \in Slots /\ FoundAt(SlotOf(id), id)
  BY <1>1 DEF SlotOf
<1>3. QED
  BY <1>1, <1>2 DEF Known

\* The same after a step.
LEMMA TheSlotNext ==
  ASSUME UniqueIds', NEW id, NEW s \in Slots, Holds(s, id)'
  PROVE  Known(id)' /\ FoundAt(s, id)' /\ SlotOf(id)' = s
<1>1. FoundAt(s, id)' /\ \A t \in Slots : FoundAt(t, id)' => t = s
  <2>1. \A t \in Slots : Holds(t, id)' => t = s
    BY DEF UniqueIds, Holds
  <2>2. \A t \in Slots : t < s => t # s
    BY CapacityAssumption DEF Slots
  <2>3. QED
    BY <2>1, <2>2 DEF FoundAt
<1>2. SlotOf(id)' \in Slots /\ FoundAt(SlotOf(id), id)'
  BY <1>1 DEF SlotOf
<1>3. QED
  BY <1>1, <1>2 DEF Known

\* A step that writes to the slot of one sensor, or to none, writes to the entry of
\* that sensor in the registry.
LEMMA OneEntryWritten ==
  ASSUME HandlerInv, UniqueIds, TableStep, UniqueIds', sensor_count' = sensor_count,
         NEW id \in Ids, NEW s \in Slots, Holds(s, id),
         \A t \in Slots \ {s} : sensors'[t] = sensors[t]
  PROVE  /\ id \in DOMAIN Registry
         /\ Registry[id] = Shown(s)
         /\ Registry' = [Registry EXCEPT ![id] = Shown(s)']
<1>1. \A t \in Slots : \A i : Holds(t, i)' <=> Holds(t, i)
  BY DEF TableStep, HandlerInv, TableInv, SensorsKept, CountMatchesTable, Holds
<1>2. \A i : Known(i)' <=> Known(i)
  BY <1>1 DEF Known
<1>3. DOMAIN Registry' = DOMAIN Registry /\ DOMAIN Registry = {i \in Ids : Known(i)}
  BY <1>2 DEF Registry
<1>4. ASSUME NEW i \in DOMAIN Registry
      PROVE  Registry'[i] = IF i = id THEN Shown(s)' ELSE Registry[i]
  <2>1. PICK t \in Slots : Holds(t, i)
    BY <1>3 DEF Known
  <2>2. SlotOf(i) = t /\ SlotOf(i)' = t
    BY <1>1, <2>1, TheSlot, TheSlotNext
  <2>3. Registry[i] = Shown(t) /\ Registry'[i] = Shown(t)'
    BY <1>2, <1>3, <2>2 DEF Registry, Shown
  <2>4. t = s <=> i = id
    BY <2>1 DEF UniqueIds, Holds
  <2>5. t # s => Shown(t)' = Shown(t)
    BY DEF Shown
  <2>6. QED
    BY <2>3, <2>4, <2>5
<1>5. Known(id) /\ SlotOf(id) = s
  BY TheSlot
<1>6. id \in DOMAIN Registry /\ Registry[id] = Shown(s)
  BY <1>3, <1>5 DEF Registry
<1>7. QED
  BY <1>3, <1>4, <1>6 DEF Registry

\* A step that leaves the table alone leaves the registry alone.
LEMMA RegistryKept ==
  ASSUME UNCHANGED sensors
  PROVE  Registry' = Registry
BY DEF Registry, SlotOf, Shown, Known, FoundAt, Holds

\* The registry has no more entries than slots are in use.
LEMMA RegistrySize ==
  ASSUME HandlerInv
  PROVE  Cardinality(DOMAIN Registry) \in Nat /\ Cardinality(DOMAIN Registry) <= sensor_count
<1> DEFINE used == 0 .. sensor_count - 1
           ids == {i \in Ids : Known(i)}
           f == [s \in used |-> sensors[s].id]
<1>1. sensor_count \in 0 .. MaxSensors /\ used \subseteq Slots
  BY CapacityAssumption DEF HandlerInv, TableInv, StateTypeOK, Slots
<1>2. \A s \in Slots : sensors[s].active = 1 <=> s \in used
  BY <1>1 DEF HandlerInv, TableInv, CountMatchesTable, Slots
<1>3. \A s \in used : sensors[s].id \in ids
  <2>1. \A s \in Slots : sensors[s].active = 1 => sensors[s].id \in Ids
    BY DEF HandlerInv, TableInv, StateTypeOK, FreeSlot, Sensor
  <2>2. QED
    BY <2>1, <1>1, <1>2 DEF Known, Holds
<1>4. \A i \in ids : \E s \in used : sensors[s].id = i
  BY <1>2 DEF Known, Holds
<1>5. f \in Surjection(used, ids)
  BY <1>3, <1>4 DEF Surjection
<1>6. IsFiniteSet(used) /\ Cardinality(used) = sensor_count
  BY <1>1, FS_Interval
<1>7. IsFiniteSet(ids) /\ Cardinality(ids) <= Cardinality(used)
  BY <1>5, <1>6, FS_Surjection
<1>8. DOMAIN Registry = ids
  BY DEF Registry
<1>9. QED
  BY <1>6, <1>7, <1>8, FS_CardinalityType

-----------------------------------------------------------------------------
(* One lemma per promise.  ServiceInv is what they need of the state. *)

ServiceInv == HandlerInv /\ UniqueIds

Owed(id, value, owes) == [id |-> id, value |-> value, owes |-> owes]

\* A step of handler c changes what c owes and nobody else's dues.
LEMMA DueAfter ==
  ASSUME HandlerInv, NEW c \in Conns, NEW l \in PCs, pc' = [pc EXCEPT ![c] = l],
         \A d \in Conns : d # c => job'[d] = job[d]
  PROVE  Due' = [Due EXCEPT ![c] = IF l \in {"alert", "level"}
                                   THEN Owed(job'[c].id, job'[c].value, l)
                                   ELSE Service!NothingDue]
<1>1. pc \in [Conns -> PCs]
  BY DEF HandlerInv, HandlerTypes
<1>2. QED
  BY <1>1 DEF Due, Owed, Service!NothingDue

\* Steps that touch neither the tables nor what is owed.
LEMMA NothingPromised ==
  ASSUME ServiceInv, UNCHANGED stateVars, NEW c \in Conns, NEW l \in PCs \ {"alert", "level"},
         pc[c] \notin {"alert", "level"}, pc' = [pc EXCEPT ![c] = l],
         \A d \in Conns : d # c => job'[d] = job[d]
  PROVE  UNCHANGED Service!serviceVars
<1>1. Due' = [Due EXCEPT ![c] = Service!NothingDue]
  BY DueAfter DEF ServiceInv
<1>2. Due[c] = Service!NothingDue /\ Due = [d \in Conns |-> Due[d]]
  BY DEF Due, Service!NothingDue
<1>3. Due' = Due
  BY <1>1, <1>2
<1>4. QED
  BY <1>3, RegistryKept DEF stateVars, MetricLog, AlertLog, Service!serviceVars

\* What an abstract step leaves alone when the circular tables are left alone.
LEMMA LogsKept ==
  ASSUME UNCHANGED <<metricVars, alertVars>>
  PROVE  UNCHANGED <<MetricLog, AlertLog>>
BY DEF metricVars, alertVars, MetricLog, AlertLog

\* REGISTER of a new id.
LEMMA Joins ==
  ASSUME ServiceInv, TableStep, UniqueIds', IdsFit, NEW id \in Ids, NEW type \in Types,
         AddSensor(id, type), UNCHANGED <<metricVars, alertVars>>, Due' = Due
  PROVE  Service!Join(id, type)
<1>1. PICK s \in Slots : FreeAt(s) /\ sensors' = [sensors EXCEPT ![s] = NewSensor(id, type)]
  BY DEF AddSensor
<1>2. sensors \in [Slots -> Sensor \cup {FreeSlot}]
  BY DEF ServiceInv, HandlerInv, TableInv, StateTypeOK
<1>3. sensors'[s] = NewSensor(id, type) /\ \A t \in Slots \ {s} : sensors'[t] = sensors[t]
  BY <1>1, <1>2
<1>4. Holds(s, id)' /\ \A i : ~Holds(s, i)
  BY <1>1, <1>3 DEF Holds, NewSensor, FreeAt, IdsFit
<1>5. \A t \in Slots : \A i : Holds(t, i)' <=> (t = s /\ i = id) \/ Holds(t, i)
  BY <1>3, <1>4 DEF Holds, NewSensor, IdsFit
<1>6. \A i : Known(i)' <=> i = id \/ Known(i)
  BY <1>5 DEF Known
<1>7. DOMAIN Registry = {i \in Ids : Known(i)} /\ DOMAIN Registry' = DOMAIN Registry \cup {id}
  BY <1>6 DEF Registry
<1>8. id \notin DOMAIN Registry
  BY <1>7 DEF AddSensor
<1>9. Registry'[id] = Service!Newcomer(type)
  <2>1. SlotOf(id)' = s
    BY <1>4, TheSlotNext
  <2>2. Registry'[id] = Shown(s)'
    BY <1>7, <2>1, <1>6 DEF Registry, Shown
  <2>3. QED
    BY <2>2, <1>3 DEF Shown, NewSensor, Service!Newcomer
<1>10. ASSUME NEW i \in DOMAIN Registry
       PROVE  Registry'[i] = Registry[i]
  <2>1. PICK t \in Slots : Holds(t, i)
    BY <1>7 DEF Known
  <2>2. SlotOf(i) = t /\ SlotOf(i)' = t /\ Known(i) /\ Known(i)'
    BY <1>5, <2>1, TheSlot, TheSlotNext DEF ServiceInv
  <2>3. Registry[i] = Shown(t) /\ Registry'[i] = Shown(t)'
    BY <1>7, <2>2 DEF Registry, Shown
  <2>4. sensors'[t] = sensors[t]
    BY <1>3, <1>4, <2>1
  <2>5. QED
    BY <2>3, <2>4 DEF Shown
<1>11. Registry' = [i \in DOMAIN Registry \cup {id} |->
                      IF i = id THEN Service!Newcomer(type) ELSE Registry[i]]
  BY <1>7, <1>8, <1>9, <1>10 DEF Registry
<1>12. Cardinality(DOMAIN Registry) < MaxSensors
  <2>1. sensor_count' = sensor_count + 1 /\ sensor_count' \in 0 .. MaxSensors
    BY CapacityAssumption DEF AddSensor, TableStep, TableInv, StateTypeOK
  <2>2. sensor_count \in 0 .. MaxSensors
    BY DEF ServiceInv, HandlerInv, TableInv, StateTypeOK
  <2>3. Cardinality(DOMAIN Registry) \in Nat /\ Cardinality(DOMAIN Registry) <= sensor_count
    BY RegistrySize DEF ServiceInv
  <2>4. QED
    BY <2>1, <2>2, <2>3, CapacityAssumption
<1>13. UNCHANGED <<MetricLog, AlertLog, Due>>
  BY LogsKept
<1>14. Service!Cardinality(DOMAIN Registry) = Cardinality(DOMAIN Registry)
  BY DEF Service!Cardinality, Cardinality
<1>15. QED
  BY <1>8, <1>11, <1>12, <1>13, <1>14, Zenon DEF Service!Join

\* A write of the status of a sensor is one of the status of its entry.
LEMMA StatusWritten ==
  ASSUME ServiceInv, TableStep, UniqueIds', sensor_count' = sensor_count,
         NEW id \in Ids, NEW s \in Slots, Holds(s, id), NEW new,
         sensors' = [sensors EXCEPT ![s] = [sensors[s] EXCEPT !.status = new]]
  PROVE  /\ id \in DOMAIN Registry
         /\ Registry[id].type = sensors[s].type
         /\ Registry' = [Registry EXCEPT ![id].status = new]
<1>1. sensors \in [Slots -> Sensor \cup {FreeSlot}] /\ sensors[s] \in Sensor
  BY DEF ServiceInv, HandlerInv, TableInv, StateTypeOK, Holds, FreeSlot
<1>2. \A t \in Slots \ {s} : sensors'[t] = sensors[t]
  BY <1>1
<1>3. /\ id \in DOMAIN Registry
      /\ Registry[id] = Shown(s)
      /\ Registry' = [Registry EXCEPT ![id] = Shown(s)']
  BY <1>2, OneEntryWritten DEF ServiceInv
<1>4. sensors'[s] = [sensors[s] EXCEPT !.status = new]
  BY <1>1
<1>5. Shown(s)' = [type |-> sensors[s].type, status |-> new, level |-> sensors[s].alert_level,
                   value |-> sensors[s].last_value, timestamp |-> sensors[s].last_timestamp]
  BY <1>1, <1>4 DEF Shown, Sensor
<1>6. Shown(s)' = [Shown(s) EXCEPT !.status = new]
  BY <1>5 DEF Shown
<1>7. Registry[id].type = sensors[s].type
  BY <1>3 DEF Shown
<1>8. QED
  BY <1>3, <1>6, <1>7

\* A write of the level of a sensor is one of the level of its entry.
LEMMA LevelWritten ==
  ASSUME ServiceInv, TableStep, UniqueIds', sensor_count' = sensor_count,
         NEW id \in Ids, NEW s \in Slots, Holds(s, id), NEW new,
         sensors' = [sensors EXCEPT ![s] = [sensors[s] EXCEPT !.alert_level = new]]
  PROVE  /\ id \in DOMAIN Registry
         /\ Registry[id].type = sensors[s].type
         /\ Registry' = [Registry EXCEPT ![id].level = new]
<1>1. sensors \in [Slots -> Sensor \cup {FreeSlot}] /\ sensors[s] \in Sensor
  BY DEF ServiceInv, HandlerInv, TableInv, StateTypeOK, Holds, FreeSlot
<1>2. \A t \in Slots \ {s} : sensors'[t] = sensors[t]
  BY <1>1
<1>3. /\ id \in DOMAIN Registry
      /\ Registry[id] = Shown(s)
      /\ Registry' = [Registry EXCEPT ![id] = Shown(s)']
  BY <1>2, OneEntryWritten DEF ServiceInv
<1>4. sensors'[s] = [sensors[s] EXCEPT !.alert_level = new]
  BY <1>1
<1>5. Shown(s)' = [type |-> sensors[s].type, status |-> sensors[s].status, level |-> new,
                   value |-> sensors[s].last_value, timestamp |-> sensors[s].last_timestamp]
  BY <1>1, <1>4 DEF Shown, Sensor
<1>6. Shown(s)' = [Shown(s) EXCEPT !.level = new]
  BY <1>5 DEF Shown
<1>7. Registry[id].type = sensors[s].type
  BY <1>3 DEF Shown
<1>8. QED
  BY <1>3, <1>6, <1>7

\* Where the scan for an id stops.
LEMMA FoundSlot ==
  ASSUME UniqueIds, NEW id, Known(id)
  PROVE  \E s \in Slots : Holds(s, id) /\ FoundAt(s, id)
BY TheSlot DEF Known

\* REGISTER of an inactive sensor.
LEMMA Resumes ==
  ASSUME ServiceInv, TableStep, UniqueIds', NEW id \in Ids,
         Reactivate(id), UNCHANGED <<metricVars, alertVars>>, Due' = Due
  PROVE  Service!SetStatus(id, "ACTIVE")
<1>1. PICK s \in Slots : FoundAt(s, id) /\ sensors' = [sensors EXCEPT ![s].status = "ACTIVE"]
  BY DEF Reactivate
<1>2. Holds(s, id) /\ sensor_count' = sensor_count
  BY <1>1 DEF FoundAt, Reactivate
<1>3. id \in DOMAIN Registry /\ Registry' = [Registry EXCEPT ![id].status = "ACTIVE"]
  BY <1>1, <1>2, StatusWritten
<1>4. QED
  BY <1>3, LogsKept DEF Service!SetStatus

\* QUIT for a known id.
LEMMA ReportEnds ==
  ASSUME ServiceInv, TableStep, UniqueIds', NEW id \in Ids, Known(id),
         DeactivateSensor(id), Due' = Due
  PROVE  Service!SetStatus(id, "INACTIVE")
<1>1. PICK s \in Slots : Holds(s, id) /\ FoundAt(s, id)
  BY FoundSlot DEF ServiceInv
<1>2. sensors \in [Slots -> Sensor \cup {FreeSlot}] /\ sensors[s] \in Sensor
  BY <1>1 DEF ServiceInv, HandlerInv, TableInv, StateTypeOK, Holds, FreeSlot
<1>3. \A t \in Slots : FoundAt(t, id) <=> t = s
  BY <1>1, TheSlot DEF ServiceInv, FoundAt
<1>4. sensors' = [sensors EXCEPT ![s] = [sensors[s] EXCEPT !.status = "INACTIVE"]]
  BY <1>2, <1>3 DEF DeactivateSensor
<1>5. sensor_count' = sensor_count
  BY DEF DeactivateSensor
<1>6. id \in DOMAIN Registry /\ Registry' = [Registry EXCEPT ![id].status = "INACTIVE"]
  BY <1>1, <1>4, <1>5, StatusWritten
<1>7. QED
  BY <1>6, LogsKept DEF Service!SetStatus, DeactivateSensor

\* The slot of the sensor a handler works for.
LEMMA JobSlot ==
  ASSUME ServiceInv, NEW c \in Conns, pc[c] \in Working
  PROVE  /\ job[c] \in FullJob
         /\ \E s \in Slots : /\ Holds(s, job[c].id) /\ sensors[s].type = job[c].type
                             /\ sensors[s] \in Sensor
                             /\ \A t \in Slots : FoundAt(t, job[c].id) <=> t = s
<1>1. PICK s \in Slots : FoundAt(s, job[c].id) /\ sensors[s].type = job[c].type
  BY DEF ServiceInv, HandlerInv, CopiedTypeIsCurrent, Working
<1>2. \A t \in Slots : FoundAt(t, job[c].id) <=> t = s
  BY <1>1, TheSlot DEF ServiceInv, FoundAt
<1>3. sensors[s] \in Sensor
  BY <1>1 DEF ServiceInv, HandlerInv, TableInv, StateTypeOK, FoundAt, Holds, FreeSlot
<1>4. QED
  BY <1>1, <1>2, <1>3 DEF ServiceInv, HandlerInv, JobsComplete, FoundAt

\* The level of the sensor a handler works for is set.
LEMMA Settles ==
  ASSUME ServiceInv, TableStep, UniqueIds', NEW c \in Conns, SetLevel(c)
  PROVE  Service!Settle(c)
<1> DEFINE id == job[c].id
           level == IF Anomalous(job[c].type, job[c].value) THEN "ALERT" ELSE "NORMAL"
<1>1. pc[c] = "level" /\ SetAlertLevel(id, level) /\ UNCHANGED job /\ pc' = [pc EXCEPT ![c] = "send"]
  BY DEF SetLevel, Answer, Goto
<1>2. job[c] \in FullJob
  BY <1>1, JobSlot DEF Working
<1>3. PICK s \in Slots : /\ Holds(s, id) /\ sensors[s].type = job[c].type /\ sensors[s] \in Sensor
                         /\ \A t \in Slots : FoundAt(t, id) <=> t = s
  BY <1>1, JobSlot DEF Working
<1>4. Due[c] = Owed(id, job[c].value, "level") /\ Due' = [Due EXCEPT ![c] = Service!NothingDue]
  BY <1>1, DueAfter DEF PCs, ServiceInv, Due, Owed
<1>5. sensors' = [sensors EXCEPT ![s] = [sensors[s] EXCEPT !.alert_level = level]]
  <2>1. sensors \in [Slots -> Sensor \cup {FreeSlot}]
    BY DEF ServiceInv, HandlerInv, TableInv, StateTypeOK
  <2> HIDE DEF level
  <2>2. QED
    BY <1>1, <1>3, <2>1 DEF SetAlertLevel
<1>6. /\ id \in DOMAIN Registry /\ Registry[id].type = job[c].type
      /\ Registry' = [Registry EXCEPT ![id].level = level]
  <2>1. sensor_count' = sensor_count /\ id \in Ids
    BY <1>1, <1>2 DEF SetAlertLevel, FullJob
  <2> HIDE DEF level, id
  <2>2. QED
    BY <1>3, <1>5, <2>1, LevelWritten
<1>7. UNCHANGED <<MetricLog, AlertLog>>
  BY <1>1, LogsKept DEF SetAlertLevel
<1>8. Due[c].id = id /\ Due[c].value = job[c].value /\ Due[c].owes = "level"
  BY <1>4 DEF Owed
<1>9. QED
  BY <1>4, <1>6, <1>7, <1>8 DEF Service!Settle

\* The alert of a handler is raised.
LEMMA Alarms ==
  ASSUME ServiceInv, IdsFit, NEW c \in Conns, RaiseAlert(c)
  PROVE  Service!Alarm(c)
<1>1. pc[c] = "alert" /\ UNCHANGED job /\ pc' = [pc EXCEPT ![c] = "level"]
  BY DEF RaiseAlert, Goto
<1>2. job[c] \in FullJob
  BY <1>1, JobSlot DEF Working
<1>3. PICK s \in Slots : /\ Holds(s, job[c].id) /\ sensors[s].type = job[c].type
                         /\ \A t \in Slots : FoundAt(t, job[c].id) <=> t = s
  BY <1>1, JobSlot DEF Working
<1>4. Due[c] = Owed(job[c].id, job[c].value, "alert")
  BY <1>1 DEF Due, Owed
<1>5. Due' = [Due EXCEPT ![c].owes = "level"]
  <2>1. Due' = [Due EXCEPT ![c] = Owed(job[c].id, job[c].value, "level")]
    BY <1>1, DueAfter DEF PCs, ServiceInv
  <2>2. [Due[c] EXCEPT !.owes = "level"] = Owed(job[c].id, job[c].value, "level")
    BY <1>4 DEF Owed
  <2>3. QED
    BY <2>1, <2>2
<1>6. Registry[job[c].id].type = job[c].type
  <2>1. Known(job[c].id) /\ SlotOf(job[c].id) = s
    BY <1>3, TheSlot DEF ServiceInv
  <2>2. QED
    BY <1>2, <1>3, <2>1 DEF Registry, Shown, FullJob
<1>7. RowOf(c) = Service!Row(job[c].id, job[c].value)
  BY <1>2, <1>6, IdsFit DEF RowOf, Service!Row, IdsFit, FullJob
<1>8. AlertLog' = Service!Pushed(AlertLog, RowOf(c), MaxAlerts)
  <2>1. /\ alerts' = Written(alerts, alert_next, RowOf(c))
        /\ alert_next' = Advanced(alert_next, MaxAlerts)
        /\ alert_count' = Saturated(alert_count, MaxAlerts)
    BY AlertWritten DEF ServiceInv
  <2>2. /\ MaxAlerts \in Nat \ {0} /\ alert_next \in 0 .. MaxAlerts - 1
        /\ alert_count \in 0 .. MaxAlerts
        /\ alert_count < MaxAlerts => alert_next = alert_count
        /\ alerts = [i \in 0 .. MaxAlerts - 1 |-> alerts[i]]
    BY CapacityAssumption DEF ServiceInv, HandlerInv, TableInv, StateTypeOK
  <2>3. Listing(Written(alerts, alert_next, RowOf(c)), Saturated(alert_count, MaxAlerts),
                Advanced(alert_next, MaxAlerts), MaxAlerts)
          = Service!Pushed(Listing(alerts, alert_count, alert_next, MaxAlerts), RowOf(c), MaxAlerts)
    BY <2>2, WrittenIsPushed
  <2>4. QED
    BY <2>1, <2>3 DEF AlertLog
<1>9. Registry' = Registry /\ MetricLog' = MetricLog
  <2>1. UNCHANGED <<sensorVars, metricVars>>
    BY AlertWritten DEF ServiceInv
  <2>2. QED
    BY <2>1, RegistryKept DEF sensorVars, metricVars, MetricLog
<1>10. Due[c].id = job[c].id /\ Due[c].value = job[c].value /\ Due[c].owes = "alert"
  BY <1>4 DEF Owed
<1>11. QED
  BY <1>5, <1>7, <1>8, <1>9, <1>10 DEF Service!Alarm

\* A metric is stored.
LEMMA Reports ==
  ASSUME ServiceInv, TableStep, UniqueIds', IdsFit, NEW c \in Conns, MetricAdd(c)
  PROVE  Service!Report(c, job[c].id, job[c].value)
<1> DEFINE id == job[c].id
           value == job[c].value
<1>1. pc[c] = "add" /\ AddMetric(id, value, job[c].type) /\ UNCHANGED job
  BY DEF MetricAdd
<1>2. job[c] \in FullJob /\ id \in Ids
  BY <1>1, JobSlot DEF Working, FullJob
<1>3. PICK s \in Slots : /\ Holds(s, id) /\ sensors[s].type = job[c].type /\ sensors[s] \in Sensor
                         /\ \A t \in Slots : FoundAt(t, id) <=> t = s
  BY <1>1, JobSlot DEF Working
<1>4. pc' = [pc EXCEPT ![c] = IF Anomalous(job[c].type, value) THEN "alert" ELSE "level"]
  <2>1. AddMetricResult(id) = 0
    BY <1>3 DEF AddMetricResult, Known
  <2>2. QED
    BY <2>1 DEF MetricAdd, Goto
<1>5. Due[c] = Service!NothingDue
  BY <1>1 DEF Due, Service!NothingDue
<1>6. Due' = [Due EXCEPT ![c] =
        Owed(id, value, IF Anomalous(job[c].type, value) THEN "alert" ELSE "level")]
  BY <1>1, <1>4, DueAfter DEF PCs, ServiceInv
<1>7. sensors'[s] = [sensors[s] EXCEPT !.last_value = value, !.last_timestamp = "ISO"]
  BY <1>1, <1>3 DEF AddMetric
<1>8. \A t \in Slots \ {s} : sensors'[t] = sensors[t]
  BY <1>1, <1>3 DEF AddMetric
<1>9. /\ id \in DOMAIN Registry
      /\ Registry[id] = Shown(s)
      /\ Registry' = [Registry EXCEPT ![id] = Shown(s)']
  <2>1. sensor_count' = sensor_count
    BY <1>1 DEF AddMetric
  <2> HIDE DEF id
  <2>2. QED
    BY <1>2, <1>3, <1>8, <2>1, OneEntryWritten DEF ServiceInv
<1>10. Shown(s)' = [type |-> sensors[s].type, status |-> sensors[s].status,
                    level |-> sensors[s].alert_level, value |-> value, timestamp |-> "ISO"]
  BY <1>3, <1>7 DEF Shown, Sensor
<1>11. Shown(s)' = [[Shown(s) EXCEPT !.value = value] EXCEPT !.timestamp = "ISO"]
  <2> DEFINE half == [type |-> sensors[s].type, status |-> sensors[s].status,
                      level |-> sensors[s].alert_level, value |-> value,
                      timestamp |-> sensors[s].last_timestamp]
  <2>1. [Shown(s) EXCEPT !.value = value] = half
    BY DEF Shown
  <2>2. [half EXCEPT !.timestamp = "ISO"] = Shown(s)'
    BY <1>10
  <2> HIDE DEF half
  <2>3. QED
    BY <2>1, <2>2
<1>12. Registry' = [Registry EXCEPT ![id].value = value, ![id].timestamp = "ISO"]
  <2>1. Registry = [i \in DOMAIN Registry |-> Registry[i]]
    BY DEF Registry
  <2> DEFINE once == [Registry EXCEPT ![id].value = value]
  <2>2. once[id] = [Shown(s) EXCEPT !.value = value] /\ once = [Registry EXCEPT ![id] = once[id]]
    BY <1>9, <2>1
  <2>3. [once EXCEPT ![id].timestamp = "ISO"] = [Registry EXCEPT ![id] = Shown(s)']
    BY <1>9, <1>11, <2>1, <2>2
  <2>4. QED
    BY <1>9, <2>3
<1>13. Registry[id].type = job[c].type
  BY <1>3, <1>9 DEF Shown
<1>14. RowOf(c) = Service!Row(id, value)
  BY <1>2, <1>13, IdsFit DEF RowOf, Service!Row, IdsFit
<1>15. MetricLog' = Service!Pushed(MetricLog, RowOf(c), MaxMetrics)
  <2>1. /\ metrics' = Written(metrics, metric_next, RowOf(c))
        /\ metric_next' = Advanced(metric_next, MaxMetrics)
        /\ metric_count' = Saturated(metric_count, MaxMetrics)
    BY MetricWritten DEF ServiceInv
  <2>2. /\ MaxMetrics \in Nat \ {0} /\ metric_next \in 0 .. MaxMetrics - 1
        /\ metric_count \in 0 .. MaxMetrics
        /\ metric_count < MaxMetrics => metric_next = metric_count
        /\ metrics = [i \in 0 .. MaxMetrics - 1 |-> metrics[i]]
    BY CapacityAssumption DEF ServiceInv, HandlerInv, TableInv, StateTypeOK
  <2>3. Listing(Written(metrics, metric_next, RowOf(c)), Saturated(metric_count, MaxMetrics),
                Advanced(metric_next, MaxMetrics), MaxMetrics)
          = Service!Pushed(Listing(metrics, metric_count, metric_next, MaxMetrics), RowOf(c), MaxMetrics)
    BY <2>2, WrittenIsPushed
  <2>4. QED
    BY <2>1, <2>3 DEF MetricLog
<1>16. AlertLog' = AlertLog
  BY <1>1 DEF AddMetric, alertVars, AlertLog
<1>17. QED
  <2> HIDE DEF id, value
  <2>1. QED
    BY <1>5, <1>6, <1>9, <1>12, <1>13, <1>14, <1>15, <1>16 DEF Service!Report, Owed, id, value

-----------------------------------------------------------------------------
\* The tables are empty to begin with, and nothing is owed.
LEMMA ServiceInitially == Init => Service!Init
<1> SUFFICES ASSUME Init PROVE Service!Init
  OBVIOUS
<1>1. \A id : ~Known(id)
  BY DEF Init, StateInit, FreeSlot, Known, Holds
<1>2. Registry = [id \in {} |-> Service!Newcomer("TEMP")]
  BY <1>1 DEF Registry
<1>3. MetricLog = <<>> /\ AlertLog = <<>>
  BY DEF Init, StateInit, MetricLog, AlertLog, Listing
<1>4. Due = [c \in Conns |-> Service!NothingDue]
  BY DEF Init, Due, Service!NothingDue
<1>5. QED
  BY <1>2, <1>3, <1>4 DEF Service!Init

\* A line other than METRIC, and the checks of METRIC.
LEMMA LinePromise ==
  ASSUME ServiceInv, TableStep, UniqueIds', IdsFit, NEW c \in Conns, Line(c)
  PROVE  [Service!Next]_(Service!serviceVars)
<1>1. pc[c] = "recv"
  BY DEF Line, BadLine, RegisterInvalid, Ping, Register, MetricFind, MetricRefused, Status, Quit
<1>2. pc[c] \notin {"alert", "level"}
  BY <1>1
<1>3. \A l \in PCs \ {"alert", "level"} :
        pc' = [pc EXCEPT ![c] = l] /\ (\A d \in Conns : d # c => job'[d] = job[d]) => Due' = Due
  <2> SUFFICES ASSUME NEW l \in PCs \ {"alert", "level"}, pc' = [pc EXCEPT ![c] = l],
                      \A d \in Conns : d # c => job'[d] = job[d]
               PROVE  Due' = Due
    OBVIOUS
  <2>1. Due' = [Due EXCEPT ![c] = Service!NothingDue]
    BY DueAfter DEF ServiceInv
  <2>2. Due[c] = Service!NothingDue /\ Due = [d \in Conns |-> Due[d]]
    BY <1>2 DEF Due, Service!NothingDue
  <2>3. QED
    BY <2>1, <2>2
<1>4. job \in [Conns -> Job \cup {NoJob}] /\ pc \in [Conns -> PCs]
  BY DEF ServiceInv, HandlerInv, HandlerTypes
<1>5. CASE BadLine(c) \/ RegisterInvalid(c) \/ Ping(c)
  <2>1. UNCHANGED stateVars /\ UNCHANGED job /\ pc' = [pc EXCEPT ![c] = "send"]
    BY <1>5 DEF BadLine, RegisterInvalid, Ping, Answer, Goto
  <2>2. QED
    BY <1>2, <2>1, NothingPromised DEF PCs
<1>6. ASSUME NEW id \in Speaks[c], MetricRefused(c, id) \/ Status(c, id)
      PROVE  UNCHANGED Service!serviceVars
  <2>1. UNCHANGED stateVars /\ UNCHANGED job /\ pc' = [pc EXCEPT ![c] = "send"]
    BY <1>6 DEF MetricRefused, Status, Answer, Goto
  <2>2. QED
    BY <1>2, <2>1, NothingPromised DEF PCs
<1>7. ASSUME NEW id \in Speaks[c], NEW value \in Values, MetricFind(c, id, value)
      PROVE  UNCHANGED Service!serviceVars
  <2>1. UNCHANGED stateVars /\ pc' = [pc EXCEPT ![c] = "add"]
    BY <1>7 DEF MetricFind, Goto
  <2>2. \A d \in Conns : d # c => job'[d] = job[d]
    BY <1>7, <1>4 DEF MetricFind, Remember
  <2>3. QED
    BY <1>2, <2>1, <2>2, NothingPromised DEF PCs
<1>8. ASSUME NEW id \in Speaks[c], NEW type \in Types, Register(c, id, type)
      PROVE  [Service!Next]_(Service!serviceVars)
  <2>1. pc' = [pc EXCEPT ![c] = "send"] /\ \A d \in Conns : d # c => job'[d] = job[d]
    BY <1>8, <1>4 DEF Register, Remember, Answer, Goto
  <2>2. Due' = Due /\ id \in Ids
    BY <1>3, <2>1, ConnsAssumption DEF PCs
  <2>3. PICK result \in {0, -1, -2} : RegisterSensor(id, type, result)
    BY <1>8 DEF Register
  <2>4. UNCHANGED <<metricVars, alertVars>>
    BY <2>3 DEF RegisterSensor
  <2>5. CASE Reactivate(id)
    BY <2>2, <2>4, <2>5, Resumes DEF Service!Next
  <2>6. CASE AddSensor(id, type)
    BY <2>2, <2>4, <2>6, Joins DEF Service!Next
  <2>7. CASE UNCHANGED sensorVars
    BY <2>2, <2>4, <2>7, RegistryKept, LogsKept DEF sensorVars, Service!serviceVars
  <2>8. QED
    BY <2>3, <2>5, <2>6, <2>7 DEF RegisterSensor
<1>9. ASSUME NEW id \in Speaks[c], Quit(c, id)
      PROVE  [Service!Next]_(Service!serviceVars)
  <2>1. pc' = [pc EXCEPT ![c] = "send"] /\ \A d \in Conns : d # c => job'[d] = job[d]
    BY <1>9, <1>4 DEF Quit, Remember, Answer, Goto
  <2>2. Due' = Due /\ id \in Ids
    BY <1>3, <2>1, ConnsAssumption DEF PCs
  <2>3. DeactivateSensor(id)
    BY <1>9 DEF Quit
  <2>4. CASE Known(id)
    BY <2>2, <2>3, <2>4, ReportEnds DEF Service!Next
  <2>5. CASE ~Known(id)
    <3>1. UNCHANGED sensors
      <4>1. \A s \in Slots : ~FoundAt(s, id)
        BY <2>5 DEF Known, FoundAt
      <4>2. sensors = [s \in Slots |-> sensors[s]]
        BY DEF ServiceInv, HandlerInv, TableInv, StateTypeOK
      <4>3. QED
        BY <2>3, <4>1, <4>2 DEF DeactivateSensor
    <3>2. QED
      BY <2>2, <2>3, <3>1, RegistryKept, LogsKept DEF DeactivateSensor, Service!serviceVars
  <2>6. QED
    BY <2>4, <2>5
<1>10. QED
  BY <1>5, <1>6, <1>7, <1>8, <1>9, <1>1, NothingPromised DEF Line, PCs

\* Every step of the handlers is a step of the service or none.
LEMMA ServiceNext ==
  ASSUME ServiceInv, IdsFit, UniqueIds', [Next]_vars
  PROVE  [Service!Next]_(Service!serviceVars)
<1>1. TableStep
  BY HandlerInvNext DEF ServiceInv
<1>2. job \in [Conns -> Job \cup {NoJob}] /\ pc \in [Conns -> PCs]
  BY DEF ServiceInv, HandlerInv, HandlerTypes
<1>3. ASSUME NEW c \in Conns, HandlerNext(c)
      PROVE  [Service!Next]_(Service!serviceVars)
  <2>1. CASE Line(c)
    BY <1>1, <2>1, LinePromise
  <2>2. CASE Accept(c)
    BY <2>2, NothingPromised DEF Accept, Goto, PCs
  <2>3. CASE HangUp(c)
    BY <2>3, NothingPromised DEF HangUp, Goto, PCs
  <2>4. CASE Respond(c)
    <3>1. \A d \in Conns : d # c => job'[d] = job[d]
      BY <1>2, <2>4 DEF Respond
    <3>2. PICK l \in {"closed", "recv"} : pc' = [pc EXCEPT ![c] = l]
      BY <2>4 DEF Respond, Goto
    <3>3. pc[c] = "send" /\ UNCHANGED stateVars
      BY <2>4 DEF Respond
    <3>4. QED
      BY <3>1, <3>2, <3>3, NothingPromised DEF PCs
  <2>5. CASE MetricAdd(c)
    <3>1. job[c].id \in Ids /\ job[c].value \in Values
      BY <2>5, JobSlot DEF MetricAdd, Working, FullJob
    <3>2. QED
      BY <1>1, <2>5, <3>1, Reports DEF Service!Next
  <2>6. CASE RaiseAlert(c)
    BY <2>6, Alarms DEF Service!Next
  <2>7. CASE SetLevel(c)
    BY <1>1, <2>7, Settles DEF Service!Next
  <2>8. QED
    BY <1>3, <2>1, <2>2, <2>3, <2>4, <2>5, <2>6, <2>7 DEF HandlerNext, Serve
<1>4. CASE UNCHANGED vars
  BY <1>4, RegistryKept DEF vars, stateVars, handlerVars, Due, MetricLog, AlertLog, Service!serviceVars
<1>5. QED
  BY <1>3, <1>4 DEF Next

\* The handlers implement the service: whatever they do is what a registry of sensors
\* and two logs, newest row first, would do.
THEOREM Refinement ==
  ASSUME IdsFit
  PROVE  Spec => ImplementsService
<1>1. Init => Service!Init
  BY ServiceInitially
<1>2. HandlerInv /\ UniqueIds /\ UniqueIds' /\ [Next]_vars => [Service!Next]_(Service!serviceVars)
  BY ServiceNext DEF ServiceInv
<1>3. Spec => []HandlerInv /\ []UniqueIds
  BY HandlerInvariant, IdsAreUnique
<1>4. QED
  BY <1>1, <1>2, <1>3, PTL DEF Spec, ImplementsService, Service!Spec
=============================================================================
