------------------------------ MODULE HttpPages ------------------------------
(***************************************************************************)
(* The operator console (server/src/http_server.c) over the running        *)
(* sensor handlers.  http_server_start detaches one thread per request; a  *)
(* member of Readers is such a thread, idle between two requests.  Readers *)
(* only read the global state, but /dashboard reads it in four separate    *)
(* critical sections, and /alerts and /metrics read a count in one and the *)
(* rows in another, with sensor handlers running in between.               *)
(*                                                                         *)
(* Of a page its numbers and its rows are kept, in the order they are      *)
(* listed.  The rows a loop lists end where fewer than 512 bytes of the    *)
(* body buffer are left; PageRows is the number of rows that fit.          *)
(***************************************************************************)
EXTENDS SensorHandler, Sequences

CONSTANTS Readers, PageRows

ASSUME ReadersAssumption == PageRows \in Nat \ {0}

VARIABLES
  at,           \* where each request thread is
  page,         \* the page it is putting together: its route and its numbers
  rows          \* and the rows of its table

readerVars == <<at, page, rows>>
httpVars == <<vars, readerVars>>

\* active_count .. metric_count: about to make that call; rows: about to lock
\* g_state.lock and list the table.
Ats == {"idle", "request", "active_count", "alert_count", "metric_count", "rows", "send"}

Routes == {"none", "/dashboard", "/sensors", "/alerts", "/metrics", "other"}

\* The numbers of a page are zero until they are read.
Blank(route) == [route |-> route, total |-> 0, active |-> 0, alerts |-> 0, metrics |-> 0]

Page == [route : Routes, total : 0 .. MaxSensors, active : 0 .. MaxSensors,
         alerts : 0 .. MaxAlerts, metrics : 0 .. MaxMetrics]

HttpTypeOK ==
  /\ TypeOK
  /\ at \in [Readers -> Ats]
  /\ page \in [Readers -> Page]
  /\ rows \in [Readers -> Seq(Sensor \cup Entry)]

HttpInit ==
  /\ Init
  /\ at = [r \in Readers |-> "idle"]
  /\ page = [r \in Readers |-> Blank("none")]
  /\ rows = [r \in Readers |-> <<>>]

Proceed(r, label) == at' = [at EXCEPT ![r] = label]

-----------------------------------------------------------------------------
Connect(r) ==
  /\ at[r] = "idle"
  /\ Proceed(r, "request")
  /\ UNCHANGED <<vars, page, rows>>

\* recv_line returned 0 or -1 before there was a request line.
Abort(r) ==
  /\ at[r] = "request"
  /\ Proceed(r, "idle")
  /\ UNCHANGED <<vars, page, rows>>

\* Requests answered without a look at the state: 400, 404, /, and a /login that
\* names no user.
Static(r) ==
  /\ at[r] = "request"
  /\ Proceed(r, "send")
  /\ page' = [page EXCEPT ![r] = Blank("other")]
  /\ UNCHANGED <<vars, rows>>

SendPage(r) ==
  /\ at[r] = "send"
  /\ Proceed(r, "idle")
  /\ page' = [page EXCEPT ![r] = Blank("none")]
  /\ rows' = [rows EXCEPT ![r] = <<>>]
  /\ UNCHANGED vars

-----------------------------------------------------------------------------
(* route_dashboard: the four counts, one call after another. *)

DashboardTotal(r) ==
  /\ at[r] = "request"
  /\ page' = [page EXCEPT ![r] = [Blank("/dashboard") EXCEPT !.total = sensor_count]]
  /\ Proceed(r, "active_count")
  /\ UNCHANGED <<vars, rows>>

DashboardActive(r) ==
  /\ at[r] = "active_count"
  /\ page' = [page EXCEPT ![r].active = Cardinality(ActiveSensors)]
  /\ Proceed(r, "alert_count")
  /\ UNCHANGED <<vars, rows>>

DashboardAlerts(r) ==
  /\ at[r] = "alert_count"
  /\ page' = [page EXCEPT ![r].alerts = alert_count]
  /\ Proceed(r, "metric_count")
  /\ UNCHANGED <<vars, rows>>

DashboardMetrics(r) ==
  /\ at[r] = "metric_count"
  /\ page' = [page EXCEPT ![r].metrics = metric_count]
  /\ Proceed(r, "send")
  /\ UNCHANGED <<vars, rows>>

-----------------------------------------------------------------------------
(* The tables: the count in the heading, then the rows under the lock. *)

Fitting(table) == SubSeq(table, 1, IF Len(table) <= PageRows THEN Len(table) ELSE PageRows)

AlertsHeading(r) ==
  /\ at[r] = "request"
  /\ page' = [page EXCEPT ![r] = [Blank("/alerts") EXCEPT !.alerts = alert_count]]
  /\ Proceed(r, "rows")
  /\ UNCHANGED <<vars, rows>>

MetricsHeading(r) ==
  /\ at[r] = "request"
  /\ page' = [page EXCEPT ![r] = [Blank("/metrics") EXCEPT !.metrics = metric_count]]
  /\ Proceed(r, "rows")
  /\ UNCHANGED <<vars, rows>>

\* Mutant: the loop stops one row early.
ListAlertsShort(r) ==
  /\ at[r] = "rows" /\ page[r].route = "/alerts"
  /\ rows' = [rows EXCEPT ![r] =
                Fitting(Listing(alerts, alert_count - 1, alert_next, MaxAlerts))]
  /\ Proceed(r, "send")
  /\ UNCHANGED <<vars, page>>

ListAlerts(r) ==
  /\ at[r] = "rows" /\ page[r].route = "/alerts"
  /\ rows' = [rows EXCEPT ![r] = Fitting(Listing(alerts, alert_count, alert_next, MaxAlerts))]
  /\ Proceed(r, "send")
  /\ UNCHANGED <<vars, page>>

ListMetrics(r) ==
  /\ at[r] = "rows" /\ page[r].route = "/metrics"
  /\ rows' = [rows EXCEPT ![r] = Fitting(Listing(metrics, metric_count, metric_next, MaxMetrics))]
  /\ Proceed(r, "send")
  /\ UNCHANGED <<vars, page>>

\* Mutant: slots that were never used are listed too.
InUseAlways(sensor) == TRUE

\* route_sensors: the rows and the numbers above them in one critical section; a
\* sensor whose row does not fit is not counted either.  The third number, of the
\* sensors in ALERT, is left out.
InUse(sensor) == sensor.active = 1

ListedSlots ==
  {s \in Slots : /\ InUse(sensors[s])
                 /\ Cardinality({t \in Slots : t < s /\ InUse(sensors[t])}) < PageRows}

ListSensors(r) ==
  /\ at[r] = "request"
  /\ page' = [page EXCEPT ![r] = [Blank("/sensors") EXCEPT
                !.total = Cardinality(ListedSlots),
                !.active = Cardinality(ListedSlots \cap ActiveSensors)]]
  /\ \E order \in [1 .. Cardinality(ListedSlots) -> ListedSlots] :
       /\ \A i, j \in DOMAIN order : i < j => order[i] < order[j]
       /\ rows' = [rows EXCEPT ![r] = [i \in DOMAIN order |-> sensors[order[i]]]]
  /\ Proceed(r, "send")
  /\ UNCHANGED vars

-----------------------------------------------------------------------------
Request(r) ==
  \/ Static(r)
  \/ DashboardTotal(r)
  \/ AlertsHeading(r)
  \/ MetricsHeading(r)
  \/ ListSensors(r)

\* Mutant: the dashboard reads the metrics before the alerts.
ContinueMetricsFirst(r) ==
  \/ DashboardActive(r)
  \/ /\ at[r] = "alert_count"
     /\ page' = [page EXCEPT ![r].metrics = metric_count]
     /\ Proceed(r, "metric_count")
     /\ UNCHANGED <<vars, rows>>
  \/ /\ at[r] = "metric_count"
     /\ page' = [page EXCEPT ![r].alerts = alert_count]
     /\ Proceed(r, "send")
     /\ UNCHANGED <<vars, rows>>
  \/ ListAlerts(r) \/ ListMetrics(r) \/ SendPage(r)

Continue(r) ==
  \/ DashboardActive(r) \/ DashboardAlerts(r) \/ DashboardMetrics(r)
  \/ ListAlerts(r) \/ ListMetrics(r)
  \/ SendPage(r)

ReaderNext(r) == Connect(r) \/ Abort(r) \/ Request(r) \/ Continue(r)

HttpNext ==
  \/ Next /\ UNCHANGED readerVars
  \/ \E r \in Readers : ReaderNext(r)

HttpSpec == HttpInit /\ [][HttpNext]_httpVars

-----------------------------------------------------------------------------
\* A dashboard never shows more alerts than metrics, although sensor handlers write
\* both tables between its reads: it reads the alerts first.
DashboardAlertsWithinMetrics ==
  \A r \in Readers :
    at[r] = "send" /\ page[r].route = "/dashboard" => page[r].alerts <= page[r].metrics

\* The table of a page is never shorter than its heading says, unless it is full:
\* what was counted is still there when the rows are listed.
RowsReachHeading ==
  \A r \in Readers : at[r] = "send" =>
    /\ page[r].route = "/alerts"  =>
         Len(rows[r]) >= page[r].alerts  \/ Len(rows[r]) = PageRows
    /\ page[r].route = "/metrics" =>
         Len(rows[r]) >= page[r].metrics \/ Len(rows[r]) = PageRows

\* Every row listed is a row that was written, and every row of /alerts is for a
\* value outside the thresholds: the loops never run into an unused entry.
RowsAreWritten ==
  \A r \in Readers : \A i \in DOMAIN rows[r] :
    /\ page[r].route = "/alerts" =>
         Anomalous(rows[r][i].type_str, rows[r][i].value)
    /\ page[r].route = "/metrics" => rows[r][i].sensor_id \in Ids \ {NoId}
=============================================================================
