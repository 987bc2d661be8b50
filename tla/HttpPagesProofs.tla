--------------------------- MODULE HttpPagesProofs ---------------------------
(***************************************************************************)
(* Theorems about the pages of the operator console: what a page built     *)
(* from several reads of the state may be relied on to show, for every     *)
(* number of requests and sensor handlers.                                 *)
(***************************************************************************)
EXTENDS HttpPages, SensorHandlerProofs, SequenceTheorems

\* The counts of the tables never go down.
CountsGrow == alert_count <= alert_count' /\ metric_count <= metric_count'

\* Neither table of state.c is ever emptied or cut, so a count read once is a lower
\* bound for the same count read later.
LEMMA CountsGrowNext == HandlerInv /\ [Next]_vars => CountsGrow
<1> SUFFICES ASSUME HandlerInv, [Next]_vars PROVE CountsGrow
  OBVIOUS
<1>n. /\ alert_count \in 0 .. MaxAlerts /\ metric_count \in 0 .. MaxMetrics
      /\ MaxAlerts \in Nat /\ MaxMetrics \in Nat
  BY CapacityAssumption DEF HandlerInv, TableInv, StateTypeOK
<1>1. CASE Quiet
  BY <1>n, <1>1 DEF Quiet, metricVars, alertVars, CountsGrow
<1>2. ASSUME NEW c \in Conns, MetricAdd(c) PROVE CountsGrow
  BY <1>n, <1>2, MetricWritten DEF alertVars, Saturated, CountsGrow
<1>3. ASSUME NEW c \in Conns, RaiseAlert(c) PROVE CountsGrow
  BY <1>n, <1>3, AlertWritten DEF metricVars, Saturated, CountsGrow
<1> QED
  BY <1>1, <1>2, <1>3, LogStep

\* Requests only read: the invariants of the handlers hold beside them.
LEMMA HandlersRunOn == HttpSpec => Spec
<1>1. HttpInit => Init
  BY DEF HttpInit
<1>2. [HttpNext]_httpVars => [Next]_vars
  <2> SUFFICES ASSUME HttpNext \/ UNCHANGED httpVars PROVE [Next]_vars
    BY DEF httpVars
  <2>1. ASSUME NEW r \in Readers, ReaderNext(r) PROVE UNCHANGED vars
    BY <2>1 DEF ReaderNext, Connect, Abort, Request, Static, DashboardTotal, AlertsHeading,
       MetricsHeading, ListSensors, Continue, DashboardActive, DashboardAlerts, DashboardMetrics,
       ListAlerts, ListMetrics, SendPage
  <2> QED
    BY <2>1 DEF HttpNext, httpVars
<1> QED
  BY <1>1, <1>2, PTL DEF HttpSpec, Spec

\* The state as a request finds it.
StateInv == HandlerInv /\ AlertsWithinMetrics /\ RowsAreExplained

\* Requests only read: it holds beside them.
LEMMA StateInvariant == HttpSpec => []StateInv
BY HandlersRunOn, HandlerInvariant, AlertsBounded, RowsExplained, PTL DEF StateInv

-----------------------------------------------------------------------------
\* The listing of a table has one row for each entry; a page keeps those that fit.
LEMMA RowsThatFit ==
  ASSUME NEW table, NEW count \in Nat, NEW next, NEW max
  PROVE  Len(Fitting(Listing(table, count, next, max))) =
           IF count <= PageRows THEN count ELSE PageRows
<1> DEFINE list == Listing(table, count, next, max)
           S    == {list[row] : row \in 1 .. count}
<1>1. list \in [1 .. count -> S] /\ DOMAIN list = 1 .. count
  BY DEF Listing
<1>2. list \in Seq(S)
  BY <1>1
<1>3. Len(list) = count
  BY <1>1, <1>2, LenProperties
<1>4. \A row \in 1 .. (IF count <= PageRows THEN count ELSE PageRows) : list[row] \in S
  BY <1>1, ReadersAssumption
<1> HIDE DEF list, S
<1>5. Len(SubSeq(list, 1, IF count <= PageRows THEN count ELSE PageRows)) =
        IF count <= PageRows THEN count ELSE PageRows
  BY <1>4, ReadersAssumption, SubSeqProperties
<1> QED
  BY <1>3, <1>5 DEF Fitting, list

\* The rows a page keeps are entries of the table that are in use.
LEMMA RowsInUse ==
  ASSUME NEW max \in Nat \ {0}, NEW next \in 0 .. max - 1, NEW count \in 0 .. max,
         count < max => next = count, NEW table, NEW S, \A i \in 0 .. count - 1 : table[i] \in S
  PROVE  Fitting(Listing(table, count, next, max)) \in Seq(S)
<1> DEFINE list == Listing(table, count, next, max)
           last == IF count <= PageRows THEN count ELSE PageRows
<1>1. DOMAIN list = 1 .. count /\ \A i \in 1 .. count : list[i] \in S
  <2>1. ASSUME NEW i \in 1 .. count PROVE table[Row(next, max, i - 1)] \in S
    BY RowInUse
  <2> QED
    BY <2>1 DEF Listing
<1>2. list \in Seq(S) /\ Len(list) = count
  <2>1. list = [i \in 1 .. count |-> list[i]]
    BY DEF Listing
  <2>2. list \in [1 .. count -> S]
    BY <1>1, <2>1
  <2> HIDE DEF list
  <2>3. list \in Seq(S)
    BY <2>2
  <2> QED
    BY <1>1, <2>3, LenProperties
<1>3. last \in Int /\ \A i \in 1 .. last : list[i] \in S
  BY <1>1, ReadersAssumption
<1> HIDE DEF list, last
<1>4. SubSeq(list, 1, last) \in Seq(S)
  BY <1>3, SubSeqProperties
<1> QED
  BY <1>2, <1>4 DEF Fitting, list, last

\* The entries in use of both tables were written by a handler.
LEMMA EntriesInUse ==
  ASSUME HandlerInv, RowsAreExplained
  PROVE  /\ \A i \in 0 .. metric_count - 1 : metrics[i] \in Entry
         /\ \A i \in 0 .. alert_count - 1 :
              alerts[i] \in Entry /\ Anomalous(alerts[i].type_str, alerts[i].value)
<1>n. /\ metric_count \in 0 .. MaxMetrics /\ alert_count \in 0 .. MaxAlerts
      /\ metrics \in [0 .. MaxMetrics - 1 -> Entry \cup {ZeroEntry}]
      /\ alerts \in [0 .. MaxAlerts - 1 -> Entry \cup {ZeroEntry}]
      /\ sensors \in [Slots -> Sensor \cup {FreeSlot}]
  BY DEF HandlerInv, TableInv, StateTypeOK
<1>s. NoType \notin Types
  BY DataAssumption DEF NoType
<1>t. \A s \in Slots : sensors[s].active = 1 => sensors[s].type # NoType
  BY <1>n, <1>s DEF Sensor, FreeSlot
<1>1. \A i \in 0 .. metric_count - 1 : metrics[i] # ZeroEntry
  BY <1>t DEF RowsAreExplained, Holds, ZeroEntry
<1>2. \A i \in 0 .. alert_count - 1 : alerts[i] # ZeroEntry
  BY <1>t DEF RowsAreExplained, Holds, ZeroEntry
<1>3. (0 .. metric_count - 1) \subseteq 0 .. MaxMetrics - 1
      /\ (0 .. alert_count - 1) \subseteq 0 .. MaxAlerts - 1
  BY <1>n, CapacityAssumption
<1> QED
  BY <1>n, <1>1, <1>2, <1>3 DEF RowsAreExplained

\* What is known of a page that is not complete: it is the dashboard between two of
\* the four counts, and a count on it is at most what the table has by now.
PartialPages ==
  \A r \in Readers :
    /\ at[r] \in {"active_count", "alert_count", "metric_count"} => page[r].route = "/dashboard"
    /\ at[r] = "metric_count" => page[r].alerts <= alert_count
    /\ at[r] = "rows" /\ page[r].route = "/alerts" => page[r].alerts <= alert_count
    /\ at[r] = "rows" /\ page[r].route = "/metrics" => page[r].metrics <= metric_count

PageTypes ==
  /\ at \in [Readers -> Ats]
  /\ page \in [Readers -> Page]
  /\ rows = [r \in Readers |-> rows[r]]

\* The rows a page gets are written ones, and a page without them has none.
PageRowsOK ==
  \A r \in Readers :
    /\ rows[r] \in Seq(Sensor \cup Entry)
    /\ at[r] # "send" => rows[r] = <<>>
    /\ page[r].route = "/alerts" =>
         \A i \in DOMAIN rows[r] : Anomalous(rows[r][i].type_str, rows[r][i].value)
    /\ page[r].route = "/metrics" => \A i \in DOMAIN rows[r] : rows[r][i].sensor_id \in Ids

PageInv ==
  /\ PageTypes
  /\ PartialPages
  /\ DashboardAlertsWithinMetrics
  /\ RowsReachHeading
  /\ PageRowsOK

AlertRows == {entry \in Entry : Anomalous(entry.type_str, entry.value)}

\* What the three loops list.
LEMMA ListedRows ==
  ASSUME StateInv
  PROVE  /\ Fitting(Listing(alerts, alert_count, alert_next, MaxAlerts)) \in Seq(AlertRows)
         /\ Fitting(Listing(metrics, metric_count, metric_next, MaxMetrics)) \in Seq(Entry)
<1>1. /\ \A i \in 0 .. metric_count - 1 : metrics[i] \in Entry
      /\ \A i \in 0 .. alert_count - 1 : alerts[i] \in AlertRows
  BY EntriesInUse DEF StateInv, AlertRows
<1>2. /\ metric_count \in 0 .. MaxMetrics /\ metric_next \in 0 .. MaxMetrics - 1
      /\ metric_count < MaxMetrics => metric_next = metric_count
      /\ alert_count \in 0 .. MaxAlerts /\ alert_next \in 0 .. MaxAlerts - 1
      /\ alert_count < MaxAlerts => alert_next = alert_count
  BY DEF StateInv, HandlerInv, TableInv, StateTypeOK
<1> QED
  BY <1>1, <1>2, RowsInUse, CapacityAssumption

\* /sensors lists finitely many slots, each with a sensor in it.
LEMMA ListedFinite == Cardinality(ListedSlots) \in Nat
<1>1. IsFiniteSet(Slots)
  BY FS_Interval, CapacityAssumption DEF Slots
<1> QED
  BY <1>1, FS_Subset, FS_CardinalityType DEF ListedSlots

\* The rows of /sensors are sensors, whatever the order the slots are in.
LEMMA ListedSensors ==
  ASSUME StateInv, NEW r \in Readers, ListSensors(r), PageTypes, Cardinality(ListedSlots) \in Nat
  PROVE  rows'[r] \in Seq(Sensor \cup Entry)
<1>1. PICK order \in [1 .. Cardinality(ListedSlots) -> ListedSlots] :
         rows' = [rows EXCEPT ![r] = [i \in DOMAIN order |-> sensors[order[i]]]]
  BY DEF ListSensors
<1>2. \A s \in ListedSlots : sensors[s] \in Sensor
  BY DEF ListedSlots, InUse, StateInv, HandlerInv, TableInv, StateTypeOK, FreeSlot
<1> DEFINE list == [i \in DOMAIN order |-> sensors[order[i]]]
<1>3. list \in [1 .. Cardinality(ListedSlots) -> Sensor \cup Entry]
  BY <1>2
<1>4. list \in Seq(Sensor \cup Entry)
  <2> HIDE DEF list
  <2> QED
    BY <1>3
<1> QED
  BY <1>1, <1>4 DEF PageTypes

\* A request thread keeps the numbers of its page within the capacities.
LEMMA PageTypesStep ==
  ASSUME StateInv, PageTypes, NEW r \in Readers, ReaderNext(r)
  PROVE  PageTypes'
<1> USE DEF PageTypes, StateInv
<1>n. sensor_count \in 0 .. MaxSensors /\ alert_count \in 0 .. MaxAlerts
      /\ metric_count \in 0 .. MaxMetrics
      /\ MaxSensors \in Nat /\ MaxAlerts \in Nat /\ MaxMetrics \in Nat
  BY CapacityAssumption DEF HandlerInv, TableInv, StateTypeOK
<1>s. ASSUME NEW S \in SUBSET Slots PROVE Cardinality(S) \in 0 .. MaxSensors
  <2>1. IsFiniteSet(Slots) /\ Cardinality(Slots) = MaxSensors
    <3>1. MaxSensors - 1 \in Int /\ ~(0 > MaxSensors - 1) /\ (MaxSensors - 1) - 0 + 1 = MaxSensors
      BY CapacityAssumption
    <3>2. /\ IsFiniteSet(0 .. MaxSensors - 1)
          /\ Cardinality(0 .. MaxSensors - 1) =
               IF 0 > MaxSensors - 1 THEN 0 ELSE (MaxSensors - 1) - 0 + 1
      BY <3>1, FS_Interval
    <3> QED
      BY <3>1, <3>2 DEF Slots
  <2> QED
    BY <2>1, <1>n, FS_Subset, FS_CardinalityType
<1>b. ASSUME NEW route \in Routes PROVE Blank(route) \in Page
  BY <1>n DEF Blank, Page
<1>1. CASE Connect(r) \/ Abort(r)
  BY <1>1 DEF Connect, Abort, Proceed, Ats
<1>2. CASE Static(r) \/ SendPage(r)
  BY <1>2, <1>b DEF Static, SendPage, Proceed, Ats, Routes
<1>3. CASE DashboardTotal(r) \/ AlertsHeading(r) \/ MetricsHeading(r)
  <2>1. /\ [Blank("/dashboard") EXCEPT !.total = sensor_count] \in Page
        /\ [Blank("/alerts") EXCEPT !.alerts = alert_count] \in Page
        /\ [Blank("/metrics") EXCEPT !.metrics = metric_count] \in Page
    BY <1>n DEF Blank, Page, Routes
  <2> QED
    BY <1>3, <2>1 DEF DashboardTotal, AlertsHeading, MetricsHeading, Proceed, Ats
<1>4. CASE DashboardActive(r)
  <2>1. Cardinality(ActiveSensors) \in 0 .. MaxSensors
    BY <1>s DEF ActiveSensors
  <2>2. ASSUME NEW n \in 0 .. MaxSensors PROVE [page[r] EXCEPT !.active = n] \in Page
    <3>1. page[r] \in Page
      OBVIOUS
    <3> QED
      BY <3>1 DEF Page
  <2>3. page' = [page EXCEPT ![r] = [page[r] EXCEPT !.active = Cardinality(ActiveSensors)]]
        /\ at' = [at EXCEPT ![r] = "alert_count"] /\ rows' = rows
    BY <1>4 DEF DashboardActive, Proceed
  <2> QED
    BY <2>1, <2>2, <2>3 DEF Ats
<1>5. CASE DashboardAlerts(r) \/ DashboardMetrics(r)
  <2>1. /\ [page[r] EXCEPT !.alerts = alert_count] \in Page
        /\ [page[r] EXCEPT !.metrics = metric_count] \in Page
    <3>1. page[r] \in Page
      OBVIOUS
    <3> QED
      BY <3>1, <1>n DEF Page
  <2>2. /\ \/ page' = [page EXCEPT ![r] = [page[r] EXCEPT !.alerts = alert_count]]
           \/ page' = [page EXCEPT ![r] = [page[r] EXCEPT !.metrics = metric_count]]
        /\ rows' = rows
    BY <1>5 DEF DashboardAlerts, DashboardMetrics
  <2>3. \E label \in Ats : at' = [at EXCEPT ![r] = label]
    BY <1>5 DEF DashboardAlerts, DashboardMetrics, Proceed, Ats
  <2> QED
    BY <2>1, <2>2, <2>3
<1>6. CASE ListAlerts(r) \/ ListMetrics(r)
  BY <1>6 DEF ListAlerts, ListMetrics, Proceed, Ats
<1>7. CASE ListSensors(r)
  <2>1. /\ Cardinality(ListedSlots) \in 0 .. MaxSensors
        /\ Cardinality(ListedSlots \cap ActiveSensors) \in 0 .. MaxSensors
    BY <1>s DEF ListedSlots, ActiveSensors
  <2>2. ASSUME NEW n \in 0 .. MaxSensors, NEW m \in 0 .. MaxSensors
        PROVE  [Blank("/sensors") EXCEPT !.total = n, !.active = m] \in Page
    <3>1. Blank("/sensors") \in Page
      BY <1>b DEF Routes
    <3>2. [Blank("/sensors") EXCEPT !.total = n] \in Page
      BY <3>1 DEF Page
    <3> QED
      BY <3>2 DEF Page
  <2> QED
    BY <1>7, <2>1, <2>2 DEF ListSensors, Proceed, Ats
<1> QED
  BY <1>1, <1>2, <1>3, <1>4, <1>5, <1>6, <1>7 DEF ReaderNext, Request, Continue

\* The loops list what was written, and nothing is left of a page that was sent.
LEMMA PageRowsStep ==
  ASSUME StateInv, PageTypes, PageRowsOK, NEW r \in Readers, ReaderNext(r)
  PROVE  PageRowsOK'
<1> USE DEF PageTypes, PageRowsOK, Proceed
<1>1. CASE Connect(r) \/ Abort(r)
  BY <1>1 DEF Connect, Abort
<1>m. AlertRows \subseteq Sensor \cup Entry /\ Entry \subseteq Sensor \cup Entry
  BY DEF AlertRows
<1>e. ASSUME rows[r] = <<>>, rows' = rows,
             \A q \in Readers : q # r => page'[q] = page[q] /\ at'[q] = at[q]
      PROVE  PageRowsOK'
  <2>1. ASSUME NEW q \in Readers, q # r
        PROVE  /\ rows'[q] \in Seq(Sensor \cup Entry)
               /\ at'[q] # "send" => rows'[q] = <<>>
               /\ page'[q].route = "/alerts" =>
                    \A i \in DOMAIN rows'[q] : Anomalous(rows'[q][i].type_str, rows'[q][i].value)
               /\ page'[q].route = "/metrics" =>
                    \A i \in DOMAIN rows'[q] : rows'[q][i].sensor_id \in Ids
    BY <1>e, <2>1
  <2>2. rows'[r] = <<>> /\ rows'[r] \in Seq(Sensor \cup Entry) /\ DOMAIN rows'[r] = {}
    BY <1>e
  <2> QED
    BY <2>1, <2>2
<1>2. CASE Static(r) \/ DashboardTotal(r) \/ AlertsHeading(r) \/ MetricsHeading(r)
  <2>1. /\ rows[r] = <<>> /\ rows' = rows
        /\ \A q \in Readers : q # r => page'[q] = page[q] /\ at'[q] = at[q]
    BY <1>2 DEF Static, DashboardTotal, AlertsHeading, MetricsHeading
  <2> QED
    BY <2>1, <1>e
<1>3. CASE DashboardActive(r) \/ DashboardAlerts(r) \/ DashboardMetrics(r)
  <2>1. /\ rows[r] = <<>> /\ rows' = rows
        /\ \A q \in Readers : q # r => page'[q] = page[q] /\ at'[q] = at[q]
    BY <1>3 DEF DashboardActive, DashboardAlerts, DashboardMetrics
  <2> QED
    BY <2>1, <1>e
<1>4. CASE SendPage(r)
  BY <1>4 DEF SendPage, Blank
<1>5. CASE ListAlerts(r)
  <2>1. /\ rows' = [rows EXCEPT ![r] = Fitting(Listing(alerts, alert_count, alert_next, MaxAlerts))]
        /\ at' = [at EXCEPT ![r] = "send"] /\ page' = page /\ page[r].route = "/alerts"
    BY <1>5 DEF ListAlerts
  <2>2. \A i \in DOMAIN rows'[r] : rows'[r][i] \in AlertRows
    BY <2>1, ListedRows, ElementOfSeq, LenProperties
  <2>3. rows'[r] \in Seq(Sensor \cup Entry)
    BY <2>1, <1>m, ListedRows, SeqMonotonic
  <2> QED
    BY <2>1, <2>2, <2>3 DEF AlertRows
<1>6. CASE ListMetrics(r)
  <2>1. /\ rows' = [rows EXCEPT ![r] =
                       Fitting(Listing(metrics, metric_count, metric_next, MaxMetrics))]
        /\ at' = [at EXCEPT ![r] = "send"] /\ page' = page /\ page[r].route = "/metrics"
    BY <1>6 DEF ListMetrics
  <2>2. \A i \in DOMAIN rows'[r] : rows'[r][i] \in Entry
    BY <2>1, ListedRows, ElementOfSeq, LenProperties
  <2>3. rows'[r] \in Seq(Sensor \cup Entry)
    BY <2>1, <1>m, ListedRows, SeqMonotonic
  <2> QED
    BY <2>1, <2>2, <2>3 DEF Entry
<1>7. CASE ListSensors(r)
  <2>1. /\ \A q \in Readers : q # r => page'[q] = page[q] /\ at'[q] = at[q] /\ rows'[q] = rows[q]
        /\ at'[r] = "send" /\ page'[r].route = "/sensors"
    BY <1>7 DEF ListSensors, Blank
  <2>2. Cardinality(ListedSlots) \in Nat
    BY ListedFinite
  <2> QED
    BY <1>7, <2>1, <2>2, ListedSensors
<1> QED
  BY <1>1, <1>2, <1>3, <1>4, <1>5, <1>6, <1>7 DEF ReaderNext, Request, Continue

\* A count that was put on a page stays within the count of the table, and the rows
\* of a page on its way are as many as its heading says or fill the page.
LEMMA PageStep ==
  ASSUME StateInv, PageInv, NEW r \in Readers, ReaderNext(r)
  PROVE  PageInv'
<1>n. /\ alert_count \in Nat /\ metric_count \in Nat /\ alert_count <= metric_count
      /\ PageRows \in Nat
  BY ReadersAssumption, CapacityAssumption
  DEF StateInv, HandlerInv, TableInv, StateTypeOK, AlertsWithinMetrics
<1>t. PageTypes'
  BY PageTypesStep DEF PageInv
<1>u. UNCHANGED <<alert_count, metric_count>>
  BY DEF ReaderNext, Connect, Abort, Request, Static, DashboardTotal, AlertsHeading,
     MetricsHeading, ListSensors, Continue, DashboardActive, DashboardAlerts, DashboardMetrics,
     ListAlerts, ListMetrics, SendPage, vars, stateVars
<1>r. PageRowsOK'
  BY PageRowsStep DEF PageInv
<1> USE <1>n, <1>u, <1>r DEF PageInv, PageTypes, PartialPages, DashboardAlertsWithinMetrics,
        RowsReachHeading, Proceed
<1>1. CASE Connect(r) \/ Abort(r)
  BY <1>1, <1>t DEF Connect, Abort
<1>2. CASE Static(r) \/ SendPage(r)
  BY <1>2, <1>t DEF Static, SendPage, Blank
<1>3. CASE DashboardTotal(r) \/ AlertsHeading(r) \/ MetricsHeading(r)
  BY <1>3, <1>t DEF DashboardTotal, AlertsHeading, MetricsHeading, Blank
<1>4. CASE DashboardActive(r)
  BY <1>4, <1>t DEF DashboardActive
<1>5. CASE DashboardAlerts(r)
  BY <1>5, <1>t DEF DashboardAlerts
<1>6. CASE DashboardMetrics(r)
  <2>1. page[r].alerts <= alert_count /\ page[r].alerts \in Int
    BY <1>6, CapacityAssumption DEF DashboardMetrics, Page
  <2>2. page'[r].alerts = page[r].alerts /\ page'[r].metrics = metric_count
    BY <1>6 DEF DashboardMetrics, Page
  <2>3. page'[r].alerts <= page'[r].metrics
    BY <2>1, <2>2
  <2> QED
    BY <1>6, <1>t, <2>2, <2>3 DEF DashboardMetrics
<1>7. CASE ListAlerts(r)
  BY <1>7, <1>t, RowsThatFit DEF ListAlerts
<1>8. CASE ListMetrics(r)
  BY <1>8, <1>t, RowsThatFit DEF ListMetrics
<1>9. CASE ListSensors(r)
  BY <1>9, <1>t DEF ListSensors, Blank
<1> QED
  BY <1>1, <1>2, <1>3, <1>4, <1>5, <1>6, <1>7, <1>8, <1>9 DEF ReaderNext, Request, Continue

\* What is known of complete and of partial pages is an invariant of the console.
LEMMA PageInvariant == HttpSpec => []PageInv
<1>1. HttpInit => PageInv
  <2> SUFFICES ASSUME HttpInit PROVE PageInv
    OBVIOUS
  <2>1. Blank("none") \in Page
    BY CapacityAssumption DEF Blank, Page, Routes
  <2> QED
    BY <2>1 DEF HttpInit, PageInv, PageTypes, Ats, PartialPages, DashboardAlertsWithinMetrics,
       RowsReachHeading, PageRowsOK
<1>2. /\ StateInv
      /\ PageInv
      /\ [HttpNext]_httpVars
      => PageInv'
  <2> SUFFICES ASSUME StateInv, PageInv, HttpNext \/ UNCHANGED httpVars
               PROVE  PageInv'
    BY DEF httpVars
  <2>1. ASSUME NEW r \in Readers, ReaderNext(r) PROVE PageInv'
    BY <2>1, PageStep
  <2>2. CASE [Next]_vars /\ UNCHANGED readerVars
    <3>1. /\ alert_count \in Int /\ alert_count' \in Int /\ alert_count <= alert_count'
          /\ metric_count \in Int /\ metric_count' \in Int /\ metric_count <= metric_count'
      <4>1. HandlerInv'
        BY <2>2, HandlerInvNext DEF StateInv
      <4> QED
        BY <4>1, <2>2, CountsGrowNext, CapacityAssumption
        DEF CountsGrow, StateInv, HandlerInv, TableInv, StateTypeOK
    <3>2. \A r \in Readers : page[r].alerts \in Int /\ page[r].metrics \in Int
      BY CapacityAssumption DEF PageInv, PageTypes, Page
    <3>3. at' = at /\ page' = page /\ rows' = rows
      BY <2>2 DEF readerVars
    <3>4. PartialPages'
      BY <3>1, <3>2, <3>3 DEF PageInv, PartialPages
    <3> QED
      BY <3>3, <3>4 DEF PageInv, PageTypes, DashboardAlertsWithinMetrics, RowsReachHeading,
         PageRowsOK
  <2> QED
    BY <2>1, <2>2 DEF HttpNext, httpVars
<1> QED
  BY <1>1, <1>2, StateInvariant, PTL DEF HttpSpec

\* A dashboard never shows more alerts than metrics, for any number of readers and
\* handlers: route_dashboard reads the alert count first and both only grow.
THEOREM DashboardConsistent == HttpSpec => []DashboardAlertsWithinMetrics
  BY PageInvariant, PTL DEF PageInv

\* The table of /alerts and /metrics is never shorter than its heading says, unless
\* the body buffer is full, although the two are read under different locks.
THEOREM HeadingReached == HttpSpec => []RowsReachHeading
  BY PageInvariant, PTL DEF PageInv

\* The numbers of every page stay within the capacities, and its rows are sensors or
\* entries: none of the loops lists a slot or an entry that was never used.
THEOREM PagesAreTyped == HttpSpec => []HttpTypeOK
<1>1. TypeOK /\ PageInv => HttpTypeOK
  BY DEF PageInv, PageTypes, PageRowsOK, HttpTypeOK
<1> QED
  BY <1>1, HandlersRunOn, TypeCorrect, PageInvariant, PTL

\* Every row of /metrics and /alerts was written by a handler, whatever ran between the
\* heading and the rows.  strtok_r() never returns an empty token, so no line names the
\* empty id.
THEOREM RowsWritten ==
  ASSUME NoId \notin Ids
  PROVE  HttpSpec => []RowsAreWritten
<1>1. PageInv => RowsAreWritten
  BY DEF PageInv, PageRowsOK, RowsAreWritten
<1> QED
  BY <1>1, PageInvariant, PTL
=============================================================================
