-------------------------- MODULE ServiceRefinement --------------------------
(***************************************************************************)
(* The handlers implement SensorService.  The registry is what the scans   *)
(* of the sensor table find, the logs are the circular tables in the order *)
(* the pages list them, and what a report owes is read off the program     *)
(* counter of its handler.  It holds for ids that are stored whole.        *)
(***************************************************************************)
EXTENDS SensorHandler

SlotOf(id) == CHOOSE s \in Slots : FoundAt(s, id)

Shown(s) == [type |-> sensors[s].type, status |-> sensors[s].status,
             level |-> sensors[s].alert_level, value |-> sensors[s].last_value,
             timestamp |-> sensors[s].last_timestamp]

Registry == [id \in {i \in Ids : Known(i)} |-> Shown(SlotOf(id))]

MetricLog == Listing(metrics, metric_count, metric_next, MaxMetrics)
AlertLog  == Listing(alerts, alert_count, alert_next, MaxAlerts)

Due == [c \in Conns |->
  IF pc[c] \in {"alert", "level"}
  THEN [id |-> job[c].id, value |-> job[c].value, owes |-> pc[c]]
  ELSE [id |-> NoId, value |-> 0, owes |-> "nothing"]]

Service == INSTANCE SensorService WITH
  registry <- Registry, metricLog <- MetricLog, alertLog <- AlertLog, due <- Due

\* Every behaviour of the handlers is one of the service: slots, first matches, copies
\* and wrap-around cannot be told from a registry and two logs (state.c, the row loops
\* of /alerts and /metrics).
ImplementsService == Service!Spec

\* ... and what a METRIC owes after it stored its value is done in the end.
PaysItsDues == Service!FairSpec
=============================================================================
