--------------------------- MODULE MCSensorHandler ---------------------------
(***************************************************************************)
(* Small instances of SensorHandler for TLC.  Two connections are enough   *)
(* for every race in the handlers: a METRIC of one against any line of     *)
(* another.  The values stand on both sides of the thresholds: 60 is       *)
(* normal for TEMP and anomalous for VIB, 80 is anomalous for both and     *)
(* normal for POWER, 5 is anomalous for POWER only.                        *)
(***************************************************************************)
EXTENDS SensorHandler, TLC

CONSTANTS c1, c2, c3

\* "long" is longer than MAX_ID_LEN - 1 and "lon" is what is kept of it.
FitsAll     == [id \in Ids |-> id]
CutsLong    == [id \in Ids |-> IF id = "long" THEN "lon" ELSE id]

SharedSensor   == [c \in Conns |-> Ids]
OneSensorEach  == [c \in Conns |-> IF c = c1 THEN {"a"} ELSE {"b"}]

Temp    == {"TEMP"}
Power   == {"POWER"}
TempVib == {"TEMP", "VIB"}

HandlerSymmetry == Permutations(Conns)
=============================================================================
