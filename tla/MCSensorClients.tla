--------------------------- MODULE MCSensorClients ---------------------------
(***************************************************************************)
(* Small instances of SensorClients: two programs, each run of which is    *)
(* for one of two sensors.                                                 *)
(***************************************************************************)
EXTENDS SensorClients

FitsAll   == [i \in Ids |-> i]
SpeaksAll == [c \in Conns |-> Ids]
=============================================================================
