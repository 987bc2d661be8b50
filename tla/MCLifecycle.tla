----------------------------- MODULE MCLifecycle -----------------------------
(***************************************************************************)
(* Small instances of Lifecycle: three connections to the sensor server,   *)
(* one of which the others may keep out of its backlog, and one to the     *)
(* console.                                                                *)
(***************************************************************************)
EXTENDS Lifecycle

ToBoth == [p \in {"p1", "p2", "p3", "p4"} |-> IF p = "p4" THEN "http" ELSE "sensor"]
=============================================================================
