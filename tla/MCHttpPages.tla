----------------------------- MODULE MCHttpPages -----------------------------
(***************************************************************************)
(* Small instances of HttpPages for TLC: one request in progress, which is *)
(* all a page depends on (requests do not change the state), while two     *)
(* sensor handlers write.  A page holds fewer rows than the tables do.     *)
(***************************************************************************)
EXTENDS HttpPages, TLC

CONSTANTS c1, c2, r1

FitsAll       == [id \in Ids |-> id]
SharedSensor  == [c \in Conns |-> Ids]
OneSensorEach == [c \in Conns |-> IF c = c1 THEN {"a"} ELSE {"b"}]

HandlerSymmetry == Permutations(Conns)
=============================================================================
