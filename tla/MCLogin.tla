------------------------------- MODULE MCLogin -------------------------------
(***************************************************************************)
(* Small instances of Login: an operator, the same with a leading "+", an  *)
(* unknown user and a name of which strip() leaves nothing.                *)
(***************************************************************************)
EXTENDS Login

FourNames == {"admin", "+admin", "guest", "+"}
Lookup == [n \in FourNames \cup {""} |->
             IF n = "guest" THEN "guest" ELSE IF n \in {"", "+"} THEN "" ELSE "admin"]
=============================================================================
