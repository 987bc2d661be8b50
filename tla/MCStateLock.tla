----------------------------- MODULE MCStateLock -----------------------------
(***************************************************************************)
(* Small instances of StateLock.                                           *)
(***************************************************************************)
EXTENDS StateLock

FitsAll == [id \in Ids |-> id]
=============================================================================
