------------------------------ MODULE MCLogger ------------------------------
(***************************************************************************)
(* Small instances of Logger.                                              *)
(***************************************************************************)
EXTENDS Logger, TLC

LogSymmetry == Permutations(Threads)
=============================================================================
