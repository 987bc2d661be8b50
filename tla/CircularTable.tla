---------------------------- MODULE CircularTable ----------------------------
(***************************************************************************)
(* The circular tables of state.c.  g_state keeps two of them, metrics[]   *)
(* and alerts[]: an array, the number of entries in use, and the index the *)
(* next entry is written at.  Both are written and read in the same way,   *)
(* so the three steps of a write and the order of a listing are defined    *)
(* once here, for a table with the indices 0 .. max-1.                     *)
(***************************************************************************)
EXTENDS Integers

\* The array after an entry is written at the write index.
Written(table, next, entry) == [table EXCEPT ![next] = entry]

\* Mutant: the write index is not wrapped.
AdvancedUnwrapped(next, max) == next + 1

\* The write index wraps around at the capacity.
Advanced(next, max) == (next + 1) % max

\* Mutants: the count stops one short of the capacity; the count wraps around.
SaturatedEarly(count, max) == IF count < max - 1 THEN count + 1 ELSE count
SaturatedWrapping(count, max) == (count + 1) % max

\* The count stops growing at the capacity: the oldest entry is overwritten.
Saturated(count, max) == IF count < max THEN count + 1 ELSE count

\* Mutant: a listing that starts at the write index itself.
RowAtWriteIndex(next, max, j) == (next - j + max) % max

(***************************************************************************)
(* The order the /alerts and /metrics pages list a table in.  The loop     *)
(* index j of the C code runs from 0; row j+1 of the listing is entry      *)
(* (next - 1 - j + max) % max.                                             *)
(***************************************************************************)
Row(next, max, j) == (next - 1 - j + max) % max

Listing(table, count, next, max) ==
  [row \in 1 .. count |-> table[Row(next, max, row - 1)]]
=============================================================================
