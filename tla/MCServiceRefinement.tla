------------------------- MODULE MCServiceRefinement -------------------------
(* The instances of MCSensorHandler, with the service they implement. *)
EXTENDS ServiceRefinement, MCSensorHandler
=============================================================================
