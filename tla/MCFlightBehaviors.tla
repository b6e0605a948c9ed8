--------------------------- MODULE MCFlightBehaviors ---------------------------
(* TLC instance of FlightBehaviors.  Behaviors and states are fixed; what the  *)
(* runs vary is what clients ask of the arming service and what may go wrong.  *)
EXTENDS FlightBehaviors

AnyArming == BOOLEAN
OnlyArm == {TRUE}
=============================================================================
