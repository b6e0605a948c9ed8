-------------------------- MODULE MCMotionReferences --------------------------
(* TLC instance of MotionReferences: a behavior that flies to positions, with  *)
(* two references, one that descends at a speed and hovers, and a             *)
(* teleoperation with body rates, which the controller does not serve.        *)
EXTENDS MotionReferences

Hover == ModeOf("HOVER", "NONE")
Position == ModeOf("POSITION", "YAW_ANGLE")
Speed == ModeOf("SPEED", "YAW_SPEED")
BodyRates == ModeOf("BODY_RATES", "NONE")

MCRequests == {Hover, Position, Speed, BodyRates}
MCUnserved == {BodyRates}
(* The plugin serves a hover as a position, so that is what is reported of it. *)
MCHoverModes == {Position}
MCNodes == {"go_to", "land", "teleoperation"}
MCHandlers == [n \in MCNodes |->
    CASE n = "go_to" -> {Position} [] n = "land" -> {Speed, Hover} [] OTHER -> {BodyRates}]
=============================================================================
