--------------------------- MODULE MCAerialPlatform ---------------------------
(* TLC instance of AerialPlatform.  The available modes are three whose frame *)
(* usage differs: HOVER (none), POSITION with a yaw angle (pose and twist)     *)
(* and TRAJECTORY (both, in one header).                                       *)
EXTENDS AerialPlatform

CONSTANTS odom, base

MCFrames == {odom, base}

MCAvailable == <<16, 96, 112>>

(* One request per available mode, and one the platform does not have.        *)
MCRequests == {ModeOf("HOVER", "NONE"), ModeOf("POSITION", "YAW_ANGLE"),
               ModeOf("TRAJECTORY", "YAW_ANGLE"), ModeOf("SPEED", "YAW_SPEED")}

MCClientEvents == {"TAKE_OFF", "TOOK_OFF", "LAND", "LANDED", "EMERGENCY"}
=============================================================================
