-------------------------- MODULE MCControllerHandler --------------------------
(* TLC instance of ControllerHandler: the lists of as2_platform_multirotor_    *)
(* simulator, without the trajectory modes, and of the geometric controller.  *)
EXTENDS ControllerHandler

MCPlatform == <<0, 16, 36, 64, 68, 96>>
MCIn == <<64, 68, 96, 100, 112>>
MCOut == <<36, 68>>
MCHoverMode == ModeOf("POSITION", "YAW_ANGLE")

(* A hover, a mode with two pairs, one with a bypass of its own, and one no   *)
(* pair nor bypass serves.                                                   *)
MCRequests == {ModeOf("HOVER", "NONE"), ModeOf("POSITION", "YAW_ANGLE"),
               ModeOf("SPEED", "YAW_ANGLE"), ModeOf("ATTITUDE", "YAW_ANGLE")}

(* Which of the references comes does not matter to what is checked.          *)
MCOneKind == {"pose"}

(* For the question about a single request. *)
MCFewRequests == {ModeOf("HOVER", "NONE"), ModeOf("POSITION", "YAW_ANGLE")}
=============================================================================
