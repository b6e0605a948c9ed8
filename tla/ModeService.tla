------------------------------ MODULE ModeService ------------------------------
(* The motion controller as its clients see it: a service that takes one        *)
(* request for a control mode at a time, and a topic that reports a mode.       *)
(* ControllerHandler implements it, and MotionReferences composes it with the   *)
(* nodes that send motion references.                                          *)
EXTENDS ControlMode

CONSTANTS
    Requests,       \* the modes clients ask for
    HoverModes      \* what is reported in a hover: the platform's own, or the
                    \* plugin's mode for it

VARIABLES
    serving,        \* the request being served, or NoMode
    active,         \* control_mode_established_
    reported,       \* the input mode of the info topic, control_mode_in_
    response        \* what the last client was told

msVars == <<serving, active, reported, response>>

MSInit ==
    /\ serving = NoMode
    /\ active = FALSE
    /\ reported = UnsetMode
    /\ response = "none"

(* A request ends the mode there was before anything else is known.            *)
MSBegin(request) ==
    /\ serving = NoMode
    /\ serving' = request
    /\ active' = FALSE
    /\ response' = "waiting"
    /\ UNCHANGED reported

(* Without a pair of modes to try the answer is no at once.                    *)
MSRefuse ==
    /\ serving = NoMode
    /\ active' = FALSE
    /\ response' = "no"
    /\ UNCHANGED <<serving, reported>>

ReportsOf(request) == IF isHoverMode(request) THEN HoverModes ELSE {request}

(* The request is granted; or it ends in a hover that nobody asked for, or     *)
(* without a mode, which the topic does not say.                              *)
MSEnd(granted) ==
    /\ serving # NoMode
    /\ serving' = NoMode
    /\ response' = IF granted THEN "yes" ELSE "no"
    /\ \/ /\ granted
          /\ active' = TRUE
          /\ reported' \in ReportsOf(serving)
       \/ /\ ~granted /\ ~isHoverMode(serving)
          /\ active' = TRUE
          /\ reported' \in HoverModes
       \/ /\ ~granted
          /\ active' = FALSE
          /\ UNCHANGED reported

MSNext ==
    \/ \E request \in Requests : MSBegin(request)
    \/ MSRefuse
    \/ \E granted \in BOOLEAN : MSEnd(granted)

MSSpec == MSInit /\ [][MSNext]_msVars
=============================================================================
