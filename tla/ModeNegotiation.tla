---------------------------- MODULE ModeNegotiation ----------------------------
(***************************************************************************)
(* How the motion controller matches the modes of its plugin with those of  *)
(* the platform: namespace mode_negotiation of                              *)
(* as2_motion_controller/src/controller_handler.cpp, as operators on bytes  *)
(* and sequences of bytes.  A zero byte stands for no mode, as in the code. *)
(***************************************************************************)
EXTENDS ControlMode

HOVER_MODE_MASK == 16

(* Whether a byte names HOVER or UNSET, whatever its yaw mode. *)
hoverOrUnset(b) == b \div MATCH_CONTROL_MODE \in {0, 1}

(* An exact match wins; otherwise the last match does, where the platform's  *)
(* own findBestMatchWithMask takes the first.                               *)
lastMatch(b, list) ==
    LET matches == {i \in DOMAIN list : compareModes(b, list[i], MATCH_MODE_AND_YAW)}
    IN  IF matches = {} THEN 0
        ELSE IF \E i \in matches : list[i] = b THEN b
        ELSE list[Final(matches)]

(* The platform's mode for a mode of the plugin joins the modes found so far. *)
append(modes, b, platformIn) ==
    LET mode == lastMatch(b, platformIn)
    IN  IF mode = 0 \/ (\E i \in DOMAIN modes : modes[i] = mode)
        THEN modes
        ELSE Append(modes, mode)

(* The platform modes the plugin can feed, each once, the preferred first.   *)
findOutputModes(preferred, controllerOut, platformIn) ==
    LET found[n \in 0..Len(controllerOut)] ==
            IF n = 0
            THEN IF preferred = 0 THEN <<>> ELSE append(<<>>, preferred, platformIn)
            ELSE IF hoverOrUnset(controllerOut[n]) THEN found[n - 1]
            ELSE append(found[n - 1], controllerOut[n], platformIn)
    IN  found[Len(controllerOut)]

(* The plugin's input mode that serves the one asked for: the same byte, or  *)
(* the first with the same control and yaw modes; 0 when there is none.     *)
inputMode(b, controllerIn) ==
    LET matches == {i \in DOMAIN controllerIn :
                        compareModes(b, controllerIn[i], MATCH_MODE_AND_YAW)}
    IN  IF \E i \in matches : controllerIn[i] = b THEN b
        ELSE IF matches = {} THEN 0
        ELSE controllerIn[First(matches)]

(* A controller goes down the levels, never up: from POSITION to SPEED, not  *)
(* from SPEED to POSITION.                                                  *)
checkSuitabilityInputMode(b, output, controllerIn) ==
    /\ \E i \in DOMAIN controllerIn : compareModes(b, controllerIn[i], MATCH_MODE_AND_YAW)
    /\ output \div MATCH_CONTROL_MODE
           <= inputMode(b, controllerIn) \div MATCH_CONTROL_MODE

(* The pairs of input and output modes, in the order they are tried. *)
findModePairs(b, preferred, controllerIn, controllerOut, platformIn) ==
    LET outputs  == findOutputModes(preferred, controllerOut, platformIn)
        pairs[n \in 0..Len(outputs)] ==
            IF n = 0 THEN <<>>
            ELSE IF checkSuitabilityInputMode(b, outputs[n], controllerIn)
            THEN Append(pairs[n - 1], <<inputMode(b, controllerIn), outputs[n]>>)
            ELSE pairs[n - 1]
    IN  pairs[Len(outputs)]
=============================================================================
