----------------------------- MODULE ControlMode -----------------------------
(***************************************************************************)
(* The control mode codec, matching and frame usage of                     *)
(* as2_core/src/utils/control_mode_utils.cpp.  A control mode is a message  *)
(* with two fields; on the wire and in the control modes file it is a byte: *)
(* bits 7..4 the control mode, bits 3..2 the yaw mode, bits 1..0 reserved.  *)
(***************************************************************************)
EXTENDS Integers, Sequences, FiniteSets

ControlModes == {"UNSET", "HOVER", "BODY_RATES", "ATTITUDE", "SPEED",
                 "SPEED_IN_A_PLANE", "POSITION", "TRAJECTORY"}

YawModes == {"YAW_ANGLE", "YAW_SPEED", "NONE"}

Mode == [control_mode : ControlModes, yaw_mode : YawModes]

ModeOf(c, y) == [control_mode |-> c, yaw_mode |-> y]

(* What the message constructor leaves in a field nobody assigns: 0. *)
UnsetMode == ModeOf("UNSET", "NONE")

Byte == 0..255

(* The code of each control mode in the high nibble, and of each yaw mode in *)
(* bits 3..2.                                                                *)
ControlCode == [UNSET |-> 0, HOVER |-> 1, BODY_RATES |-> 2, ATTITUDE |-> 3,
                SPEED |-> 4, SPEED_IN_A_PLANE |-> 5, POSITION |-> 6,
                TRAJECTORY |-> 7]

YawCode == [YAW_ANGLE |-> 0, YAW_SPEED |-> 1, NONE |-> 2]

convertAS2ControlModeToUint8t(m) ==
    16 * ControlCode[m.control_mode] + 4 * YawCode[m.yaw_mode]

(* A nibble no mode has leaves the field as constructed: UNSET, NONE. *)
convertUint8tToAS2ControlMode(b) ==
    [control_mode |-> IF \E c \in ControlModes : ControlCode[c] = b \div 16
                      THEN CHOOSE c \in ControlModes : ControlCode[c] = b \div 16
                      ELSE "UNSET",
     yaw_mode     |-> IF \E y \in YawModes : YawCode[y] = (b \div 4) % 4
                      THEN CHOOSE y \in YawModes : YawCode[y] = (b \div 4) % 4
                      ELSE "NONE"]

(* A mask keeps the bits from one position up, so it is named by the weight  *)
(* of the lowest bit it keeps.                                               *)
MATCH_CONTROL_MODE == 16
MATCH_MODE_AND_YAW == 4
MATCH_ALL          == 1

compareModes(a, b, mask) == a \div mask = b \div mask

NoMatch == -1

First(I) == CHOOSE i \in I : \A j \in I : i <= j
Final(I) == CHOOSE i \in I : \A j \in I : j <= i

(* An exact match wins; otherwise the first match of the list does. *)
findBestMatchWithMask(b, list, mask) ==
    LET matches == {i \in DOMAIN list : compareModes(b, list[i], mask)}
    IN  IF matches = {} THEN NoMatch
        ELSE IF \E i \in matches : list[i] = b THEN b
        ELSE list[First(matches)]

isHoverMode(m) == m.control_mode = "HOVER"

NoMode == [control_mode |-> "none", yaw_mode |-> "none"]

(* HOVER is matched on the control mode alone.  The resolved mode is the      *)
(* available one, not the requested one; NoMode stands for the false result.  *)
resolveControlMode(request, available) ==
    LET mask  == IF isHoverMode(request) THEN MATCH_CONTROL_MODE
                                         ELSE MATCH_MODE_AND_YAW
        match == findBestMatchWithMask(
                     convertAS2ControlModeToUint8t(request), available, mask)
    IN  IF match = NoMatch THEN NoMode ELSE convertUint8tToAS2ControlMode(match)

(* Which framed commands a mode drives.                                        *)
getCommandFrameUsage(m) ==
    LET both == m.control_mode \in {"POSITION", "SPEED_IN_A_PLANE", "TRAJECTORY"}
        yawInPose == m.yaw_mode = "YAW_ANGLE"
    IN  [pose  |-> \/ both
                   \/ m.control_mode = "ATTITUDE"
                   \/ m.control_mode = "SPEED" /\ yawInPose,
         twist |-> \/ both
                   \/ m.control_mode = "ATTITUDE" /\ ~yawInPose
                   \/ m.control_mode = "SPEED"]
=============================================================================
