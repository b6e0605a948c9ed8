---------------------------- MODULE AerialPlatform ----------------------------
(***************************************************************************)
(* as2::AerialPlatform (as2_core/src/aerial_platform.cpp): the node every   *)
(* vehicle driver derives from.  It owns the flight state machine, the      *)
(* armed and offboard flags, the active control mode with the frames its    *)
(* commands must be in, and the last command received on each topic.        *)
(*                                                                          *)
(* All callbacks are in the node's default callback group, so a handler is  *)
(* one atomic step.  What a driver's own* hook does is chosen among what    *)
(* the drivers of the repository do: it accepts or refuses, it may declare  *)
(* frames, and ownTakeoff, ownLand and ownStopPlatform may set a mode of    *)
(* their own (as2_platform_multirotor_simulator) or not                     *)
(* (as2_platform_gazebo).  connected is TRUE from resetPlatform on.         *)
(***************************************************************************)
EXTENDS ControlMode, FlightState

CONSTANTS
    Frames,                  \* the TF frames commands may be expressed in
    NoFrame,                 \* the empty frame id
    available_control_modes, \* the modes loaded from the control modes file
    Requests,                \* the modes clients of the mode service ask for
    ClientEvents             \* the events clients of the FSM service send: the
                             \* takeoff and land behaviors send all but ARM and
                             \* DISARM, and nothing else in the repository calls it

ASSUME FramesAssumption == NoFrame \notin Frames
ASSUME AvailableAssumption == available_control_modes \in Seq(Byte)
ASSUME RequestsAssumption == Requests \subseteq Mode
ASSUME ClientEventsAssumption == ClientEvents \subseteq Events \ {"ARM", "DISARM"}

VARIABLES
    offboard,       \* platform_info_msg_.offboard
    mode,           \* platform_info_msg_.current_control_mode
    poseFrame,      \* command_pose_frame_id_
    twistFrame,     \* command_twist_frame_id_
    newReferences,  \* has_new_references_
    header,         \* frame in the header of the last command of each topic
    refsSince,      \* history: where the references held now come from, since
                    \* the mode was last set
    did             \* history: what the last step made the vehicle do

modeVars == <<mode, poseFrame, twistFrame, newReferences, refsSince>>
vars == <<fsm, armed, offboard, modeVars, header, did>>

FrameIds == Frames \cup {NoFrame}
FramedTopics == {"pose", "twist", "trajectory"}

(* Values of did: the hook of the driver a step ended in.  A command comes  *)
(* from the command timer, or straight from a flight hook ("direct"); the   *)
(* Gazebo driver's flight hooks fly with their own commands ("flight").      *)
Deeds == {"nothing", "command", "direct", "stop", "kill", "flight"}

TypeOK ==
    /\ fsm \in States
    /\ armed \in BOOLEAN
    /\ offboard \in BOOLEAN
    /\ mode \in Mode
    /\ poseFrame \in FrameIds
    /\ twistFrame \in FrameIds
    /\ newReferences \in BOOLEAN
    /\ header \in [FramedTopics -> FrameIds]
    /\ refsSince \in {"none", "reset", "topic"}
    /\ did \in Deeds

(* Mutation: the trajectory command is left out of the reset. *)
EmptyCommands_NoTrajectory(pf, tf) ==
    [topic \in {"pose", "twist"} |-> IF topic = "twist" THEN tf ELSE pf]

-----------------------------------------------------------------------------
(* resetActuatorCommandMsgs: empty commands, in the frames of the mode. *)
EmptyCommands(pf, tf) ==
    [topic \in FramedTopics |-> IF topic = "twist" THEN tf ELSE pf]

(* Everything starts with resetPlatform: the mode is UNSET, no frame is     *)
(* declared, and the empty commands count as new references.                *)
Init ==
    /\ fsm = "DISARMED"
    /\ armed = FALSE
    /\ offboard = FALSE
    /\ mode = UnsetMode
    /\ poseFrame = NoFrame
    /\ twistFrame = NoFrame
    /\ newReferences = TRUE
    /\ header = EmptyCommands(NoFrame, NoFrame)
    /\ refsSince = "reset"
    /\ did = "nothing"

(* The reset service of the Gazebo driver: the mode and its frames survive, *)
(* the state machine is forced to DISARMED.                                 *)
resetPlatform ==
    /\ armed' = FALSE
    /\ offboard' = FALSE
    /\ fsm' = "DISARMED"
    /\ header' = EmptyCommands(poseFrame, twistFrame)
    /\ newReferences' = TRUE
    /\ refsSince' = "reset"
    /\ did' = "nothing"
    /\ UNCHANGED <<mode, poseFrame, twistFrame>>

(* The result of the event is ignored: the flag changes all the same. *)
setArmingState(state) ==
    /\ \/ UNCHANGED <<armed, fsm>>          \* already so, or refused
       \/ /\ state # armed
          /\ armed' = state
          /\ fsm' = processEvent(fsm, IF state THEN "ARM" ELSE "DISARM")
    /\ did' = "nothing"
    /\ UNCHANGED <<offboard, modeVars, header>>

setOffboardControl(state) ==
    /\ offboard' \in {offboard, state}      \* already so or refused, or accepted
    /\ did' = "nothing"
    /\ UNCHANGED <<fsm, armed, modeVars, header>>

(* The mode is rejected when the frames it uses are not declared, or when a *)
(* trajectory, which has one header, would need two.                        *)
framesSuit(m, pf, tf) ==
    LET usage == getCommandFrameUsage(m)
    IN  /\ usage.pose => pf # NoFrame
        /\ usage.twist => tf # NoFrame
        /\ m.control_mode = "TRAJECTORY" => pf = tf

(* Mutation: the frames cleared before asking the driver are not restored. *)
setPlatformControlMode_NoRestore(request) ==
    LET resolved == resolveControlMode(request, available_control_modes)
    IN  \/ /\ poseFrame' = NoFrame
           /\ twistFrame' = NoFrame
           /\ UNCHANGED <<mode, newReferences, refsSince>>
        \/ \E pf, tf \in FrameIds :
              /\ resolved # NoMode
              /\ framesSuit(resolved, pf, tf)
              /\ mode' = resolved
              /\ poseFrame' = pf
              /\ twistFrame' = tf
              /\ newReferences' = (resolved.control_mode \in {"HOVER", "UNSET"})
              /\ refsSince' = "none"

(* Mutation: the references of the previous mode stay new. *)
setPlatformControlMode_KeepReferences(request) ==
    LET resolved == resolveControlMode(request, available_control_modes)
    IN  \/ UNCHANGED modeVars
        \/ \E pf, tf \in FrameIds :
              /\ resolved # NoMode
              /\ framesSuit(resolved, pf, tf)
              /\ mode' = resolved
              /\ poseFrame' = pf
              /\ twistFrame' = tf
              /\ refsSince' = "none"
              /\ UNCHANGED newReferences

(* setPlatformControlMode with a hook that accepts or not and declares the  *)
(* frames pf and tf; a refused mode restores the frames saved before.       *)
setPlatformControlMode(request) ==
    LET resolved == resolveControlMode(request, available_control_modes)
    IN  \/ UNCHANGED modeVars               \* not available, refused, unsuitable
        \/ \E pf, tf \in FrameIds :
              /\ resolved # NoMode
              /\ framesSuit(resolved, pf, tf)
              /\ mode' = resolved
              /\ poseFrame' = pf
              /\ twistFrame' = tf
              /\ newReferences' = (resolved.control_mode \in {"HOVER", "UNSET"})
              /\ refsSince' = "none"

setPlatformControlModeSrvCall(request) ==
    /\ setPlatformControlMode(request)
    /\ did' = "nothing"
    /\ UNCHANGED <<fsm, armed, offboard, header>>

(* The subscriptions of the actuator command topics. *)
commandCallback(topic, frame) ==
    /\ header' = [header EXCEPT ![topic] = frame]
    /\ newReferences' = TRUE
    /\ refsSince' = "topic"
    /\ did' = "nothing"
    /\ UNCHANGED <<fsm, armed, offboard, mode, poseFrame, twistFrame>>

thrustCallback ==
    /\ newReferences' = TRUE
    /\ refsSince' = "topic"
    /\ did' = "nothing"
    /\ UNCHANGED <<fsm, armed, offboard, mode, poseFrame, twistFrame, header>>

(* ownTakeoff and ownLand: the simulator driver asks for POSITION, ignores  *)
(* the answer, overwrites the pose and twist commands, and calls its         *)
(* ownSendCommand itself: no gate of sendCommand, and no conversion, is on   *)
(* the way, so the command goes out in any state and in whatever mode is     *)
(* active.  Gazebo's hooks leave the mode and the commands alone.            *)
ownFlightHook ==
    \/ /\ did' = "flight"
       /\ UNCHANGED <<modeVars, header>>
    \/ /\ did' = "direct"
       /\ setPlatformControlMode(ModeOf("POSITION", "YAW_ANGLE"))
       /\ header' = [header EXCEPT !["pose"] = poseFrame', !["twist"] = twistFrame']

(* ownStopPlatform: the simulator driver asks for HOVER. *)
ownStopPlatform ==
    \/ UNCHANGED modeVars
    \/ setPlatformControlMode(ModeOf("HOVER", "NONE"))

(* Mutation: a successful takeoff sets the state without an event. *)
takeoff_SetsState ==
    /\ ownFlightHook
    /\ fsm' \in {fsm, "FLYING"}
    /\ UNCHANGED <<armed, offboard>>

(* takeoff and land consult no state; the result of the event is ignored. *)
takeoff ==
    /\ ownFlightHook
    /\ fsm' \in {fsm, processEvent(fsm, "TOOK_OFF")}    \* the hook fails, or not
    /\ UNCHANGED <<armed, offboard>>

land ==
    /\ ownFlightHook
    /\ fsm' \in {fsm, processEvent(fsm, "LANDED")}
    /\ UNCHANGED <<armed, offboard>>

(* The state machine event service: any node may send any event. *)
setStateMachineEventSrvCallback(event) ==
    /\ fsm' = processEvent(fsm, event)
    /\ did' = "nothing"
    /\ UNCHANGED <<armed, offboard, modeVars, header>>

(* The alerts of AlertEvent.msg. *)
Alerts == {"KILL_SWITCH", "EMERGENCY_HOVER", "EMERGENCY_LAND",
           "INFO_ALERT", "FORCE_HOVER", "FORCE_LAND"}

(* The positive ones are for others, and the rest, EMERGENCY_LAND included,   *)
(* fall in an empty default branch.                                          *)
alertEvent(alert) ==
    /\ \/ /\ alert = "KILL_SWITCH"
          /\ fsm' = processEvent(fsm, "EMERGENCY")
          /\ did' = "kill"
          /\ UNCHANGED modeVars
       \/ /\ alert = "EMERGENCY_HOVER"
          /\ fsm' = processEvent(fsm, "EMERGENCY")
          /\ did' = "stop"
          /\ ownStopPlatform
       \/ /\ alert \notin {"KILL_SWITCH", "EMERGENCY_HOVER"}
          /\ did' = "nothing"
          /\ UNCHANGED <<fsm, modeVars>>
    /\ UNCHANGED <<armed, offboard, header>>

(* Mutation: the result of the twist conversion overwrites the pose's. *)
converted_LastOnly(usage, h) ==
    IF mode.control_mode = "TRAJECTORY" THEN h["trajectory"] = poseFrame
    ELSE IF usage.twist THEN h["twist"] = twistFrame
                        ELSE usage.pose => h["pose"] = poseFrame

(* convertCommandsToFrame: a command in another frame is converted in place *)
(* if TF has the transform now; one without a frame cannot be.              *)
convertCommand(topic, used, target) ==
    IF used /\ header[topic] # NoFrame THEN {header[topic], target}
                                       ELSE {header[topic]}

converted(usage, h) ==
    IF mode.control_mode = "TRAJECTORY" THEN h["trajectory"] = poseFrame
    ELSE /\ usage.pose => h["pose"] = poseFrame
         /\ usage.twist => h["twist"] = twistFrame

convertCommandsToFrame ==
    LET usage      == getCommandFrameUsage(mode)
        trajectory == mode.control_mode = "TRAJECTORY"
    IN  \E p \in convertCommand("pose", usage.pose /\ ~trajectory, poseFrame),
           t \in convertCommand("twist", usage.twist /\ ~trajectory, twistFrame),
           s \in convertCommand("trajectory", trajectory, poseFrame) :
              header' = [pose |-> p, twist |-> t, trajectory |-> s]

mayCommand == mode.control_mode # "UNSET" /\ armed /\ offboard

(* Mutation: the emergency stop waits for new references as commands do. *)
sendCommand_StopNeedsReferences ==
    /\ mayCommand
    /\ newReferences
    /\ \/ /\ fsm = "EMERGENCY"
          /\ ownStopPlatform
          /\ did' = "stop"
          /\ UNCHANGED header
       \/ /\ fsm # "EMERGENCY"
          /\ convertCommandsToFrame
          /\ did' = IF converted(getCommandFrameUsage(mode), header')
                    THEN "command" ELSE "nothing"
          /\ UNCHANGED modeVars
    /\ UNCHANGED <<fsm, armed, offboard>>

(* The command timer.  The references stay new after being sent. *)
sendCommand ==
    /\ mayCommand
    /\ \/ /\ fsm = "EMERGENCY"
          /\ ownStopPlatform
          /\ did' = "stop"
          /\ UNCHANGED header
       \/ /\ fsm # "EMERGENCY"
          /\ newReferences
          /\ convertCommandsToFrame
          /\ did' = IF converted(getCommandFrameUsage(mode), header')
                    THEN "command" ELSE "nothing"
          /\ UNCHANGED modeVars
    /\ UNCHANGED <<fsm, armed, offboard>>

Next ==
    \/ resetPlatform
    \/ \E state \in BOOLEAN : setArmingState(state) \/ setOffboardControl(state)
    \/ \E request \in Requests : setPlatformControlModeSrvCall(request)
    \/ \E topic \in FramedTopics, frame \in FrameIds : commandCallback(topic, frame)
    \/ thrustCallback
    \/ takeoff
    \/ land
    \/ \E event \in ClientEvents : setStateMachineEventSrvCallback(event)
    \/ \E alert \in Alerts : alertEvent(alert)
    \/ sendCommand

(* The command timer fires as long as the node spins. *)
Spec == Init /\ [][Next]_vars /\ WF_vars(sendCommand)
-----------------------------------------------------------------------------
(* A platform whose state machine is DISARMED has its motors' flag off: over *)
(* every order of arming, disarming, alerts, resets, behavior events, and    *)
(* arming calls the driver refuses (setArmingState, aerial_platform.cpp:193). *)
DisarmedIsUnarmed == fsm = "DISARMED" => ~armed

(* The frames declared are those the active mode uses, whatever sequence of  *)
(* accepted, refused and unsuitable modes came before: a refused change gives *)
(* the old mode its frames back (setPlatformControlMode).                    *)
ModeFramesDeclared == framesSuit(mode, poseFrame, twistFrame)

(* After a mode change nothing is sent on behalf of the previous mode: new    *)
(* references mean a message, or a reset, came after the mode was set (HOVER  *)
(* and UNSET need none).                                                     *)
ReferencesFollowTheMode ==
    newReferences => \/ mode.control_mode \in {"HOVER", "UNSET"}
                     \/ refsSince # "none"

placed(m, pf, tf, h) ==
    LET usage == getCommandFrameUsage(m)
    IN  IF m.control_mode = "TRAJECTORY" THEN h["trajectory"] \in Frames \cap {pf, tf}
        ELSE /\ usage.pose => h["pose"] \in Frames \cap {pf}
             /\ usage.twist => h["twist"] \in Frames \cap {tf}

(* Every command handed to the driver's ownSendCommand, by the timer or by a *)
(* flight hook, has each command the active mode uses in the frame declared  *)
(* for it: even when the hook's POSITION is refused, and it commands the     *)
(* vehicle in the mode of before.  Only a trajectory is not the hook's to     *)
(* rewrite.  The timer's commands are sent armed, offboard and outside       *)
(* EMERGENCY; of the hooks' the code does not promise that.                  *)
CommandsAreInTheirFrames ==
    [][/\ did' = "command" => armed /\ offboard /\ fsm # "EMERGENCY"
       /\ did' \in {"command", "direct"} =>
             \/ placed(mode', poseFrame', twistFrame', header')
             \/ did' = "direct" /\ mode' = mode /\ mode.control_mode = "TRAJECTORY"]_vars

(* Only a reset leaves EMERGENCY, and it leaves it disarmed and in manual:   *)
(* no service, alert, behavior event or driver hook does.                    *)
EmergencyIsAbsorbing ==
    [][fsm = "EMERGENCY" /\ fsm' # "EMERGENCY" =>
          fsm' = "DISARMED" /\ ~armed' /\ ~offboard']_vars

(* The platform, seen through its state machine and its armed flag, is the     *)
(* FlightState the takeoff and land behaviors rely on: references, frames,    *)
(* refused modes and driver hooks never reach those two.                      *)
ImplementsFlightState == FSSpec

(* In EMERGENCY the command timer ends up stopping the vehicle, as long as    *)
(* it can be commanded at all (sendCommand's early returns).                 *)
EmergencyStopsTheVehicle ==
    fsm = "EMERGENCY" /\ mayCommand ~>
        did = "stop" \/ ~mayCommand \/ fsm # "EMERGENCY"
=============================================================================
