------------------------- MODULE AerialPlatformProofs -------------------------
(***************************************************************************)
(* Safety of AerialPlatform for every set of frames, every control modes    *)
(* file and every set of requests.                                          *)
(***************************************************************************)
EXTENDS AerialPlatform, CoreProofs

-----------------------------------------------------------------------------
(* The operators the platform is built from.                                *)

(* Whatever the request and the available modes, a resolved mode is a mode. *)
LEMMA ResolveType ==
    ASSUME NEW r, NEW a, resolveControlMode(r, a) # NoMode
    PROVE  resolveControlMode(r, a) \in Mode
  <1> DEFINE b == findBestMatchWithMask(
                     convertAS2ControlModeToUint8t(r), a,
                     IF isHoverMode(r) THEN MATCH_CONTROL_MODE ELSE MATCH_MODE_AND_YAW)
  <1>1. resolveControlMode(r, a) = convertUint8tToAS2ControlMode(b)
    BY DEF resolveControlMode
  <1> HIDE DEF b
  <1>2. convertUint8tToAS2ControlMode(b).control_mode \in ControlModes
    <2>1. CASE \E c \in ControlModes : ControlCode[c] = b \div 16
      BY <2>1 DEF convertUint8tToAS2ControlMode
    <2>2. CASE ~ \E c \in ControlModes : ControlCode[c] = b \div 16
      BY <2>2 DEF convertUint8tToAS2ControlMode, ControlModes
    <2> QED
      BY <2>1, <2>2
  <1>3. convertUint8tToAS2ControlMode(b).yaw_mode \in YawModes
    <2>1. CASE \E y \in YawModes : YawCode[y] = (b \div 4) % 4
      BY <2>1 DEF convertUint8tToAS2ControlMode
    <2>2. CASE ~ \E y \in YawModes : YawCode[y] = (b \div 4) % 4
      BY <2>2 DEF convertUint8tToAS2ControlMode, YawModes
    <2> QED
      BY <2>1, <2>2
  <1> QED
    BY <1>1, <1>2, <1>3 DEF convertUint8tToAS2ControlMode, Mode

-----------------------------------------------------------------------------
(* The invariant.  Each part is inductive only with the types.              *)

(* The part of the types setPlatformControlMode can change.                 *)
ModeTypeOK ==
    /\ mode \in Mode
    /\ poseFrame \in FrameIds
    /\ twistFrame \in FrameIds
    /\ newReferences \in BOOLEAN
    /\ refsSince \in {"none", "reset", "topic"}

IInv == TypeOK /\ DisarmedIsUnarmed /\ ModeFramesDeclared /\ ReferencesFollowTheMode

(* A mode change, accepted or not, leaves a mode whose frames are declared   *)
(* and whose references are its own.                                        *)
LEMMA SetModeKeepsTheMode ==
    ASSUME ModeTypeOK, ModeFramesDeclared, ReferencesFollowTheMode,
           NEW r, setPlatformControlMode(r)
    PROVE  ModeTypeOK' /\ ModeFramesDeclared' /\ ReferencesFollowTheMode'
  <1>1. CASE UNCHANGED modeVars
    BY <1>1 DEF modeVars, ModeTypeOK, ModeFramesDeclared, ReferencesFollowTheMode
  <1>2. CASE ~UNCHANGED modeVars
    <2> DEFINE m == resolveControlMode(r, available_control_modes)
    <2>1. PICK pf \in FrameIds, tf \in FrameIds :
              /\ m # NoMode
              /\ framesSuit(m, pf, tf)
              /\ mode' = m
              /\ poseFrame' = pf
              /\ twistFrame' = tf
              /\ newReferences' = (m.control_mode \in {"HOVER", "UNSET"})
              /\ refsSince' = "none"
      BY <1>2 DEF setPlatformControlMode
    <2>2. m \in Mode
      BY <2>1, ResolveType
    <2> HIDE DEF m
    <2>3. ModeTypeOK'
      BY <2>1, <2>2 DEF ModeTypeOK
    <2>4. ModeFramesDeclared'
      BY <2>1 DEF ModeFramesDeclared
    <2>5. ReferencesFollowTheMode'
      BY <2>1 DEF ReferencesFollowTheMode
    <2> QED
      BY <2>3, <2>4, <2>5
  <1> QED
    BY <1>1, <1>2

LEMMA InitIInv == Init => IInv
  <1> SUFFICES ASSUME Init PROVE IInv
    OBVIOUS
  <1>1. TypeOK
    BY DEF Init, TypeOK, States, Mode, ControlModes, YawModes, UnsetMode, ModeOf,
           FrameIds, FramedTopics, EmptyCommands, Deeds
  <1>2. DisarmedIsUnarmed
    BY DEF Init, DisarmedIsUnarmed
  <1>3. ModeFramesDeclared
    BY DEF Init, ModeFramesDeclared, framesSuit, getCommandFrameUsage, UnsetMode, ModeOf
  <1>4. ReferencesFollowTheMode
    BY DEF Init, ReferencesFollowTheMode, UnsetMode, ModeOf
  <1> QED
    BY <1>1, <1>2, <1>3, <1>4 DEF IInv

LEMMA NextIInv == IInv /\ [Next]_vars => IInv'
  <1> SUFFICES ASSUME IInv, [Next]_vars PROVE IInv'
    OBVIOUS
  <1> USE ClientEventsAssumption
  <1>m. ModeTypeOK /\ ModeFramesDeclared /\ ReferencesFollowTheMode
    BY DEF IInv, TypeOK, ModeTypeOK
  <1>e. ASSUME NEW e \in Events \ {"DISARM", "ARM"}, fsm' \in {fsm, processEvent(fsm, e)},
               armed' = armed
        PROVE  fsm' \in States /\ DisarmedIsUnarmed'
    <2>1. fsm' \in States
      BY <1>e, ProcessEventType DEF IInv, TypeOK
    <2>2. fsm' = "DISARMED" => fsm = "DISARMED"
      BY <1>e, OnlyDisarmDisarms DEF IInv, TypeOK
    <2> QED
      BY <1>e, <2>1, <2>2 DEF IInv, DisarmedIsUnarmed
  <1>h. ASSUME NEW h, h \in {"pose", "twist", "trajectory"}
        PROVE  h \in FramedTopics
    BY <1>h DEF FramedTopics
  <1>1. CASE resetPlatform
    <2>1. TypeOK'
      BY <1>1 DEF IInv, TypeOK, resetPlatform, States, EmptyCommands, FramedTopics, Deeds
    <2>2. DisarmedIsUnarmed' /\ ModeFramesDeclared' /\ ReferencesFollowTheMode'
      BY <1>1 DEF IInv, resetPlatform, DisarmedIsUnarmed, ModeFramesDeclared,
                  ReferencesFollowTheMode
    <2> QED
      BY <2>1, <2>2 DEF IInv
  <1>2. ASSUME NEW state \in BOOLEAN, setArmingState(state)
        PROVE  IInv'
    <2>1. CASE UNCHANGED <<armed, fsm>>
      BY <1>2, <2>1 DEF IInv, setArmingState, TypeOK, DisarmedIsUnarmed,
         ModeFramesDeclared, ReferencesFollowTheMode, modeVars, Deeds
    <2>2. CASE /\ armed' = state
               /\ fsm' = processEvent(fsm, IF state THEN "ARM" ELSE "DISARM")
      <3>1. fsm' \in States
        BY <2>2, ProcessEventType DEF IInv, TypeOK, Events
      <3>2. fsm' = "DISARMED" => ~armed'
        <4>1. CASE state
          BY <4>1, <2>2, OnlyDisarmDisarms, ArmLeavesDisarmed DEF IInv, TypeOK, Events
        <4>2. CASE ~state
          BY <4>2, <2>2
        <4> QED
          BY <4>1, <4>2
      <3> QED
        BY <1>2, <2>2, <3>1, <3>2 DEF IInv, setArmingState, TypeOK, DisarmedIsUnarmed,
           ModeFramesDeclared, ReferencesFollowTheMode, modeVars, Deeds
    <2> QED
      BY <1>2, <2>1, <2>2 DEF setArmingState
  <1>3. ASSUME NEW state \in BOOLEAN, setOffboardControl(state)
        PROVE  IInv'
    BY <1>3 DEF IInv, setOffboardControl, TypeOK, DisarmedIsUnarmed,
       ModeFramesDeclared, ReferencesFollowTheMode, modeVars, Deeds
  <1>4. ASSUME NEW r \in Requests, setPlatformControlModeSrvCall(r)
        PROVE  IInv'
    <2>1. ModeTypeOK' /\ ModeFramesDeclared' /\ ReferencesFollowTheMode'
      BY <1>4, <1>m, SetModeKeepsTheMode DEF setPlatformControlModeSrvCall
    <2> QED
      BY <1>4, <2>1 DEF IInv, setPlatformControlModeSrvCall, TypeOK, ModeTypeOK,
         DisarmedIsUnarmed, Deeds
  <1>5. ASSUME NEW topic \in FramedTopics, NEW frame \in FrameIds,
               commandCallback(topic, frame)
        PROVE  IInv'
    BY <1>5 DEF IInv, commandCallback, TypeOK, DisarmedIsUnarmed,
       ModeFramesDeclared, ReferencesFollowTheMode, Deeds
  <1>6. CASE thrustCallback
    BY <1>6 DEF IInv, thrustCallback, TypeOK, DisarmedIsUnarmed,
       ModeFramesDeclared, ReferencesFollowTheMode, Deeds
  <1>f. ASSUME ownFlightHook
        PROVE  /\ ModeTypeOK' /\ ModeFramesDeclared' /\ ReferencesFollowTheMode'
               /\ header' \in [FramedTopics -> FrameIds]
               /\ did' \in Deeds
    <2>0. did' \in Deeds
      BY <1>f DEF ownFlightHook, Deeds
    <2>1. CASE UNCHANGED <<modeVars, header>>
      BY <1>m, <2>0, <2>1 DEF modeVars, ModeTypeOK, ModeFramesDeclared,
         ReferencesFollowTheMode, IInv, TypeOK
    <2>2. CASE /\ setPlatformControlMode(ModeOf("POSITION", "YAW_ANGLE"))
               /\ header' = [header EXCEPT !["pose"] = poseFrame', !["twist"] = twistFrame']
      <3>1. ModeTypeOK' /\ ModeFramesDeclared' /\ ReferencesFollowTheMode'
        BY <1>m, <2>2, SetModeKeepsTheMode
      <3> QED
        BY <2>0, <2>2, <3>1 DEF ModeTypeOK, IInv, TypeOK
    <2> QED
      BY <1>f, <2>1, <2>2 DEF ownFlightHook
  <1>s. ASSUME ownStopPlatform
        PROVE  ModeTypeOK' /\ ModeFramesDeclared' /\ ReferencesFollowTheMode'
    <2>1. CASE UNCHANGED modeVars
      BY <1>m, <2>1 DEF modeVars, ModeTypeOK, ModeFramesDeclared, ReferencesFollowTheMode
    <2>2. CASE setPlatformControlMode(ModeOf("HOVER", "NONE"))
      BY <1>m, <2>2, SetModeKeepsTheMode
    <2> QED
      BY <1>s, <2>1, <2>2 DEF ownStopPlatform
  <1>7. CASE takeoff
    <2>1. fsm' \in States /\ DisarmedIsUnarmed'
      BY <1>7, <1>e DEF takeoff, Events
    <2> QED
      BY <1>7, <1>f, <2>1 DEF IInv, takeoff, TypeOK, ModeTypeOK
  <1>8. CASE land
    <2>1. fsm' \in States /\ DisarmedIsUnarmed'
      BY <1>8, <1>e DEF land, Events
    <2> QED
      BY <1>8, <1>f, <2>1 DEF IInv, land, TypeOK, ModeTypeOK
  <1>9. ASSUME NEW e \in ClientEvents, setStateMachineEventSrvCallback(e)
        PROVE  IInv'
    <2>1. fsm' \in States /\ DisarmedIsUnarmed'
      BY <1>9, <1>e DEF setStateMachineEventSrvCallback
    <2> QED
      BY <1>9, <2>1 DEF IInv, setStateMachineEventSrvCallback, TypeOK,
         ModeFramesDeclared, ReferencesFollowTheMode, modeVars, Deeds
  <1>10. ASSUME NEW a \in Alerts, alertEvent(a)
         PROVE  IInv'
    <2>1. fsm' \in {fsm, processEvent(fsm, "EMERGENCY")} /\ armed' = armed
      BY <1>10 DEF alertEvent
    <2>2. fsm' \in States /\ DisarmedIsUnarmed'
      BY <2>1, <1>e DEF Events
    <2>3. UNCHANGED modeVars \/ ownStopPlatform
      BY <1>10 DEF alertEvent
    <2>4. ModeTypeOK' /\ ModeFramesDeclared' /\ ReferencesFollowTheMode'
      BY <2>3, <1>s, <1>m DEF modeVars, ModeTypeOK, ModeFramesDeclared,
         ReferencesFollowTheMode
    <2>5. did' \in Deeds
      BY <1>10 DEF alertEvent, Deeds
    <2> QED
      BY <1>10, <2>2, <2>4, <2>5 DEF IInv, alertEvent, TypeOK, ModeTypeOK
  <1>11. CASE sendCommand
    <2>1. ModeTypeOK' /\ ModeFramesDeclared' /\ ReferencesFollowTheMode'
      BY <1>11, <1>s, <1>m DEF sendCommand, modeVars, ModeTypeOK, ModeFramesDeclared,
         ReferencesFollowTheMode
    <2>2. header' \in [FramedTopics -> FrameIds]
      BY <1>11 DEF sendCommand, convertCommandsToFrame, convertCommand, IInv, TypeOK,
         FramedTopics
    <2>3. did' \in Deeds
      BY <1>11 DEF sendCommand, Deeds
    <2> QED
      BY <1>11, <2>1, <2>2, <2>3 DEF IInv, sendCommand, TypeOK, ModeTypeOK,
         DisarmedIsUnarmed
  <1>12. CASE UNCHANGED vars
    BY <1>12 DEF IInv, vars, modeVars, TypeOK, DisarmedIsUnarmed, ModeFramesDeclared,
       ReferencesFollowTheMode
  <1> QED
    BY <1>1, <1>2, <1>3, <1>4, <1>5, <1>6, <1>7, <1>8, <1>9, <1>10, <1>11, <1>12 DEF Next

-----------------------------------------------------------------------------
(* Every variable keeps its type, whatever the handlers and their order.    *)
THEOREM TypeCorrect == Spec => []TypeOK
  <1>1. IInv => TypeOK
    BY DEF IInv
  <1> QED
    BY <1>1, InitIInv, NextIInv, PTL DEF Spec

(* A DISARMED platform has its armed flag off, whatever the driver refuses  *)
(* and whatever events the behaviors send.                                  *)
THEOREM DisarmedTheorem == Spec => []DisarmedIsUnarmed
  <1>1. IInv => DisarmedIsUnarmed
    BY DEF IInv
  <1> QED
    BY <1>1, InitIInv, NextIInv, PTL DEF Spec

(* The frames the active mode uses are declared, for every control modes    *)
(* file and every sequence of accepted and refused mode changes.            *)
THEOREM FramesTheorem == Spec => []ModeFramesDeclared
  <1>1. IInv => ModeFramesDeclared
    BY DEF IInv
  <1> QED
    BY <1>1, InitIInv, NextIInv, PTL DEF Spec

(* New references were received, or reset, after the active mode was set.   *)
THEOREM ReferencesTheorem == Spec => []ReferencesFollowTheMode
  <1>1. IInv => ReferencesFollowTheMode
    BY DEF IInv
  <1> QED
    BY <1>1, InitIInv, NextIInv, PTL DEF Spec

(* No service, alert, behavior event or driver hook leaves EMERGENCY: only  *)
(* a reset does, and it leaves the platform disarmed and in manual.         *)
THEOREM EmergencyTheorem == Spec => EmergencyIsAbsorbing
  <1> DEFINE Exit == fsm = "EMERGENCY" /\ fsm' # "EMERGENCY" =>
                        fsm' = "DISARMED" /\ ~armed' /\ ~offboard'
  <1>1. ASSUME IInv, [Next]_vars
        PROVE  Exit
    <2> SUFFICES ASSUME fsm = "EMERGENCY" PROVE fsm' = "EMERGENCY" \/ resetPlatform
      BY DEF resetPlatform
    <2> USE EmergencyHasNoExit, ClientEventsAssumption
    <2>1. ASSUME NEW state \in BOOLEAN, setArmingState(state)
          PROVE  fsm' = "EMERGENCY"
      BY <2>1 DEF setArmingState, Events
    <2>2. ASSUME NEW e \in ClientEvents, setStateMachineEventSrvCallback(e)
          PROVE  fsm' = "EMERGENCY"
      BY <2>2 DEF setStateMachineEventSrvCallback
    <2>3. ASSUME NEW a \in Alerts, alertEvent(a)
          PROVE  fsm' = "EMERGENCY"
      BY <2>3 DEF alertEvent, Events
    <2>4. CASE takeoff \/ land
      BY <2>4 DEF takeoff, land, Events
    <2>5. ASSUME \/ \E state \in BOOLEAN : setOffboardControl(state)
                 \/ \E r \in Requests : setPlatformControlModeSrvCall(r)
                 \/ \E topic \in FramedTopics, frame \in FrameIds :
                        commandCallback(topic, frame)
                 \/ thrustCallback
                 \/ sendCommand
                 \/ UNCHANGED vars
          PROVE  fsm' = "EMERGENCY"
      BY <2>5 DEF setOffboardControl, setPlatformControlModeSrvCall, commandCallback,
         thrustCallback, sendCommand, vars
    <2> QED
      BY <1>1, <2>1, <2>2, <2>3, <2>4, <2>5 DEF Next
  <1>2. IInv /\ [Next]_vars => [Exit]_vars
    BY <1>1
  <1> QED
    BY <1>2, InitIInv, NextIInv, PTL DEF Spec, EmergencyIsAbsorbing

(* Every command the driver is given has each command its mode uses in a    *)
(* declared frame: the timer's because it converts them and the frames are   *)
(* declared, a flight hook's because it writes them itself, in the frames    *)
(* of the mode it was granted or of the one it was refused to leave.  The    *)
(* timer's, and only those, are sent armed, offboard and outside EMERGENCY.  *)
THEOREM CommandsTheorem == Spec => CommandsAreInTheirFrames
  <1> DEFINE Gated == armed /\ offboard /\ fsm # "EMERGENCY"
             Placed == placed(mode', poseFrame', twistFrame', header')
             Trajectory == mode' = mode /\ mode.control_mode = "TRAJECTORY"
             Sent == /\ did' = "command" => Gated
                     /\ did' \in {"command", "direct"} =>
                           Placed \/ (did' = "direct" /\ Trajectory)
  <1>1. ASSUME IInv, sendCommand, did' \in {"command", "direct"}
        PROVE  Gated /\ Placed
    <2>1. Gated /\ converted(getCommandFrameUsage(mode), header') /\ UNCHANGED modeVars
      BY <1>1 DEF sendCommand, mayCommand
    <2>2. framesSuit(mode, poseFrame, twistFrame)
      BY <1>1 DEF IInv, ModeFramesDeclared
    <2>3. poseFrame \in Frames \cup {NoFrame} /\ twistFrame \in Frames \cup {NoFrame}
      BY <1>1 DEF IInv, TypeOK, FrameIds
    <2>4. placed(mode, poseFrame, twistFrame, header')
      BY <2>1, <2>2, <2>3 DEF placed, converted, framesSuit, getCommandFrameUsage
    <2> QED
      BY <2>1, <2>4 DEF modeVars
  <1>2. ASSUME IInv, IInv', ownFlightHook, did' \in {"command", "direct"}
        PROVE  did' = "direct" /\ (Placed \/ Trajectory)
    <2> DEFINE position == ModeOf("POSITION", "YAW_ANGLE")
    <2>1. /\ did' = "direct"
          /\ setPlatformControlMode(position)
          /\ header' = [header EXCEPT !["pose"] = poseFrame', !["twist"] = twistFrame']
      BY <1>2 DEF ownFlightHook
    <2>2. header'["pose"] = poseFrame' /\ header'["twist"] = twistFrame'
      BY <1>2, <2>1 DEF IInv, TypeOK, FramedTopics
    <2>3. framesSuit(mode', poseFrame', twistFrame')
      BY <1>2 DEF IInv, ModeFramesDeclared
    <2>4. poseFrame' \in Frames \cup {NoFrame} /\ twistFrame' \in Frames \cup {NoFrame}
      BY <1>2 DEF IInv, TypeOK, FrameIds
    <2>5. CASE mode'.control_mode # "TRAJECTORY"
      BY <2>1, <2>2, <2>3, <2>4, <2>5 DEF placed, framesSuit
    <2>6. CASE mode'.control_mode = "TRAJECTORY"
      <3>1. position \in Mode /\ position.control_mode = "POSITION"
        BY DEF ModeOf, Mode, ControlModes, YawModes
      <3>2. resolveControlMode(position, available_control_modes) # NoMode =>
              resolveControlMode(position, available_control_modes).control_mode = "POSITION"
        BY <3>1, ResolveIsTheRequest, AvailableAssumption
      <3>3. mode' = mode \/ mode'.control_mode = "POSITION"
        BY <2>1, <3>2 DEF setPlatformControlMode, modeVars
      <3> QED
        BY <2>1, <2>6, <3>3
    <2> QED
      BY <2>5, <2>6
  <1>3. ASSUME Next, did' \in {"command", "direct"}
        PROVE  sendCommand \/ ownFlightHook
    BY <1>3 DEF Next, resetPlatform, setArmingState, setOffboardControl,
       setPlatformControlModeSrvCall, commandCallback, thrustCallback, takeoff, land,
       setStateMachineEventSrvCallback, alertEvent
  <1>4. IInv /\ [Next]_vars => [Sent]_vars
    <2> SUFFICES ASSUME IInv, Next, did' \in {"command", "direct"} PROVE Sent
      OBVIOUS
    <2>1. IInv'
      BY NextIInv
    <2>2. CASE sendCommand
      BY <1>1, <2>2
    <2>3. CASE ownFlightHook
      BY <1>2, <2>1, <2>3
    <2> QED
      BY <1>3, <2>2, <2>3
  <1> QED
    BY <1>4, InitIInv, NextIInv, PTL DEF Spec, CommandsAreInTheirFrames

(* The platform implements FlightState, the platform the behaviors are        *)
(* composed with: every handler is one of its steps, or leaves the flight     *)
(* state and the armed flag alone.                                           *)
THEOREM FlightStateTheorem == Spec => ImplementsFlightState
  <1>1. Init => FSInit
    BY DEF Init, FSInit
  <1>2. ASSUME [Next]_vars
        PROVE  [FSNext]_fsVars
    <2> USE DEF FSNext, fsVars, FSEvent, FSArming, FSReset
    <2>1. CASE resetPlatform
      BY <2>1 DEF resetPlatform
    <2>2. ASSUME NEW state \in BOOLEAN, setArmingState(state)
          PROVE  FSNext \/ UNCHANGED fsVars
      BY <2>2 DEF setArmingState
    <2>3. CASE takeoff
      BY <2>3 DEF takeoff, Events
    <2>4. CASE land
      BY <2>4 DEF land, Events
    <2>5. ASSUME NEW e \in ClientEvents, setStateMachineEventSrvCallback(e)
          PROVE  FSNext
      BY <2>5, ClientEventsAssumption DEF setStateMachineEventSrvCallback
    <2>6. ASSUME NEW a \in Alerts, alertEvent(a)
          PROVE  FSNext \/ UNCHANGED fsVars
      BY <2>6 DEF alertEvent, Events
    <2>7. ASSUME \/ \E state \in BOOLEAN : setOffboardControl(state)
                 \/ \E r \in Requests : setPlatformControlModeSrvCall(r)
                 \/ \E topic \in FramedTopics, frame \in FrameIds :
                        commandCallback(topic, frame)
                 \/ thrustCallback
                 \/ sendCommand
                 \/ UNCHANGED vars
          PROVE  UNCHANGED fsVars
      BY <2>7 DEF setOffboardControl, setPlatformControlModeSrvCall, commandCallback,
         thrustCallback, sendCommand, vars
    <2> QED
      BY <1>2, <2>1, <2>2, <2>3, <2>4, <2>5, <2>6, <2>7 DEF Next
  <1> QED
    BY <1>1, <1>2, PTL DEF Spec, ImplementsFlightState, FSSpec
=============================================================================
