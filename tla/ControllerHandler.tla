--------------------------- MODULE ControllerHandler ---------------------------
(***************************************************************************)
(* controller_handler::ControllerHandler                                    *)
(* (as2_motion_controller/src/controller_handler.cpp) and the platform's     *)
(* control mode, which it sets with a synchronous service client.  The node  *)
(* runs one callback at a time; setControlModeSrvCall is split where it       *)
(* waits for the platform, and there the platform, its info topic and its    *)
(* driver go on.                                                            *)
(*                                                                          *)
(* The plugin is the flags ControllerBase owns; whether it serves a mode, has *)
(* its parameters or computes an output is a choice, and so is whether a     *)
(* message can be brought to the plugin's frames.  dt > 0 is assumed.        *)
(***************************************************************************)
EXTENDS ModeNegotiation

CONSTANTS
    controller_available_modes_in,  \* sorted, from the plugin's modes file
    controller_available_modes_out,
    available_control_modes,        \* the platform's list
    hoverMode,                      \* the mode the plugin holds position with
    Requests,                       \* the modes clients ask for
    Kinds                           \* the kinds of reference clients send

ASSUME ControllerModesAssumption ==
    /\ controller_available_modes_in \in Seq(Byte)
    /\ controller_available_modes_out \in Seq(Byte)
ASSUME AvailableModesAssumption == available_control_modes \in Seq(Byte)
ASSUME HoverModeAssumption == hoverMode \in Mode
ASSUME RequestsAssumption == Requests \subseteq Mode
ASSUME KindsAssumption == Kinds \subseteq {"pose", "twist", "trajectory", "thrust"}

VARIABLES
    use_bypass,         \* use_bypass_, the node's parameter, read once
    platformMode,       \* the platform's current_control_mode
    infoSent,           \* mode in the platform info message on its way, or NoMode
    infoMode,           \* platform_info_.current_control_mode
    established,        \* control_mode_established_
    bypass,             \* bypass_controller_
    modeIn,             \* control_mode_in_
    modeOut,            \* control_mode_out_
    hoverPending,       \* hover_pending_
    stateAcquired,      \* state_acquired_
    acquired,           \* the kinds whose ref_*_acquired_ is set
    reference,          \* the plugin's reference_received_
    hoverEnabled,       \* the plugin's hover_enabled_
    at,                 \* where setControlModeSrvCall waits, or "idle"
    job,                \* its locals
    response,           \* response->success of the last request
    asked,              \* history: the request being served, or NoMode
    before,             \* history: the platform's mode when the request being
                        \* served came
    driven,             \* history: whether the driver set the mode last
    heard,              \* history: whether a reference was taken since a mode
                        \* was established
    did                 \* history: what the last step sent

platformVars == <<platformMode, infoSent, driven>>
modeVars == <<established, bypass, modeIn, modeOut>>
inputVars == <<hoverPending, stateAcquired, acquired, reference, hoverEnabled, heard>>
callVars == <<at, job, response, asked, before>>
vars == <<use_bypass, platformVars, infoMode, modeVars, inputVars, callVars, did>>

(* The locals of setControlModeSrvCall: the pairs still to be tried, whether  *)
(* hover is what is asked for, whether this is the fallback of a request      *)
(* that failed, and whether the platform's mode was changed.                 *)
Job == [pairs : Seq(Byte \X Byte), hover : BOOLEAN, fallback : BOOLEAN, changed : BOOLEAN]

TypeOK ==
    /\ use_bypass \in BOOLEAN
    /\ platformMode \in Mode
    /\ infoSent \in Mode \cup {NoMode}
    /\ infoMode \in Mode
    /\ established \in BOOLEAN
    /\ bypass \in BOOLEAN
    /\ modeIn \in Mode
    /\ modeOut \in Mode
    /\ hoverPending \in BOOLEAN
    /\ stateAcquired \in BOOLEAN
    /\ acquired \subseteq Kinds
    /\ reference \in BOOLEAN
    /\ hoverEnabled \in BOOLEAN
    /\ at \in {"idle", "hover", "try", "restore"}
    /\ job \in Job
    /\ response \in {"none", "waiting", "yes", "no"}
    /\ asked \in Requests \cup {NoMode}
    /\ before \in Mode
    /\ driven \in BOOLEAN
    /\ heard \in BOOLEAN
    /\ did \in [what : {"nothing", "hover_reference"}] \cup
               [what : {"command"}, topics : SUBSET {"pose", "twist", "trajectory", "thrust"}]

nothing == [what |-> "nothing"]

NoJob == [pairs |-> <<>>, hover |-> FALSE, fallback |-> FALSE, changed |-> FALSE]

-----------------------------------------------------------------------------
Init ==
    /\ use_bypass \in BOOLEAN
    /\ platformMode = UnsetMode
    /\ infoSent = NoMode
    /\ infoMode = UnsetMode
    /\ established = FALSE
    /\ bypass = FALSE
    /\ modeIn = UnsetMode
    /\ modeOut = UnsetMode
    /\ hoverPending = FALSE
    /\ stateAcquired = FALSE
    /\ acquired = {}
    /\ reference = FALSE
    /\ hoverEnabled = FALSE
    /\ at = "idle"
    /\ job = NoJob
    /\ response = "none"
    /\ asked = NoMode
    /\ before = UnsetMode
    /\ driven = FALSE
    /\ heard = FALSE
    /\ did = nothing

(* The platform, outside the controller: its driver may set a mode by itself  *)
(* (the stop and the takeoff of as2_platform_multirotor_simulator), and its   *)
(* info timer publishes the mode of the moment.                              *)
driverSetsMode ==
    /\ \E request \in {ModeOf("HOVER", "NONE"), ModeOf("POSITION", "YAW_ANGLE")} :
          LET resolved == resolveControlMode(request, available_control_modes)
          IN  resolved # NoMode /\ platformMode' = resolved
    /\ driven' = TRUE
    /\ did' = nothing
    /\ UNCHANGED <<infoSent, infoMode, modeVars, inputVars, callVars>>

publishPlatformInfo ==
    /\ infoSent' = platformMode
    /\ did' = nothing
    /\ UNCHANGED <<platformMode, driven, infoMode, modeVars, inputVars, callVars>>

platformInfoCallback ==
    /\ at = "idle"
    /\ infoSent # NoMode
    /\ infoMode' = infoSent
    /\ infoSent' = NoMode
    /\ did' = nothing
    /\ UNCHANGED <<platformMode, driven, modeVars, inputVars, callVars>>

(* Mutation: the platform takes a mode none of its own resolves. *)
setPlatformControlMode_Unresolved(request, answered) ==
    /\ platformMode' = IF answered THEN resolveControlMode(request, available_control_modes)
                                   ELSE platformMode
    /\ driven' = (driven /\ ~answered)
    /\ UNCHANGED infoSent

(* A call of the platform's mode service; answered says what came back. *)
setPlatformControlMode(request, answered) ==
    LET resolved == resolveControlMode(request, available_control_modes)
    IN  /\ platformMode' = IF answered THEN resolved ELSE platformMode
        /\ answered => resolved # NoMode
        /\ driven' = (driven /\ ~answered)
        /\ UNCHANGED infoSent

-----------------------------------------------------------------------------
(* Mutation: a refused request leaves the established mode as it was. *)
refuse_KeepsMode ==
    /\ at' = "idle"
    /\ response' = "no"
    /\ UNCHANGED <<established, modeIn, modeOut, inputVars>>

(* The request ends without a mode. *)
refuse ==
    /\ at' = "idle"
    /\ response' = "no"
    /\ established' = FALSE
    /\ UNCHANGED <<modeIn, modeOut, inputVars>>

(* The platform is asked for the pairs, from the first. *)
try(pairs, j) ==
    /\ at' = "try"
    /\ job' = [j EXCEPT !.pairs = pairs]
    /\ established' = FALSE
    /\ response' = "waiting"
    /\ UNCHANGED <<modeIn, modeOut, inputVars>>

(* The lists of modes do not change, so neither do the pairs of a request.    *)
modePairs ==
    [code \in Byte |-> findModePairs(code, 0, controller_available_modes_in,
                           controller_available_modes_out, available_control_modes)]

(* The pairs of the plugin's mode for the request, which for a hover is the   *)
(* plugin's own; without a pair, or a hover mode, the request is refused.    *)
negotiate(request, j) ==
    LET wanted == IF j.hover THEN hoverMode ELSE request
        pairs  == modePairs[convertAS2ControlModeToUint8t(wanted)]
    IN  /\ bypass' = FALSE
        /\ IF pairs = <<>> \/ (j.hover /\ hoverMode.control_mode = "UNSET")
           THEN refuse /\ job' = j
           ELSE try(pairs, j)

(* setControlModeSrvCall up to its first call of the platform's mode service. *)
(* An empty list of platform modes refuses the request before bypass_controller_ *)
(* is cleared.                                                              *)
begin(request, fallback) ==
    LET j    == [NoJob EXCEPT !.hover = isHoverMode(request), !.fallback = fallback]
        code == convertAS2ControlModeToUint8t(request)
        same == IF hoverOrUnset(code) THEN 0 ELSE lastMatch(code, available_control_modes)
    IN  IF available_control_modes = <<>>
        THEN refuse /\ job' = j /\ UNCHANGED bypass
        ELSE IF ~use_bypass THEN negotiate(request, j)
        ELSE IF j.hover
             THEN IF \E i \in DOMAIN available_control_modes :
                         compareModes(available_control_modes[i], HOVER_MODE_MASK,
                                      MATCH_CONTROL_MODE)
                  THEN /\ at' = "hover"
                       /\ job' = j
                       /\ established' = FALSE
                       /\ bypass' = FALSE
                       /\ response' = "waiting"
                       /\ UNCHANGED <<modeIn, modeOut, inputVars>>
                  ELSE negotiate(request, j)
             ELSE IF same # 0
                  THEN try(<<<<0, same>>>>, j) /\ bypass' = TRUE
                  ELSE negotiate(request, j)

setControlModeSrvCall(request) ==
    /\ at = "idle"
    /\ begin(request, FALSE)
    /\ asked' = IF at' = "idle" THEN NoMode ELSE request
    /\ before' = IF at' = "idle" THEN UnsetMode ELSE platformMode
    /\ did' = nothing
    /\ UNCHANGED <<platformVars, infoMode>>

(* What was asked, and the mode the platform had, are of interest until the   *)
(* request is answered.                                                      *)
remember ==
    /\ asked' = IF at' = "idle" THEN NoMode ELSE asked
    /\ before' = IF at' = "idle" THEN UnsetMode ELSE before

(* trySetPlatformHover. *)
trySetPlatformHover(answered) ==
    /\ at = "hover"
    /\ setPlatformControlMode(convertUint8tToAS2ControlMode(HOVER_MODE_MASK), answered)
    /\ IF answered
       THEN try(<<<<0, HOVER_MODE_MASK>>>>, job) /\ bypass' = TRUE
       ELSE negotiate(ModeOf("HOVER", "NONE"), job)
    /\ did' = nothing
    /\ remember
    /\ UNCHANGED infoMode

(* Mutation: the flags of the references are not cleared. *)
reset_KeepsReferences ==
    /\ stateAcquired' = FALSE
    /\ reference' = FALSE
    /\ UNCHANGED acquired

reset ==
    /\ stateAcquired' = FALSE
    /\ acquired' = {}
    /\ reference' = FALSE

(* Mutation: a pending hover survives a mode that is not a hover. *)
establish_KeepsHover(in, out) ==
    /\ established' = TRUE
    /\ modeOut' = convertUint8tToAS2ControlMode(out)
    /\ modeIn' = convertUint8tToAS2ControlMode(IF bypass THEN out ELSE in)
    /\ reset
    /\ hoverEnabled' = (hoverEnabled \/ (~bypass /\ job.hover))
    /\ hoverPending' = (hoverPending \/ (~bypass /\ job.hover))
    /\ heard' = FALSE
    /\ at' = "idle"
    /\ response' = IF job.fallback THEN "no" ELSE "yes"
    /\ job' = [NoJob EXCEPT !.hover = job.hover]
    /\ UNCHANGED bypass

(* Mutation: the mode reported as input is the one the platform was given.  *)
establish_ReportsOutput(in, out) ==
    /\ established' = TRUE
    /\ modeOut' = convertUint8tToAS2ControlMode(out)
    /\ modeIn' = convertUint8tToAS2ControlMode(out)
    /\ reset
    /\ hoverEnabled' = IF bypass THEN hoverEnabled ELSE job.hover
    /\ hoverPending' = IF bypass THEN hoverPending ELSE job.hover
    /\ heard' = FALSE
    /\ at' = "idle"
    /\ response' = IF job.fallback THEN "no" ELSE "yes"
    /\ job' = [NoJob EXCEPT !.hover = job.hover]
    /\ UNCHANGED bypass

(* The pair is taken by the platform and, without a bypass, by the plugin.    *)
(* The client of a request that ended in the fallback is told it failed.  Of  *)
(* the locals only what was asked for is kept, as history.                   *)
establish(in, out) ==
    /\ established' = TRUE
    /\ modeOut' = convertUint8tToAS2ControlMode(out)
    /\ modeIn' = convertUint8tToAS2ControlMode(IF bypass THEN out ELSE in)
    /\ reset
    /\ hoverEnabled' = IF bypass THEN hoverEnabled ELSE job.hover
    /\ hoverPending' = IF bypass THEN hoverPending ELSE job.hover
    /\ heard' = FALSE
    /\ at' = "idle"
    /\ response' = IF job.fallback THEN "no" ELSE "yes"
    /\ job' = [NoJob EXCEPT !.hover = job.hover]
    /\ UNCHANGED bypass

(* Mutation: a hover that is refused is tried again. *)
fallBack_Again == begin(ModeOf("HOVER", "YAW_ANGLE"), TRUE)

(* No pair is left: hover instead, unless hover is what failed. *)
fallBack ==
    IF job.hover THEN refuse /\ UNCHANGED <<bypass, job>>
                 ELSE begin(ModeOf("HOVER", "YAW_ANGLE"), TRUE)

(* The pair at the head is refused, by the platform or by the plugin. *)
nextPair(changed) ==
    IF Len(job.pairs) > 1
    THEN /\ job' = [job EXCEPT !.pairs = Tail(@), !.changed = changed]
         /\ UNCHANGED <<at, response, modeVars, inputVars>>
    ELSE IF changed
    THEN /\ at' = "restore"
         /\ job' = [job EXCEPT !.pairs = <<>>, !.changed = TRUE]
         /\ UNCHANGED <<response, modeVars, inputVars>>
    ELSE fallBack

(* Mutation: a pair whose mode the platform refuses is offered to the plugin *)
(* all the same.                                                            *)
tryPair_IgnoresPlatform(answered, served) ==
    /\ at = "try"
    /\ LET pair == Head(job.pairs)
       IN  /\ setPlatformControlMode(convertUint8tToAS2ControlMode(pair[2]), answered)
           /\ IF served \/ bypass
              THEN establish(pair[1], pair[2])
              ELSE nextPair(job.changed \/ answered)
    /\ did' = nothing
    /\ remember
    /\ UNCHANGED infoMode

(* One turn of the loop over the pairs: the platform answers, and the plugin  *)
(* serves the mode or not.                                                  *)
tryPair(answered, served) ==
    /\ at = "try"
    /\ LET pair == Head(job.pairs)
       IN  /\ setPlatformControlMode(convertUint8tToAS2ControlMode(pair[2]), answered)
           /\ IF answered /\ (served \/ bypass)
              THEN establish(pair[1], pair[2])
              ELSE nextPair(job.changed \/ answered)
    /\ did' = nothing
    /\ remember
    /\ UNCHANGED infoMode

(* The platform is asked for the mode of the last info message; its answer is *)
(* not looked at.                                                           *)
restore(answered) ==
    /\ at = "restore"
    /\ setPlatformControlMode(infoMode, answered)
    /\ fallBack
    /\ did' = nothing
    /\ remember
    /\ UNCHANGED infoMode

-----------------------------------------------------------------------------
(* refPoseCallback, refTwistCallback, refTrajCallback and refThrustCallback,  *)
(* for a message that is not dropped for its frames.                        *)
refCallback(kind) ==
    /\ at = "idle"
    /\ established \/ bypass
    /\ modeIn.control_mode \notin {"HOVER", "UNSET"}
    /\ acquired' = acquired \cup {kind}
    /\ reference' = (reference \/ ~bypass)
    /\ heard' = TRUE
    /\ did' = nothing
    /\ UNCHANGED <<platformVars, infoMode, modeVars, callVars,
                   hoverPending, stateAcquired, hoverEnabled>>

(* A state the transforms are known for; a pending hover is frozen there. *)
stateCallback ==
    /\ at = "idle"
    /\ established
    /\ ~bypass
    /\ stateAcquired' = TRUE
    /\ hoverPending' = FALSE
    /\ reference' = (reference \/ hoverPending)
    /\ heard' = (heard \/ hoverPending)
    /\ did' = IF hoverPending THEN [what |-> "hover_reference"] ELSE nothing
    /\ UNCHANGED <<platformVars, infoMode, modeVars, callVars, acquired, hoverEnabled>>

(* The topics a command of a mode goes out on. *)
publishCommand(m) ==
    CASE m.control_mode = "TRAJECTORY" -> {"trajectory"}
      [] m.control_mode \in {"POSITION", "SPEED_IN_A_PLANE"} -> {"pose", "twist"}
      [] m.control_mode = "SPEED" -> {"twist"} \cup
             (IF m.yaw_mode = "YAW_ANGLE" THEN {"pose"} ELSE {})
      [] m.control_mode = "ATTITUDE" -> {"pose", "thrust"} \cup
             (IF m.yaw_mode = "YAW_SPEED" THEN {"twist"} ELSE {})
      [] m.control_mode = "BODY_RATES" -> {"twist", "thrust"}
      [] m.control_mode \in {"HOVER", "UNSET"} -> {}

(* controlTimerCallback and sendCommand, when the last info message says armed *)
(* and offboard, and the plugin has an output.                               *)
controlTimerCallback ==
    /\ at = "idle"
    /\ modeOut.control_mode # "HOVER"
    /\ established
    /\ IF bypass THEN acquired # {} ELSE stateAcquired /\ reference
    /\ did' = [what |-> "command", topics |-> publishCommand(modeOut)]
    /\ UNCHANGED <<platformVars, infoMode, modeVars, inputVars, callVars>>

(* What setControlModeSrvCall does next, once its call is answered. *)
Continue ==
    /\ \E answered \in BOOLEAN :
          \/ trySetPlatformHover(answered)
          \/ \E served \in BOOLEAN : tryPair(answered, served)
          \/ restore(answered)
    /\ UNCHANGED use_bypass

Next ==
    \/ /\ \/ driverSetsMode
          \/ publishPlatformInfo
          \/ platformInfoCallback
          \/ \E request \in Requests : setControlModeSrvCall(request)
          \/ \E kind \in Kinds : refCallback(kind)
          \/ stateCallback
          \/ controlTimerCallback
       /\ UNCHANGED use_bypass
    \/ Continue

(* The platform answers the calls it gets, as its node spins. *)
Spec == Init /\ [][Next]_vars /\ WF_vars(Continue)
-----------------------------------------------------------------------------
(* Until the driver sets a mode by itself, the controller and the platform     *)
(* agree on the mode commands are computed for, whatever was refused, tried   *)
(* or restored before (setControlModeSrvCall; HOVER resolves on any yaw mode). *)
EstablishedModeIsThePlatforms ==
    at = "idle" /\ established /\ ~driven =>
        /\ platformMode.control_mode = modeOut.control_mode
        /\ isHoverMode(modeOut) \/ platformMode = modeOut

Hovering == IF bypass THEN isHoverMode(modeOut) ELSE hoverEnabled

(* A client told no is left without a mode or hovering, never in the mode it  *)
(* had: the fallback answers no though a mode was established.               *)
RefusedOrHovering ==
    at = "idle" /\ response = "no" => ~established \/ Hovering

(* The position frozen for a hover is fed to the plugin only in the mode of a *)
(* hover request: a later request takes the place of a hover whose state never *)
(* came, refused and bypassed ones included (stateCallback).                 *)
HoverReferenceIsForHover ==
    [][did' = [what |-> "hover_reference"] => job.hover /\ hoverEnabled]_vars

(* A command follows a reference taken since its mode was established: those  *)
(* of the mode before do not count (reset).                                  *)
CommandsFollowReferences ==
    [][did'.what = "command" => established /\ heard]_vars

(* A command goes out on every topic the platform looks for it in            *)
(* (publishCommand here, getCommandFrameUsage there), for the modes with a    *)
(* yaw: of ATTITUDE without one, in no list of modes, the twist is left out.  *)
CommandsCoverTheMode ==
    [][did'.what = "command" /\ modeOut.yaw_mode # "NONE" =>
          LET usage == getCommandFrameUsage(modeOut)
          IN  IF modeOut.control_mode = "TRAJECTORY" THEN "trajectory" \in did'.topics
              ELSE /\ usage.pose => "pose" \in did'.topics
                   /\ usage.twist => "twist" \in did'.topics]_vars

(* To its clients the controller is a ModeService: whoever is told yes has the *)
(* mode reported that was asked for, whatever pairs were tried and whoever     *)
(* computes the commands, and no mode is ever reported that was not granted,   *)
(* or a hover.                                                               *)
Service == INSTANCE ModeService WITH
    serving    <- asked,
    active     <- established,
    reported   <- modeIn,
    HoverModes <- {convertUint8tToAS2ControlMode(HOVER_MODE_MASK), hoverMode}

ImplementsModeService == Service!MSSpec

(* Every request is answered: refusals and fallbacks end, even when the       *)
(* platform, its driver and the plugin refuse everything.                    *)
RequestsAreAnswered == at # "idle" ~> at = "idle"

-----------------------------------------------------------------------------
(* What the documentation says and the code does not do.                     *)

(* controller_handler.cpp:492: "No pair worked, so the platform is left as it  *)
(* was before trying."  It is asked for the mode of the last info message     *)
(* received, which may be older, or UNSET, which no platform resolves.       *)
LeftAsItWas ==
    [][at # "idle" /\ at' = "idle" /\ ~established' => platformMode' = before]_vars
=============================================================================
