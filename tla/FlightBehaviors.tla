---------------------------- MODULE FlightBehaviors ----------------------------
(***************************************************************************)
(* The takeoff and land behaviors driving the platform's flight state.      *)
(* Each behavior is a node of its own: a BehaviorServer whose hooks call    *)
(* the platform's services with a synchronous client, so a callback is      *)
(* split where it waits for an answer while the platform, the other         *)
(* behavior and the clients go on.  A node runs one callback at a time, so  *)
(* a waiting behavior starts nothing else.                                  *)
(*                                                                          *)
(* The platform is FlightState, which AerialPlatform implements.  The       *)
(* plugins are those that fly with motion references (position, speed,      *)
(* trajectory); what a plugin answers is a choice.                          *)
(***************************************************************************)
EXTENDS FlightState

CONSTANTS
    ArmRequests,    \* the arming states clients ask for
    CallsMayFail,   \* whether a service may be missing for its 3 seconds
    MayReset        \* whether the driver has Gazebo's reset service

ASSUME ArmRequestsAssumption == ArmRequests \subseteq BOOLEAN
ASSUME CallsMayFailAssumption == CallsMayFail \in BOOLEAN
ASSUME MayResetAssumption == MayReset \in BOOLEAN

Behaviors == {"takeoff", "land"}

VARIABLES
    at,         \* where each behavior's callback waits
    call,       \* the service call it waits for
    status,     \* behavior_status_.status
    outcome,    \* what the client of the last accepted goal was told
    lost,       \* history: whether a call was ever lost
    wasReset    \* history: whether the driver was ever reset

bVars == <<at, call, status, outcome>>
past == <<lost, wasReset>>
vars == <<fsm, armed, bVars, past>>

(* A callback waits for an answer in on_activate, in on_modify, in          *)
(* on_execution_end after a SUCCESS, a FAILURE or a stop, or in sendDisarm. *)
Ends == {"success_end", "failure_end", "stop_end"}
Waits == {"activate", "modify", "disarm"} \cup Ends

TypeOK ==
    /\ fsm \in States
    /\ armed \in BOOLEAN
    /\ at \in [Behaviors -> Waits \cup {"free"}]
    /\ call \in [Behaviors -> {"none", "sent", "yes", "no"}]
    /\ status \in [Behaviors -> {"IDLE", "RUNNING", "PAUSED"}]
    /\ outcome \in [Behaviors -> {"none", "EXECUTING", "SUCCEEDED", "ABORTED", "CANCELED"}]
    /\ lost \in BOOLEAN
    /\ wasReset \in BOOLEAN

Init ==
    /\ FSInit
    /\ at = [b \in Behaviors |-> "free"]
    /\ call = [b \in Behaviors |-> "none"]
    /\ status = [b \in Behaviors |-> "IDLE"]
    /\ outcome = [b \in Behaviors |-> "none"]
    /\ lost = FALSE
    /\ wasReset = FALSE

-----------------------------------------------------------------------------
(* Mutation: on_execution_end reports every end as a success. *)
eventOf_EndIsSuccess(b, wait) ==
    IF wait \in Ends THEN (IF b = "takeoff" THEN "TOOK_OFF" ELSE "LANDED")
    ELSE IF b = "takeoff" THEN "TAKE_OFF" ELSE "LAND"

(* Mutation: a success is not reported with the event that ends the motion. *)
eventOf_SuccessIsStart(b, wait) ==
    IF wait \in {"failure_end", "stop_end"} THEN "EMERGENCY"
    ELSE IF b = "takeoff" THEN "TAKE_OFF" ELSE "LAND"

(* The event each callback sends with sendEventFSME. *)
eventOf(b, wait) ==
    IF wait \in {"failure_end", "stop_end"} THEN "EMERGENCY"
    ELSE IF wait = "success_end" THEN (IF b = "takeoff" THEN "TOOK_OFF" ELSE "LANDED")
    ELSE IF b = "takeoff" THEN "TAKE_OFF" ELSE "LAND"

(* A callback makes its next call, and waits. *)
wait(b, where) ==
    /\ at' = [at EXCEPT ![b] = where]
    /\ call' = [call EXCEPT ![b] = "sent"]

(* A callback whose call was answered returns. *)
answered(b) == call[b] \in {"yes", "no"}

return(b) ==
    /\ at' = [at EXCEPT ![b] = "free"]
    /\ call' = [call EXCEPT ![b] = "none"]

(* A goal the checks of process_goal let through: its event goes to the      *)
(* platform before the plugin is asked.                                     *)
startActivate(b) ==
    /\ at[b] = "free"
    /\ wait(b, "activate")
    /\ UNCHANGED <<fsm, armed, status, outcome>>

(* Mutation: the answer to the event is not looked at. *)
activateReturns_IgnoresAnswer(b) ==
    /\ at[b] = "activate"
    /\ answered(b)
    /\ return(b)
    /\ \/ UNCHANGED <<status, outcome>>
       \/ /\ status' = [status EXCEPT ![b] = "RUNNING"]
          /\ outcome' = [outcome EXCEPT ![b] = "EXECUTING"]
    /\ UNCHANGED <<fsm, armed>>

(* The goal is accepted when the platform took the event and the plugin,     *)
(* which wants localization, accepts it; otherwise it is rejected.          *)
activateReturns(b) ==
    /\ at[b] = "activate"
    /\ answered(b)
    /\ return(b)
    /\ \/ UNCHANGED <<status, outcome>>
       \/ /\ call[b] = "yes"
          /\ status' = [status EXCEPT ![b] = "RUNNING"]
          /\ outcome' = [outcome EXCEPT ![b] = "EXECUTING"]
    /\ UNCHANGED <<fsm, armed>>

(* on_modify sends the same event; nothing of the server depends on it. *)
startModify(b) ==
    /\ at[b] = "free"
    /\ wait(b, "modify")
    /\ UNCHANGED <<fsm, armed, status, outcome>>

modifyReturns(b) ==
    /\ at[b] = "modify"
    /\ answered(b)
    /\ return(b)
    /\ UNCHANGED <<fsm, armed, status, outcome>>

(* Mutation: the execution status is stored as the behavior status. *)
run_StoresResult(b) ==
    /\ at[b] = "free"
    /\ status[b] = "RUNNING"
    /\ \/ /\ wait(b, "success_end")
          /\ outcome' = [outcome EXCEPT ![b] = "SUCCEEDED"]
       \/ /\ wait(b, "failure_end")
          /\ outcome' = [outcome EXCEPT ![b] = "ABORTED"]
    /\ status' = [status EXCEPT ![b] = outcome'[b]]
    /\ UNCHANGED <<fsm, armed>>

(* Mutation: the land behavior disarms without reporting LANDED first. *)
run_SkipsLanded(b) ==
    /\ at[b] = "free"
    /\ status[b] = "RUNNING"
    /\ \/ /\ wait(b, IF b = "land" THEN "disarm" ELSE "success_end")
          /\ outcome' = [outcome EXCEPT ![b] = "SUCCEEDED"]
       \/ /\ wait(b, "failure_end")
          /\ outcome' = [outcome EXCEPT ![b] = "ABORTED"]
    /\ status' = [status EXCEPT ![b] = "IDLE"]
    /\ UNCHANGED <<fsm, armed>>

(* run, when on_run ends: the client gets its result first, and only then    *)
(* does on_execution_end tell the platform.                                 *)
run(b) ==
    /\ at[b] = "free"
    /\ status[b] = "RUNNING"
    /\ \/ /\ wait(b, "success_end")
          /\ outcome' = [outcome EXCEPT ![b] = "SUCCEEDED"]
       \/ /\ wait(b, "failure_end")
          /\ outcome' = [outcome EXCEPT ![b] = "ABORTED"]
    /\ status' = [status EXCEPT ![b] = "IDLE"]
    /\ UNCHANGED <<fsm, armed>>

(* The stop service and handleCancel when the plugin agrees: in every state, *)
(* with or without a goal.                                                  *)
deactivate(b) ==
    /\ at[b] = "free"
    /\ wait(b, "stop_end")
    /\ UNCHANGED <<fsm, armed, status, outcome>>

pause(b) ==
    /\ at[b] = "free"
    /\ status[b] = "RUNNING"
    /\ status' = [status EXCEPT ![b] = "PAUSED"]
    /\ UNCHANGED <<fsm, armed, at, call, outcome>>

resume(b) ==
    /\ at[b] = "free"
    /\ status[b] = "PAUSED"
    /\ status' = [status EXCEPT ![b] = "RUNNING"]
    /\ UNCHANGED <<fsm, armed, at, call, outcome>>

(* The rest of cleanup_run_timer, and of deactivate: the handle goes, and    *)
(* with it a goal that has no result.                                       *)
cleanup(b) ==
    /\ return(b)
    /\ status' = [status EXCEPT ![b] = "IDLE"]
    /\ outcome' = [outcome EXCEPT ![b] = IF @ = "EXECUTING" THEN "CANCELED" ELSE @]
    /\ UNCHANGED <<fsm, armed>>

(* on_execution_end of the land behavior disarms after a success, whatever   *)
(* the platform answered to LANDED; every other end cleans up.              *)
endReturns(b) ==
    /\ at[b] \in Ends
    /\ answered(b)
    /\ IF b = "land" /\ at[b] = "success_end"
       THEN /\ wait(b, "disarm")
            /\ UNCHANGED <<fsm, armed, status, outcome>>
       ELSE cleanup(b)

disarmReturns(b) ==
    /\ at[b] = "disarm"
    /\ answered(b)
    /\ cleanup(b)

-----------------------------------------------------------------------------
(* The platform serves a behavior's call. *)

answer(b, accepted) == call' = [call EXCEPT ![b] = IF accepted THEN "yes" ELSE "no"]

(* Mutation: the platform answers only the events it takes. *)
serveEvent_SilentRefusal(b) ==
    /\ call[b] = "sent"
    /\ at[b] # "disarm"
    /\ FSEvent(eventOf(b, at[b]))
    /\ isValid(fsm, eventOf(b, at[b])) /\ answer(b, TRUE)
    /\ UNCHANGED <<at, status, outcome>>

serveEvent(b) ==
    /\ call[b] = "sent"
    /\ at[b] # "disarm"
    /\ FSEvent(eventOf(b, at[b]))
    /\ answer(b, isValid(fsm, eventOf(b, at[b])))
    /\ UNCHANGED <<at, status, outcome>>

(* setArmingState(false): no when already disarmed, or the driver refuses. *)
serveDisarm(b) ==
    /\ call[b] = "sent"
    /\ at[b] = "disarm"
    /\ \/ answer(b, FALSE) /\ UNCHANGED <<fsm, armed>>
       \/ answer(b, TRUE) /\ FSArming(FALSE)
    /\ UNCHANGED <<at, status, outcome>>

(* wait_for_service gives up: the request is never sent. *)
callFails(b) ==
    /\ CallsMayFail
    /\ call[b] = "sent"
    /\ answer(b, FALSE)
    /\ lost' = TRUE
    /\ UNCHANGED <<fsm, armed, at, status, outcome, wasReset>>

(* The arming service called by anybody else, an alert, and the reset.       *)
arm(state) ==
    /\ FSArming(state)
    /\ UNCHANGED bVars

alert ==
    /\ FSEvent("EMERGENCY")
    /\ UNCHANGED bVars

reset ==
    /\ MayReset
    /\ FSReset
    /\ wasReset' = TRUE
    /\ UNCHANGED <<bVars, lost>>

Serve(b) == serveEvent(b) \/ serveDisarm(b)

Return(b) == activateReturns(b) \/ modifyReturns(b) \/ endReturns(b) \/ disarmReturns(b)

Next ==
    \/ /\ \/ \E b \in Behaviors :
                \/ startActivate(b) \/ startModify(b) \/ run(b) \/ deactivate(b)
                \/ pause(b) \/ resume(b)
                \/ Serve(b) \/ Return(b)
          \/ \E state \in ArmRequests : arm(state)
          \/ alert
       /\ UNCHANGED past
    \/ \E b \in Behaviors : callFails(b)
    \/ reset

(* The nodes spin: a call is answered and the callback waiting for it        *)
(* returns.  Nothing makes a motion end, or a client ask for anything.      *)
Spec ==
    /\ Init /\ [][Next]_vars
    /\ \A b \in Behaviors : WF_vars((Serve(b) \/ Return(b)) /\ UNCHANGED past)
-----------------------------------------------------------------------------
(* A behavior is engaged from the moment the platform took its event for a   *)
(* goal until that goal has its result.                                     *)
Engaged(b) ==
    \/ outcome[b] = "EXECUTING"
    \/ at[b] = "activate" /\ call[b] = "yes"

(* Taking off and landing exclude each other, though no node knows of the    *)
(* other: the state machine takes TAKE_OFF and LAND in states only the end   *)
(* of the other motion leads to.  Lost calls do not change it; a reset does. *)
MotionsExclude == ~wasReset => ~(Engaged("takeoff") /\ Engaged("land"))

(* Until a call is lost the land behavior never cuts the motors of a platform *)
(* that is still landing: LANDED is recorded before the disarm is asked for  *)
(* (on_execution_end of land_behavior.cpp), resets or not.                   *)
DisarmAfterLanded ==
    [][~lost /\ call["land"] = "sent" /\ at["land"] = "disarm" /\ call'["land"] = "yes"
          => fsm # "LANDING"]_vars

(* A callback that waits for the platform always returns, after resets, lost  *)
(* calls and whatever the platform answers: no behavior stays locked.        *)
CallbacksReturn == \A b \in Behaviors : at[b] # "free" ~> at[b] = "free"

Reporting(b, ends) == at[b] \in ends /\ call[b] = "sent"

(* Unless a call is lost, a motion that ends well ends in the flight state     *)
(* too, resets or not.                                                       *)
SuccessIsRecorded ==
    /\ Reporting("takeoff", {"success_end"}) /\ fsm = "TAKING_OFF"
          ~> fsm # "TAKING_OFF" \/ lost
    /\ Reporting("land", {"success_end"}) /\ fsm = "LANDING"
          ~> fsm # "LANDING" \/ lost

(* Unless a call is lost a failed, stopped or canceled motion puts the         *)
(* platform in EMERGENCY, resets or not.                                     *)
FailureIsEmergency ==
    \A b \in Behaviors :
        Reporting(b, {"failure_end", "stop_end"}) ~> fsm = "EMERGENCY" \/ lost

-----------------------------------------------------------------------------
(* What the documentation says and the code does not do.                     *)

(* platform_state_machine.hpp:76: "TAKING_OFF -> The platform is taking       *)
(* off."  A goal the plugin rejects leaves the state behind with no takeoff: *)
(* TAKE_OFF is sent before the plugin is asked (takeoff_behavior.cpp:127).    *)
TakingOffIsATakeoff ==
    fsm = "TAKING_OFF" => Engaged("takeoff") \/ at["takeoff"] # "free"

(* platform_state_machine.hpp:75: "LANDED -> The platform is armed and        *)
(* landed."  With clients that never disarm: a takeoff goal served between    *)
(* the LANDED and the disarm of a landing (land_behavior.cpp:182-185) is      *)
(* disarmed, and the state machine goes on without arms.                     *)
LandedIsArmed == fsm = "LANDED" => armed
=============================================================================
