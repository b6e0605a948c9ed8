------------------------------ MODULE FlightState ------------------------------
(***************************************************************************)
(* The abstract platform: the flight state and the armed flag, and the only *)
(* ways the rest of the system may see them change.  AerialPlatform         *)
(* implements it, and FlightBehaviors composes it with the takeoff and land *)
(* behaviors.                                                               *)
(***************************************************************************)
EXTENDS PlatformStateMachine

VARIABLES
    fsm,    \* state_machine_.state_
    armed   \* platform_info_msg_.armed

fsVars == <<fsm, armed>>

FSInit ==
    /\ fsm = "DISARMED"
    /\ armed = FALSE

(* An event of the state machine service, of an alert, or of the takeoff and *)
(* land services: an event the state does not take changes nothing.         *)
FSEvent(event) ==
    /\ fsm' = processEvent(fsm, event)
    /\ UNCHANGED armed

(* The arming flag changes, and its event is offered to the state machine,  *)
(* whose answer is not looked at.                                           *)
FSArming(state) ==
    /\ state # armed
    /\ armed' = state
    /\ fsm' = processEvent(fsm, IF state THEN "ARM" ELSE "DISARM")

FSReset ==
    /\ fsm' = "DISARMED"
    /\ armed' = FALSE

FSNext ==
    \/ \E event \in Events \ {"ARM", "DISARM"} : FSEvent(event)
    \/ \E state \in BOOLEAN : FSArming(state)
    \/ FSReset

FSSpec == FSInit /\ [][FSNext]_fsVars
=============================================================================
