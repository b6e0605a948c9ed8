------------------------- MODULE PlatformStateMachine -------------------------
(***************************************************************************)
(* The transition table of as2_core/src/platform_state_machine.cpp, and     *)
(* processEvent as a function of the state and the event.                   *)
(***************************************************************************)

States == {"DISARMED", "LANDED", "TAKING_OFF", "FLYING", "LANDING", "EMERGENCY"}

Events == {"ARM", "DISARM", "TAKE_OFF", "TOOK_OFF", "LAND", "LANDED", "EMERGENCY"}

Transition(from, event, to) == [from |-> from, event |-> event, to |-> to]

transitions ==
    {Transition("DISARMED",   "ARM",      "LANDED"),
     Transition("LANDED",     "DISARM",   "DISARMED"),
     Transition("LANDED",     "TAKE_OFF", "TAKING_OFF"),
     Transition("TAKING_OFF", "TOOK_OFF", "FLYING"),
     Transition("FLYING",     "LAND",     "LANDING"),
     Transition("LANDING",    "LANDED",   "LANDED")}
    \cup {Transition(s, "EMERGENCY", "EMERGENCY") : s \in States \ {"EMERGENCY"}}

(* The transitions the search of getTransition can stop at. *)
getTransition(state, event) ==
    {t \in transitions : t.from = state /\ t.event = event}

isValid(state, event) == getTransition(state, event) # {}

(* An event without a transition leaves the state as it was. *)
processEvent(state, event) ==
    IF isValid(state, event)
    THEN (CHOOSE t \in getTransition(state, event) : TRUE).to
    ELSE state
=============================================================================
