------------------------- MODULE FlightBehaviorsProofs -------------------------
(***************************************************************************)
(* FlightBehaviors for every choice of its constants: the two motions       *)
(* exclude each other until the platform is reset, and until a call is lost *)
(* the landing is recorded before the disarm.                               *)
(***************************************************************************)
EXTENDS FlightBehaviors, CoreProofs

USE ArmRequestsAssumption

(* Why the motions exclude each other: an engaged behavior keeps the flight  *)
(* state in its own phase, or in EMERGENCY, and a behavior that reports a    *)
(* success is no longer engaged.                                            *)
Phases ==
    /\ Engaged("takeoff") => fsm \in {"TAKING_OFF", "EMERGENCY"}
    /\ Engaged("land") => fsm \in {"LANDING", "EMERGENCY"}
    /\ \A b \in Behaviors : at[b] = "success_end" => outcome[b] # "EXECUTING"
    /\ ~(Engaged("takeoff") /\ Engaged("land"))

(* Why the disarm of a landing finds the landing recorded.                   *)
LandingRecorded ==
    \/ at["land"] = "disarm"
    \/ at["land"] = "success_end" /\ answered("land")
    => fsm # "LANDING"

-----------------------------------------------------------------------------
LEMMA EventOfType ==
    ASSUME NEW b \in Behaviors, NEW w
    PROVE  eventOf(b, w) \in Events
  BY DEF eventOf, Events

LEMMA InitInv == Init => TypeOK /\ Phases /\ LandingRecorded
  <1> SUFFICES ASSUME Init PROVE TypeOK /\ Phases /\ LandingRecorded
    OBVIOUS
  <1> USE DEF Init, FSInit, Behaviors
  <1>1. TypeOK
    BY DEF TypeOK, States
  <1>2. Phases /\ LandingRecorded
    BY DEF Phases, LandingRecorded, Engaged
  <1> QED
    BY <1>1, <1>2

(* The actions of one behavior change its own entries only, and leave them  *)
(* of their types.                                                           *)
LEMMA NextType == TypeOK /\ [Next]_vars => TypeOK'
  <1> SUFFICES ASSUME TypeOK, [Next]_vars PROVE TypeOK'
    OBVIOUS
  <1>1. ASSUME NEW b \in Behaviors,
               startActivate(b) \/ startModify(b) \/ run(b) \/ deactivate(b)
               \/ pause(b) \/ resume(b),
               UNCHANGED past
        PROVE  TypeOK'
    BY <1>1 DEF TypeOK, startActivate, startModify, run, deactivate, pause, resume, wait,
                Waits, Ends, past
  <1>2. ASSUME NEW b \in Behaviors, Return(b), UNCHANGED past
        PROVE  TypeOK'
    BY <1>2 DEF past, TypeOK, Return, activateReturns, modifyReturns, endReturns, disarmReturns,
                cleanup, return, wait, Waits, Ends
  <1>3. ASSUME NEW b \in Behaviors, serveEvent(b), UNCHANGED past
        PROVE  TypeOK'
    <2>1. fsm' \in States
      BY <1>3, EventOfType, ProcessEventType DEF TypeOK, serveEvent, FSEvent
    <2> QED
      BY <1>3, <2>1 DEF TypeOK, serveEvent, FSEvent, answer, past
  <1>4. ASSUME NEW state \in BOOLEAN, FSArming(state)
        PROVE  fsm' \in States /\ armed' \in BOOLEAN
    BY <1>4, ProcessEventType DEF TypeOK, FSArming, Events
  <1>5. ASSUME NEW b \in Behaviors, (serveDisarm(b) /\ UNCHANGED past) \/ callFails(b)
        PROVE  TypeOK'
    BY <1>5, <1>4 DEF TypeOK, serveDisarm, callFails, answer, past
  <1>6. ASSUME NEW state \in ArmRequests, arm(state), UNCHANGED past
        PROVE  TypeOK'
    BY <1>6, <1>4 DEF TypeOK, arm, bVars, past
  <1>7. CASE alert /\ UNCHANGED past
    BY <1>7, ProcessEventType DEF past, TypeOK, alert, FSEvent, Events, bVars
  <1>8. CASE reset
    BY <1>8 DEF TypeOK, reset, FSReset, States, bVars
  <1>9. CASE UNCHANGED vars
    BY <1>9 DEF TypeOK, vars, bVars, past
  <1> QED
    BY <1>1, <1>2, <1>3, <1>5, <1>6, <1>7, <1>8, <1>9 DEF Next, Serve

(* What went wrong once stays on record.                                     *)
LEMMA PastStays == [Next]_vars => (lost => lost') /\ (wasReset => wasReset')
  <1>1. UNCHANGED past \/ (lost' = TRUE /\ wasReset' = wasReset)
          \/ (wasReset' = TRUE /\ lost' = lost) \/ ~[Next]_vars
    BY DEF Next, callFails, reset, past, vars
  <1> QED
    BY <1>1 DEF past

(* Without resets, whoever moves the flight state out of a phase is not, and *)
(* was not, engaged in it.                                                   *)
LEMMA NextPhases == TypeOK /\ Phases /\ [Next]_vars => Phases' \/ wasReset'
  <1> SUFFICES ASSUME TypeOK, Phases, [Next]_vars
               PROVE  Phases' \/ wasReset'
    OBVIOUS
  <1>1. ASSUME NEW b \in Behaviors,
               startActivate(b) \/ startModify(b) \/ run(b) \/ deactivate(b)
               \/ pause(b) \/ resume(b)
        PROVE  Phases'
    BY <1>1 DEF TypeOK, Phases, Engaged, Behaviors, Waits, Ends,
                startActivate, startModify, run, deactivate, pause, resume, wait
  <1>2. ASSUME NEW b \in Behaviors, Return(b)
        PROVE  Phases'
    BY <1>2 DEF TypeOK, Phases, Engaged, Behaviors, Waits, Ends, Return,
                activateReturns, modifyReturns, endReturns, disarmReturns, cleanup, return,
                wait, answered
  <1>3. ASSUME NEW b \in Behaviors, serveEvent(b)
        PROVE  Phases'
    <2> DEFINE e == eventOf(b, at[b])
    <2>1. e \in Events
      BY EventOfType
    <2>2. \/ ~isValid(fsm, e) /\ fsm' = fsm
          \/ isValid(fsm, e) /\ e = "TAKE_OFF" /\ fsm = "LANDED" /\ fsm' = "TAKING_OFF"
          \/ isValid(fsm, e) /\ e = "TOOK_OFF" /\ fsm = "TAKING_OFF" /\ fsm' = "FLYING"
          \/ isValid(fsm, e) /\ e = "LAND" /\ fsm = "FLYING" /\ fsm' = "LANDING"
          \/ isValid(fsm, e) /\ e = "LANDED" /\ fsm = "LANDING" /\ fsm' = "LANDED"
          \/ isValid(fsm, e) /\ e = "EMERGENCY" /\ fsm' = "EMERGENCY"
      <3>1. e \notin {"ARM", "DISARM"}
        BY DEF eventOf
      <3> QED
        BY <1>3, <2>1, <3>1, Moves DEF TypeOK, serveEvent, FSEvent
    <2>3. /\ e = "TAKE_OFF" => b = "takeoff"
          /\ e = "LAND" => b = "land"
          /\ e = "TOOK_OFF" => b = "takeoff" /\ at[b] = "success_end"
          /\ e = "LANDED" => b = "land" /\ at[b] = "success_end"
      BY DEF eventOf, Behaviors
    <2>4. /\ at' = at /\ outcome' = outcome
          /\ \A c \in Behaviors : c # b => call'[c] = call[c]
          /\ call'[b] = "yes" => isValid(fsm, e)
      BY <1>3 DEF serveEvent, answer, TypeOK
    <2>5. ASSUME NEW c \in Behaviors, Engaged(c)'
          PROVE  Engaged(c) \/ (c = b /\ at[b] = "activate" /\ isValid(fsm, e))
      BY <2>4, <2>5 DEF Engaged
    <2>6. at[b] = "activate" => e = IF b = "takeoff" THEN "TAKE_OFF" ELSE "LAND"
      BY DEF eventOf, Ends
    <2> QED
      BY <2>2, <2>3, <2>4, <2>5, <2>6 DEF Phases, Engaged, Behaviors
  <1>4. ASSUME NEW state \in BOOLEAN, FSArming(state)
        PROVE  \/ fsm' = fsm
               \/ fsm \notin {"TAKING_OFF", "LANDING", "EMERGENCY"}
    BY <1>4, Moves DEF TypeOK, FSArming, Events
  <1>5. ASSUME NEW b \in Behaviors, serveDisarm(b) \/ callFails(b)
        PROVE  Phases'
    <2>1. at' = at /\ outcome' = outcome
      BY <1>5 DEF serveDisarm, callFails
    <2>2. \A c \in Behaviors : Engaged(c)' => Engaged(c)
      BY <1>5, <2>1 DEF serveDisarm, callFails, answer, Engaged, TypeOK
    <2>3. fsm' = fsm \/ fsm \notin {"TAKING_OFF", "LANDING", "EMERGENCY"}
      BY <1>5, <1>4 DEF serveDisarm, callFails
    <2> QED
      BY <2>1, <2>2, <2>3 DEF Phases, Behaviors
  <1>6. ASSUME NEW state \in ArmRequests, arm(state)
        PROVE  Phases'
    BY <1>6, <1>4 DEF arm, bVars, Phases, Engaged
  <1>7. CASE alert
    <2>1. fsm' = fsm \/ fsm' = "EMERGENCY"
      BY <1>7, Moves DEF TypeOK, alert, FSEvent, Events
    <2> QED
      BY <1>7, <2>1 DEF alert, bVars, Phases, Engaged
  <1>8. reset => wasReset'
    BY DEF reset
  <1>9. CASE UNCHANGED vars
    BY <1>9 DEF vars, bVars, Phases, Engaged
  <1> QED
    BY <1>1, <1>2, <1>3, <1>5, <1>6, <1>7, <1>8, <1>9 DEF Next, Serve

(* When calls are not lost, the only answer to LANDED comes from the state    *)
(* machine, which has then left LANDING; only the land behavior, which is     *)
(* waiting, could bring it back.                                             *)
LEMMA NextLanding == TypeOK /\ LandingRecorded /\ [Next]_vars => LandingRecorded' \/ lost'
  <1> SUFFICES ASSUME TypeOK, LandingRecorded, [Next]_vars
               PROVE  LandingRecorded' \/ lost'
    OBVIOUS
  <1>1. ASSUME NEW b \in Behaviors,
               startActivate(b) \/ startModify(b) \/ run(b) \/ deactivate(b)
               \/ pause(b) \/ resume(b)
        PROVE  LandingRecorded'
    BY <1>1 DEF TypeOK, LandingRecorded, answered, Behaviors, Waits, Ends,
                startActivate, startModify, run, deactivate, pause, resume, wait
  <1>2. ASSUME NEW b \in Behaviors, Return(b)
        PROVE  LandingRecorded'
    BY <1>2 DEF TypeOK, LandingRecorded, Behaviors, Waits, Ends, Return,
                activateReturns, modifyReturns, endReturns, disarmReturns, cleanup, return,
                wait, answered
  <1>3. ASSUME NEW b \in Behaviors, serveEvent(b)
        PROVE  LandingRecorded'
    <2> DEFINE e == eventOf(b, at[b])
    <2>1. /\ at' = at
          /\ at[b] # "disarm"
          /\ fsm' = processEvent(fsm, e)
          /\ \A c \in Behaviors : c # b => call'[c] = call[c]
      BY <1>3 DEF serveEvent, FSEvent, answer, TypeOK
    <2>2. CASE b = "land" /\ at["land"] = "success_end"
      <3>1. e = "LANDED"
        BY <2>2 DEF eventOf
      <3> QED
        BY <2>1, <2>2, <3>1, LandedLeavesLanding, Moves DEF TypeOK, LandingRecorded, Events
    <2>3. CASE b = "land" /\ at["land"] # "success_end"
      BY <2>1, <2>3 DEF LandingRecorded
    <2>4. CASE b = "takeoff"
      <3>1. e \in Events /\ e # "LAND"
        BY <2>4, EventOfType DEF eventOf
      <3> HIDE DEF e
      <3>2. fsm' = "LANDING" => fsm = "LANDING"
        BY <2>1, <3>1, Moves DEF TypeOK
      <3> QED
        BY <2>1, <2>4, <3>2 DEF LandingRecorded, answered, Behaviors
    <2> QED
      BY <2>2, <2>3, <2>4 DEF Behaviors
  <1>4. ASSUME NEW state \in BOOLEAN, FSArming(state)
        PROVE  fsm' = "LANDING" => fsm = "LANDING"
    BY <1>4, Moves DEF TypeOK, FSArming, Events
  <1>5. ASSUME NEW b \in Behaviors, serveDisarm(b)
        PROVE  LandingRecorded'
    <2>1. /\ at' = at
          /\ at[b] = "disarm"
          /\ \A c \in Behaviors : c # b => call'[c] = call[c]
          /\ fsm' = "LANDING" => fsm = "LANDING"
      BY <1>5, <1>4 DEF serveDisarm, answer, TypeOK
    <2> QED
      BY <2>1 DEF LandingRecorded, answered, Behaviors
  <1>6. ASSUME NEW b \in Behaviors, callFails(b)
        PROVE  lost'
    BY <1>6 DEF callFails
  <1>7. ASSUME NEW state \in ArmRequests, arm(state)
        PROVE  LandingRecorded'
    BY <1>7, <1>4 DEF arm, bVars, LandingRecorded, answered
  <1>8. CASE alert
    <2>1. fsm' = "LANDING" => fsm = "LANDING"
      BY <1>8, Moves DEF TypeOK, alert, FSEvent, Events
    <2> QED
      BY <1>8, <2>1 DEF alert, bVars, LandingRecorded, answered
  <1>9. CASE reset
    BY <1>9 DEF reset, FSReset, LandingRecorded
  <1>10. CASE UNCHANGED vars
    BY <1>10 DEF vars, bVars, LandingRecorded, answered
  <1> QED
    BY <1>1, <1>2, <1>3, <1>5, <1>6, <1>7, <1>8, <1>9, <1>10 DEF Next, Serve

-----------------------------------------------------------------------------
(* The variables keep their types whatever is lost, reset or refused.         *)
THEOREM TypeCorrect == Spec => []TypeOK
  <1>1. Init => TypeOK
    BY InitInv
  <1> QED
    BY <1>1, NextType, PTL DEF Spec

(* Taking off and landing exclude each other until the platform is reset,     *)
(* lost calls included (process_goal and on_execution_end of both behaviors). *)
THEOREM ExclusionTheorem == Spec => []MotionsExclude
  <1>1. Init => Phases
    BY InitInv
  <1>2. TypeOK /\ (wasReset \/ Phases) /\ [Next]_vars => (wasReset \/ Phases)'
    BY NextPhases, PastStays
  <1>3. wasReset \/ Phases => MotionsExclude
    BY DEF Phases, MotionsExclude
  <1> QED
    BY <1>1, <1>2, <1>3, TypeCorrect, PTL DEF Spec

(* Until a call is lost, a landing is recorded before its disarm is done      *)
(* (on_execution_end of land_behavior.cpp), resets included.                  *)
THEOREM DisarmTheorem == Spec => DisarmAfterLanded
  <1>1. Init => LandingRecorded
    BY InitInv
  <1>2. TypeOK /\ (lost \/ LandingRecorded) /\ [Next]_vars => (lost \/ LandingRecorded)'
    BY NextLanding, PastStays
  <1>3. lost \/ LandingRecorded =>
            (~lost /\ call["land"] = "sent" /\ at["land"] = "disarm" /\ call'["land"] = "yes"
                => fsm # "LANDING")
    BY DEF LandingRecorded
  <1> QED
    BY <1>1, <1>2, <1>3, TypeCorrect, PTL DEF Spec, DisarmAfterLanded
-----------------------------------------------------------------------------
(* What the behaviors, their clients, alerts and resets do to the platform is *)
(* what FlightState allows, which AerialPlatform implements: no behavior sends *)
(* the events of arming, which only the arming service may.                  *)
THEOREM PlatformIsFlightState == Spec => FSSpec
  <1>1. Init => FSInit
    BY DEF Init
  <1>2. [Next]_vars => [FSNext]_fsVars
    <2> SUFFICES ASSUME [Next]_vars PROVE [FSNext]_fsVars
      OBVIOUS
    <2>1. ASSUME NEW b \in Behaviors, serveEvent(b)
          PROVE  FSNext
      <3>1. eventOf(b, at[b]) \in Events \ {"ARM", "DISARM"}
        BY EventOfType DEF eventOf
      <3> QED
        BY <2>1, <3>1 DEF serveEvent, FSNext
    <2>2. ASSUME NEW b \in Behaviors, serveDisarm(b)
          PROVE  FSNext \/ UNCHANGED fsVars
      BY <2>2 DEF serveDisarm, FSNext, fsVars
    <2>3. ASSUME NEW state \in ArmRequests, arm(state)
          PROVE  FSNext
      BY <2>3 DEF arm, FSNext
    <2>4. CASE alert
      BY <2>4 DEF alert, FSNext, Events
    <2>5. CASE reset
      BY <2>5 DEF reset, FSNext
    <2>6. ASSUME NEW b \in Behaviors,
                 \/ startActivate(b) \/ startModify(b) \/ run(b) \/ deactivate(b)
                 \/ pause(b) \/ resume(b) \/ Return(b) \/ callFails(b)
          PROVE  UNCHANGED fsVars
      BY <2>6 DEF startActivate, startModify, run, deactivate, pause, resume, callFails,
                  Return, activateReturns, modifyReturns, endReturns, disarmReturns, cleanup,
                  fsVars
    <2>7. CASE UNCHANGED vars
      BY <2>7 DEF vars, fsVars
    <2> QED
      BY <2>1, <2>2, <2>3, <2>4, <2>5, <2>6, <2>7 DEF Next, Serve
  <1> QED
    BY <1>1, <1>2, PTL DEF Spec, FSSpec

(* A callback waits exactly while a call of its own is under way.             *)
WaitsAreCalls == \A b \in Behaviors : at[b] # "free" <=> call[b] # "none"

(* How many answers and returns a callback has before it.                     *)
Distance(b) ==
    (IF call[b] = "sent" THEN 2 ELSE IF answered(b) THEN 1 ELSE 0)
    + (IF b = "land" /\ at[b] = "success_end" THEN 2 ELSE 0)

(* Why callbacks return: the platform can serve a call that was sent, and a    *)
(* call that was answered lets its callback go on; each brings the callback   *)
(* closer to its end, and nothing anybody else does takes it back.            *)
CallbacksAdvance ==
    [][\A b \in Behaviors : at[b] # "free" =>
          /\ call[b] = "sent" \/ answered(b)
          /\ Distance(b)' <= Distance(b)
          /\ Serve(b) \/ Return(b) => Distance(b)' < Distance(b)]_vars

LEMMA WaitsAreCallsKept == TypeOK /\ WaitsAreCalls /\ [Next]_vars => WaitsAreCalls'
  <1> SUFFICES ASSUME TypeOK, WaitsAreCalls, [Next]_vars
               PROVE  WaitsAreCalls'
    OBVIOUS
  <1>1. ASSUME NEW b \in Behaviors,
               startActivate(b) \/ startModify(b) \/ run(b) \/ deactivate(b)
               \/ pause(b) \/ resume(b)
        PROVE  WaitsAreCalls'
    BY <1>1 DEF TypeOK, WaitsAreCalls, startActivate, startModify, run, deactivate, pause,
                resume, wait
  <1>2. ASSUME NEW b \in Behaviors, Return(b)
        PROVE  WaitsAreCalls'
    BY <1>2 DEF TypeOK, WaitsAreCalls, Return, activateReturns, modifyReturns, endReturns,
                disarmReturns, cleanup, return, wait
  <1>3. ASSUME NEW b \in Behaviors, Serve(b) \/ callFails(b)
        PROVE  WaitsAreCalls'
    BY <1>3 DEF TypeOK, WaitsAreCalls, Serve, serveEvent, serveDisarm, callFails, answer
  <1>4. CASE UNCHANGED bVars
    BY <1>4 DEF bVars, WaitsAreCalls
  <1> QED
    BY <1>1, <1>2, <1>3, <1>4 DEF Next, arm, alert, reset, vars

(* Every callback comes closer to its end (send_request of                    *)
(* synchronous_service_client.hpp returns with an answer or without), whatever *)
(* is lost, reset or refused.                                                *)
THEOREM CallbacksTheorem == Spec => CallbacksAdvance
  <1> DEFINE Advance(b) ==
               at[b] # "free" =>
                  /\ call[b] = "sent" \/ answered(b)
                  /\ Distance(b)' <= Distance(b)
                  /\ Serve(b) \/ Return(b) => Distance(b)' < Distance(b)
  <1>1. Init => WaitsAreCalls
    BY DEF Init, WaitsAreCalls
  <1>2. ASSUME TypeOK, WaitsAreCalls, Next, NEW c \in Behaviors
        PROVE  Advance(c)
    <2>1. at[c] # "free" => call[c] = "sent" \/ answered(c)
      BY <1>2 DEF TypeOK, WaitsAreCalls, answered
    <2>2. ASSUME NEW b \in Behaviors,
                 startActivate(b) \/ startModify(b) \/ run(b) \/ deactivate(b)
                 \/ pause(b) \/ resume(b)
          PROVE  at[c] # "free" => at'[c] = at[c] /\ call'[c] = call[c]
      BY <1>2, <2>2 DEF TypeOK, startActivate, startModify, run, deactivate, pause, resume, wait
    <2>3. ASSUME NEW b \in Behaviors, Return(b)
          PROVE  IF c = b THEN Distance(c)' < Distance(c)
                 ELSE at'[c] = at[c] /\ call'[c] = call[c]
      <3>1. c # b => at'[c] = at[c] /\ call'[c] = call[c]
        BY <1>2, <2>3 DEF TypeOK, Return, activateReturns, modifyReturns, endReturns,
                          disarmReturns, cleanup, return, wait
      <3>2. answered(b) /\ \/ at'[b] = "free" /\ call'[b] = "none"
                           \/ /\ b = "land" /\ at[b] = "success_end"
                              /\ at'[b] = "disarm" /\ call'[b] = "sent"
        BY <1>2, <2>3 DEF TypeOK, Return, activateReturns, modifyReturns, endReturns,
                          disarmReturns, cleanup, return, wait
      <3>3. Distance(b)' < Distance(b)
        BY <3>2 DEF Distance, answered
      <3> QED
        BY <3>1, <3>3
    <2>4. ASSUME NEW b \in Behaviors, Serve(b) \/ callFails(b)
          PROVE  IF c = b THEN Distance(c)' < Distance(c)
                 ELSE at'[c] = at[c] /\ call'[c] = call[c]
      <3>1. /\ c # b => at'[c] = at[c] /\ call'[c] = call[c]
            /\ call[b] = "sent" /\ call'[b] \in {"yes", "no"} /\ at'[b] = at[b]
        BY <1>2, <2>4 DEF TypeOK, Serve, serveEvent, serveDisarm, callFails, answer
      <3>2. Distance(b)' < Distance(b)
        BY <3>1 DEF Distance, answered
      <3> QED
        BY <3>1, <3>2
    <2>5. UNCHANGED bVars => at'[c] = at[c] /\ call'[c] = call[c]
      BY DEF bVars
    <2>6. Distance(c) \in Nat
      BY DEF Distance
    <2>7. at'[c] = at[c] /\ call'[c] = call[c] => Distance(c)' = Distance(c)
      BY DEF Distance, answered
    <2>8. Serve(c) \/ Return(c) => Distance(c)' < Distance(c)
      BY <2>3, <2>4
    <2>9. at[c] # "free" => Distance(c)' <= Distance(c)
      <3>1. \/ \E b \in Behaviors :
                  \/ startActivate(b) \/ startModify(b) \/ run(b) \/ deactivate(b)
                  \/ pause(b) \/ resume(b)
            \/ \E b \in Behaviors : Serve(b) \/ callFails(b)
            \/ \E b \in Behaviors : Return(b)
            \/ UNCHANGED bVars
        BY <1>2 DEF Next, arm, alert, reset
      <3>2. ASSUME at[c] # "free"
            PROVE  \/ Distance(c)' < Distance(c)
                   \/ at'[c] = at[c] /\ call'[c] = call[c]
        BY <3>1, <3>2, <2>2, <2>3, <2>4, <2>5
      <3>3. Distance(c)' \in Nat
        BY DEF Distance
      <3> HIDE DEF Distance
      <3> QED
        BY <3>2, <3>3, <2>6, <2>7
    <2> QED
      BY <2>1, <2>8, <2>9
  <1>3. TypeOK /\ WaitsAreCalls /\ [Next]_vars => [\A b \in Behaviors : Advance(b)]_vars
    BY <1>2
  <1> QED
    BY <1>1, <1>3, WaitsAreCallsKept, TypeCorrect, PTL DEF Spec, CallbacksAdvance
=============================================================================
