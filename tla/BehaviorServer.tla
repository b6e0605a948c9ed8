---------------------------- MODULE BehaviorServer ----------------------------
(***************************************************************************)
(* as2_behavior::BehaviorServer<actionT>                                    *)
(* (as2_behavior/__impl/behavior_server__impl.hpp), the base class of every *)
(* behavior: an action server with stop, pause, resume and modify services  *)
(* and a run timer.  The callbacks share the node's default callback group, *)
(* so each is one atomic step; the group created for the action server is   *)
(* not given to it.  The on_* hooks of the derived behavior are choices.    *)
(*                                                                          *)
(* rclcpp_action is external.  Of it the model keeps: handleGoal and        *)
(* handleAccepted run in one callback; a goal handle that is dropped before *)
(* its goal has a result cancels the goal; an accepted cancel request ends  *)
(* in CANCELED when the handle goes.  modify calls on_modify and touches    *)
(* nothing of the server, so it is not an action here.                      *)
(***************************************************************************)
EXTENDS Integers, BehaviorSession

CONSTANTS
    Goals,      \* the goals clients may send
    MaxRuns     \* on_run calls after which a goal oriented behavior has ended,
                \* as the one in as2_behavior_gtest.cpp ends after 100

ASSUME NoneAssumption == None \notin Goals
ASSUME MaxRunsAssumption == MaxRuns \in Nat \ {0}

VARIABLES
    status,     \* behavior_status_.status
    handle,     \* the goal of goal_handle_
    timer,      \* whether run_timer_ exists
    goal,       \* the action state of each goal
    session,    \* history: TRUE from on_activate to on_execution_end
    runs        \* on_run calls since on_activate

vars == <<status, handle, timer, goal, session, runs>>

Results == {"SUCCEEDED", "ABORTED", "CANCELED"}
GoalStates == {"UNSENT", "REJECTED", "EXECUTING"} \cup Results

TypeOK ==
    /\ status \in {"IDLE", "RUNNING", "PAUSED"}
    /\ handle \in Goals \cup {None}
    /\ timer \in BOOLEAN
    /\ goal \in [Goals -> GoalStates]
    /\ session \in BOOLEAN
    /\ runs \in 0..MaxRuns

-----------------------------------------------------------------------------
Init ==
    /\ status = "IDLE"
    /\ handle = None
    /\ timer = FALSE
    /\ goal = [g \in Goals |-> "UNSENT"]
    /\ session = FALSE
    /\ runs = 0

(* The action states once the handle g is dropped: the destructor of the    *)
(* handle cancels a goal that has no result.                                *)
afterDrop(g, states) ==
    IF g \in Goals /\ states[g] = "EXECUTING"
    THEN [states EXCEPT ![g] = "CANCELED"]
    ELSE states

(* Mutation: goal_handle_.reset() is forgotten. *)
cleanup_run_timer_KeepsHandle(states) ==
    /\ session' = FALSE
    /\ goal' = states
    /\ timer' = FALSE
    /\ UNCHANGED handle

(* cleanup_run_timer: on_execution_end, then the handle and the timer go.   *)
cleanup_run_timer(states) ==
    /\ session' = FALSE
    /\ goal' = afterDrop(handle, states)
    /\ handle' = None
    /\ timer' = FALSE

(* handleGoal through activate, and handleAccepted for a goal on_activate    *)
(* takes: whatever was running is replaced without on_execution_end.        *)
refuseGoal(g) ==
    /\ goal[g] = "UNSENT"
    /\ goal' = [goal EXCEPT ![g] = "REJECTED"]
    /\ UNCHANGED <<status, handle, timer, session, runs>>

(* Mutation: activate does not register the run timer. *)
acceptGoal_NoTimer(g) ==
    /\ goal[g] = "UNSENT"
    /\ status' = "RUNNING"
    /\ session' = TRUE
    /\ runs' = 0
    /\ handle' = g
    /\ goal' = [afterDrop(handle, goal) EXCEPT ![g] = "EXECUTING"]
    /\ UNCHANGED timer

acceptGoal(g) ==
    /\ goal[g] = "UNSENT"
    /\ timer' = TRUE
    /\ status' = "RUNNING"
    /\ session' = TRUE
    /\ runs' = 0
    /\ handle' = g
    /\ goal' = [afterDrop(handle, goal) EXCEPT ![g] = "EXECUTING"]

(* Mutation: stopping does not make the behavior idle. *)
deactivate_KeepsStatus ==
    /\ cleanup_run_timer(goal)
    /\ UNCHANGED <<status, runs>>

(* deactivate when on_deactivate succeeds; otherwise nothing changes.  It   *)
(* has no status check: an idle behavior runs its on_execution_end too.     *)
deactivate ==
    /\ cleanup_run_timer(goal)
    /\ status' = "IDLE"
    /\ UNCHANGED runs

(* handleCancel of a goal that can be canceled: the one being executed. *)
handleCancel(g) ==
    /\ goal[g] = "EXECUTING"
    /\ deactivate

(* Mutation: an idle behavior can be paused. *)
pause_Idle ==
    /\ status' = "PAUSED"
    /\ UNCHANGED <<handle, timer, goal, session, runs>>

pause ==
    /\ status = "RUNNING"
    /\ status' = "PAUSED"
    /\ UNCHANGED <<handle, timer, goal, session, runs>>

resume ==
    /\ status = "PAUSED"
    /\ status' = "RUNNING"
    /\ UNCHANGED <<handle, timer, goal, session, runs>>

(* Mutation: the execution status is stored as the behavior status. *)
runEnds_StoresResult(result) ==
    /\ timer
    /\ status = "RUNNING"
    /\ status' = result
    /\ cleanup_run_timer([goal EXCEPT ![handle] = result])
    /\ UNCHANGED runs

(* run when on_run gives a result: the goal gets it, then everything goes. *)
runEnds(result) ==
    /\ timer
    /\ status = "RUNNING"
    /\ status' = "IDLE"
    /\ cleanup_run_timer([goal EXCEPT ![handle] = result])
    /\ UNCHANGED runs

(* run when on_run answers RUNNING or PAUSED. *)
runGoesOn(answer) ==
    /\ timer
    /\ status = "RUNNING"
    /\ runs < MaxRuns
    /\ runs' = runs + 1
    /\ status' = answer
    /\ UNCHANGED <<handle, timer, goal, session>>

timer_callback ==
    \/ \E result \in {"SUCCEEDED", "ABORTED"} : runEnds(result)
    \/ \E answer \in {"RUNNING", "PAUSED"} : runGoesOn(answer)

Next ==
    \/ \E g \in Goals : refuseGoal(g) \/ acceptGoal(g) \/ handleCancel(g)
    \/ deactivate
    \/ pause
    \/ resume
    \/ timer_callback

(* The run timer fires as long as it exists and the node spins. *)
Spec == Init /\ [][Next]_vars /\ WF_vars(timer_callback)

-----------------------------------------------------------------------------
(* A goal is executing exactly when it is the one the server holds, with the *)
(* timer that will run it and a session of the derived behavior: no accepted *)
(* goal is left without anybody to end it, through preemption, stop, pause, *)
(* cancel and run in any order.                                             *)
NoOrphanGoal ==
    /\ \A g \in Goals : goal[g] = "EXECUTING" <=> g = handle
    /\ handle # None <=> timer
    /\ handle # None <=> status # "IDLE"
    /\ handle # None <=> session

(* The server implements the lifecycle its README promises.                 *)
Lifecycle == INSTANCE GoalLifecycle WITH current <- handle
ImplementsLifecycle == Lifecycle!GLSpec

(* What the other clients of a behavior can tell of it, its status and whose *)
(* goal it executes, changes as MissionInterpreter takes it to.             *)
record == [status |-> status, goal |-> handle]
ImplementsSession ==
    record = Idle /\ [][record' \in SessionSteps(Goals, record)]_record

(* A result, or a refusal, is the last thing a client learns of its goal. *)
ResultsAreFinal ==
    [][\A g \in Goals : goal[g] \in Results \cup {"REJECTED"} => goal'[g] = goal[g]]_vars

(* A goal oriented behavior that is not paused gives its client a result,    *)
(* whatever goals, stops and cancels arrive meanwhile.                      *)
GoalsEnd ==
    \A g \in Goals : goal[g] = "EXECUTING" ~> goal[g] \in Results \/ status = "PAUSED"
=============================================================================
